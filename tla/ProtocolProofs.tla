--------------------------- MODULE ProtocolProofs ---------------------------
(* Theorems about the protocols whose proofs need no data structure, for   *)
(* every value of their constants.                                         *)
EXTENDS Raft, Rcu, CoroSync, Hedged, TLAPS

\* Leaves are proved by Zenon; the others cite the prover that finds them.
USE ZenonT(30)

-----------------------------------------------------------------------------
(* Raft.                                                                   *)

Ballots == [Nat -> [Node -> Node \cup {Nobody}]]
Voters(g, p, t) == {v \in Node : g[t][v] = p}

\* p's request for v's vote in term t is unread.
Requested(p, v, t) == \E f \in net : f.tag = "RequestVote" /\ f.from = p /\ f.to = v /\ f.term = t

\* v's vote for p in term t, as an answer.
Grant(v, p, t) ==
  [tag |-> "RequestVoteResp", from |-> v, to |-> p, thread |-> "receiver", term |-> t, voteGranted |-> TRUE]

\* The votes a candidate can have counted: not those still on their way.
Counted(g, p) ==
  {v \in Voters(g, p, currentTerm[p]) :
     ~Requested(p, v, currentTerm[p]) /\ Grant(v, p, currentTerm[p]) \notin net}

\* An AppendEntries of p in term t is unread.
Led(p, t) == \E f \in net : f.tag = "AppendEntries" /\ f.from = p /\ f.term = t

FrameOK(f) ==
  /\ f.from \in Node /\ f.to \in Node /\ f.from # f.to /\ f.term \in Nat
  /\ f.tag = "RequestVoteResp" =>
       /\ f.voteGranted \in BOOLEAN
       /\ f.voteGranted => f = Grant(f.from, f.to, f.term)

ClientsOK ==
  /\ DOMAIN client = Command
  /\ \A c \in Command :
       /\ DOMAIN client[c] = {"phase", "node", "index", "todo"}
       /\ client[c].phase = "sending" => client[c].node \in Node /\ client[c].todo \subseteq Peer(client[c].node)

ElectionTypeOK ==
  /\ state \in [Node -> {"FOLLOWER", "CANDIDATE", "LEADER"}]
  /\ currentTerm \in [Node -> Nat]
  /\ votedFor \in [Node -> Node \cup {Nobody}]
  /\ votesGranted \in [Node -> Nat]
  /\ \A f \in net : FrameOK(f)

\* votedFor_ is the vote of the current term, or has been cleared: by a newer
\* term, or in the same one by the leader's AppendEntries to a candidate,
\* which had voted for itself.
VoteKept(g) ==
  \A v \in Node :
    /\ votedFor[v] # Nobody => g[currentTerm[v]][v] = votedFor[v]
    /\ votedFor[v] = Nobody => g[currentTerm[v]][v] \in {v, Nobody}
    /\ state[v] # "FOLLOWER" => votedFor[v] = v
    /\ \A t \in Nat : t > currentTerm[v] => g[t][v] = Nobody

\* A request is sent once and answered once, so no vote is counted twice.
FramesOK(g) ==
  /\ \A f \in net : f.tag = "RequestVote" => f.term <= currentTerm[f.from]
  /\ \A e, f \in net : (e.tag = "RequestVote" /\ f.tag = "RequestVote" /\ e.from = f.from /\ e.to = f.to
                          /\ e.term = f.term) => e = f
  /\ \A v, p \in Node, t \in Nat : Grant(v, p, t) \in net
       => t <= currentTerm[p] /\ g[t][v] = p /\ ~Requested(p, v, t)
  /\ \A f \in net : f.tag = "AppendEntries"
       => f.term <= currentTerm[f.from] /\ (f.term = currentTerm[f.from] => state[f.from] = "LEADER")

\* Whoever acts as leader of a term has a majority of its votes, and no
\* candidate has counted more votes than it has.
VotesOK(g) ==
  /\ \A p \in Node, t \in Nat :
       ((state[p] = "LEADER" /\ currentTerm[p] = t) \/ Led(p, t)) => Majority(Cardinality(Voters(g, p, t)))
  /\ \A p \in Node : state[p] = "CANDIDATE" => votesGranted[p] <= Cardinality(Counted(g, p))

Fits(g) == VoteKept(g) /\ FramesOK(g) /\ VotesOK(g)

\* The inductive invariant.
RaftIInv == ElectionTypeOK /\ ClientsOK /\ \E g \in Ballots : Fits(g)

-----------------------------------------------------------------------------
(* Majorities.                                                             *)

\* What the argument uses of counting nodes (proved at the end, from the
\* nodes being finitely many).
Counting ==
  /\ Cardinality(Node) \in Nat
  /\ \A A \in SUBSET Node : Cardinality(A) \in Nat
  /\ \A A \in SUBSET Node, B \in SUBSET Node : A \subseteq B => Cardinality(A) <= Cardinality(B)
  /\ \A A \in SUBSET Node, B \in SUBSET Node : A \cap B = {} => Cardinality(A) + Cardinality(B) <= Cardinality(Node)
  /\ \A A \in SUBSET Node, v \in Node : v \notin A => Cardinality(A \cup {v}) = Cardinality(A) + 1
  /\ \A v \in Node : Cardinality({v}) = 1

\* A larger set of nodes has no fewer members.
LEMMA NodeSets ==
  ASSUME Counting, NEW A \in SUBSET Node, NEW B \in SUBSET A
  PROVE  Cardinality(A) \in Nat /\ Cardinality(B) \in Nat /\ Cardinality(B) <= Cardinality(A)
BY DEF Counting

\* More than a majority is a majority.
LEMMA MajorityGrows ==
  ASSUME Counting, NEW m \in Nat, NEW n \in Nat, m <= n, Majority(m)
  PROVE  Majority(n)
BY SMTT(30) DEF Counting, Majority

\* Two majorities share a node.
LEMMA MajoritiesMeet ==
  ASSUME Counting, NEW A \in SUBSET Node, NEW B \in SUBSET Node,
         Majority(Cardinality(A)), Majority(Cardinality(B))
  PROVE  A \cap B # {}
<1>1. Cardinality(A) \in Nat /\ Cardinality(B) \in Nat /\ Cardinality(Node) \in Nat BY DEF Counting
<1>2. ~(Cardinality(A) + Cardinality(B) <= Cardinality(Node)) BY SMTT(30), <1>1 DEF Majority
<1> QED BY <1>2 DEF Counting

\* With a fitting g no term has two acting leaders.
LEMMA LeaderUnique ==
  ASSUME Counting, NEW g \in Ballots, VotesOK(g), NEW t \in Nat, NEW p \in Node, NEW q \in Node,
         (state[p] = "LEADER" /\ currentTerm[p] = t) \/ Led(p, t),
         (state[q] = "LEADER" /\ currentTerm[q] = t) \/ Led(q, t)
  PROVE  p = q
<1>1. Majority(Cardinality(Voters(g, p, t))) /\ Majority(Cardinality(Voters(g, q, t))) BY DEF VotesOK
<1>2. Voters(g, p, t) \subseteq Node /\ Voters(g, q, t) \subseteq Node BY DEF Voters
<1>3. Voters(g, p, t) \cap Voters(g, q, t) # {} BY <1>1, <1>2, MajoritiesMeet
<1> QED BY <1>3 DEF Voters

-----------------------------------------------------------------------------
(* Steps that leave g alone.                                               *)

\* A node steps down or stays as it is: into a newer term, or as a candidate
\* within its term.  Frames are read or lost, the new ones acknowledge entries
\* or refuse a vote.
StepDown ==
  /\ state' \in [Node -> {"FOLLOWER", "CANDIDATE", "LEADER"}] /\ currentTerm' \in [Node -> Nat]
  /\ votedFor' \in [Node -> Node \cup {Nobody}] /\ votesGranted' = votesGranted
  /\ \A v \in Node :
       \/ state'[v] = state[v] /\ currentTerm'[v] = currentTerm[v] /\ votedFor'[v] = votedFor[v]
       \/ /\ state'[v] = "FOLLOWER" /\ votedFor'[v] = Nobody
          /\ currentTerm'[v] > currentTerm[v] \/ (currentTerm'[v] = currentTerm[v] /\ state[v] = "CANDIDATE")
  /\ \A f \in net' : \/ f \in net
                     \/ FrameOK(f) /\ f.tag = "AppendEntriesResp"
                     \/ FrameOK(f) /\ f.tag = "RequestVoteResp" /\ f.voteGranted = FALSE

\* Stepping down loses no vote that counts.
LEMMA StepDownPreserves ==
  ASSUME Counting, ElectionTypeOK, NEW g \in Ballots, Fits(g), StepDown
  PROVE  ElectionTypeOK' /\ Fits(g)'
<1> USE DEF StepDown
<1>1. ElectionTypeOK' BY DEF ElectionTypeOK
<1>2. \A v \in Node : currentTerm[v] \in Nat /\ currentTerm'[v] \in Nat /\ currentTerm'[v] >= currentTerm[v]
  BY SMTT(30) DEF ElectionTypeOK
<1>3. VoteKept(g)'
  <2> SUFFICES ASSUME NEW v \in Node
               PROVE  /\ votedFor'[v] # Nobody => g[currentTerm'[v]][v] = votedFor'[v]
                      /\ votedFor'[v] = Nobody => g[currentTerm'[v]][v] \in {v, Nobody}
                      /\ state'[v] # "FOLLOWER" => votedFor'[v] = v
                      /\ \A t \in Nat : t > currentTerm'[v] => g[t][v] = Nobody
    BY DEF VoteKept
  <2>1. VoteKept(g) BY DEF Fits
  <2>2. CASE state'[v] = state[v] /\ currentTerm'[v] = currentTerm[v] /\ votedFor'[v] = votedFor[v]
    BY <2>1, <2>2 DEF VoteKept
  <2>3. CASE currentTerm'[v] > currentTerm[v] /\ state'[v] = "FOLLOWER" /\ votedFor'[v] = Nobody
    BY SMTT(30), <1>2, <2>1, <2>3 DEF VoteKept
  <2>4. CASE state[v] = "CANDIDATE" /\ currentTerm'[v] = currentTerm[v]
             /\ state'[v] = "FOLLOWER" /\ votedFor'[v] = Nobody
    <3>1. g[currentTerm[v]][v] = v
      <4>1. votedFor[v] = v /\ v # Nobody BY <2>1, <2>4, RaftAssumption DEF VoteKept
      <4> QED BY <2>1, <4>1 DEF VoteKept
    <3> QED BY <2>1, <2>4, <3>1 DEF VoteKept
  <2> QED BY <1>2, <2>2, <2>3, <2>4
<1>4. \A v \in Node : state'[v] # "FOLLOWER" => state'[v] = state[v] /\ currentTerm'[v] = currentTerm[v]
  OBVIOUS
<1>5. \A v \in Node : state[v] = "LEADER" /\ currentTerm'[v] = currentTerm[v] => state'[v] = "LEADER"
  BY SMTT(30), <1>2
<1>6. /\ \A q \in Node, v \in Node, t \in Nat : Requested(q, v, t)' => Requested(q, v, t)
      /\ \A q \in Node, v \in Node, t \in Nat : Grant(v, q, t) \in net' => Grant(v, q, t) \in net
      /\ \A q \in Node, t \in Nat : Led(q, t)' => Led(q, t)
      /\ \A f \in net' : f.tag \in {"RequestVote", "AppendEntries"} => f \in net
  BY DEF Requested, Grant, Led
<1>7. FramesOK(g)'
  <2>1. FramesOK(g) BY DEF Fits
  <2>2. \A f \in net : f.from \in Node /\ f.term \in Nat BY DEF ElectionTypeOK, FrameOK
  <2>3. \A f \in net' : f.tag = "RequestVote" => f.term <= currentTerm'[f.from]
    BY SMTT(30), <1>2, <1>6, <2>1, <2>2 DEF FramesOK
  <2>4. \A v, q \in Node, t \in Nat : Grant(v, q, t) \in net'
          => t <= currentTerm'[q] /\ g[t][v] = q /\ ~Requested(q, v, t)'
    BY SMTT(30), <1>2, <1>6, <2>1 DEF FramesOK
  <2>5. \A f \in net' : f.tag = "AppendEntries"
          => f.term <= currentTerm'[f.from] /\ (f.term = currentTerm'[f.from] => state'[f.from] = "LEADER")
    <3> SUFFICES ASSUME NEW f \in net', f.tag = "AppendEntries"
                 PROVE  f.term <= currentTerm'[f.from]
                          /\ (f.term = currentTerm'[f.from] => state'[f.from] = "LEADER")
      OBVIOUS
    <3>1. f \in net BY <1>6
    <3>2. f.term <= currentTerm[f.from] /\ (f.term = currentTerm[f.from] => state[f.from] = "LEADER")
      BY <2>1, <3>1 DEF FramesOK
    <3>3. f.from \in Node /\ f.term \in Nat BY <2>2, <3>1
    <3> QED BY SMTT(30), <1>2, <1>5, <3>2, <3>3
  <2>6. \A e, f \in net' : (e.tag = "RequestVote" /\ f.tag = "RequestVote" /\ e.from = f.from /\ e.to = f.to
                              /\ e.term = f.term) => e = f
    BY SMTT(30), <1>6, <2>1 DEF FramesOK
  <2> QED BY <2>3, <2>4, <2>5, <2>6 DEF FramesOK
<1>8. VotesOK(g)'
  <2>1. VotesOK(g) BY DEF Fits
  <2>2. \A q \in Node, t \in Nat : ((state'[q] = "LEADER" /\ currentTerm'[q] = t) \/ Led(q, t)')
          => Majority(Cardinality(Voters(g, q, t)))
    BY <1>4, <1>6, <2>1 DEF VotesOK
  <2>3. ASSUME NEW q \in Node, state'[q] = "CANDIDATE"
        PROVE  votesGranted'[q] <= Cardinality(Counted(g, q)')
    <3>1. state[q] = "CANDIDATE" /\ currentTerm'[q] = currentTerm[q] /\ currentTerm[q] \in Nat
      BY <1>2, <1>4, <2>3
    <3>2. votesGranted[q] <= Cardinality(Counted(g, q)) BY <2>1, <3>1 DEF VotesOK
    <3>3. Counted(g, q) \subseteq Counted(g, q)' BY <1>6, <3>1 DEF Counted, Voters
    <3>4. Counted(g, q)' \subseteq Node BY DEF Counted, Voters
    <3>5. Cardinality(Counted(g, q)) \in Nat /\ Cardinality(Counted(g, q)') \in Nat
            /\ Cardinality(Counted(g, q)) <= Cardinality(Counted(g, q)')
      BY <3>3, <3>4, NodeSets
    <3>6. votesGranted[q] \in Nat /\ votesGranted'[q] = votesGranted[q] BY DEF ElectionTypeOK
    <3> QED BY SMTT(30), <3>2, <3>5, <3>6
  <2>4. \A q \in Node, t \in Nat : Voters(g, q, t)' = Voters(g, q, t) BY DEF Voters
  <2> QED BY <2>2, <2>3, <2>4 DEF VotesOK, Majority
<1> QED BY <1>1, <1>3, <1>7, <1>8 DEF Fits

\* A leader sends AppendEntries in its term.
SendEntries ==
  /\ UNCHANGED <<state, currentTerm, votedFor, votesGranted>>
  /\ net \subseteq net'
  /\ \A f \in net' : f \in net \/ (/\ FrameOK(f) /\ f.tag = "AppendEntries"
                                  /\ state[f.from] = "LEADER" /\ f.term = currentTerm[f.from])

\* It acts as leader already.
LEMMA SendEntriesPreserves ==
  ASSUME Counting, ElectionTypeOK, NEW g \in Ballots, Fits(g), SendEntries
  PROVE  ElectionTypeOK' /\ Fits(g)'
<1> USE DEF SendEntries
<1>1. ElectionTypeOK' BY DEF ElectionTypeOK
<1>2. VoteKept(g)' BY DEF Fits, VoteKept
<1>3. /\ \A q \in Node, v \in Node, t \in Nat : Requested(q, v, t)' <=> Requested(q, v, t)
      /\ \A q \in Node, v \in Node, t \in Nat : Grant(v, q, t) \in net' <=> Grant(v, q, t) \in net
      /\ \A f \in net' : f.tag = "RequestVote" => f \in net
  BY DEF Requested, Grant
<1>4. \A q \in Node, t \in Nat : Led(q, t)' => Led(q, t) \/ (state[q] = "LEADER" /\ currentTerm[q] = t)
  BY DEF Led
<1>5. FramesOK(g)'
  <2>1. FramesOK(g) BY DEF Fits
  <2>2. \A f \in net' : f.tag = "RequestVote" => f.term <= currentTerm'[f.from] BY <1>3, <2>1 DEF FramesOK
  <2>3. \A e, f \in net' : (e.tag = "RequestVote" /\ f.tag = "RequestVote" /\ e.from = f.from /\ e.to = f.to
                              /\ e.term = f.term) => e = f
    BY <1>3, <2>1 DEF FramesOK
  <2>4. \A v, q \in Node, t \in Nat : Grant(v, q, t) \in net'
          => t <= currentTerm'[q] /\ g[t][v] = q /\ ~Requested(q, v, t)'
    BY SMTT(30), <1>3, <2>1 DEF FramesOK
  <2>5. \A f \in net' : f.tag = "AppendEntries"
          => f.term <= currentTerm'[f.from] /\ (f.term = currentTerm'[f.from] => state'[f.from] = "LEADER")
    <3>1. \A q \in Node : currentTerm[q] <= currentTerm[q] BY SMTT(30) DEF ElectionTypeOK
    <3> QED BY <2>1, <3>1 DEF FramesOK, FrameOK
  <2> QED BY <2>2, <2>3, <2>4, <2>5 DEF FramesOK
<1>6. VotesOK(g)'
  <2>1. VotesOK(g) BY DEF Fits
  <2>2. \A q \in Node, t \in Nat : Voters(g, q, t)' = Voters(g, q, t) BY DEF Voters
  <2>3. \A q \in Node : Counted(g, q)' = Counted(g, q) BY <1>3 DEF Counted, Voters, ElectionTypeOK
  <2> QED BY <1>4, <2>1, <2>2, <2>3 DEF VotesOK, Majority
<1> QED BY <1>1, <1>2, <1>5, <1>6 DEF Fits

-----------------------------------------------------------------------------
(* An election.                                                            *)

\* h is g but for the vote of p in term t, which goes to q.
Recast(h, g, t, p, q) ==
  h[t][p] = q /\ \A u \in Nat, v \in Node : (u # t \/ v # p) => h[u][v] = g[u][v]

\* A vote can be entered into g.
LEMMA BallotCast ==
  ASSUME NEW g \in Ballots, NEW t \in Nat, NEW p \in Node, NEW q \in Node
  PROVE  \E h \in Ballots : Recast(h, g, t, p, q)
<1> DEFINE row == [g[t] EXCEPT ![p] = q]
           h == [g EXCEPT ![t] = row]
<1>1. row \in [Node -> Node \cup {Nobody}] /\ row[p] = q /\ \A v \in Node : v # p => row[v] = g[t][v]
  BY DEF Ballots
<1> HIDE DEF row
<1>2. h \in Ballots /\ h[t] = row /\ \A u \in Nat : u # t => h[u] = g[u] BY <1>1 DEF Ballots
<1> HIDE DEF h
<1> QED BY <1>1, <1>2 DEF Recast

\* becomeCandidate: p votes for itself in a term in which it has not voted.
LEMMA StartElectionPreserves ==
  ASSUME Counting, ElectionTypeOK, NEW g \in Ballots, Fits(g), NEW p \in Node, startElection(p)
  PROVE  ElectionTypeOK' /\ \E h \in Ballots : Fits(h)'
<1>1. /\ state \in [Node -> {"FOLLOWER", "CANDIDATE", "LEADER"}] /\ currentTerm \in [Node -> Nat]
      /\ votedFor \in [Node -> Node \cup {Nobody}] /\ votesGranted \in [Node -> Nat]
      /\ \A f \in net : FrameOK(f)
  BY DEF ElectionTypeOK
<1>2. PICK t \in Nat : t = currentTerm[p] + 1 /\ t > currentTerm[p] BY SMTT(30), <1>1
<1>3. /\ currentTerm' \in [Node -> Nat] /\ currentTerm'[p] = t
      /\ votedFor' \in [Node -> Node \cup {Nobody}] /\ votedFor'[p] = p
      /\ votesGranted' \in [Node -> Nat] /\ votesGranted'[p] = 1
      /\ \A v \in Node : v # p => currentTerm'[v] = currentTerm[v] /\ votedFor'[v] = votedFor[v]
                                 /\ votesGranted'[v] = votesGranted[v]
  BY <1>1, <1>2 DEF startElection
<1>4. /\ state' \in [Node -> {"FOLLOWER", "CANDIDATE", "LEADER"}]
      /\ \A v \in Node : v # p => state'[v] = state[v]
      /\ state'[p] \in {"CANDIDATE", "LEADER"}
      /\ state'[p] = "LEADER" => Peer(p) = {}
  BY <1>1 DEF startElection, becomeLeader
<1>5. /\ net \subseteq net'
      /\ \A f \in net' \ net : \E q \in Peer(p) : f = RequestVoteFrame(p, q, t)
  BY <1>2 DEF startElection, Deliverable
<1>6. \A f \in net' \ net : FrameOK(f) /\ f.tag = "RequestVote" /\ f.from = p /\ f.term = t
  BY SMTT(30), <1>2, <1>5 DEF RequestVoteFrame, FrameOK, Peer
<1>7. ElectionTypeOK' BY <1>1, <1>3, <1>4, <1>6 DEF ElectionTypeOK
<1>8. /\ g[t] \in [Node -> Node \cup {Nobody}] /\ g[t][p] = Nobody
      /\ \A u \in Nat : g[u] \in [Node -> Node \cup {Nobody}]
  BY <1>2 DEF Fits, VoteKept, Ballots
<1>9. PICK h \in Ballots :
        h[t][p] = p /\ \A u \in Nat, v \in Node : (u # t \/ v # p) => h[u][v] = g[u][v]
  <2>1. t \in Nat BY <1>2
  <2>2. PICK h \in Ballots : Recast(h, g, t, p, p) BY <2>1, BallotCast
  <2> QED BY <2>2 DEF Recast
<1>10. p # Nobody BY RaftAssumption
<1>11. VoteKept(h)'
  <2>1. VoteKept(g) BY DEF Fits
  <2> SUFFICES ASSUME NEW v \in Node
               PROVE  /\ votedFor'[v] # Nobody => h[currentTerm'[v]][v] = votedFor'[v]
                      /\ votedFor'[v] = Nobody => h[currentTerm'[v]][v] \in {v, Nobody}
                      /\ state'[v] # "FOLLOWER" => votedFor'[v] = v
                      /\ \A u \in Nat : u > currentTerm'[v] => h[u][v] = Nobody
    BY DEF VoteKept
  <2>2. CASE v = p
    <3>1. \A u \in Nat : u > t => u > currentTerm[p] /\ u # t BY SMTT(30), <1>1, <1>2
    <3> QED BY SMTT(30), <1>3, <1>9, <1>10, <2>1, <2>2, <3>1 DEF VoteKept
  <2>3. CASE v # p
    <3>1. /\ currentTerm[v] \in Nat /\ currentTerm'[v] = currentTerm[v]
          /\ votedFor'[v] = votedFor[v] /\ state'[v] = state[v]
      BY <1>1, <1>3, <1>4, <2>3
    <3>2. \A u \in Nat : h[u][v] = g[u][v] BY <1>9, <2>3
    <3> QED BY <2>1, <3>1, <3>2 DEF VoteKept
  <2> QED BY <2>2, <2>3
<1>12. /\ \A v \in Node, q \in Node, u \in Nat : Grant(v, q, u) \in net' => Grant(v, q, u) \in net
       /\ \A f \in net' : f.tag = "AppendEntries" => f \in net
       /\ \A q \in Node, u \in Nat : Led(q, u)' => Led(q, u)
       /\ \A v \in Node, q \in Node, u \in Nat : Requested(q, v, u)' => Requested(q, v, u) \/ (q = p /\ u = t /\ v # p)
  <2>1. \A v \in Node, q \in Node, u \in Nat : Grant(v, q, u).tag = "RequestVoteResp" BY DEF Grant
  <2>2. \A f \in net' \ net : f.to # p BY SMTT(30), <1>5 DEF RequestVoteFrame, Peer
  <2> QED BY <1>6, <2>1, <2>2 DEF Requested, Led
<1>13. FramesOK(h)'
  <2>1. FramesOK(g) BY DEF Fits
  <2>2. \A v \in Node : currentTerm[v] \in Nat /\ currentTerm'[v] \in Nat /\ currentTerm'[v] >= currentTerm[v]
    BY SMTT(30), <1>1, <1>2, <1>3
  <2>3. \A f \in net : f.from \in Node /\ f.term \in Nat BY <1>1 DEF FrameOK
  <2>4. \A f \in net' : f.tag = "RequestVote" => f.term <= currentTerm'[f.from]
    <3>1. \A f \in net : f.tag = "RequestVote" => f.term <= currentTerm'[f.from]
      BY SMTT(30), <2>1, <2>2, <2>3 DEF FramesOK
    <3>2. \A f \in net' \ net : f.term <= currentTerm'[f.from] BY SMTT(30), <1>2, <1>3, <1>6
    <3> QED BY <3>1, <3>2
  <2>5. ASSUME NEW e \in net', NEW f \in net', e.tag = "RequestVote", f.tag = "RequestVote",
               e.from = f.from, e.to = f.to, e.term = f.term
        PROVE  e = f
    <3>1. \A d \in net : d.tag = "RequestVote" /\ d.from = p => d.term # t
      BY SMTT(30), <1>1, <1>2, <2>1, <2>3 DEF FramesOK
    <3>2. CASE e \in net /\ f \in net BY <2>1, <2>5, <3>2 DEF FramesOK
    <3>3. CASE e \notin net /\ f \notin net
      BY SMTT(30), <1>5, <2>5, <3>3 DEF RequestVoteFrame
    <3> QED BY <1>6, <2>5, <3>1, <3>2, <3>3
  <2>6. ASSUME NEW v \in Node, NEW q \in Node, NEW u \in Nat, Grant(v, q, u) \in net'
        PROVE  u <= currentTerm'[q] /\ h[u][v] = q /\ ~Requested(q, v, u)'
    <3>1. u <= currentTerm[q] /\ g[u][v] = q /\ ~Requested(q, v, u) BY <1>12, <2>1, <2>6 DEF FramesOK
    <3>2. ~(q = p /\ u = t) BY SMTT(30), <1>2, <2>2, <3>1
    <3>3. ~(u = t /\ v = p) BY <1>8, <3>1, RaftAssumption
    <3>4. u <= currentTerm'[q] BY SMTT(30), <2>2, <3>1
    <3>5. h[u][v] = q BY <1>9, <3>1, <3>3
    <3>6. ~Requested(q, v, u)' BY <1>12, <3>1, <3>2
    <3> QED BY <3>4, <3>5, <3>6
  <2>7. ASSUME NEW f \in net', f.tag = "AppendEntries"
        PROVE  f.term <= currentTerm'[f.from] /\ (f.term = currentTerm'[f.from] => state'[f.from] = "LEADER")
    <3>1. f \in net BY <1>12, <2>7
    <3>2. f.term <= currentTerm[f.from] /\ (f.term = currentTerm[f.from] => state[f.from] = "LEADER")
      BY <2>1, <2>7, <3>1 DEF FramesOK
    <3> QED BY SMTT(30), <1>2, <1>3, <1>4, <2>2, <2>3, <3>1, <3>2
  <2> QED BY <2>4, <2>5, <2>6, <2>7 DEF FramesOK
<1>14. VotesOK(h)'
  <2>1. VotesOK(g) /\ FramesOK(g) BY DEF Fits
  <2>2. ASSUME NEW q \in Node, NEW u \in Nat, (state'[q] = "LEADER" /\ currentTerm'[q] = u) \/ Led(q, u)'
        PROVE  Majority(Cardinality(Voters(h, q, u)))
    <3>1. CASE q = p /\ u = t
      <4>1. ~Led(p, t)
        BY SMTT(30), <1>1, <1>2, <2>1 DEF Led, FramesOK, FrameOK
      <4>2. Node = {p} BY <1>4, <1>12, <2>2, <3>1, <4>1 DEF Peer
      <4>3. Voters(h, q, u) = {p} BY <1>9, <3>1, <4>2 DEF Voters
      <4>4. Cardinality({p}) = 1 BY DEF Counting
      <4>5. Cardinality(Node) = 1 /\ Cardinality(Voters(h, q, u)) = 1 BY <4>2, <4>3, <4>4
      <4> QED BY SMTT(30), <4>5 DEF Majority
    <3>2. CASE ~(q = p /\ u = t)
      <4>1. (state[q] = "LEADER" /\ currentTerm[q] = u) \/ Led(q, u) BY <1>3, <1>4, <1>12, <2>2, <3>2
      <4>2. Voters(h, q, u) = Voters(g, q, u)
        <5>1. \A v \in Node : h[u][v] = q <=> g[u][v] = q BY <1>8, <1>9, <3>2, RaftAssumption
        <5> QED BY <5>1 DEF Voters
      <4> QED BY <2>1, <4>1, <4>2 DEF VotesOK
    <3> QED BY <3>1, <3>2
  <2>3. ASSUME NEW q \in Node, state'[q] = "CANDIDATE"
        PROVE  votesGranted'[q] <= Cardinality(Counted(h, q)')
    <3>1. Counted(h, q)' \subseteq Node BY DEF Counted, Voters
    <3>2. CASE q = p
      <4>1. Grant(p, p, t) \notin net'
        <5>1. Grant(p, p, t).from = p /\ Grant(p, p, t).to = p BY DEF Grant
        <5> QED BY <1>7, <5>1 DEF ElectionTypeOK, FrameOK
      <4>2. ~Requested(p, p, t)'
        BY <1>7 DEF Requested, ElectionTypeOK, FrameOK
      <4>3. p \in Counted(h, p)' BY <1>3, <1>9, <4>1, <4>2 DEF Counted, Voters
      <4>4. Cardinality({p}) = 1 BY DEF Counting
      <4>5. Cardinality({p}) <= Cardinality(Counted(h, p)') BY <3>1, <3>2, <4>3, NodeSets
      <4> QED BY <1>3, <3>2, <4>4, <4>5
    <3>3. CASE q # p
      <4>1. state[q] = "CANDIDATE" /\ currentTerm'[q] = currentTerm[q] /\ currentTerm[q] \in Nat
        BY <1>1, <1>3, <1>4, <2>3, <3>3
      <4>2. \A v \in Node : g[currentTerm[q]][v] = q => h[currentTerm[q]][v] = q
        BY SMTT(30), <1>8, <1>9, <4>1, RaftAssumption
      <4>3. Counted(g, q) \subseteq Counted(h, q)' BY <1>12, <3>3, <4>1, <4>2 DEF Counted, Voters
      <4>4. votesGranted[q] <= Cardinality(Counted(g, q)) BY <2>1, <4>1 DEF VotesOK
      <4>5. /\ Cardinality(Counted(g, q)) \in Nat /\ Cardinality(Counted(h, q)') \in Nat
            /\ Cardinality(Counted(g, q)) <= Cardinality(Counted(h, q)')
        BY <3>1, <4>3, NodeSets
      <4>6. votesGranted[q] \in Nat /\ votesGranted'[q] = votesGranted[q] BY <1>1, <1>3, <3>3
      <4> QED BY SMTT(30), <4>4, <4>5, <4>6
    <3> QED BY <3>2, <3>3
  <2> QED BY <2>2, <2>3 DEF VotesOK, Majority, Voters
<1> QED BY <1>7, <1>9, <1>11, <1>13, <1>14 DEF Fits

\* p reads c's request m of term t and grants it.
GrantVote(m, p, c, t) ==
  /\ m.tag = "RequestVote" /\ p = m.to /\ c = m.from /\ t = m.term /\ p # c
  /\ t > currentTerm[p] \/ (t = currentTerm[p] /\ votedFor[p] \in {Nobody, c})
  /\ state' = [state EXCEPT ![p] = IF t > currentTerm[p] THEN "FOLLOWER" ELSE @]
  /\ currentTerm' = [currentTerm EXCEPT ![p] = t]
  /\ votedFor' = [votedFor EXCEPT ![p] = c]
  /\ votesGranted' = votesGranted
  /\ \A f \in net' : f \in net \ {m} \/ f = Grant(p, c, t)

\* A vote: at most one node per term, unless the voter was a candidate whose
\* votedFor_ the leader has cleared; its own vote for itself is of no use then.
LEMMA VotePreserves ==
  ASSUME Counting, ElectionTypeOK, NEW g \in Ballots, Fits(g), NEW m \in net,
         NEW p \in Node, NEW c \in Node, NEW t \in Nat, GrantVote(m, p, c, t)
  PROVE  ElectionTypeOK' /\ \E h \in Ballots : Fits(h)'
<1>1. /\ state \in [Node -> {"FOLLOWER", "CANDIDATE", "LEADER"}] /\ currentTerm \in [Node -> Nat]
      /\ votedFor \in [Node -> Node \cup {Nobody}] /\ votesGranted \in [Node -> Nat]
      /\ \A f \in net : FrameOK(f)
  BY DEF ElectionTypeOK
<1>2. /\ state' \in [Node -> {"FOLLOWER", "CANDIDATE", "LEADER"}]
      /\ currentTerm' \in [Node -> Nat] /\ currentTerm'[p] = t
      /\ votedFor' \in [Node -> Node \cup {Nobody}] /\ votedFor'[p] = c
      /\ \A v \in Node : v # p => state'[v] = state[v] /\ currentTerm'[v] = currentTerm[v] /\ votedFor'[v] = votedFor[v]
      /\ IF t > currentTerm[p] THEN state'[p] = "FOLLOWER" ELSE state'[p] = state[p]
      /\ votesGranted' = votesGranted
  BY <1>1 DEF GrantVote
<1>3. ElectionTypeOK'
  <2>1. FrameOK(Grant(p, c, t)) BY DEF FrameOK, Grant, GrantVote
  <2>2. \A f \in net' : f \in net \/ f = Grant(p, c, t) BY DEF GrantVote
  <2> QED BY <1>1, <1>2, <2>1, <2>2 DEF ElectionTypeOK
<1>4. VoteKept(g) /\ FramesOK(g) /\ VotesOK(g) BY DEF Fits
<1>5. p # Nobody /\ c # Nobody /\ p # c BY RaftAssumption DEF GrantVote
<1>6. \A v \in Node : currentTerm[v] \in Nat /\ currentTerm'[v] \in Nat /\ currentTerm'[v] >= currentTerm[v]
  BY SMTT(30), <1>1, <1>2 DEF GrantVote
\* Whom p voted for before.
<1>7. \/ g[t][p] \in {Nobody, c}
      \/ g[t][p] = p /\ t = currentTerm[p] /\ state[p] = "FOLLOWER"
  <2>1. CASE t > currentTerm[p] BY <1>4, <2>1 DEF VoteKept
  <2>2. CASE t = currentTerm[p] /\ votedFor[p] = c BY <1>4, <1>5, <2>2 DEF VoteKept
  <2>3. CASE t = currentTerm[p] /\ votedFor[p] = Nobody BY <1>1, <1>4, <1>5, <2>3 DEF VoteKept
  <2> QED BY <2>1, <2>2, <2>3 DEF GrantVote
<1>8. PICK h \in Ballots :
        h[t][p] = c /\ \A u \in Nat, v \in Node : (u # t \/ v # p) => h[u][v] = g[u][v]
  <2>1. PICK h \in Ballots : Recast(h, g, t, p, c) BY BallotCast
  <2> QED BY <2>1 DEF Recast
\* Nobody but p itself loses p's vote.
<1>9. \A u \in Nat, v \in Node, q \in Node : g[u][v] = q => h[u][v] = q \/ (u = t /\ v = p /\ q = p)
  BY SMTT(30), <1>5, <1>7, <1>8, RaftAssumption
<1>10. VoteKept(h)'
  <2> SUFFICES ASSUME NEW v \in Node
               PROVE  /\ votedFor'[v] # Nobody => h[currentTerm'[v]][v] = votedFor'[v]
                      /\ votedFor'[v] = Nobody => h[currentTerm'[v]][v] \in {v, Nobody}
                      /\ state'[v] # "FOLLOWER" => votedFor'[v] = v
                      /\ \A u \in Nat : u > currentTerm'[v] => h[u][v] = Nobody
    BY DEF VoteKept
  <2>1. CASE v # p BY SMTT(30), <1>2, <1>4, <1>6, <1>8, <2>1 DEF VoteKept
  <2>2. CASE v = p
    <3>1. h[currentTerm'[v]][v] = votedFor'[v] /\ votedFor'[v] # Nobody BY <1>2, <1>5, <1>8, <2>2
    <3>2. state'[v] = "FOLLOWER"
      <4>1. CASE t > currentTerm[p] BY <1>2, <2>2, <4>1
      <4>2. CASE t = currentTerm[p]
        <5>1. votedFor[p] # p BY SMTT(30), <1>5, <4>2, <1>6 DEF GrantVote
        <5>2. state[p] = "FOLLOWER" BY <1>4, <5>1 DEF VoteKept
        <5> QED BY <1>2, <1>6, <2>2, <4>2, <5>2
      <4> QED BY <4>1, <4>2 DEF GrantVote
    <3>3. \A u \in Nat : u > t => u # t /\ u > currentTerm[p] BY SMTT(30), <1>2, <1>6
    <3>4. \A u \in Nat : u > currentTerm'[v] => h[u][v] = Nobody
      BY SMTT(30), <1>2, <1>4, <1>8, <2>2, <3>3 DEF VoteKept
    <3> QED BY <3>1, <3>2, <3>4
  <2> QED BY <2>1, <2>2
<1>11. /\ \A f \in net' : f.tag \in {"RequestVote", "AppendEntries"} => f \in net /\ f # m
       /\ \A q \in Node, u \in Nat : Led(q, u)' => Led(q, u)
       /\ \A q, v \in Node, u \in Nat : Requested(q, v, u)' => Requested(q, v, u)
       /\ \A q, v \in Node, u \in Nat : Grant(v, q, u) \in net' => Grant(v, q, u) \in net \/ (v = p /\ q = c /\ u = t)
  <2>1. Grant(p, c, t).tag = "RequestVoteResp" BY DEF Grant
  <2>2. \A q, v \in Node, u \in Nat : Grant(v, q, u) = Grant(p, c, t) => v = p /\ q = c /\ u = t BY DEF Grant
  <2>3. \A f \in net' : (f \in net /\ f # m) \/ f = Grant(p, c, t) BY DEF GrantVote
  <2> QED BY <2>1, <2>2, <2>3 DEF Led, Requested
<1>12. /\ m.tag = "RequestVote" /\ m.to = p /\ m.from = c /\ m.term = t
       /\ Requested(c, p, t) /\ ~Requested(c, p, t)'
  <2>1. m.tag = "RequestVote" /\ m.to = p /\ m.from = c /\ m.term = t BY DEF GrantVote
  <2>2. \A f \in net : f.tag = "RequestVote" /\ f.to = p /\ f.from = c /\ f.term = t => f = m
    BY SMTT(30), <1>4, <2>1 DEF FramesOK
  <2> QED BY <1>11, <2>1, <2>2 DEF Requested
<1>13. FramesOK(h)'
  <2>1. \A f \in net : f.from \in Node /\ f.term \in Nat BY <1>1 DEF FrameOK
  <2>2. ASSUME NEW f \in net', f.tag = "RequestVote" PROVE f.term <= currentTerm'[f.from]
    BY SMTT(30), <1>4, <1>6, <1>11, <2>1, <2>2 DEF FramesOK
  <2>3. ASSUME NEW e \in net', NEW f \in net', e.tag = "RequestVote", f.tag = "RequestVote",
               e.from = f.from, e.to = f.to, e.term = f.term
        PROVE  e = f
    BY <1>4, <1>11, <2>3 DEF FramesOK
  <2>4. ASSUME NEW v \in Node, NEW q \in Node, NEW u \in Nat, Grant(v, q, u) \in net'
        PROVE  u <= currentTerm'[q] /\ h[u][v] = q /\ ~Requested(q, v, u)'
    <3>1. CASE v = p /\ q = c /\ u = t
      <4>1. t <= currentTerm[c] BY <1>4, <1>12 DEF FramesOK
      <4> QED BY SMTT(30), <1>6, <1>8, <1>12, <3>1, <4>1
    <3>2. CASE Grant(v, q, u) \in net
      <4>1. u <= currentTerm[q] /\ g[u][v] = q /\ ~Requested(q, v, u) BY <1>4, <3>2 DEF FramesOK
      <4>2. v # q
        <5>1. Grant(v, q, u).from = v /\ Grant(v, q, u).to = q BY DEF Grant
        <5> QED BY <1>1, <3>2, <5>1 DEF FrameOK
      <4>3. h[u][v] = q BY SMTT(30), <1>9, <4>1, <4>2
      <4>4. u <= currentTerm'[q] BY SMTT(30), <1>6, <4>1
      <4> QED BY <1>11, <4>1, <4>3, <4>4
    <3> QED BY <1>11, <2>4, <3>1, <3>2
  <2>5. ASSUME NEW f \in net', f.tag = "AppendEntries"
        PROVE  f.term <= currentTerm'[f.from] /\ (f.term = currentTerm'[f.from] => state'[f.from] = "LEADER")
    <3>1. f \in net BY <1>11, <2>5
    <3>2. f.term <= currentTerm[f.from] /\ (f.term = currentTerm[f.from] => state[f.from] = "LEADER")
      BY <1>4, <2>5, <3>1 DEF FramesOK
    <3>3. f.from \in Node /\ f.term \in Nat BY <2>1, <3>1
    <3>4. CASE f.from # p BY <1>2, <3>2, <3>3, <3>4
    <3>5. CASE f.from = p BY SMTT(30), <1>2, <1>6, <3>2, <3>3, <3>5
    <3> QED BY <3>4, <3>5
  <2> QED BY <2>2, <2>3, <2>4, <2>5 DEF FramesOK
<1>14. VotesOK(h)'
  <2>1. ASSUME NEW q \in Node, NEW u \in Nat, (state'[q] = "LEADER" /\ currentTerm'[q] = u) \/ Led(q, u)'
        PROVE  Majority(Cardinality(Voters(h, q, u)))
    <3>1. (state[q] = "LEADER" /\ currentTerm[q] = u) \/ Led(q, u) BY SMTT(30), <1>2, <1>6, <1>11, <2>1
    <3>2. Majority(Cardinality(Voters(g, q, u))) BY <1>4, <3>1 DEF VotesOK
    <3>3. ~(u = t /\ q = p /\ g[t][p] = p)
      <4> SUFFICES ASSUME u = t, q = p, g[t][p] = p PROVE FALSE OBVIOUS
      <4>1. t = currentTerm[p] /\ state[p] = "FOLLOWER" BY <1>5, <1>7
      <4>2. Led(p, t) BY <3>1, <4>1
      <4> QED BY SMTT(30), <1>4, <4>1, <4>2 DEF Led, FramesOK
    <3>4. Voters(g, q, u) \subseteq Voters(h, q, u) BY SMTT(30), <1>9, <3>3 DEF Voters
    <3>5. Voters(h, q, u) \subseteq Node BY DEF Voters
    <3>6. /\ Cardinality(Voters(g, q, u)) \in Nat /\ Cardinality(Voters(h, q, u)) \in Nat
          /\ Cardinality(Voters(g, q, u)) <= Cardinality(Voters(h, q, u))
      BY <3>4, <3>5, NodeSets
    <3> QED BY <3>2, <3>6, MajorityGrows
  <2>2. ASSUME NEW q \in Node, state'[q] = "CANDIDATE"
        PROVE  votesGranted'[q] <= Cardinality(Counted(h, q)')
    <3>1. Counted(h, q)' \subseteq Node BY DEF Counted, Voters
    <3>2. state[q] = "CANDIDATE" /\ currentTerm'[q] = currentTerm[q] /\ currentTerm[q] \in Nat
      BY SMTT(30), <1>2, <1>6, <2>2
    <3>3. ~(currentTerm[q] = t /\ q = p /\ g[t][p] = p) BY <1>5, <1>7, <3>2
    <3>4. ASSUME NEW v \in Counted(g, q) PROVE v \in Counted(h, q)'
      <4>1. /\ v \in Node /\ g[currentTerm[q]][v] = q
            /\ ~Requested(q, v, currentTerm[q]) /\ Grant(v, q, currentTerm[q]) \notin net
        BY DEF Counted, Voters
      <4>2. h[currentTerm[q]][v] = q BY SMTT(30), <1>9, <3>2, <3>3, <4>1
      <4>3. Grant(v, q, currentTerm[q]) \notin net' BY SMTT(30), <1>11, <1>12, <3>2, <4>1
      <4>4. ~Requested(q, v, currentTerm[q])' 
        <5>1. PICK u \in Nat : u = currentTerm[q] BY <3>2
        <5>2. ~Requested(q, v, u)' BY <1>11, <4>1, <5>1
        <5> QED BY <3>2, <5>1, <5>2 DEF Requested
      <4> QED BY <3>2, <4>1, <4>2, <4>3, <4>4 DEF Counted, Voters, Requested
    <3>5. votesGranted[q] <= Cardinality(Counted(g, q)) BY <1>4, <3>2 DEF VotesOK
    <3>6. /\ Cardinality(Counted(g, q)) \in Nat /\ Cardinality(Counted(h, q)') \in Nat
          /\ Cardinality(Counted(g, q)) <= Cardinality(Counted(h, q)')
      BY <3>1, <3>4, NodeSets
    <3>7. votesGranted[q] \in Nat /\ votesGranted'[q] = votesGranted[q] BY <1>1, <1>2
    <3> QED BY SMTT(30), <3>5, <3>6, <3>7
  <2> QED BY <2>1, <2>2 DEF VotesOK, Majority, Voters
<1> QED BY <1>3, <1>8, <1>10, <1>13, <1>14 DEF Fits

\* p reads w's vote m and counts it.
CountVote(m, p, w, t) ==
  /\ m.tag = "RequestVoteResp" /\ m.voteGranted /\ p = m.to /\ w = m.from /\ t = m.term
  /\ state[p] = "CANDIDATE" /\ t = currentTerm[p]
  /\ votesGranted' = [votesGranted EXCEPT ![p] = @ + 1]
  /\ state' = IF Majority(votesGranted[p] + 1) THEN [state EXCEPT ![p] = "LEADER"] ELSE state
  /\ UNCHANGED <<currentTerm, votedFor>> /\ net' = net \ {m}

\* votesGranted_ += 1 for a vote that was not counted before; with a majority
\* the candidate is leader.
LEMMA CountPreserves ==
  ASSUME Counting, ElectionTypeOK, NEW g \in Ballots, Fits(g), NEW m \in net,
         NEW p \in Node, NEW w \in Node, NEW t \in Nat, CountVote(m, p, w, t)
  PROVE  ElectionTypeOK' /\ Fits(g)'
<1>1. /\ state \in [Node -> {"FOLLOWER", "CANDIDATE", "LEADER"}] /\ currentTerm \in [Node -> Nat]
      /\ votedFor \in [Node -> Node \cup {Nobody}] /\ votesGranted \in [Node -> Nat]
      /\ \A f \in net : FrameOK(f)
  BY DEF ElectionTypeOK
<1>2. /\ state' \in [Node -> {"FOLLOWER", "CANDIDATE", "LEADER"}]
      /\ \A v \in Node : v # p => state'[v] = state[v]
      /\ state'[p] \in {"CANDIDATE", "LEADER"}
      /\ state'[p] = "LEADER" => Majority(votesGranted[p] + 1)
      /\ state[p] = "CANDIDATE" /\ currentTerm[p] = t /\ currentTerm' = currentTerm /\ votedFor' = votedFor
  BY <1>1 DEF CountVote
<1>3. /\ votesGranted' \in [Node -> Nat] /\ votesGranted[p] \in Nat /\ votesGranted'[p] = votesGranted[p] + 1
      /\ \A v \in Node : v # p => votesGranted'[v] = votesGranted[v]
  BY SMTT(30), <1>1 DEF CountVote
<1>4. net' = net \ {m} /\ ElectionTypeOK' BY <1>1, <1>2, <1>3 DEF ElectionTypeOK, CountVote
<1>5. VoteKept(g) /\ FramesOK(g) /\ VotesOK(g) BY DEF Fits
<1>6. VoteKept(g)' BY <1>2, <1>5 DEF VoteKept
<1>7. /\ \A q \in Node, u \in Nat : Led(q, u)' => Led(q, u)
      /\ \A q, v \in Node, u \in Nat : Requested(q, v, u)' => Requested(q, v, u)
  BY <1>4 DEF Led, Requested
<1>8. FramesOK(g)'
  <2>1. \A f \in net' : f \in net /\ f.from \in Node BY <1>1, <1>4 DEF FrameOK
  <2>2. ASSUME NEW v \in Node, NEW q \in Node, NEW u \in Nat, Grant(v, q, u) \in net'
        PROVE  u <= currentTerm'[q] /\ g[u][v] = q /\ ~Requested(q, v, u)'
    <3>1. Grant(v, q, u) \in net BY <2>1, <2>2
    <3>2. u <= currentTerm[q] /\ g[u][v] = q /\ ~Requested(q, v, u) BY <1>5, <3>1 DEF FramesOK
    <3>3. ~Requested(q, v, u)' BY <1>7, <3>2
    <3> QED BY <1>2, <3>2, <3>3
  <2>3. \A v \in Node : state[v] = "LEADER" => state'[v] = "LEADER" BY <1>2
  <2>4. \A f \in net' : f.tag = "RequestVote" => f.term <= currentTerm'[f.from]
    BY <1>2, <1>5, <2>1 DEF FramesOK
  <2>5. \A e, f \in net' : (e.tag = "RequestVote" /\ f.tag = "RequestVote" /\ e.from = f.from /\ e.to = f.to
                              /\ e.term = f.term) => e = f
    BY <1>5, <2>1 DEF FramesOK
  <2>6. \A f \in net' : f.tag = "AppendEntries"
          => f.term <= currentTerm'[f.from] /\ (f.term = currentTerm'[f.from] => state'[f.from] = "LEADER")
    BY <1>2, <1>5, <2>1, <2>3 DEF FramesOK
  <2> QED BY <2>2, <2>4, <2>5, <2>6 DEF FramesOK
<1>9. m = Grant(w, p, t) BY <1>1 DEF FrameOK, CountVote
<1>10. g[t][w] = p /\ ~Requested(p, w, t)
  <2>1. Grant(w, p, t) \in net BY <1>9
  <2> QED BY <1>5, <2>1 DEF FramesOK
\* The candidate's count stays below its votes.
<1>11. /\ Cardinality(Counted(g, p)') \in Nat /\ votesGranted'[p] <= Cardinality(Counted(g, p)')
       /\ Counted(g, p)' \subseteq Voters(g, p, t)
  <2>1. w \notin Counted(g, p) BY <1>2, <1>9 DEF Counted
  <2>2. Counted(g, p) \cup {w} \subseteq Counted(g, p)'
    <3>1. \A v \in Counted(g, p) : v \in Counted(g, p)' BY <1>2, <1>4, <1>7 DEF Counted, Voters
    <3>2. w \in Counted(g, p)' BY <1>2, <1>4, <1>7, <1>9, <1>10 DEF Counted, Voters
    <3> QED BY <3>1, <3>2
  <2>3. Counted(g, p)' \subseteq Node /\ Counted(g, p) \subseteq Node /\ Counted(g, p)' \subseteq Voters(g, p, t)
    BY <1>2 DEF Counted, Voters
  <2>4. Cardinality(Counted(g, p)) \in Nat BY <2>3 DEF Counting
  <2>5. Cardinality(Counted(g, p) \cup {w}) = Cardinality(Counted(g, p)) + 1 BY <2>1, <2>3 DEF Counting
  <2>6. /\ Cardinality(Counted(g, p)') \in Nat
        /\ Cardinality(Counted(g, p) \cup {w}) <= Cardinality(Counted(g, p)')
    BY <2>2, <2>3, NodeSets
  <2>7. votesGranted[p] <= Cardinality(Counted(g, p)) BY <1>2, <1>5 DEF VotesOK
  <2> QED BY SMTT(30), <1>3, <2>3, <2>4, <2>5, <2>6, <2>7
<1>12. VotesOK(g)'
  <2>1. ASSUME NEW q \in Node, NEW u \in Nat, (state'[q] = "LEADER" /\ currentTerm'[q] = u) \/ Led(q, u)'
        PROVE  Majority(Cardinality(Voters(g, q, u)))
    <3>1. CASE (state[q] = "LEADER" /\ currentTerm[q] = u) \/ Led(q, u) BY <1>5, <3>1 DEF VotesOK
    <3>2. CASE q = p /\ u = t /\ Majority(votesGranted[p] + 1)
      <4>1. Voters(g, p, t) \subseteq Node BY DEF Voters
      <4>2. /\ Cardinality(Voters(g, p, t)) \in Nat
            /\ Cardinality(Counted(g, p)') <= Cardinality(Voters(g, p, t))
        BY <1>11, <4>1, NodeSets
      <4>3. votesGranted[p] + 1 \in Nat /\ votesGranted[p] + 1 <= Cardinality(Voters(g, p, t))
        BY SMTT(30), <1>3, <1>11, <4>2
      <4>4. Majority(Cardinality(Voters(g, p, t))) BY <3>2, <4>2, <4>3, MajorityGrows
      <4> QED BY <3>2, <4>4
    <3> QED BY <1>2, <1>7, <2>1, <3>1, <3>2
  <2>2. ASSUME NEW q \in Node, state'[q] = "CANDIDATE", q # p
        PROVE  votesGranted'[q] <= Cardinality(Counted(g, q)')
    <3>1. state[q] = "CANDIDATE" /\ currentTerm[q] \in Nat BY <1>1, <1>2, <2>2
    <3>2. Counted(g, q) \subseteq Counted(g, q)' BY <1>2, <1>4, <1>7, <3>1 DEF Counted, Voters
    <3>3. Counted(g, q)' \subseteq Node BY DEF Counted, Voters
    <3>4. /\ Cardinality(Counted(g, q)) \in Nat /\ Cardinality(Counted(g, q)') \in Nat
          /\ Cardinality(Counted(g, q)) <= Cardinality(Counted(g, q)')
      BY <3>2, <3>3, NodeSets
    <3>5. votesGranted[q] <= Cardinality(Counted(g, q)) BY <1>5, <3>1 DEF VotesOK
    <3>6. votesGranted[q] \in Nat /\ votesGranted'[q] = votesGranted[q] BY <1>1, <1>3, <2>2
    <3> QED BY SMTT(30), <3>4, <3>5, <3>6
  <2> QED BY <1>2, <1>11, <2>1, <2>2 DEF VotesOK, Majority, Voters
<1> QED BY <1>4, <1>6, <1>8, <1>12 DEF Fits

-----------------------------------------------------------------------------
(* The handlers.                                                           *)

\* A step that leaves role, term and votes alone and sends nothing.
LEMMA QuietStep ==
  ASSUME ElectionTypeOK, UNCHANGED <<state, currentTerm, votedFor, votesGranted>>, net' \subseteq net
  PROVE  StepDown
BY DEF ElectionTypeOK, StepDown

\* becomeFollower in a newer term is a step down.
LEMMA NewerTermStep ==
  ASSUME ElectionTypeOK, NEW p \in Node, NEW t \in Nat, t > currentTerm[p], becomeFollower(p, t),
         votesGranted' = votesGranted, net' \subseteq net
  PROVE  StepDown
BY RaftAssumption DEF ElectionTypeOK, StepDown, becomeFollower

\* The voter: a refusal is a step down or nothing.
LEMMA HandleRequestVotePreserves ==
  ASSUME Counting, ElectionTypeOK, NEW g \in Ballots, Fits(g), NEW m \in net, handleRequestVote(m)
  PROVE  ElectionTypeOK' /\ \E h \in Ballots : Fits(h)'
<1>1. /\ state \in [Node -> {"FOLLOWER", "CANDIDATE", "LEADER"}] /\ currentTerm \in [Node -> Nat]
      /\ votedFor \in [Node -> Node \cup {Nobody}] /\ votesGranted \in [Node -> Nat] /\ FrameOK(m)
  BY DEF ElectionTypeOK
<1>2. PICK p \in Node, c \in Node, t \in Nat : p = m.to /\ c = m.from /\ t = m.term /\ p # c
  BY <1>1 DEF FrameOK
<1> DEFINE newer == t > currentTerm[p]
           term == IF newer THEN t ELSE currentTerm[p]
           voted == IF newer THEN Nobody ELSE votedFor[p]
           granted == t = term /\ MayVoteFor(voted, c) /\ LogOk(log[p], m)
<1>3. /\ state' = [state EXCEPT ![p] = IF newer THEN "FOLLOWER" ELSE @]
      /\ currentTerm' = [currentTerm EXCEPT ![p] = term]
      /\ votedFor' = [votedFor EXCEPT ![p] = IF granted THEN c ELSE voted]
      /\ net' = (net \ {m}) \cup Deliverable({RequestVoteRespFrame(m, term, granted)})
      /\ votesGranted' = votesGranted /\ m.tag = "RequestVote"
  BY <1>2 DEF handleRequestVote, Answer, Readable
<1>4. \A f \in net' : f \in net \ {m} \/ f = RequestVoteRespFrame(m, term, granted)
  BY <1>3 DEF Deliverable
<1>5. term \in Nat /\ term >= currentTerm[p] BY SMTT(30), <1>1
<1>6. CASE granted
  <2>1. term = t /\ (newer \/ (t = currentTerm[p] /\ votedFor[p] \in {Nobody, c}))
    BY <1>6 DEF MayVoteFor
  <2>2. RequestVoteRespFrame(m, term, granted) = Grant(p, c, t)
    <3>1. granted = TRUE BY <1>6
    <3> QED BY <1>2, <2>1, <3>1 DEF RequestVoteRespFrame, Grant
  <2>3. votedFor' = [votedFor EXCEPT ![p] = c] /\ currentTerm' = [currentTerm EXCEPT ![p] = t]
    BY <1>3, <1>6, <2>1
  <2>4. state' = [state EXCEPT ![p] = IF t > currentTerm[p] THEN "FOLLOWER" ELSE @] BY <1>3
  <2>5. \A f \in net' : f \in net \ {m} \/ f = Grant(p, c, t) BY <1>4, <2>2
  <2>6. votesGranted' = votesGranted /\ m.tag = "RequestVote" BY <1>3
  <2>7. t > currentTerm[p] \/ (t = currentTerm[p] /\ votedFor[p] \in {Nobody, c}) BY <2>1
  <2> HIDE DEF newer, term, voted, granted
  <2>8. GrantVote(m, p, c, t) BY <1>2, <2>3, <2>4, <2>5, <2>6, <2>7 DEF GrantVote
  <2> QED BY <2>8, VotePreserves
<1>7. CASE ~granted
  <2> DEFINE f == RequestVoteRespFrame(m, term, granted)
  <2>1. FrameOK(f) /\ f.tag = "RequestVoteResp" /\ f.voteGranted = FALSE
    <3>1. granted = FALSE BY <1>7
    <3>2. f = RequestVoteRespFrame(m, term, FALSE) BY <3>1
    <3> QED BY <1>2, <1>5, <3>2 DEF FrameOK, RequestVoteRespFrame
  <2>2. votedFor' = [votedFor EXCEPT ![p] = voted] BY <1>3, <1>7
  <2> HIDE DEF f, granted
  <2>3. \A e \in net' : e \in net \/ e = f BY <1>4 DEF f
  <2>4. StepDown
    <3>1. CASE newer
      <4>1. /\ state' = [state EXCEPT ![p] = "FOLLOWER"] /\ currentTerm' = [currentTerm EXCEPT ![p] = t]
            /\ votedFor' = [votedFor EXCEPT ![p] = Nobody]
        BY <1>3, <2>2, <3>1
      <4>2. /\ state' \in [Node -> {"FOLLOWER", "CANDIDATE", "LEADER"}] /\ currentTerm' \in [Node -> Nat]
            /\ votedFor' \in [Node -> Node \cup {Nobody}]
            /\ state'[p] = "FOLLOWER" /\ votedFor'[p] = Nobody /\ currentTerm'[p] = t
            /\ \A v \in Node : v # p => state'[v] = state[v] /\ currentTerm'[v] = currentTerm[v]
                                        /\ votedFor'[v] = votedFor[v]
        BY <1>1, <4>1
      <4>3. votesGranted' = votesGranted BY <1>3
      <4> QED BY <2>1, <2>3, <3>1, <4>2, <4>3 DEF StepDown
    <3>2. CASE ~newer
      <4>1. state' = state /\ currentTerm' = currentTerm /\ votedFor' = votedFor
        BY <1>1, <1>3, <2>2, <3>2
      <4> QED BY <1>1, <1>3, <2>1, <2>3, <4>1 DEF StepDown
    <3> QED BY <3>1, <3>2
  <2> QED BY <2>4, StepDownPreserves
<1> QED BY <1>6, <1>7

\* The candidate.
LEMMA HandleVoteResponsePreserves ==
  ASSUME Counting, ElectionTypeOK, NEW g \in Ballots, Fits(g), NEW m \in net, handleRequestVoteResponse(m)
  PROVE  ElectionTypeOK' /\ Fits(g)'
<1>1. FrameOK(m) BY DEF ElectionTypeOK
<1>2. PICK p \in Node, w \in Node, t \in Nat : p = m.to /\ w = m.from /\ t = m.term BY <1>1 DEF FrameOK
<1>3. m.tag = "RequestVoteResp" /\ net' = net \ {m} BY DEF handleRequestVoteResponse, Readable, Received
<1>4. CASE t > currentTerm[p] /\ becomeFollower(p, t) /\ UNCHANGED votesGranted
  BY <1>3, <1>4, NewerTermStep, StepDownPreserves
<1>5. CASE UNCHANGED nodeVars
  BY <1>3, <1>5, QuietStep, StepDownPreserves DEF nodeVars
<1>6. CASE /\ state[p] = "CANDIDATE" /\ t = currentTerm[p] /\ m.voteGranted
           /\ votesGranted' = [votesGranted EXCEPT ![p] = @ + 1]
           /\ state' = IF Majority(votesGranted[p] + 1) THEN [state EXCEPT ![p] = "LEADER"] ELSE state
           /\ UNCHANGED <<currentTerm, votedFor>>
  <2>1. CountVote(m, p, w, t) BY <1>2, <1>3, <1>6 DEF CountVote
  <2> QED BY <2>1, CountPreserves
<1> QED BY <1>2, <1>4, <1>5, <1>6 DEF handleRequestVoteResponse, becomeLeader

\* The follower: within its term it steps down only as a candidate, since a
\* leader gets no AppendEntries of its own term.
LEMMA HandleAppendEntriesPreserves ==
  ASSUME Counting, ElectionTypeOK, NEW g \in Ballots, Fits(g), NEW m \in net, handleAppendEntries(m)
  PROVE  ElectionTypeOK' /\ Fits(g)'
<1>1. /\ state \in [Node -> {"FOLLOWER", "CANDIDATE", "LEADER"}] /\ currentTerm \in [Node -> Nat]
      /\ votedFor \in [Node -> Node \cup {Nobody}] /\ votesGranted \in [Node -> Nat] /\ FrameOK(m)
  BY DEF ElectionTypeOK
<1>2. PICK p \in Node, c \in Node, t \in Nat : p = m.to /\ c = m.from /\ t = m.term /\ p # c
  BY <1>1 DEF FrameOK
<1>3. m.tag = "AppendEntries" /\ votesGranted' = votesGranted BY DEF handleAppendEntries, Readable
<1>4. ~(state[p] = "LEADER" /\ currentTerm[p] = t)
  <2>1. Led(c, t) BY <1>2, <1>3 DEF Led
  <2> QED BY <1>2, <2>1, LeaderUnique DEF Fits
<1>5. \/ UNCHANGED <<state, currentTerm, votedFor>>
      \/ /\ t >= currentTerm[p] /\ (t > currentTerm[p] \/ state[p] # "FOLLOWER")
         /\ becomeFollower(p, t)
  <2>1. IF ~(t < currentTerm[p]) /\ (t > currentTerm[p] \/ state[p] # "FOLLOWER")
        THEN becomeFollower(p, t) ELSE UNCHANGED <<state, currentTerm, votedFor>>
    BY <1>2 DEF handleAppendEntries
  <2> QED BY SMTT(30), <1>1, <2>1
<1>6. \A f \in net' : f \in net \/ (FrameOK(f) /\ f.tag = "AppendEntriesResp")
  <2>1. PICK a, s, n : a \in Nat /\ net' = (net \ {m}) \cup Deliverable({AppendEntriesRespFrame(m, a, s, n)})
    <3>1. (IF m.term < currentTerm[m.to] THEN currentTerm[m.to] ELSE m.term) \in Nat BY <1>1, <1>2
    <3> QED BY <3>1 DEF handleAppendEntries, Answer
  <2>2. FrameOK(AppendEntriesRespFrame(m, a, s, n)) /\ AppendEntriesRespFrame(m, a, s, n).tag = "AppendEntriesResp"
    BY <1>2, <2>1 DEF FrameOK, AppendEntriesRespFrame
  <2> QED BY <2>1, <2>2 DEF Deliverable
<1>7. StepDown
  <2>1. CASE UNCHANGED <<state, currentTerm, votedFor>> BY <1>1, <1>3, <1>6, <2>1 DEF StepDown
  <2>2. CASE /\ t >= currentTerm[p] /\ (t > currentTerm[p] \/ state[p] # "FOLLOWER")
             /\ becomeFollower(p, t)
    <3>1. t > currentTerm[p] \/ (t = currentTerm[p] /\ state[p] = "CANDIDATE") BY SMTT(30), <1>1, <1>4, <2>2
    <3> QED BY <1>1, <1>3, <1>6, <2>2, <3>1 DEF StepDown, becomeFollower
  <2> QED BY <1>5, <2>1, <2>2
<1> QED BY <1>7, StepDownPreserves

\* The leader.
LEMMA HandleAppendResponsePreserves ==
  ASSUME Counting, ElectionTypeOK, NEW g \in Ballots, Fits(g), NEW m \in net, handleAppendEntriesResponse(m)
  PROVE  ElectionTypeOK' /\ Fits(g)'
<1>1. FrameOK(m) BY DEF ElectionTypeOK
<1>2. PICK p \in Node, t \in Nat : p = m.to /\ t = m.term BY <1>1 DEF FrameOK
<1>3. net' = net \ {m} BY DEF handleAppendEntriesResponse, Received
<1>4. \/ t > currentTerm[p] /\ becomeFollower(p, t) /\ UNCHANGED votesGranted
      \/ UNCHANGED nodeVars
  BY <1>2 DEF handleAppendEntriesResponse
<1>5. CASE t > currentTerm[p] /\ becomeFollower(p, t) /\ UNCHANGED votesGranted
  BY <1>3, <1>5, NewerTermStep, StepDownPreserves
<1>6. CASE UNCHANGED nodeVars BY <1>3, <1>6, QuietStep, StepDownPreserves DEF nodeVars
<1> QED BY <1>4, <1>5, <1>6

-----------------------------------------------------------------------------
\* At the start nobody has voted.
LEMMA RaftInitHolds == Init => RaftIInv
<1> SUFFICES ASSUME Init PROVE RaftIInv OBVIOUS
<1> DEFINE g == [t \in Nat |-> [v \in Node |-> Nobody]]
<1>1. ElectionTypeOK BY DEF Init, ElectionTypeOK
<1>2. ClientsOK BY DEF Init, ClientsOK, Idle
<1>3. g \in Ballots /\ \A t \in Nat, v \in Node : g[t][v] = Nobody BY DEF Ballots
<1> HIDE DEF g
<1>4. VoteKept(g) BY <1>3 DEF Init, VoteKept
<1>5. FramesOK(g) BY DEF Init, FramesOK
<1>6. VotesOK(g) BY DEF Init, VotesOK, Led
<1> QED BY <1>1, <1>2, <1>3, <1>4, <1>5, <1>6 DEF RaftIInv, Fits

\* A client sends for the node that accepted its command.
LEMMA ClientsPreserved ==
  ASSUME ElectionTypeOK, ClientsOK, [Next]_vars
  PROVE  ClientsOK'
<1>1. CASE UNCHANGED client BY <1>1 DEF ClientsOK, Peer
<1>2. ASSUME NEW c \in Command, NEW p \in Node, propose(c, p) PROVE ClientsOK'
  BY <1>2 DEF propose, ClientsOK, Peer
<1>3. ASSUME NEW c \in Command, NEW q \in Node, clientSend(c, q) PROVE ClientsOK'
  BY SMTT(30), <1>3 DEF clientSend, ClientsOK, Peer
<1>4. ASSUME NEW c \in Command, proposeReturn(c) PROVE ClientsOK'
  BY SMTT(30), <1>4 DEF proposeReturn, ClientsOK, Peer
<1>5. \/ UNCHANGED client
      \/ \E c \in Command, p \in Node : propose(c, p)
      \/ \E c \in Command, q \in Node : clientSend(c, q)
      \/ \E c \in Command : proposeReturn(c)
  BY DEF Next, vars, tickerTimedOut, startElection, sendHeartbeat, handleRequestVote,
         handleRequestVoteResponse, handleAppendEntries, handleAppendEntriesResponse, onCommit, stop
<1> QED BY <1>1, <1>2, <1>3, <1>4, <1>5

\* A heartbeat and a client's AppendEntries are sent by a leader.
LEMMA EntriesAreSent ==
  ASSUME ElectionTypeOK, ClientsOK,
         \/ \E p, q \in Node : sendHeartbeat(p, q)
         \/ \E c \in Command, q \in Node : clientSend(c, q)
  PROVE  SendEntries
<1>1. ASSUME NEW p \in Node, NEW q \in Peer(p), NEW th, state[p] = "LEADER"
      PROVE  LET f == AppendEntriesFrame(p, q, th)
             IN  FrameOK(f) /\ f.tag = "AppendEntries" /\ state[f.from] = "LEADER" /\ f.term = currentTerm[f.from]
  BY <1>1 DEF AppendEntriesFrame, FrameOK, Peer, ElectionTypeOK
<1>2. ASSUME NEW p \in Node, NEW q \in Peer(p), NEW th, state[p] = "LEADER",
             UNCHANGED <<state, currentTerm, votedFor, votesGranted>>,
             net' = net \cup Deliverable({AppendEntriesFrame(p, q, th)})
      PROVE  SendEntries
  <2>1. \A f \in net' : f \in net \/ f = AppendEntriesFrame(p, q, th) BY <1>2 DEF Deliverable
  <2>2. net \subseteq net' BY <1>2
  <2>3. PICK f : f = AppendEntriesFrame(p, q, th) OBVIOUS
  <2>4. FrameOK(f) /\ f.tag = "AppendEntries" /\ state[f.from] = "LEADER" /\ f.term = currentTerm[f.from]
    BY <1>1, <1>2, <2>3
  <2> QED BY <1>2, <2>1, <2>2, <2>3, <2>4 DEF SendEntries
<1>3. ASSUME NEW p \in Node, NEW q \in Node, sendHeartbeat(p, q) PROVE SendEntries
  <2>1. /\ q \in Peer(p) /\ state[p] = "LEADER"
        /\ net' = net \cup Deliverable({AppendEntriesFrame(p, q, "ticker")})
        /\ UNCHANGED <<state, currentTerm, votedFor, votesGranted>>
    BY <1>3 DEF sendHeartbeat, nodeVars
  <2> QED BY <1>2, <2>1
<1>4. ASSUME NEW c \in Command, NEW q \in Node, clientSend(c, q) PROVE SendEntries
  <2>1. PICK p \in Node : p = client[c].node /\ q \in Peer(p) BY <1>4 DEF clientSend, ClientsOK
  <2>2. /\ net' = IF state[p] = "LEADER" THEN net \cup Deliverable({AppendEntriesFrame(p, q, "client")}) ELSE net
        /\ UNCHANGED <<state, currentTerm, votedFor, votesGranted>>
    BY <1>4, <2>1 DEF clientSend, nodeVars
  <2>3. CASE state[p] = "LEADER" BY <1>2, <2>1, <2>2, <2>3
  <2>4. CASE state[p] # "LEADER" BY <2>2, <2>4 DEF SendEntries
  <2> QED BY <2>3, <2>4
<1> QED BY <1>3, <1>4

-----------------------------------------------------------------------------
INSTANCE FiniteSetTheorems

\* Node is finite.
LEMMA NodesCounted == Counting
<1> USE RaftAssumption
<1>1. \A A \in SUBSET Node : IsFiniteSet(A) /\ Cardinality(A) \in Nat BY FS_Subset, FS_CardinalityType
<1>2. \A A \in SUBSET Node, B \in SUBSET Node : A \subseteq B => Cardinality(A) <= Cardinality(B)
  BY <1>1, FS_Subset
<1>3. ASSUME NEW A \in SUBSET Node, NEW B \in SUBSET Node, A \cap B = {}
      PROVE  Cardinality(A) + Cardinality(B) <= Cardinality(Node)
  <2>1. Cardinality(A \cup B) = Cardinality(A) + Cardinality(B) - Cardinality(A \cap B) BY <1>1, FS_Union
  <2>2. Cardinality(A \cap B) = 0 BY <1>3, FS_EmptySet
  <2>3. Cardinality(A \cup B) <= Cardinality(Node) BY <1>2
  <2> QED BY SMTT(30), <1>1, <2>1, <2>2, <2>3
<1>4. \A A \in SUBSET Node, v \in Node : v \notin A => Cardinality(A \cup {v}) = Cardinality(A) + 1
  BY <1>1, FS_AddElement
<1>5. \A v \in Node : Cardinality({v}) = 1 BY FS_Singleton
<1> QED BY <1>1, <1>2, <1>3, <1>4, <1>5 DEF Counting

\* Election safety, for any number of nodes, whatever is sent, lost or
\* overtaken and whoever stops: votes are counted without looking at who sent
\* them and votedFor_ may be cleared within a term, and still no term has two
\* leaders.
THEOREM RaftElectionSafety == Spec => []OneLeaderPerTerm
<1>1. RaftIInv /\ [Next]_vars => RaftIInv'
  <2> SUFFICES ASSUME RaftIInv, [Next]_vars PROVE RaftIInv' OBVIOUS
  <2>1. ElectionTypeOK /\ ClientsOK /\ Counting BY NodesCounted DEF RaftIInv
  <2>2. PICK g \in Ballots : Fits(g) BY DEF RaftIInv
  <2>3. ClientsOK' BY <2>1, ClientsPreserved
  <2> DEFINE Kept == ElectionTypeOK' /\ \E h \in Ballots : Fits(h)'
  <2>4. ASSUME NEW p \in Node, startElection(p) PROVE Kept BY <2>1, <2>2, <2>4, StartElectionPreserves
  <2>5. ASSUME NEW m \in net, handleRequestVote(m) PROVE Kept
    BY <2>1, <2>2, <2>5, HandleRequestVotePreserves
  <2>6. ASSUME NEW m \in net, handleRequestVoteResponse(m) PROVE Kept
    BY <2>1, <2>2, <2>6, HandleVoteResponsePreserves
  <2>7. ASSUME NEW m \in net, handleAppendEntries(m) PROVE Kept
    BY <2>1, <2>2, <2>7, HandleAppendEntriesPreserves
  <2>8. ASSUME NEW m \in net, handleAppendEntriesResponse(m) PROVE Kept
    BY <2>1, <2>2, <2>8, HandleAppendResponsePreserves
  <2>9. ASSUME \/ \E p, q \in Node : sendHeartbeat(p, q)
               \/ \E c \in Command, q \in Node : clientSend(c, q)
        PROVE  Kept
    BY <2>1, <2>2, <2>9, EntriesAreSent, SendEntriesPreserves
  <2>10. ASSUME StepDown PROVE Kept BY <2>1, <2>2, <2>10, StepDownPreserves
  <2>11. ASSUME \/ \E p \in Node : tickerTimedOut(p) \/ stop(p)
                \/ \E p, q \in Node : onCommit(p, q)
                \/ \E c \in Command, p \in Node : propose(c, p)
                \/ \E c \in Command : proposeReturn(c)
                \/ UNCHANGED vars
         PROVE  StepDown
    <3>1. UNCHANGED <<state, currentTerm, votedFor, votesGranted>> /\ net' \subseteq net
      BY <2>11 DEF tickerTimedOut, stop, onCommit, propose, proposeReturn, vars, nodeVars
    <3> QED BY <2>1, <3>1, QuietStep
  <2> HIDE DEF Kept
  <2>12. Kept BY <2>4, <2>5, <2>6, <2>7, <2>8, <2>9, <2>10, <2>11 DEF Next
  <2> QED BY <2>3, <2>12 DEF RaftIInv, Kept
<1>2. RaftIInv => OneLeaderPerTerm
  <2> SUFFICES ASSUME RaftIInv, NEW t \in 1..MaxTerm, NEW p \in ActingLeaders(t), NEW q \in ActingLeaders(t)
               PROVE  p = q
    BY DEF OneLeaderPerTerm
  <2>1. PICK g \in Ballots : VotesOK(g) BY DEF RaftIInv, Fits
  <2>2. t \in Nat BY SMTT(30), RaftAssumption
  <2>3. /\ p \in Node /\ ((state[p] = "LEADER" /\ currentTerm[p] = t) \/ Led(p, t))
        /\ q \in Node /\ ((state[q] = "LEADER" /\ currentTerm[q] = t) \/ Led(q, t))
    BY DEF ActingLeaders, Led
  <2> QED BY <2>1, <2>2, <2>3, NodesCounted, LeaderUnique
<1> QED BY <1>1, <1>2, RaftInitHolds, PTL DEF Spec

-----------------------------------------------------------------------------
(* Read-copy-update.                                                       *)

\* A reference is held within a section, and a section only by a thread with
\* a record.
HeldInSection ==
  \A t \in RcuThread : /\ rcHeld[t] # NoObject => Odd(rcCtr[t])
                       /\ Odd(rcCtr[t]) => rcRecord[t] = "owned"

\* What is published or not yet allocated was never retired.
NeverRetired ==
  /\ rcPtr \notin rcNew
  /\ \A o \in rcNew \cup {rcPtr} :
       /\ o \notin rcPending /\ o \notin rcFreed
       /\ \A t \in RcuThread : o \notin rcToFree[t] /\ o \notin rcCovered[t] /\ o # rcOld[t]

\* While synchronize() runs it has yet to look at each reader of what was
\* pending, or waits for the end of that reader's section.
WaitsForReaders ==
  \A t, r \in RcuThread :
    rcPc[t] = "scan" /\ rcHeld[r] \in rcCovered[t] => r \in rcUnseen[t] \/ <<r, rcCtr[r]>> \in rcWait[t]

\* Of what was taken to be freed a reader holds only what came too late.
TakenUnheld ==
  \A t, r \in RcuThread : rcHeld[r] \in rcToFree[t] => rcHeld[r] \in rcOvertaken

\* The inductive invariant.
RcIInv ==
  /\ RcuTypeOK
  /\ \A t \in RcuThread : rcPc[t] = "retire" => rcOld[t] # NoObject
  /\ HeldInSection /\ NeverRetired /\ WaitsForReaders /\ TakenUnheld /\ GracePeriodRespected

\* A counter is odd within a section and even outside.
LEMMA ParityFlips == \A c \in Nat : Odd(c + 1) <=> ~Odd(c)
BY SMTT(30) DEF Odd

\* At the start nobody reads and nothing is retired.
LEMMA RcuInitHolds == RcuInit => RcIInv
<1> SUFFICES ASSUME RcuInit PROVE RcIInv OBVIOUS
<1>1. RcuTypeOK BY RcuAssumption DEF RcuInit, RcuTypeOK
<1>2. HeldInSection BY SMTT(30) DEF RcuInit, HeldInSection, Odd
<1>3. NeverRetired BY RcuAssumption DEF RcuInit, NeverRetired
<1> QED BY <1>1, <1>2, <1>3 DEF RcuInit, RcIInv, WaitsForReaders, TakenUnheld, GracePeriodRespected

-----------------------------------------------------------------------------
(* Readers                                                                 *)

\* tl() and ~ThreadState change whether the record is active, outside a section.
LEMMA RecordPreserves ==
  ASSUME RcIInv, NEW t \in RcuThread, RcuRegister(t) \/ RcuThreadExit(t)
  PROVE  RcIInv'
<1> USE DEF RcIInv, rcMemory, rcSync
<1>1. /\ UNCHANGED <<rcCtr, rcHeld, rcMemory, rcPending, rcPc, rcOld, rcSync, rcToFree, rcOvertaken>>
      /\ rcRecord' \in [RcuThread -> {"none", "owned", "free"}]
      /\ \A u \in RcuThread : u # t => rcRecord'[u] = rcRecord[u]
      /\ rcRecord'[t] = "owned" \/ ~Odd(rcCtr[t])
  BY DEF RcuRegister, RcuThreadExit, RcuTypeOK, Reading
<1>2. RcuTypeOK' BY <1>1 DEF RcuTypeOK
<1>3. HeldInSection' BY <1>1 DEF HeldInSection
<1>4. NeverRetired' BY <1>1 DEF NeverRetired
<1>5. WaitsForReaders' BY <1>1 DEF WaitsForReaders
<1>6. TakenUnheld' BY <1>1 DEF TakenUnheld
<1>7. GracePeriodRespected' BY <1>1 DEF GracePeriodRespected
<1> QED BY <1>1, <1>2, <1>3, <1>4, <1>5, <1>6, <1>7

\* The constructor of ReadGuard: the thread holds nothing yet.
LEMMA ReadLockPreserves ==
  ASSUME RcIInv, NEW t \in RcuThread, ReadLock(t)
  PROVE  RcIInv'
<1> USE DEF RcIInv, rcMemory, rcSync
<1>1. /\ UNCHANGED <<rcRecord, rcHeld, rcMemory, rcPending, rcPc, rcOld, rcSync, rcToFree, rcOvertaken>>
      /\ rcCtr' \in [RcuThread -> Nat] /\ rcCtr'[t] = rcCtr[t] + 1
      /\ \A u \in RcuThread : u # t => rcCtr'[u] = rcCtr[u]
      /\ ~Odd(rcCtr[t]) /\ rcRecord[t] = "owned"
  BY SMTT(30) DEF ReadLock, RcuTypeOK, Reading, Active
<1>2. RcuTypeOK' BY <1>1 DEF RcuTypeOK
<1>3. rcHeld[t] = NoObject BY <1>1 DEF HeldInSection
<1>4. HeldInSection' BY <1>1, <1>3 DEF HeldInSection
<1>5. NeverRetired' BY <1>1 DEF NeverRetired
<1>6. \A u \in RcuThread : NoObject \notin rcCovered[u] BY RcuAssumption DEF RcuTypeOK
<1>7. WaitsForReaders' BY <1>1, <1>3, <1>6 DEF WaitsForReaders
<1>8. TakenUnheld' BY <1>1 DEF TakenUnheld
<1>9. GracePeriodRespected' BY <1>1 DEF GracePeriodRespected
<1> QED BY <1>1, <1>2, <1>4, <1>5, <1>7, <1>8, <1>9

\* RcuPtr::get: the published object was never retired.
LEMMA ReadGetPreserves ==
  ASSUME RcIInv, NEW t \in RcuThread, ReadGet(t)
  PROVE  RcIInv'
<1> USE DEF RcIInv, rcMemory, rcSync
<1>1. /\ UNCHANGED <<rcCtr, rcRecord, rcMemory, rcPending, rcPc, rcOld, rcSync, rcToFree, rcOvertaken>>
      /\ rcHeld' \in [RcuThread -> Object \cup {NoObject}] /\ rcHeld'[t] = rcPtr
      /\ \A u \in RcuThread : u # t => rcHeld'[u] = rcHeld[u]
      /\ Odd(rcCtr[t])
  BY DEF ReadGet, RcuTypeOK, Reading
<1>2. RcuTypeOK' BY <1>1 DEF RcuTypeOK
<1>3. HeldInSection' BY <1>1 DEF HeldInSection
<1>4. NeverRetired' BY SMTT(30), <1>1 DEF NeverRetired
<1>5. rcPtr \notin rcFreed /\ \A u \in RcuThread : rcPtr \notin rcCovered[u] /\ rcPtr \notin rcToFree[u]
  BY DEF NeverRetired
<1>6. WaitsForReaders' BY <1>1, <1>5 DEF WaitsForReaders
<1>7. TakenUnheld' BY <1>1, <1>5 DEF TakenUnheld
<1>8. GracePeriodRespected' BY <1>1, <1>5 DEF GracePeriodRespected
<1> QED BY <1>1, <1>2, <1>3, <1>4, <1>6, <1>7, <1>8

\* The destructor of ReadGuard.
LEMMA ReadUnlockPreserves ==
  ASSUME RcIInv, NEW t \in RcuThread, ReadUnlock(t)
  PROVE  RcIInv'
<1> USE DEF RcIInv, rcMemory, rcSync
<1>1. /\ UNCHANGED <<rcRecord, rcMemory, rcPending, rcPc, rcOld, rcSync, rcToFree, rcOvertaken>>
      /\ rcCtr' \in [RcuThread -> Nat] /\ rcHeld' \in [RcuThread -> Object \cup {NoObject}]
      /\ rcCtr'[t] = rcCtr[t] + 1 /\ rcHeld'[t] = NoObject
      /\ \A u \in RcuThread : u # t => rcCtr'[u] = rcCtr[u] /\ rcHeld'[u] = rcHeld[u]
      /\ Odd(rcCtr[t]) /\ rcCtr[t] \in Nat
  BY SMTT(30) DEF ReadUnlock, RcuTypeOK, Reading
<1>2. RcuTypeOK' BY <1>1 DEF RcuTypeOK
<1>3. HeldInSection' BY <1>1, ParityFlips DEF HeldInSection
<1>4. NeverRetired' BY <1>1 DEF NeverRetired
<1>5. NoObject \notin rcFreed /\ \A u \in RcuThread : NoObject \notin rcCovered[u] /\ NoObject \notin rcToFree[u]
  BY RcuAssumption DEF RcuTypeOK
<1>6. WaitsForReaders' BY <1>1, <1>5 DEF WaitsForReaders
<1>7. TakenUnheld' BY <1>1, <1>5 DEF TakenUnheld
<1>8. GracePeriodRespected' BY <1>1, <1>5 DEF GracePeriodRespected
<1> QED BY <1>1, <1>2, <1>3, <1>4, <1>6, <1>7, <1>8

-----------------------------------------------------------------------------
(* Writers                                                                 *)

\* store: a new object is published and the old one is about to be retired.
LEMMA ExchangePreserves ==
  ASSUME RcIInv, NEW t \in RcuThread, Exchange(t)
  PROVE  RcIInv'
<1> USE DEF RcIInv, rcReader, rcSync
<1>1. PICK o \in rcNew : rcPtr' = o /\ rcNew' = rcNew \ {o} BY DEF Exchange
<1>2. /\ UNCHANGED <<rcReader, rcFreed, rcPending, rcSync, rcToFree, rcOvertaken>>
      /\ rcOld' \in [RcuThread -> Object \cup {NoObject}] /\ rcOld'[t] = rcPtr /\ rcPtr \in Object
      /\ \A u \in RcuThread : u # t => rcOld'[u] = rcOld[u] /\ rcPc'[u] = rcPc[u]
      /\ rcPc' \in [RcuThread -> {"idle", "retire", "reclaim", "scan", "free"}] /\ rcPc'[t] = "retire"
  BY DEF Exchange, RcGoto, RcuTypeOK
<1>3. RcuTypeOK' BY <1>1, <1>2 DEF RcuTypeOK
<1>4. HeldInSection' BY <1>2 DEF HeldInSection
<1>5. NeverRetired'
  <2>1. rcPtr \notin rcNew /\ rcPtr' \notin rcNew' BY <1>1 DEF NeverRetired
  <2>2. ASSUME NEW x \in rcNew' \cup {rcPtr'} PROVE x \in rcNew /\ x # rcPtr
    BY <1>1, <2>1, <2>2
  <2> QED BY SMTT(30), <1>2, <2>1, <2>2 DEF NeverRetired
<1>6. WaitsForReaders' BY <1>2 DEF WaitsForReaders
<1>7. TakenUnheld' BY <1>2 DEF TakenUnheld
<1>8. GracePeriodRespected' BY <1>2 DEF GracePeriodRespected
<1>9. \A u \in RcuThread : rcPc'[u] = "retire" => rcOld'[u] # NoObject BY <1>2, RcuAssumption
<1> QED BY <1>3, <1>4, <1>5, <1>6, <1>7, <1>8, <1>9

\* do_retire: the old object is pending.
LEMMA DoRetirePreserves ==
  ASSUME RcIInv, NEW t \in RcuThread, DoRetire(t)
  PROVE  RcIInv'
<1> USE DEF RcIInv, rcReader, rcMemory, rcSync
<1>1. /\ UNCHANGED <<rcReader, rcMemory, rcSync, rcToFree, rcOvertaken>>
      /\ rcPending' = rcPending \cup {rcOld[t]} /\ rcOld[t] \in Object
      /\ rcOld' \in [RcuThread -> Object \cup {NoObject}] /\ rcOld'[t] = NoObject
      /\ \A u \in RcuThread : u # t => rcOld'[u] = rcOld[u] /\ rcPc'[u] = rcPc[u]
      /\ rcPc' \in [RcuThread -> {"idle", "retire", "reclaim", "scan", "free"}]
      /\ rcPc'[t] \in {"reclaim", "idle"}
  BY DEF DoRetire, RcGoto, RcuTypeOK
<1>2. RcuTypeOK' BY <1>1 DEF RcuTypeOK
<1>3. HeldInSection' BY <1>1 DEF HeldInSection
<1>4. NeverRetired'
  <2>1. \A x \in rcNew \cup {rcPtr} : x # NoObject BY RcuAssumption DEF RcuTypeOK
  <2> QED BY SMTT(30), <1>1, <2>1 DEF NeverRetired
<1>5. WaitsForReaders' BY <1>1 DEF WaitsForReaders
<1>6. TakenUnheld' BY <1>1 DEF TakenUnheld
<1>7. GracePeriodRespected' BY <1>1 DEF GracePeriodRespected
<1>8. \A u \in RcuThread : rcPc'[u] = "retire" => rcOld'[u] # NoObject BY <1>1
<1> QED BY <1>2, <1>3, <1>4, <1>5, <1>6, <1>7, <1>8

\* reclaim_all is called.
LEMMA ReclaimAllPreserves ==
  ASSUME RcIInv, NEW t \in RcuThread, ReclaimAll(t)
  PROVE  RcIInv'
<1> USE DEF RcIInv, rcReader, rcMemory, rcSync
<1>1. /\ UNCHANGED <<rcReader, rcMemory, rcPending, rcOld, rcSync, rcToFree, rcOvertaken>>
      /\ \A u \in RcuThread : u # t => rcPc'[u] = rcPc[u]
      /\ rcPc' \in [RcuThread -> {"idle", "retire", "reclaim", "scan", "free"}] /\ rcPc'[t] = "reclaim"
  BY DEF ReclaimAll, RcGoto, RcuTypeOK
<1>2. RcuTypeOK' BY <1>1 DEF RcuTypeOK
<1>3. HeldInSection' BY <1>1 DEF HeldInSection
<1>4. NeverRetired' BY <1>1 DEF NeverRetired
<1>5. WaitsForReaders' BY <1>1 DEF WaitsForReaders
<1>6. TakenUnheld' BY <1>1 DEF TakenUnheld
<1>7. GracePeriodRespected' BY <1>1 DEF GracePeriodRespected
<1>8. \A u \in RcuThread : rcPc'[u] = "retire" => rcOld'[u] # NoObject BY <1>1
<1> QED BY <1>2, <1>3, <1>4, <1>5, <1>6, <1>7, <1>8

\* synchronize() begins: every reader has a record, so all are unseen.
LEMMA SyncStartPreserves ==
  ASSUME RcIInv, NEW t \in RcuThread, SyncStart(t)
  PROVE  RcIInv'
<1> USE DEF RcIInv, rcReader, rcMemory
<1>1. /\ UNCHANGED <<rcReader, rcMemory, rcPending, rcOld, rcToFree, rcOvertaken>>
      /\ rcUnseen' \in [RcuThread -> SUBSET RcuThread]
      /\ rcWait' \in [RcuThread -> SUBSET (RcuThread \X Nat)]
      /\ rcCovered' \in [RcuThread -> SUBSET Object]
      /\ rcUnseen'[t] = {u \in RcuThread : rcRecord[u] # "none"} /\ rcCovered'[t] = rcPending
      /\ \A u \in RcuThread : u # t => /\ rcUnseen'[u] = rcUnseen[u] /\ rcWait'[u] = rcWait[u]
                                       /\ rcCovered'[u] = rcCovered[u] /\ rcPc'[u] = rcPc[u]
      /\ rcPc' \in [RcuThread -> {"idle", "retire", "reclaim", "scan", "free"}] /\ rcPc'[t] = "scan"
  BY DEF SyncStart, RcGoto, RcuTypeOK
<1>2. RcuTypeOK' BY <1>1 DEF RcuTypeOK
<1>3. HeldInSection' BY <1>1 DEF HeldInSection
<1>4. NeverRetired' BY SMTT(30), <1>1 DEF NeverRetired
<1>5. WaitsForReaders'
  <2>1. ASSUME NEW r \in RcuThread, rcHeld[r] \in rcPending PROVE r \in rcUnseen'[t]
    <3>1. rcHeld[r] # NoObject BY <2>1, RcuAssumption DEF RcuTypeOK
    <3> QED BY <1>1, <3>1 DEF HeldInSection
  <2> QED BY <1>1, <2>1 DEF WaitsForReaders
<1>6. TakenUnheld' BY <1>1 DEF TakenUnheld
<1>7. GracePeriodRespected' BY <1>1 DEF GracePeriodRespected
<1>8. \A u \in RcuThread : rcPc'[u] = "retire" => rcOld'[u] # NoObject BY <1>1
<1> QED BY <1>2, <1>3, <1>4, <1>5, <1>6, <1>7, <1>8

\* synchronize() looks at a record: a reader's counter goes to the waitlist.
LEMMA SyncScanPreserves ==
  ASSUME RcIInv, NEW t \in RcuThread, SyncScan(t)
  PROVE  RcIInv'
<1> USE DEF RcIInv, rcReader, rcMemory
<1>1. PICK u \in rcUnseen[t] :
        /\ rcUnseen' = [rcUnseen EXCEPT ![t] = @ \ {u}]
        /\ rcWait' = [rcWait EXCEPT ![t] = IF MustWait(u) THEN @ \cup {<<u, rcCtr[u]>>} ELSE @]
  BY DEF SyncScan
<1>2. UNCHANGED <<rcReader, rcMemory, rcPending, rcPc, rcOld, rcCovered, rcToFree, rcOvertaken>>
  BY DEF SyncScan
<1>3. /\ rcUnseen' \in [RcuThread -> SUBSET RcuThread] /\ rcUnseen'[t] = rcUnseen[t] \ {u}
      /\ rcWait' \in [RcuThread -> SUBSET (RcuThread \X Nat)]
      /\ rcWait[t] \subseteq rcWait'[t]
      /\ MustWait(u) => <<u, rcCtr[u]>> \in rcWait'[t]
      /\ \A v \in RcuThread : v # t => rcUnseen'[v] = rcUnseen[v] /\ rcWait'[v] = rcWait[v]
  BY SMTT(30), <1>1 DEF RcuTypeOK
<1>4. RcuTypeOK' BY <1>2, <1>3 DEF RcuTypeOK
<1>5. HeldInSection' BY <1>2 DEF HeldInSection
<1>6. NeverRetired' BY <1>2 DEF NeverRetired
<1>7. WaitsForReaders'
  <2>1. u \in RcuThread BY <1>1 DEF RcuTypeOK
  <2>2. rcHeld[u] \in rcCovered[t] => MustWait(u)
    <3>1. NoObject \notin rcCovered[t] BY RcuAssumption DEF RcuTypeOK
    <3> QED BY <2>1, <3>1 DEF HeldInSection, MustWait, Active
  <2> QED BY <1>2, <1>3, <2>2 DEF WaitsForReaders
<1>8. TakenUnheld' BY <1>2 DEF TakenUnheld
<1>9. GracePeriodRespected' BY <1>2 DEF GracePeriodRespected
<1> QED BY <1>2, <1>4, <1>5, <1>6, <1>7, <1>8, <1>9

\* The grace period is over: of what was pending when it began nothing is held.
LEMMA TakePendingPreserves ==
  ASSUME RcIInv, NEW t \in RcuThread, TakePending(t)
  PROVE  RcIInv'
<1> USE DEF RcIInv, rcReader, rcMemory, rcSync
<1>1. /\ UNCHANGED <<rcReader, rcMemory, rcOld, rcSync>>
      /\ rcPending' = {} /\ rcOvertaken' = rcOvertaken \cup (rcPending \ rcCovered[t])
      /\ rcToFree' \in [RcuThread -> SUBSET Object] /\ rcToFree'[t] = rcPending
      /\ \A u \in RcuThread : u # t => rcToFree'[u] = rcToFree[u] /\ rcPc'[u] = rcPc[u]
      /\ rcPc' \in [RcuThread -> {"idle", "retire", "reclaim", "scan", "free"}] /\ rcPc'[t] = "free"
  BY DEF TakePending, RcGoto, RcuTypeOK
<1>2. RcuTypeOK' BY <1>1 DEF RcuTypeOK
<1>3. HeldInSection' BY <1>1 DEF HeldInSection
<1>4. NeverRetired' BY <1>1 DEF NeverRetired
<1>5. WaitsForReaders' BY <1>1 DEF WaitsForReaders
<1>6. TakenUnheld'
  <2>1. ASSUME NEW r \in RcuThread PROVE rcHeld[r] \notin rcCovered[t]
    <3> SUFFICES ASSUME rcHeld[r] \in rcCovered[t] PROVE FALSE OBVIOUS
    <3>1. <<r, rcCtr[r]>> \in rcWait[t] BY DEF WaitsForReaders, TakePending, GracePeriodOver
    <3> QED BY <3>1 DEF TakePending, GracePeriodOver
  <2> QED BY <1>1, <2>1 DEF TakenUnheld
<1>7. GracePeriodRespected' BY <1>1 DEF GracePeriodRespected
<1>8. \A u \in RcuThread : rcPc'[u] = "retire" => rcOld'[u] # NoObject BY <1>1
<1> QED BY <1>2, <1>3, <1>4, <1>5, <1>6, <1>7, <1>8

\* The deleters run.
LEMMA FreeAllPreserves ==
  ASSUME RcIInv, NEW t \in RcuThread, FreeAll(t)
  PROVE  RcIInv'
<1> USE DEF RcIInv, rcReader
<1>1. /\ UNCHANGED <<rcReader, rcPtr, rcNew, rcPending, rcOld, rcOvertaken>>
      /\ rcFreed' = rcFreed \cup rcToFree[t] /\ rcToFree'[t] = {} /\ rcCovered'[t] = {}
      /\ rcToFree' \in [RcuThread -> SUBSET Object] /\ rcCovered' \in [RcuThread -> SUBSET Object]
      /\ rcUnseen' \in [RcuThread -> SUBSET RcuThread] /\ rcWait' \in [RcuThread -> SUBSET (RcuThread \X Nat)]
      /\ \A u \in RcuThread : u # t => /\ rcToFree'[u] = rcToFree[u] /\ rcUnseen'[u] = rcUnseen[u]
                                       /\ rcWait'[u] = rcWait[u] /\ rcCovered'[u] = rcCovered[u]
                                       /\ rcPc'[u] = rcPc[u]
      /\ rcPc' \in [RcuThread -> {"idle", "retire", "reclaim", "scan", "free"}] /\ rcPc'[t] = "idle"
  BY DEF FreeAll, RcGoto, RcuTypeOK
<1>2. RcuTypeOK' BY <1>1 DEF RcuTypeOK
<1>3. HeldInSection' BY <1>1 DEF HeldInSection
<1>4. NeverRetired' BY <1>1 DEF NeverRetired
<1>5. WaitsForReaders' BY <1>1 DEF WaitsForReaders
<1>6. TakenUnheld' BY <1>1 DEF TakenUnheld
<1>7. GracePeriodRespected' BY <1>1 DEF GracePeriodRespected, TakenUnheld
<1>8. \A u \in RcuThread : rcPc'[u] = "retire" => rcOld'[u] # NoObject BY <1>1
<1> QED BY <1>2, <1>3, <1>4, <1>5, <1>6, <1>7, <1>8

-----------------------------------------------------------------------------
\* For any threads that read, store and reclaim, come and go, and any objects:
\* reclaim_all frees no object under a reader unless it was retired after
\* synchronize() began.
THEOREM RcuGracePeriod == RcuSpec => []GracePeriodRespected
<1>1. RcIInv /\ [RcuNext]_rcuVars => RcIInv'
  <2> SUFFICES ASSUME RcIInv, [RcuNext]_rcuVars PROVE RcIInv' OBVIOUS
  <2>1. ASSUME NEW t \in RcuThread, RcuReaderStep(t) PROVE RcIInv'
    BY <2>1, RecordPreserves, ReadLockPreserves, ReadGetPreserves, ReadUnlockPreserves DEF RcuReaderStep
  <2>2. ASSUME NEW t \in RcuThread, RcuWriterStep(t) PROVE RcIInv'
    BY <2>2, ExchangePreserves, DoRetirePreserves, ReclaimAllPreserves, SyncStartPreserves,
       SyncScanPreserves, TakePendingPreserves, FreeAllPreserves DEF RcuWriterStep
  <2>3. CASE UNCHANGED rcuVars
    BY SMTT(30), <2>3 DEF rcuVars, rcReader, rcMemory, rcSync, RcIInv, RcuTypeOK, HeldInSection, NeverRetired,
                WaitsForReaders, TakenUnheld, GracePeriodRespected
  <2> QED BY <2>1, <2>2, <2>3, RcuAssumption DEF RcuNext
<1>2. RcIInv => GracePeriodRespected BY DEF RcIInv
<1> QED BY <1>1, <1>2, RcuInitHolds, PTL DEF RcuSpec

-----------------------------------------------------------------------------
(* The coroutine mutex and event.                                          *)

\* What a state_ word holds: a mark, or the coroutine at the top of the stack.
CoState == {0, 1} \cup Coroutine
\* The labels before the event is set, and those at which the mutex is held.
CoEventPc == {"ready", "awaitSuspend", "suspended"}
CoHolderPc == {"critical", "unlock"}

\* What the fields hold.
CoTypeOK ==
  co \in [mutex : CoState, event : CoState, next : [Coroutine -> CoState], seen : [Coroutine -> CoState],
          locks : [Coroutine -> Nat],
          pc : [Coroutine -> CoEventPc \cup CoHolderPc \cup {"lock", "load", "suspend", "waiting", "finished"}]]

\* c is on the stack of waiters; c has the mutex.
Waiting(c) == co.pc[c] = "waiting"
Holds(c) == co.pc[c] \in CoHolderPc

\* The waiters form a stack below the mutex: state_ is not in the middle of
\* it, and no two waiters have the same one below them.
CoStack ==
  /\ \A c \in Coroutine : co.mutex = c => Waiting(c)
  /\ \A c \in Coroutine : Waiting(c) => co.next[c] # kUnlocked
  /\ \A c, d \in Coroutine : Waiting(c) /\ co.next[c] = d => Waiting(d) /\ d # co.mutex
  /\ \A c, d \in Coroutine : Waiting(c) /\ Waiting(d) /\ c # d /\ co.next[c] = co.next[d] => co.next[c] \notin Coroutine

\* One coroutine has the mutex, and state_ says whether one has.
CoLock ==
  /\ \A c, d \in Coroutine : Holds(c) /\ Holds(d) => c = d
  /\ co.mutex = kUnlocked <=> \A c \in Coroutine : ~Holds(c)

\* Only AwaitsEvent waits for the event, and until it is set, it does; what
\* event_ names is suspended.
CoEvent ==
  /\ \A c \in Coroutine : co.pc[c] \in CoEventPc => c = AwaitsEvent
  /\ co.event # kSet => co.pc[AwaitsEvent] \in CoEventPc
  /\ co.event \in Coroutine => co.pc[co.event] = "suspended"

\* The inductive invariant.
CoInv == CoTypeOK /\ CoStack /\ CoLock /\ CoEvent

\* At first the mutex is free and nobody waits.
LEMMA CoInvInit == CoInit => CoInv
<1> SUFFICES ASSUME CoInit PROVE CoInv OBVIOUS
<1> USE CoroAssumption DEF CoInit, kUnlocked, kNotSet, kSet
<1>1. CoTypeOK BY DEF CoTypeOK, CoState, CoEventPc
<1>2. \A c \in Coroutine : ~Waiting(c) /\ ~Holds(c) BY DEF Waiting, Holds, CoHolderPc
<1>3. co.mutex \notin Coroutine /\ co.event \notin Coroutine OBVIOUS
<1>4. CoEvent BY <1>3 DEF CoEvent, CoEventPc
<1> QED BY <1>1, <1>2, <1>3, <1>4 DEF CoInv, CoStack, CoLock

\* Steps that touch neither the mutex nor its stack.
LEMMA CoQuiet ==
  ASSUME CoInv, CoTypeOK', co'.mutex = co.mutex, co'.next = co.next,
         \A c \in Coroutine : (Waiting(c)' <=> Waiting(c)) /\ (Holds(c)' <=> Holds(c))
  PROVE  CoStack' /\ CoLock'
<1>1. CoStack' BY DEF CoInv, CoStack
<1>2. CoLock' BY DEF CoInv, CoLock
<1> QED BY <1>1, <1>2

\* The steps of the event: set(), await_ready and await_suspend.
LEMMA CoEventStep ==
  ASSUME CoInv, SetEvent \/ \E c \in Coroutine : AwaitReady(c) \/ AwaitSuspend(c)
  PROVE  CoInv'
<1> USE CoroAssumption DEF kUnlocked, kNotSet, kSet
<1>1. CoTypeOK /\ CoEvent BY DEF CoInv
<1>2. CASE SetEvent
  <2>1. CASE co.event = kNotSet
    <3>1. CoTypeOK' /\ co'.mutex = co.mutex /\ co'.next = co.next /\ co'.pc = co.pc /\ co'.event = 1
      BY <1>1, <1>2, <2>1 DEF SetEvent, CoTypeOK, CoState
    <3>2. CoStack' /\ CoLock' BY <3>1, CoQuiet DEF Waiting, Holds
    <3>3. CoEvent' BY <1>1, <3>1 DEF CoEvent
    <3> QED BY <3>1, <3>2, <3>3 DEF CoInv
  <2>2. CASE co.event # kNotSet
    <3>1. co.event \in Coroutine /\ co.pc[co.event] = "suspended" BY <1>1, <1>2, <2>2 DEF SetEvent, CoTypeOK, CoState, CoEvent
    <3>2. /\ CoTypeOK' /\ co'.mutex = co.mutex /\ co'.next = co.next /\ co'.event = 1
          /\ co'.pc = [co.pc EXCEPT ![co.event] = "lock"]
      BY <1>1, <1>2, <2>2, <3>1 DEF SetEvent, CoTypeOK, CoState
    <3>3. \A c \in Coroutine : co'.pc[c] = IF c = co.event THEN "lock" ELSE co.pc[c] BY <1>1, <3>2 DEF CoTypeOK
    <3>4. CoStack' /\ CoLock' BY <3>1, <3>2, <3>3, CoQuiet DEF Waiting, Holds, CoHolderPc
    <3>5. CoEvent' BY <1>1, <3>2, <3>3 DEF CoEvent, CoEventPc
    <3> QED BY <3>2, <3>4, <3>5 DEF CoInv
  <2> QED BY <2>1, <2>2
<1>3. ASSUME NEW c \in Coroutine, AwaitReady(c) PROVE CoInv'
  <2>1. /\ CoTypeOK' /\ co'.mutex = co.mutex /\ co'.next = co.next /\ co'.event = co.event
        /\ co.pc[c] = "ready" /\ co'.pc = [co.pc EXCEPT ![c] = IF co.event = 1 THEN "lock" ELSE "awaitSuspend"]
    BY <1>1, <1>3 DEF AwaitReady, CoTypeOK, CoEventPc
  <2>2. \A d \in Coroutine : co'.pc[d] = IF d = c THEN (IF co.event = 1 THEN "lock" ELSE "awaitSuspend") ELSE co.pc[d]
    BY <1>1, <2>1 DEF CoTypeOK
  <2>3. CoStack' /\ CoLock' BY <2>1, <2>2, CoQuiet DEF Waiting, Holds, CoHolderPc
  <2>4. CoEvent' BY <1>1, <2>1, <2>2 DEF CoEvent, CoEventPc
  <2> QED BY <2>1, <2>3, <2>4 DEF CoInv
<1>4. ASSUME NEW c \in Coroutine, AwaitSuspend(c) PROVE CoInv'
  <2>1. /\ CoTypeOK' /\ co'.mutex = co.mutex /\ co'.next = co.next /\ co.pc[c] = "awaitSuspend"
        /\ co'.event = IF co.event = 0 THEN c ELSE co.event
        /\ co'.pc = [co.pc EXCEPT ![c] = IF co.event = 0 THEN "suspended" ELSE "lock"]
    BY <1>1, <1>4 DEF AwaitSuspend, CoTypeOK, CoEventPc, CoState
  <2>2. \A d \in Coroutine : co'.pc[d] = IF d = c THEN (IF co.event = 0 THEN "suspended" ELSE "lock") ELSE co.pc[d]
    BY <1>1, <2>1 DEF CoTypeOK
  <2>3. CoStack' /\ CoLock' BY <2>1, <2>2, CoQuiet DEF Waiting, Holds, CoHolderPc
  <2>4. c = AwaitsEvent BY <1>1, <2>1 DEF CoEvent, CoEventPc
  <2>5. co.event # 0 => co.event = 1
    <3>1. co.event \in Coroutine => co.event = c BY <1>1, <2>4 DEF CoEvent, CoEventPc
    <3> QED BY <1>1, <2>1, <3>1 DEF CoEvent, CoTypeOK, CoState
  <2>6. CoEvent' BY <1>1, <2>1, <2>2, <2>4, <2>5 DEF CoEvent, CoEventPc
  <2> QED BY <2>1, <2>3, <2>6 DEF CoInv
<1> QED BY <1>2, <1>3, <1>4

\* What Acquired does, of a mutex that is unlocked.
LEMMA CoAcquires ==
  ASSUME CoInv, NEW c \in Coroutine, co.pc[c] \in {"lock", "suspend"}, co.mutex = kUnlocked, co' = Acquired(c)
  PROVE  CoInv'
<1> USE CoroAssumption DEF kUnlocked, kLockedNoWaiters, kSet
<1>1. CoTypeOK /\ CoStack /\ CoLock /\ CoEvent BY DEF CoInv
<1>2. /\ CoTypeOK' /\ co'.mutex = 1 /\ co'.next = co.next /\ co'.event = co.event
      /\ co'.pc = [co.pc EXCEPT ![c] = "critical"]
  <2>1. co' = [mutex |-> 1, event |-> co.event, next |-> co.next, seen |-> co.seen,
               locks |-> [co.locks EXCEPT ![c] = @ + 1], pc |-> [co.pc EXCEPT ![c] = "critical"]]
    BY <1>1 DEF Acquired, CoTypeOK
  <2>2. [co.locks EXCEPT ![c] = @ + 1] \in [Coroutine -> Nat] BY SMTT(30), <1>1 DEF CoTypeOK
  <2> QED BY SMTT(30), <1>1, <2>1, <2>2 DEF CoTypeOK, CoState, CoHolderPc
<1>3. \A d \in Coroutine : co'.pc[d] = IF d = c THEN "critical" ELSE co.pc[d] BY <1>1, <1>2 DEF CoTypeOK
<1>4. \A d \in Coroutine : (Waiting(d)' <=> Waiting(d)) /\ (Holds(d)' <=> d = c)
  BY <1>1, <1>3 DEF Waiting, Holds, CoHolderPc, CoLock
<1>5. CoStack' BY <1>1, <1>2, <1>4 DEF CoStack
<1>6. CoLock' BY SMTT(30), <1>2, <1>4 DEF CoLock
<1>7. CoEvent' BY <1>1, <1>2, <1>3 DEF CoEvent, CoEventPc
<1> QED BY <1>2, <1>5, <1>6, <1>7 DEF CoInv

\* The steps of lock(): await_ready, the load, and the compare-exchange that
\* acquires or pushes.
LEMMA CoLockStep ==
  ASSUME CoInv, NEW c \in Coroutine, LockReady(c) \/ LockLoad(c) \/ LockSuspend(c)
  PROVE  CoInv'
<1> USE CoroAssumption DEF kUnlocked, kLockedNoWaiters, kSet
<1>1. CoTypeOK /\ CoStack /\ CoLock /\ CoEvent BY DEF CoInv
<1>2. CASE LockReady(c) /\ co.mutex = 0 BY <1>2, CoAcquires DEF LockReady
<1>3. CASE LockReady(c) /\ co.mutex # 0
  <2>1. /\ CoTypeOK' /\ co'.mutex = co.mutex /\ co'.next = co.next /\ co'.event = co.event
        /\ co.pc[c] = "lock" /\ co'.pc = [co.pc EXCEPT ![c] = "load"]
    BY <1>1, <1>3 DEF LockReady, CoTypeOK
  <2>2. \A d \in Coroutine : co'.pc[d] = IF d = c THEN "load" ELSE co.pc[d] BY <1>1, <2>1 DEF CoTypeOK
  <2>3. CoStack' /\ CoLock' BY <2>1, <2>2, CoQuiet DEF Waiting, Holds, CoHolderPc
  <2>4. CoEvent' BY <1>1, <2>1, <2>2 DEF CoEvent, CoEventPc
  <2> QED BY <2>1, <2>3, <2>4 DEF CoInv
<1>4. CASE LockLoad(c)
  <2>1. /\ CoTypeOK' /\ co'.mutex = co.mutex /\ co'.next = co.next /\ co'.event = co.event
        /\ co.pc[c] = "load" /\ co'.pc = [co.pc EXCEPT ![c] = "suspend"]
    BY <1>1, <1>4 DEF LockLoad, CoTypeOK
  <2>2. \A d \in Coroutine : co'.pc[d] = IF d = c THEN "suspend" ELSE co.pc[d] BY <1>1, <2>1 DEF CoTypeOK
  <2>3. CoStack' /\ CoLock' BY <2>1, <2>2, CoQuiet DEF Waiting, Holds, CoHolderPc
  <2>4. CoEvent' BY <1>1, <2>1, <2>2 DEF CoEvent, CoEventPc
  <2> QED BY <2>1, <2>3, <2>4 DEF CoInv
<1>5. CASE LockSuspend(c) /\ co.mutex # co.seen[c]
  <2>1. CoTypeOK' /\ co'.mutex = co.mutex /\ co'.next = co.next /\ co'.event = co.event /\ co'.pc = co.pc
    BY SMTT(30), <1>1, <1>5 DEF LockSuspend, Reload, CoTypeOK
  <2>2. CoStack' /\ CoLock' BY <2>1, CoQuiet DEF Waiting, Holds
  <2>3. CoEvent' BY <1>1, <2>1 DEF CoEvent
  <2> QED BY <2>1, <2>2, <2>3 DEF CoInv
<1>6. CASE LockSuspend(c) /\ co.mutex = co.seen[c] /\ co.mutex = 0 BY <1>6, CoAcquires DEF LockSuspend
<1>7. CASE LockSuspend(c) /\ co.mutex = co.seen[c] /\ co.mutex # 0
  <2>1. /\ CoTypeOK' /\ co'.mutex = c /\ co'.next = [co.next EXCEPT ![c] = co.mutex] /\ co'.event = co.event
        /\ co.pc[c] = "suspend" /\ co'.pc = [co.pc EXCEPT ![c] = "waiting"]
    <3>1. co' = [mutex |-> c, event |-> co.event, next |-> [co.next EXCEPT ![c] = co.mutex], seen |-> co.seen,
                 locks |-> co.locks, pc |-> [co.pc EXCEPT ![c] = "waiting"]]
      <4>1. co' = [co EXCEPT !.next[c] = co.mutex, !.mutex = c, !.pc[c] = "waiting"] BY <1>7 DEF LockSuspend
      <4> QED BY <1>1, <4>1 DEF CoTypeOK
    <3>2. co.pc[c] = "suspend" BY <1>7 DEF LockSuspend
    <3> QED BY <1>1, <3>1, <3>2 DEF CoTypeOK, CoState
  <2>2. \A d \in Coroutine : /\ co'.pc[d] = IF d = c THEN "waiting" ELSE co.pc[d]
                             /\ co'.next[d] = IF d = c THEN co.mutex ELSE co.next[d]
    BY <1>1, <2>1 DEF CoTypeOK
  <2>3. ~Waiting(c) /\ \A d \in Coroutine : (Waiting(d)' <=> Waiting(d) \/ d = c) /\ (Holds(d)' <=> Holds(d))
    BY <2>1, <2>2 DEF Waiting, Holds, CoHolderPc
  <2>4. CoStack'
    <3>1. co'.mutex = c /\ \A d \in Coroutine : co'.mutex = d => Waiting(d)' BY <2>1, <2>3
    <3>2. \A d \in Coroutine : Waiting(d)' => co'.next[d] # 0 BY <1>1, <1>7, <2>2, <2>3 DEF CoStack
    <3>3. \A d, e \in Coroutine : Waiting(d)' /\ co'.next[d] = e => Waiting(e)' /\ e # c
      BY SMTT(30), <1>1, <2>2, <2>3 DEF CoStack
    <3>4. \A d, e \in Coroutine : Waiting(d)' /\ Waiting(e)' /\ d # e /\ co'.next[d] = co'.next[e] => co'.next[d] \notin Coroutine
      BY SMTT(30), <1>1, <2>2, <2>3 DEF CoStack
    <3> QED BY <3>1, <3>2, <3>3, <3>4 DEF CoStack
  <2>5. CoLock' BY <1>1, <1>7, <2>1, <2>3 DEF CoLock
  <2>6. CoEvent' BY SMTT(30), <1>1, <2>1, <2>2 DEF CoEvent, CoEventPc
  <2> QED BY <2>1, <2>4, <2>5, <2>6 DEF CoInv
<1> QED BY <1>2, <1>3, <1>4, <1>5, <1>6, <1>7

\* The steps of unlock(): release, or hand over to the top waiter.
LEMMA CoUnlockStep ==
  ASSUME CoInv, NEW c \in Coroutine, UnlockLoad(c) \/ Unlock(c) \/ HandOver(c)
  PROVE  CoInv'
<1> USE CoroAssumption DEF kUnlocked, kLockedNoWaiters, kSet
<1>1. CoTypeOK /\ CoStack /\ CoLock /\ CoEvent BY DEF CoInv
<1>2. CASE UnlockLoad(c)
  <2>1. /\ CoTypeOK' /\ co'.mutex = co.mutex /\ co'.next = co.next /\ co'.event = co.event
        /\ co.pc[c] = "critical" /\ co'.pc = [co.pc EXCEPT ![c] = "unlock"]
    BY <1>1, <1>2 DEF UnlockLoad, CoTypeOK, CoHolderPc
  <2>2. \A d \in Coroutine : co'.pc[d] = IF d = c THEN "unlock" ELSE co.pc[d] BY <1>1, <2>1 DEF CoTypeOK
  <2>3. CoStack' /\ CoLock' BY <2>1, <2>2, CoQuiet DEF Waiting, Holds, CoHolderPc
  <2>4. CoEvent' BY <1>1, <2>1, <2>2 DEF CoEvent, CoEventPc
  <2> QED BY <2>1, <2>3, <2>4 DEF CoInv
<1>3. CASE (Unlock(c) \/ HandOver(c)) /\ co.mutex # co.seen[c]
  <2>1. CoTypeOK' /\ co'.mutex = co.mutex /\ co'.next = co.next /\ co'.event = co.event /\ co'.pc = co.pc
    BY SMTT(30), <1>1, <1>3 DEF Unlock, HandOver, Reload, CoTypeOK
  <2>2. CoStack' /\ CoLock' BY <2>1, CoQuiet DEF Waiting, Holds
  <2>3. CoEvent' BY <1>1, <2>1 DEF CoEvent
  <2> QED BY <2>1, <2>2, <2>3 DEF CoInv
<1>4. AfterUnlock(c) \in {"lock", "finished"} BY DEF AfterUnlock
<1>5. CASE Unlock(c) /\ co.mutex = co.seen[c]
  <2>1. /\ CoTypeOK' /\ co.mutex = 1 /\ co'.mutex = 0 /\ co'.next = co.next /\ co'.event = co.event
        /\ co.pc[c] = "unlock" /\ co'.pc = [co.pc EXCEPT ![c] = AfterUnlock(c)]
    <3>1. co' = [mutex |-> 0, event |-> co.event, next |-> co.next, seen |-> co.seen,
                 locks |-> co.locks, pc |-> [co.pc EXCEPT ![c] = AfterUnlock(c)]]
      BY <1>1, <1>5 DEF Unlock, CoTypeOK
    <3>2. co.pc[c] = "unlock" /\ co.mutex = 1 BY <1>5 DEF Unlock
    <3> QED BY <1>1, <1>4, <3>1, <3>2 DEF CoTypeOK, CoState
  <2>2. \A d \in Coroutine : co'.pc[d] = IF d = c THEN AfterUnlock(c) ELSE co.pc[d] BY <1>1, <2>1 DEF CoTypeOK
  <2>3. Holds(c) /\ \A d \in Coroutine : (Waiting(d)' <=> Waiting(d)) /\ (Holds(d)' <=> Holds(d) /\ d # c)
    BY <1>4, <2>1, <2>2 DEF Waiting, Holds, CoHolderPc
  <2>4. CoStack' BY <1>1, <2>1, <2>3 DEF CoStack
  <2>5. CoLock' BY <1>1, <2>1, <2>3 DEF CoLock
  <2>6. CoEvent' BY <1>1, <1>4, <2>1, <2>2 DEF CoEvent, CoEventPc
  <2> QED BY <2>1, <2>4, <2>5, <2>6 DEF CoInv
<1>6. CASE HandOver(c) /\ co.mutex = co.seen[c]
  <2>1. co.pc[c] = "unlock" /\ Holds(c) BY <1>6 DEF HandOver, Holds, CoHolderPc
  <2>2. PICK h \in Coroutine : h = co.mutex /\ Waiting(h)
    BY <1>1, <1>6, <2>1 DEF HandOver, CoLock, CoStack, CoTypeOK, CoState
  <2>3. h # c BY <2>1, <2>2 DEF Waiting
  <2>4. /\ CoTypeOK' /\ co'.mutex = co.next[h] /\ co'.next = co.next /\ co'.event = co.event
        /\ co'.pc = [co.pc EXCEPT ![c] = AfterUnlock(c), ![h] = "critical"]
    <3>1. co' = [mutex |-> co.next[h], event |-> co.event, next |-> co.next, seen |-> co.seen,
                 locks |-> [co.locks EXCEPT ![h] = @ + 1],
                 pc |-> [co.pc EXCEPT ![c] = AfterUnlock(c), ![h] = "critical"]]
      <4>1. co' = [co EXCEPT !.mutex = co.next[h], !.locks[h] = @ + 1,
                             !.pc[c] = AfterUnlock(c), !.pc[h] = "critical"]
        BY <1>6, <2>2 DEF HandOver
      <4> HIDE DEF AfterUnlock
      <4> QED BY <1>1, <4>1 DEF CoTypeOK
    <3>2. [co.locks EXCEPT ![h] = @ + 1] \in [Coroutine -> Nat] BY SMTT(30), <1>1 DEF CoTypeOK
    <3> QED BY <1>1, <1>4, <3>1, <3>2 DEF CoTypeOK, CoHolderPc
  <2>5. \A d \in Coroutine : co'.pc[d] = IF d = h THEN "critical" ELSE IF d = c THEN AfterUnlock(c) ELSE co.pc[d]
    BY <1>1, <2>4 DEF CoTypeOK
  <2>6. \A d \in Coroutine : (Waiting(d)' <=> Waiting(d) /\ d # h) /\ (Holds(d)' <=> d = h)
    BY <1>1, <1>4, <2>1, <2>3, <2>5 DEF Waiting, Holds, CoHolderPc, CoLock
  <2>7. CoStack' BY SMTT(30), <1>1, <2>2, <2>4, <2>6 DEF CoStack
  <2>8. CoLock' BY <1>1, <2>2, <2>4, <2>6 DEF CoLock, CoStack
  <2>9. CoEvent' BY SMTT(30), <1>1, <1>4, <2>1, <2>2, <2>4, <2>5 DEF CoEvent, CoEventPc, Waiting
  <2> QED BY <2>4, <2>7, <2>8, <2>9 DEF CoInv
<1> QED BY <1>2, <1>3, <1>5, <1>6

\* For any coroutines: no two are past lock() at once, whichever way the mutex
\* passes from one to the next, and none is past the event before it is set.
THEOREM CoMutualExclusion == CoSpec => []CoExclusion
<1>1. CoInv /\ [CoNext]_co => CoInv'
  <2>1. CoInv /\ UNCHANGED co => CoInv'
    BY SMTT(30) DEF CoInv, CoTypeOK, CoStack, CoLock, CoEvent, Waiting, Holds
  <2> QED BY <2>1, CoEventStep, CoLockStep, CoUnlockStep DEF CoNext, CoroutineStep
<1>2. CoInv => CoExclusion BY DEF CoInv, CoLock, CoEvent, CoEventPc, CoHolderPc, Holds, CoExclusion
<1> QED BY <1>1, <1>2, CoInvInit, PTL DEF CoSpec

-----------------------------------------------------------------------------
(* Hedged requests.                                                        *)

HedgedTypeOK ==
  hr \in [pc : [Backend -> {"off", "call", "cas", "set", "ended"}], fulfilled : BOOLEAN,
          value : Backend \cup {NoBackend}, first : Backend \cup {NoBackend}, hedged : BOOLEAN,
          caller : {"waitFor", "get", "returned"}, result : Backend \cup {NoBackend}]

\* The inductive invariant: fulfilled is set by the first backend alone, only
\* that one is between the compare-exchange and set_value, and before the
\* hedge the other threads do not exist.
HedgedIInv ==
  /\ HedgedTypeOK
  /\ ~hr.fulfilled <=> hr.first = NoBackend
  /\ hr.value # NoBackend => hr.value = hr.first
  /\ \A b \in Backend : hr.pc[b] = "set" => b = hr.first /\ hr.value = NoBackend
  /\ ~hr.hedged => hr.first \in {0, NoBackend} /\ \A b \in Backend : b # 0 => hr.pc[b] = "off"
  /\ hr.caller = "waitFor" => ~hr.hedged
  /\ hr.caller = "returned" => hr.value # NoBackend /\ hr.result = hr.value

\* NoBackend is none of the backends, and backend 0 exists.
LEMMA BackendFacts == NoBackend \notin Backend /\ 0 \in Backend
BY SMTT(30), HedgedAssumption DEF NoBackend, Backend

\* The compare-exchange, whether it succeeds or not.
LEMMA FulfilPreserves ==
  ASSUME HedgedIInv, NEW b \in Backend, Fulfil(b)
  PROVE  HedgedIInv'
<1>1. CASE hr.fulfilled
  <2>1. hr' = [hr EXCEPT !.pc[b] = "ended"] BY <1>1 DEF Fulfil
  <2>2. \A c \in Backend : c # b => hr'.pc[c] = hr.pc[c] BY <2>1 DEF HedgedIInv, HedgedTypeOK
  <2>3. hr'.pc[b] = "ended" BY <2>1 DEF HedgedIInv, HedgedTypeOK
  <2>4. ~hr.hedged => b = 0 BY DEF HedgedIInv, Fulfil
  <2>5. HedgedTypeOK' BY <2>1 DEF HedgedIInv, HedgedTypeOK
  <2> QED BY SMTT(30), <2>1, <2>2, <2>3, <2>4, <2>5 DEF HedgedIInv
<1>2. CASE ~hr.fulfilled
  <2>1. hr' = [hr EXCEPT !.fulfilled = TRUE, !.first = b, !.pc[b] = "set"] BY <1>2 DEF Fulfil
  <2>2. hr.first = NoBackend /\ hr.value = NoBackend /\ \A c \in Backend : hr.pc[c] # "set"
    BY <1>2, BackendFacts DEF HedgedIInv
  <2>3. ~hr.hedged => b = 0 BY DEF HedgedIInv, Fulfil
  <2> QED BY <2>1, <2>2, <2>3, BackendFacts DEF HedgedIInv, HedgedTypeOK
<1> QED BY <1>1, <1>2 DEF HedgedIInv, HedgedTypeOK

\* set_value by the backend that won.
LEMMA SetValuePreserves ==
  ASSUME HedgedIInv, NEW b \in Backend, SetValue(b)
  PROVE  HedgedIInv'
<1>1. b = hr.first /\ hr.value = NoBackend /\ hr.caller # "returned" BY DEF HedgedIInv, SetValue
<1>2. hr' = [hr EXCEPT !.value = b, !.pc[b] = "ended"] BY DEF SetValue
<1>3. \A c \in Backend : hr'.pc[c] # "set" BY <1>1, <1>2 DEF HedgedIInv, HedgedTypeOK
<1> QED BY <1>1, <1>2, <1>3, BackendFacts DEF HedgedIInv, HedgedTypeOK

\* The delay is over: the other threads start, and none of them has answered.
LEMMA WaitTimeoutPreserves ==
  ASSUME HedgedIInv, WaitTimeout
  PROVE  HedgedIInv'
<1> DEFINE started == [b \in Backend |-> IF b = 0 THEN hr.pc[b] ELSE "call"]
<1>1. hr' = [hr EXCEPT !.hedged = TRUE, !.caller = "get", !.pc = started] BY DEF WaitTimeout
<1>2. /\ started \in [Backend -> {"off", "call", "cas", "set", "ended"}]
      /\ \A b \in Backend : started[b] = "set" => hr.pc[b] = "set"
  BY DEF HedgedIInv, HedgedTypeOK
<1> HIDE DEF started
<1> QED BY <1>1, <1>2 DEF HedgedIInv, HedgedTypeOK

\* For any number of backends and any timing: the promise is set once, by the
\* backend that answered first, and hedgedCall returns that answer.
THEOREM HedgedFirstAnswerWins == HedgedSpec => []FirstAnswerWins
<1>1. HedgedInit => HedgedIInv BY SMTT(30), BackendFacts DEF HedgedInit, HedgedIInv, HedgedTypeOK
<1>2. HedgedIInv /\ [HedgedNext]_hr => HedgedIInv'
  <2> SUFFICES ASSUME HedgedIInv, [HedgedNext]_hr PROVE HedgedIInv' OBVIOUS
  <2>1. ASSUME NEW b \in Backend, BackendAnswer(b) PROVE HedgedIInv'
    BY <2>1, BackendFacts DEF BackendAnswer, HedgedIInv, HedgedTypeOK
  <2>2. CASE WaitReady BY <2>2 DEF WaitReady, HedgedIInv, HedgedTypeOK
  <2>3. CASE Get BY <2>3 DEF Get, HedgedIInv, HedgedTypeOK
  <2>4. CASE UNCHANGED hr BY <2>4 DEF HedgedIInv, HedgedTypeOK
  <2> QED BY <2>1, <2>2, <2>3, <2>4, FulfilPreserves, SetValuePreserves, WaitTimeoutPreserves
          DEF HedgedNext, Caller, BackendThread
<1>3. HedgedIInv => FirstAnswerWins BY BackendFacts DEF HedgedIInv, FirstAnswerWins
<1> QED BY <1>1, <1>2, <1>3, PTL DEF HedgedSpec
=============================================================================
