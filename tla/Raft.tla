-------------------------------- MODULE Raft --------------------------------
(***************************************************************************)
(* networking/raft: leader election and log replication of RaftNode.       *)
(*                                                                         *)
(* Every RPC handler computes under mu_ and only then, with the lock       *)
(* released, runs the onCommit callbacks and writes its answer to the      *)
(* socket.  A critical section is one action here.  What the thread still  *)
(* has to do after the unlock stays behind as state:                       *)
(*  - a frame is in net.  The socket between two nodes is FIFO, but the    *)
(*    ticker, the receiver thread and a client thread each write to it     *)
(*    after their own unlock: frames of different threads may overtake one *)
(*    another, frames of one thread may not (at most one is unread);       *)
(*  - callbacks[p][q] is what the receiver thread of p for peer q drained  *)
(*    and has not handed to onCommit_ yet.  Until it is empty that thread  *)
(*    neither sends its answer nor reads its next frame;                   *)
(*  - timedOut[p] is the ticker's local variable, read under one lock and  *)
(*    acted upon under the next.                                           *)
(* Time is abstracted: an election deadline may pass whenever a node is    *)
(* not leader.                                                             *)
(*                                                                         *)
(* An operator named Bug... is a wrong variant of the definition after it, *)
(* used to confirm that a property notices the mistake.                    *)
(***************************************************************************)
EXTENDS Integers, Sequences, FiniteSets

CONSTANTS
  Node,         \* the ranks of the mesh
  Command,      \* commands; each is proposed at most once, by its own thread
  Nobody,       \* -1 in votedFor_ and leaderId_
  MaxTerm,      \* bound: no election beyond this term
  MaxInFlight,  \* bound: unread frames in the mesh
  MaxStops      \* bound: nodes that may be stopped

ASSUME RaftAssumption ==
  /\ IsFiniteSet(Node) /\ Node # {} /\ Nobody \notin Node
  /\ MaxTerm \in Nat /\ MaxInFlight \in Nat \ {0} /\ MaxStops \in Nat

VARIABLES
  state,         \* state_: "FOLLOWER", "CANDIDATE" or "LEADER"
  currentTerm,   \* currentTerm_
  votedFor,      \* votedFor_
  leaderId,      \* leaderId_
  log,           \* log_ without the sentinel: entry i is log[p][i]
  commitIndex,   \* commitIndex_
  lastApplied,   \* lastApplied_
  nextIndex,     \* peerState_[q].nextIndex
  matchIndex,    \* peerState_[q].matchIndex
  votesGranted,  \* votesGranted_, a counter
  running,       \* running_, FALSE once stop() has joined every thread
  timedOut,      \* tickerLoop's local of the same name
  net,           \* frames on their way
  callbacks,     \* newlyCommitted of a receiver thread, not yet called back
  applied,       \* what onCommit_ has been called with, in order
  client         \* the thread in propose(), one per command

nodeVars   == <<state, currentTerm, votedFor, leaderId, votesGranted>>
logVars    == <<log, commitIndex, lastApplied>>
peerVars   == <<nextIndex, matchIndex>>
threadVars == <<running, timedOut>>
vars == <<nodeVars, logVars, peerVars, threadVars, net, callbacks, applied, client>>

Peer(p) == Node \ {p}
Majority(n) == n * 2 > Cardinality(Node)

LastIndex(lg) == Len(lg)
TermAt(lg, i) == IF i = 0 THEN 0 ELSE lg[i].term
LastTerm(lg) == TermAt(lg, LastIndex(lg))

-----------------------------------------------------------------------------
(* Frames.  sendFrame drops a frame for a peer that is gone.               *)

\* Thread t of p has nothing unread on the socket to q.
Free(p, q, t) == ~\E f \in net : f.from = p /\ f.to = q /\ f.thread = t

\* A spontaneous send (not an answer) of n frames is within the bounds.
CanSend(p, t, dests) ==
  /\ Cardinality(net) + Cardinality(dests) <= MaxInFlight
  /\ \A q \in dests : Free(p, q, t)

Deliverable(frames) == {f \in frames : running[f.to]}

\* The receiver thread of m.to for m.from is in recvFrame and m is there to
\* be read.  An answer is written after the sender's callbacks.
Readable(m, tag) ==
  /\ m.tag = tag
  /\ callbacks[m.to][m.from] = <<>>
  /\ m.thread = "receiver" => callbacks[m.from][m.to] = <<>>

Received(m) == net' = net \ {m}

\* The receiver thread that read m answers on the same socket.
Answer(m, frame) ==
  /\ Free(m.to, m.from, "receiver")
  /\ net' = (net \ {m}) \cup Deliverable({frame})

RequestVoteFrame(p, q, term) ==
  [tag |-> "RequestVote", from |-> p, to |-> q, thread |-> "ticker", term |-> term,
   lastLogIndex |-> LastIndex(log[p]), lastLogTerm |-> LastTerm(log[p])]

AppendEntriesFrame(p, q, t) ==
  LET prev == nextIndex[p][q] - 1 IN
  [tag |-> "AppendEntries", from |-> p, to |-> q, thread |-> t, term |-> currentTerm[p],
   prevLogIndex |-> prev, prevLogTerm |-> TermAt(log[p], prev),
   leaderCommit |-> commitIndex[p],
   entries |-> SubSeq(log[p], nextIndex[p][q], LastIndex(log[p]))]

RequestVoteRespFrame(m, term, voteGranted) ==
  [tag |-> "RequestVoteResp", from |-> m.to, to |-> m.from, thread |-> "receiver",
   term |-> term, voteGranted |-> voteGranted]

AppendEntriesRespFrame(m, term, success, match) ==
  [tag |-> "AppendEntriesResp", from |-> m.to, to |-> m.from, thread |-> "receiver",
   term |-> term, success |-> success, matchIndex |-> match]

-----------------------------------------------------------------------------
(* Role transitions.                                                       *)

becomeFollower(p, newTerm) ==
  /\ state' = [state EXCEPT ![p] = "FOLLOWER"]
  /\ currentTerm' = [currentTerm EXCEPT ![p] = newTerm]
  /\ votedFor' = [votedFor EXCEPT ![p] = Nobody]

FirstNextIndex(lg) == LastIndex(lg) + 1

becomeLeader(p) ==
  /\ state' = [state EXCEPT ![p] = "LEADER"]
  /\ leaderId' = [leaderId EXCEPT ![p] = p]
  /\ nextIndex' = [nextIndex EXCEPT ![p] = [q \in Node |-> FirstNextIndex(log[p])]]
  /\ matchIndex' = [matchIndex EXCEPT ![p] = [q \in Node |-> 0]]

Idle == [phase |-> "idle", node |-> Nobody, index |-> 0, todo |-> {}]

Init ==
  /\ state = [p \in Node |-> "FOLLOWER"]
  /\ currentTerm = [p \in Node |-> 0]
  /\ votedFor = [p \in Node |-> Nobody]
  /\ leaderId = [p \in Node |-> Nobody]
  /\ votesGranted = [p \in Node |-> 0]
  /\ log = [p \in Node |-> <<>>]
  /\ commitIndex = [p \in Node |-> 0]
  /\ lastApplied = [p \in Node |-> 0]
  /\ nextIndex = [p \in Node |-> [q \in Node |-> 1]]
  /\ matchIndex = [p \in Node |-> [q \in Node |-> 0]]
  /\ running = [p \in Node |-> TRUE]
  /\ timedOut = [p \in Node |-> FALSE]
  /\ net = {}
  /\ callbacks = [p \in Node |-> [q \in Node |-> <<>>]]
  /\ applied = [p \in Node |-> <<>>]
  /\ client = [c \in Command |-> Idle]

-----------------------------------------------------------------------------
(* The ticker thread.                                                      *)

\* The first critical section of an iteration finds the deadline passed.
tickerTimedOut(p) ==
  /\ running[p] /\ ~timedOut[p]
  /\ state[p] # "LEADER"
  /\ currentTerm[p] < MaxTerm
  /\ timedOut' = [timedOut EXCEPT ![p] = TRUE]
  /\ UNCHANGED <<nodeVars, logVars, peerVars, running, net, callbacks, applied, client>>

\* becomeCandidate in a second critical section, which does not look at
\* state_ or at the deadline again.
startElection(p) ==
  /\ timedOut[p]
  /\ currentTerm[p] < MaxTerm
  /\ CanSend(p, "ticker", Peer(p))
  /\ timedOut' = [timedOut EXCEPT ![p] = FALSE]
  /\ currentTerm' = [currentTerm EXCEPT ![p] = @ + 1]
  /\ votedFor' = [votedFor EXCEPT ![p] = p]
  /\ votesGranted' = [votesGranted EXCEPT ![p] = 1]
  /\ IF Peer(p) = {}
     THEN becomeLeader(p)
     ELSE /\ state' = [state EXCEPT ![p] = "CANDIDATE"]
          /\ leaderId' = [leaderId EXCEPT ![p] = Nobody]
          /\ UNCHANGED peerVars
  /\ net' = net \cup Deliverable({RequestVoteFrame(p, q, currentTerm[p] + 1) : q \in Peer(p)})
  /\ UNCHANGED <<logVars, running, callbacks, applied, client>>

\* One sendAppendEntriesTo of the ticker's sendHeartbeats.  It looks at
\* state_ again, so what the iteration read before does not matter.
sendHeartbeat(p, q) ==
  /\ running[p] /\ ~timedOut[p] /\ q \in Peer(p)
  /\ state[p] = "LEADER"
  /\ CanSend(p, "ticker", {q})
  /\ net' = net \cup Deliverable({AppendEntriesFrame(p, q, "ticker")})
  /\ UNCHANGED <<nodeVars, logVars, peerVars, threadVars, callbacks, applied, client>>

-----------------------------------------------------------------------------
(* The receiver thread of p for peer q.                                    *)

BugMayVoteFor(voted, candidate) == TRUE
MayVoteFor(voted, candidate) == voted \in {Nobody, candidate}

BugLogOk(lg, m) == m.lastLogIndex >= 0
LogOk(lg, m) ==
  \/ m.lastLogTerm > LastTerm(lg)
  \/ m.lastLogTerm = LastTerm(lg) /\ m.lastLogIndex >= LastIndex(lg)

handleRequestVote(m) ==
  /\ Readable(m, "RequestVote")
  /\ LET p     == m.to
         newer == m.term > currentTerm[p]
         term  == IF newer THEN m.term ELSE currentTerm[p]
         voted == IF newer THEN Nobody ELSE votedFor[p]
         granted == m.term = term /\ MayVoteFor(voted, m.from) /\ LogOk(log[p], m)
     IN /\ state' = [state EXCEPT ![p] = IF newer THEN "FOLLOWER" ELSE @]
        /\ currentTerm' = [currentTerm EXCEPT ![p] = term]
        /\ votedFor' = [votedFor EXCEPT ![p] = IF granted THEN m.from ELSE voted]
        /\ Answer(m, RequestVoteRespFrame(m, term, granted))
  /\ UNCHANGED <<leaderId, votesGranted, logVars, peerVars, threadVars, callbacks, applied, client>>

handleRequestVoteResponse(m) ==
  /\ Readable(m, "RequestVoteResp")
  /\ LET p == m.to
     IN    \/ /\ m.term > currentTerm[p]
              /\ becomeFollower(p, m.term)
              /\ UNCHANGED <<leaderId, votesGranted, peerVars>>
           \/ /\ m.term <= currentTerm[p]
              /\ state[p] # "CANDIDATE" \/ m.term # currentTerm[p] \/ ~m.voteGranted
              /\ UNCHANGED <<nodeVars, peerVars>>
           \/ /\ state[p] = "CANDIDATE" /\ m.term = currentTerm[p] /\ m.voteGranted
              /\ votesGranted' = [votesGranted EXCEPT ![p] = @ + 1]
              /\ IF Majority(votesGranted[p] + 1)
                 THEN becomeLeader(p)
                 ELSE UNCHANGED <<state, leaderId, peerVars>>
              /\ UNCHANGED <<currentTerm, votedFor>>
  /\ Received(m)
  /\ UNCHANGED <<logVars, threadVars, callbacks, applied, client>>

\* log_ after the loop over the entries of an accepted AppendEntries: entries
\* of the same term are kept, the first conflicting one truncates.
Merged(lg, prev, entries) ==
  LET last == prev + Len(entries)
      conflicts == {i \in prev + 1 .. last : i <= Len(lg) /\ lg[i].term # entries[i - prev].term}
      from == IF conflicts = {} THEN Len(lg) + 1
              ELSE CHOOSE i \in conflicts : \A j \in conflicts : i <= j
  IN SubSeq(lg, 1, from - 1) \o SubSeq(entries, from - prev, Len(entries))

PrevMatches(lg, m) ==
  m.prevLogIndex <= LastIndex(lg) /\ TermAt(lg, m.prevLogIndex) = m.prevLogTerm

BugAcknowledged(m, lg) == LastIndex(lg)
Acknowledged(m, lg) == m.prevLogIndex + Len(m.entries)

\* lastApplied_ catches up with commitIndex_ and the drained entries are
\* left with the receiver thread of p for q.
drain(p, q) ==
  /\ lastApplied' = [lastApplied EXCEPT ![p] = commitIndex'[p]]
  /\ callbacks' = [callbacks EXCEPT ![p][q] =
       SubSeq(log'[p], lastApplied[p] + 1, commitIndex'[p])]

handleAppendEntries(m) ==
  /\ Readable(m, "AppendEntries")
  /\ LET p     == m.to
         stale == m.term < currentTerm[p]
         ok    == ~stale /\ PrevMatches(log[p], m)
         reset == ~stale /\ (m.term > currentTerm[p] \/ state[p] # "FOLLOWER")
         newLog == IF ok THEN Merged(log[p], m.prevLogIndex, m.entries) ELSE log[p]
         commits == ok /\ m.leaderCommit > commitIndex[p]
         answer == AppendEntriesRespFrame(m, IF stale THEN currentTerm[p] ELSE m.term, ok,
                     IF ok THEN Acknowledged(m, newLog) ELSE 0)
     IN /\ IF reset THEN becomeFollower(p, m.term) ELSE UNCHANGED <<state, currentTerm, votedFor>>
        /\ leaderId' = [leaderId EXCEPT ![p] = IF stale THEN @ ELSE m.from]
        /\ log' = [log EXCEPT ![p] = newLog]
        /\ commitIndex' = [commitIndex EXCEPT ![p] =
             IF ~commits THEN @
             ELSE IF m.leaderCommit < Len(newLog) THEN m.leaderCommit ELSE Len(newLog)]
        /\ IF stale THEN UNCHANGED <<lastApplied, callbacks>> ELSE drain(p, m.from)
        /\ Answer(m, answer)
  /\ UNCHANGED <<votesGranted, peerVars, threadVars, applied, client>>

BugAnyTerm(p, n) == TRUE
OfCurrentTerm(p, n) == log[p][n].term = currentTerm[p]

BugReplicas(match, n) == 2 + Cardinality({q \in Node : match[q] >= n})
Replicas(match, n) == 1 + Cardinality({q \in Node : match[q] >= n})

\* commitIndex_ as advanceCommitIndex leaves it, given the acknowledged
\* indexes: the highest entry of the current term a majority holds.
advanceCommitIndex(p, match) ==
  LET committable == {n \in commitIndex[p] + 1 .. LastIndex(log[p]) :
        OfCurrentTerm(p, n) /\ Majority(Replicas(match, n))}
  IN IF committable = {} THEN commitIndex[p]
     ELSE CHOOSE n \in committable : \A k \in committable : n >= k

BugNeverBackedOff(n) == n
BackedOff(n) == IF n > 1 THEN n - 1 ELSE n

handleAppendEntriesResponse(m) ==
  /\ Readable(m, "AppendEntriesResp")
  /\ LET p == m.to
         q == m.from
         acked == IF m.matchIndex > matchIndex[p][q] THEN m.matchIndex ELSE matchIndex[p][q]
     IN    \/ /\ m.term > currentTerm[p]
              /\ becomeFollower(p, m.term)
              /\ UNCHANGED <<leaderId, votesGranted, logVars, peerVars, callbacks>>
           \/ /\ m.term <= currentTerm[p]
              /\ state[p] # "LEADER" \/ m.term # currentTerm[p]
              /\ UNCHANGED <<nodeVars, logVars, peerVars, callbacks>>
           \/ /\ state[p] = "LEADER" /\ m.term = currentTerm[p] /\ m.success
              /\ matchIndex' = [matchIndex EXCEPT ![p][q] = acked]
              /\ nextIndex' = [nextIndex EXCEPT ![p][q] = m.matchIndex + 1]
              /\ commitIndex' = [commitIndex EXCEPT ![p] = advanceCommitIndex(p, matchIndex'[p])]
              /\ UNCHANGED <<nodeVars, log>>
              /\ drain(p, q)
           \/ /\ state[p] = "LEADER" /\ m.term = currentTerm[p] /\ ~m.success
              /\ nextIndex' = [nextIndex EXCEPT ![p][q] = BackedOff(@)]
              /\ UNCHANGED <<nodeVars, logVars, matchIndex, callbacks>>
  /\ Received(m)
  /\ UNCHANGED <<threadVars, applied, client>>

\* The receiver thread, holding no lock, hands an entry to onCommit_.
onCommit(p, q) ==
  /\ callbacks[p][q] # <<>>
  /\ applied' = [applied EXCEPT ![p] = Append(@, Head(callbacks[p][q]))]
  /\ callbacks' = [callbacks EXCEPT ![p][q] = Tail(@)]
  /\ UNCHANGED <<nodeVars, logVars, peerVars, threadVars, net, client>>

-----------------------------------------------------------------------------
(* Client threads in propose().                                            *)

\* A client whose node is not leader gets false at once and may try again
\* elsewhere, which is the same as not having called.
propose(c, p) ==
  /\ client[c].phase = "idle"
  /\ state[p] = "LEADER"
  /\ log' = [log EXCEPT ![p] = Append(@, [term |-> currentTerm[p], command |-> c])]
  /\ client' = [client EXCEPT ![c] = [phase |-> "sending", node |-> p,
                  index |-> LastIndex(log[p]) + 1, todo |-> Peer(p)]]
  /\ UNCHANGED <<nodeVars, commitIndex, lastApplied, peerVars, threadVars, net, callbacks, applied>>

\* One sendAppendEntriesTo of propose's sendHeartbeats.
clientSend(c, q) ==
  LET p == client[c].node IN
  /\ client[c].phase = "sending" /\ q \in client[c].todo
  /\ CanSend(p, "client", {q})
  /\ net' = IF state[p] = "LEADER"
            THEN net \cup Deliverable({AppendEntriesFrame(p, q, "client")})
            ELSE net
  /\ client' = [client EXCEPT ![c].todo = @ \ {q}]
  /\ UNCHANGED <<nodeVars, logVars, peerVars, threadVars, callbacks, applied>>

\* wait_for returns its predicate: when it holds, or when the time is up.
proposeReturn(c) ==
  LET p == client[c].node IN
  /\ client[c].phase = "sending" /\ client[c].todo = {}
  /\ client' = [client EXCEPT ![c].phase =
                  IF commitIndex[p] >= client[c].index THEN "true" ELSE "false"]
  /\ UNCHANGED <<nodeVars, logVars, peerVars, threadVars, net, callbacks, applied>>

-----------------------------------------------------------------------------
\* stop() has joined the ticker and every receiver thread.  Frames for the
\* node are lost from then on.
stop(p) ==
  /\ running[p] /\ ~timedOut[p] /\ \A q \in Node : callbacks[p][q] = <<>>
  /\ Cardinality({q \in Node : ~running[q]}) < MaxStops
  /\ running' = [running EXCEPT ![p] = FALSE]
  /\ net' = {f \in net : f.to # p}
  /\ UNCHANGED <<nodeVars, logVars, peerVars, timedOut, callbacks, applied, client>>

Next ==
  \/ \E p \in Node : tickerTimedOut(p)
  \/ \E p \in Node : startElection(p)
  \/ \E p \in Node, q \in Node : sendHeartbeat(p, q)
  \/ \E m \in net : handleRequestVote(m)
  \/ \E m \in net : handleRequestVoteResponse(m)
  \/ \E m \in net : handleAppendEntries(m)
  \/ \E m \in net : handleAppendEntriesResponse(m)
  \/ \E p \in Node, q \in Node : onCommit(p, q)
  \/ \E c \in Command, p \in Node : propose(c, p)
  \/ \E c \in Command, q \in Node : clientSend(c, q)
  \/ \E c \in Command : proposeReturn(c)
  \/ \E p \in Node : stop(p)

Spec == Init /\ [][Next]_vars

-----------------------------------------------------------------------------
(* Properties.                                                             *)

\* The nodes that act as leader of term t: they are leader, or an
\* AppendEntries of theirs is still on its way.
ActingLeaders(t) ==
  {p \in Node :
     \/ state[p] = "LEADER" /\ currentTerm[p] = t
     \/ \E f \in net : f.from = p /\ f.tag = "AppendEntries" /\ f.term = t}

\* Election safety.  Votes are counted without looking at who sent them
\* (votesGranted_ += 1), and becomeFollower clears votedFor_ even when the
\* term stays the same; still no term has two leaders.
OneLeaderPerTerm ==
  \A t \in 1..MaxTerm : \A p, q \in ActingLeaders(t) : p = q

Committed(p) == SubSeq(log[p], 1, commitIndex[p])

\* State machine safety: two nodes that both committed index i committed the
\* same entry there.
CommittedEntriesAgree ==
  \A p, q \in Node :
    /\ commitIndex[p] <= LastIndex(log[p])
    /\ commitIndex[p] <= commitIndex[q] => Committed(p) = SubSeq(log[q], 1, commitIndex[p])

UpToDate(s, v) ==
  \/ LastTerm(log[s]) > LastTerm(log[v])
  \/ LastTerm(log[s]) = LastTerm(log[v]) /\ LastIndex(log[s]) >= LastIndex(log[v])

\* Leader completeness, looking ahead: a node whose log a majority would
\* vote for holds every committed entry.  This is what the term check of
\* advanceCommitIndex is for.
ElectableHoldCommitted ==
  \A p, s \in Node :
    Majority(Cardinality({v \in Node : UpToDate(s, v)}))
      => /\ LastIndex(log[s]) >= commitIndex[p]
         /\ SubSeq(log[s], 1, commitIndex[p]) = Committed(p)

\* What a leader counts as replicated is replicated: as long as q is in the
\* leader's term, its log agrees with the leader's up to matchIndex, however
\* frames of the ticker and of clients overtook one another.
MatchIndexReplicated ==
  \A p, q \in Node :
    (p # q /\ state[p] = "LEADER" /\ currentTerm[q] = currentTerm[p])
      => /\ matchIndex[p][q] <= LastIndex(log[p]) /\ matchIndex[p][q] <= LastIndex(log[q])
         /\ SubSeq(log[p], 1, matchIndex[p][q]) = SubSeq(log[q], 1, matchIndex[p][q])

\* No step truncates or replaces an entry a node has committed, and
\* commitIndex_ never moves back.
CommittedPrefixStable ==
  [][\A p \in Node :
       /\ commitIndex'[p] >= commitIndex[p]
       /\ SubSeq(log'[p], 1, commitIndex[p]) = Committed(p)]_vars

\* The operating system schedules every thread: receiver threads handle what
\* is there to be read, the ticker of a leader keeps sending heartbeats, a
\* client thread finishes its sends and callbacks return.
Handle(m) ==
  \/ handleRequestVote(m)
  \/ handleRequestVoteResponse(m)
  \/ handleAppendEntries(m)
  \/ handleAppendEntriesResponse(m)

ThreadFairness ==
  /\ \A p, q \in Node :
       /\ WF_vars(sendHeartbeat(p, q))
       /\ WF_vars(\E m \in net : m.from = p /\ m.to = q /\ Handle(m))
       /\ WF_vars(onCommit(p, q))
  /\ \A c \in Command : WF_vars(\E q \in Node : clientSend(c, q))

AppliedAt(q, c) == \E i \in DOMAIN applied[q] : applied[q][i].command = c

\* A command accepted by a leader nobody deposes reaches onCommit_ on every
\* node that keeps running: heartbeats retry until nextIndex has backed off
\* far enough, and an entry of an older term is applied along with it.
AcceptedEventuallyApplied ==
  \A c \in Command, p, q \in Node :
    (client[c].phase = "sending" /\ client[c].node = p)
      ~> (AppliedAt(q, c) \/ ~running[q] \/ ~running[p])

-----------------------------------------------------------------------------
(* What comments and tests say of the code and the code does not do.       *)

\* raft_test.cpp: commands commit "in order, on every node's onCommit
\* callback".  Two receiver threads of a leader drain under the lock one
\* after the other and call back after it in either order.
CallbacksInLogOrder ==
  \A p \in Node : applied[p] = SubSeq(log[p], 1, Len(applied[p]))

\* raft.h: propose "blocks until the resulting log entry commits".  It waits
\* for commitIndex_ >= index, which another leader's entry at that index
\* satisfies as well.
ProposeTrueCommitted ==
  \A c \in Command : client[c].phase = "true"
    => \E i \in 1..commitIndex[client[c].node] : log[client[c].node][i].command = c
=============================================================================
