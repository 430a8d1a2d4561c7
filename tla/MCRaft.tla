------------------------------- MODULE MCRaft -------------------------------
(* Small instances of Raft for TLC. *)
EXTENDS Raft, TLC

NodeSymmetry == Permutations(Node)
NodeCommandSymmetry == Permutations(Node) \cup Permutations(Command)

\* What the future of the safety properties depends on: no action of a node
\* that is not leader reads its peerState_, nobody reads leaderId_, what
\* onCommit_ was called with or how a finished propose() ended, and
\* votesGranted_ counts only in a candidate.
SafetyView ==
  <<state, currentTerm, votedFor, log, commitIndex, lastApplied, running, timedOut, net, callbacks,
    [p \in Node |-> IF state[p] = "CANDIDATE" THEN votesGranted[p] ELSE 0],
    [p \in Node |-> IF state[p] = "LEADER" THEN <<nextIndex[p], matchIndex[p]>> ELSE <<>>],
    [c \in Command |-> IF client[c].phase = "sending" THEN <<client[c].node, client[c].todo>>
                       ELSE <<client[c].phase = "idle">>]>>

\* Bounds of the replication run: a ticker acts at once on the deadline it
\* saw passed, and one client at a time is sending.
PromptTicker == (\E p \in Node : timedOut[p]) => \A p \in Node : ~timedOut'[p]
OneSender == Cardinality({c \in Command : client[c].phase = "sending" /\ client[c].todo # {}}) <= 1

\* A reachable state to start from: a was leader of term 1 and proposed x,
\* which reached nobody; b won term 2 with the third node's vote and has
\* just proposed y.  a has seen term 2 and rejected b's RequestVote; x's
\* client has given up.
OldTermInit ==
  \E a, b \in Node, x, y \in Command :
    /\ a # b /\ x # y
    /\ state = [p \in Node |-> IF p = b THEN "LEADER" ELSE "FOLLOWER"]
    /\ currentTerm = [p \in Node |-> 2]
    /\ votedFor = [p \in Node |-> IF p = a THEN Nobody ELSE b]
    /\ leaderId = [p \in Node |-> IF p = b THEN b ELSE IF p = a THEN a ELSE Nobody]
    /\ votesGranted = [p \in Node |-> IF p \in {a, b} THEN 2 ELSE 0]
    /\ log = [p \in Node |-> IF p = a THEN <<[term |-> 1, command |-> x]>>
                            ELSE IF p = b THEN <<[term |-> 2, command |-> y]>> ELSE <<>>]
    /\ commitIndex = [p \in Node |-> 0] /\ lastApplied = [p \in Node |-> 0]
    /\ nextIndex = [p \in Node |-> [q \in Node |-> 1]]
    /\ matchIndex = [p \in Node |-> [q \in Node |-> 0]]
    /\ running = [p \in Node |-> TRUE] /\ timedOut = [p \in Node |-> FALSE]
    /\ net = {} /\ callbacks = [p \in Node |-> [q \in Node |-> <<>>]]
    /\ applied = [p \in Node |-> <<>>]
    /\ client = [c \in Command |->
         CASE c = x -> [phase |-> "false", node |-> a, index |-> 1, todo |-> {}]
           [] c = y -> [phase |-> "sending", node |-> b, index |-> 1, todo |-> Peer(b)]
           [] OTHER -> Idle]

OldTermSpec == OldTermInit /\ [][Next]_vars

\* A reachable state to start from: a was leader of term 1 and proposed x,
\* which reached nobody; its ticker, which had seen the deadline pass before
\* it became leader, made it campaign again and it won term 2.  With MaxTerm
\* = 2 there is no further election.
ReelectedInit ==
  \E a \in Node, x \in Command :
    /\ state = [p \in Node |-> IF p = a THEN "LEADER" ELSE "FOLLOWER"]
    /\ currentTerm = [p \in Node |-> 2]
    /\ votedFor = [p \in Node |-> a]
    /\ leaderId = [p \in Node |-> IF p = a THEN a ELSE Nobody]
    /\ votesGranted = [p \in Node |-> IF p = a THEN 2 ELSE 0]
    /\ log = [p \in Node |-> IF p = a THEN <<[term |-> 1, command |-> x]>> ELSE <<>>]
    /\ commitIndex = [p \in Node |-> 0] /\ lastApplied = [p \in Node |-> 0]
    /\ nextIndex = [p \in Node |-> [q \in Node |-> IF p = a THEN 2 ELSE 1]]
    /\ matchIndex = [p \in Node |-> [q \in Node |-> 0]]
    /\ running = [p \in Node |-> TRUE] /\ timedOut = [p \in Node |-> FALSE]
    /\ net = {} /\ callbacks = [p \in Node |-> [q \in Node |-> <<>>]]
    /\ applied = [p \in Node |-> <<>>]
    /\ client = [c \in Command |-> IF c # x THEN Idle
                    ELSE [phase |-> "false", node |-> a, index |-> 1, todo |-> {}]]
=============================================================================
