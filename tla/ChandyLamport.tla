--------------------------- MODULE ChandyLamport ---------------------------
(***************************************************************************)
(* networking/chandy_lamport: a snapshot of the bank balances of a set of  *)
(* nodes, taken while transfers go on, over the FIFO sockets of            *)
(* networking/common.  One snapshot is taken, then every node is stopped,  *)
(* as chandy_lamport_test does.                                            *)
(*                                                                         *)
(* An action is what one thread of a node does while it holds mu_; the     *)
(* transfer is applied (onTransfer_) after handleTransfer has released it. *)
(* A frame stays in its channel until the receiver thread has the lock.    *)
(* The markers of one broadcast are written while mu_ is held, and every   *)
(* other frame of the node is written under mu_ or after the snapshot, so  *)
(* the broadcast is one step.                                              *)
(*                                                                         *)
(* An operator named Bug... is a wrong variant of the definition after it, *)
(* used to confirm that a property notices the mistake.                    *)
(***************************************************************************)
EXTENDS Integers, Sequences, FiniteSets, Functions

CONSTANTS
  Node,
  Initiator,     \* the node that calls initiateSnapshot
  Balance,       \* what every node starts with
  MaxTransfers   \* bound: transfers sent

ASSUME SnapshotAssumption ==
  /\ IsFiniteSet(Node) /\ Initiator \in Node
  /\ Balance \in Nat /\ MaxTransfers \in Nat

VARIABLES
  channel,            \* channel[p][q]: frames from p to q, oldest first
  receiving,          \* receiving[n][p]: n's receiver thread for p has not ended
  applying,           \* applying[n][p]: the amount that thread is about to apply
  balance,            \* the application's state
  snapshotting,       \* snapshotting_
  localState,         \* current_.localState
  channelMessages,    \* the sum of current_.channelMessages[p]
  markerSeen,         \* markerSeen_
  markersOutstanding, \* markersOutstanding_
  resultReady,        \* resultReady_
  caller,             \* the thread that takes part in the snapshot
  stopping,           \* "up", then in stop(), then returned from it
  transfers,          \* number of transfers sent
  missed              \* history: amounts recorded by nobody, see Record

snapshotVars == <<snapshotting, localState, channelMessages, markerSeen, markersOutstanding, missed>>
vars == <<channel, receiving, applying, balance, snapshotVars, resultReady, caller,
          stopping, transfers>>

Peer(n) == Node \ {n}
Sum(f) == FoldFunction(+, 0, f)
Tag == {"marker", "transfer", "shutdown"}

Awaited(n) == Cardinality(Peer(n))

Init ==
  /\ channel = [p \in Node |-> [q \in Node |-> <<>>]]
  /\ receiving = [n \in Node |-> [p \in Node |-> p # n]]
  /\ applying = [n \in Node |-> [p \in Node |-> 0]]
  /\ balance = [n \in Node |-> Balance]
  /\ snapshotting = [n \in Node |-> FALSE]
  /\ localState = [n \in Node |-> 0]
  /\ channelMessages = [n \in Node |-> [p \in Node |-> 0]]
  /\ markerSeen = [n \in Node |-> [p \in Node |-> FALSE]]
  /\ markersOutstanding = [n \in Node |-> 0]
  /\ resultReady = [n \in Node |-> FALSE]
  /\ caller = [n \in Node |-> IF n = Initiator THEN "idle" ELSE "waiting"]
  /\ stopping = [n \in Node |-> "up"]
  /\ transfers = 0
  /\ missed = [n \in Node |-> 0]

-----------------------------------------------------------------------------
(* The application: a debit and sendTransfer, inside atomically().         *)

Frame(tag) == [tag |-> tag, amount |-> IF tag = "transfer" THEN 1 ELSE 0]

sendTransfer(p, q) ==
  /\ transfers < MaxTransfers /\ balance[p] >= 1
  /\ \A n \in Node : stopping[n] = "up"
  /\ balance' = [balance EXCEPT ![p] = @ - 1]
  /\ channel' = [channel EXCEPT ![p][q] = Append(@, Frame("transfer"))]
  /\ transfers' = transfers + 1
  /\ UNCHANGED <<receiving, applying, snapshotVars, resultReady, caller, stopping>>

\* onTransfer_, called by the receiver thread without mu_.
onTransfer(n, p) ==
  /\ applying[n][p] > 0
  /\ balance' = [balance EXCEPT ![n] = @ + applying[n][p]]
  /\ applying' = [applying EXCEPT ![n][p] = 0]
  /\ UNCHANGED <<channel, receiving, snapshotVars, resultReady, caller, stopping, transfers>>

-----------------------------------------------------------------------------
(* The snapshot.                                                           *)

\* n starts its part of the snapshot: it records its state, knowing the
\* markers of the nodes in seen.  What its receiver threads have read and
\* not yet applied is in no channel and not in the state either.
Record(n, seen) ==
  /\ snapshotting' = [snapshotting EXCEPT ![n] = TRUE]
  /\ localState' = [localState EXCEPT ![n] = balance[n]]
  /\ channelMessages' = [channelMessages EXCEPT ![n] = [p \in Node |-> 0]]
  /\ markerSeen' = [markerSeen EXCEPT ![n] = [p \in Node |-> p \in seen]]
  /\ markersOutstanding' = [markersOutstanding EXCEPT ![n] = Awaited(n) - Cardinality(seen)]
  /\ missed' = [missed EXCEPT ![n] = Sum(applying[n])]

Marked(n, from) == Peer(n)

\* The channels after n has written a marker to each of the nodes in to.
Broadcast(ch, n, to) == [ch EXCEPT ![n] = [q \in Node |->
  IF q \in to THEN Append(ch[n][q], Frame("marker")) ELSE ch[n][q]]]

initiateSnapshot(n) ==
  /\ n = Initiator /\ caller[n] = "idle"
  /\ Record(n, {})
  /\ resultReady' = [resultReady EXCEPT ![n] = FALSE]
  /\ channel' = Broadcast(channel, n, Peer(n))
  /\ caller' = [caller EXCEPT ![n] = "initiated"]
  /\ UNCHANGED <<receiving, applying, balance, stopping, transfers>>

handleMarker(n, from, rest) ==
  \/ /\ ~snapshotting[n]
     /\ Record(n, {from})
     /\ channel' = Broadcast(rest, n, Marked(n, from))
     /\ resultReady' = [resultReady EXCEPT ![n] = @ \/ Awaited(n) = 1]
  \/ /\ snapshotting[n] /\ ~markerSeen[n][from]
     /\ markerSeen' = [markerSeen EXCEPT ![n][from] = TRUE]
     /\ markersOutstanding' = [markersOutstanding EXCEPT ![n] = @ - 1]
     /\ resultReady' = [resultReady EXCEPT ![n] = @ \/ markersOutstanding[n] = 1]
     /\ channel' = rest
     /\ UNCHANGED <<snapshotting, localState, channelMessages, missed>>
  \/ /\ snapshotting[n] /\ markerSeen[n][from]
     /\ channel' = rest
     /\ UNCHANGED <<snapshotVars, resultReady>>

BugRecords(n, from) == snapshotting[n]
Records(n, from) == snapshotting[n] /\ ~markerSeen[n][from]

handleTransfer(n, from, rest, amount) ==
  /\ channelMessages' = IF Records(n, from) THEN [channelMessages EXCEPT ![n][from] = @ + amount]
                        ELSE channelMessages
  /\ applying' = [applying EXCEPT ![n][from] = amount]
  /\ channel' = rest
  /\ UNCHANGED <<snapshotting, localState, markerSeen, markersOutstanding, missed, resultReady>>

Ends(n, frame) == frame.tag = "shutdown"

\* One turn of n's receiver thread for p.
receiverLoop(n, p) ==
  /\ receiving[n][p] /\ applying[n][p] = 0
  /\ channel[p][n] # <<>>
  /\ LET frame == Head(channel[p][n])
         rest == [channel EXCEPT ![p][n] = Tail(@)]
     IN IF Ends(n, frame)
        THEN /\ receiving' = [receiving EXCEPT ![n][p] = FALSE]
             /\ channel' = rest
             /\ UNCHANGED <<applying, snapshotVars, resultReady>>
        ELSE /\ \/ frame.tag = "marker" /\ handleMarker(n, p, rest) /\ UNCHANGED applying
                \/ frame.tag # "marker" /\ handleTransfer(n, p, rest, frame.amount)
             /\ UNCHANGED receiving
  /\ UNCHANGED <<balance, caller, stopping, transfers>>

\* Both waits: in initiateSnapshot and in waitForPassiveSnapshot.
snapshotReturn(n) ==
  /\ caller[n] \in {"initiated", "waiting"} /\ resultReady[n]
  /\ snapshotting' = [snapshotting EXCEPT ![n] = FALSE]
  /\ resultReady' = [resultReady EXCEPT ![n] = caller[n] = "initiated"]
  /\ caller' = [caller EXCEPT ![n] = "returned"]
  /\ UNCHANGED <<channel, receiving, applying, balance, localState, channelMessages, markerSeen,
                 markersOutstanding, missed, stopping, transfers>>

-----------------------------------------------------------------------------
(* stop(), on every node once all the results are there.                   *)

stop(n) ==
  /\ stopping[n] = "up" /\ \A m \in Node : caller[m] = "returned"
  /\ stopping' = [stopping EXCEPT ![n] = "joining"]
  /\ channel' = [channel EXCEPT ![n] = [q \in Node |->
       IF q \in Peer(n) THEN Append(@[q], Frame("shutdown")) ELSE @[q]]]
  /\ UNCHANGED <<receiving, applying, balance, snapshotVars, resultReady, caller, transfers>>

joined(n) ==
  /\ stopping[n] = "joining" /\ \A p \in Node : ~receiving[n][p]
  /\ stopping' = [stopping EXCEPT ![n] = "stopped"]
  /\ UNCHANGED <<channel, receiving, applying, balance, snapshotVars, resultReady, caller, transfers>>

Thread(n) ==
  \/ initiateSnapshot(n) \/ snapshotReturn(n) \/ stop(n) \/ joined(n)
  \/ \E p \in Peer(n) : receiverLoop(n, p) \/ onTransfer(n, p)

Next == \E n \in Node : Thread(n) \/ \E q \in Peer(n) : sendTransfer(n, q)

\* Every thread of a node runs on; the application need not send transfers.
Fairness ==
  \A n \in Node :
    /\ WF_vars(initiateSnapshot(n)) /\ WF_vars(snapshotReturn(n))
    /\ WF_vars(stop(n)) /\ WF_vars(joined(n))
    /\ \A p \in Peer(n) : WF_vars(receiverLoop(n, p)) /\ WF_vars(onTransfer(n, p))

Spec == Init /\ [][Next]_vars
FairSpec == Spec /\ Fairness

-----------------------------------------------------------------------------
(* Properties.                                                             *)

Total == Balance * Cardinality(Node)
Returned == \A n \in Node : caller[n] = "returned"
Recorded == Sum(localState) + Sum([n \in Node |-> Sum(channelMessages[n])])

\* chandy_lamport.h: "a snapshot recorded this way is guaranteed consistent".
\* What the test calls the actual guarantee: the recorded states and the
\* recorded messages add up to the original total.
SnapshotConsistent == Returned => Recorded = Total

\* The snapshot completes on every node, and then stop(), called on all of
\* them, returns everywhere.  The snapshot has counted no transfer twice, and
\* the only ones it lacks are those that a receiver thread had taken out of the
\* channel and not applied when its node recorded its state; and no transfer
\* is lost in the shutdown.
SnapshotCompletes ==
  <>(/\ \A n \in Node : stopping[n] = "stopped"
     /\ Recorded + Sum(missed) = Total
     /\ Sum(balance) = Total)
=============================================================================
