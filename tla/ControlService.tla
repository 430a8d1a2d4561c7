--------------------------- MODULE ControlService ---------------------------
(***************************************************************************)
(* networking/grpc_control: SchedulerServiceImpl.  Calls come on any       *)
(* thread; every handler holds mu_ from its first line to its last, except *)
(* for the wait in WaitTask.  A completion may be reported twice.          *)
(***************************************************************************)
EXTENDS Integers, FiniteSets

CONSTANTS
  ServiceCaller,   \* threads in WaitTask
  MaxId     \* bound: ids given out

Id == 0..MaxId - 1
NoResult == 0

VARIABLE
  sv   \* nextId; nodes, pending: their ids; completed: the result of each
       \* task, NoResult if it has none; pc, id: where each caller of WaitTask
       \* is and for which task; got: the result it returned

ServiceInit ==
  sv = [nextId |-> 0, nodes |-> {}, pending |-> {}, completed |-> [i \in Id |-> NoResult],
        pc |-> [c \in ServiceCaller |-> "out"], id |-> [c \in ServiceCaller |-> 0], got |-> [c \in ServiceCaller |-> NoResult]]

\* newId serves nodes and tasks alike.
RegisterNode == sv.nextId < MaxId /\ sv' = [sv EXCEPT !.nodes = @ \cup {sv.nextId}, !.nextId = @ + 1]
DispatchTask == sv.nextId < MaxId /\ sv' = [sv EXCEPT !.pending = @ \cup {sv.nextId}, !.nextId = @ + 1]

\* The caller finds the task complete, or sleeps on taskDone_.
WaitTask(c, i) ==
  /\ sv.pc[c] = "out" /\ i \in sv.pending \cup {j \in Id : sv.completed[j] # NoResult}
  /\ sv' = [sv EXCEPT !.pc[c] = IF sv.completed[i] = NoResult THEN "asleep" ELSE "awake", !.id[c] = i]

\* notify_all; the predicate is tested again on waking.
Notified == [c \in ServiceCaller |-> IF sv.pc[c] = "asleep" THEN "awake" ELSE sv.pc[c]]

BugCompleteTask(i, r) ==
  /\ i < sv.nextId /\ i \notin sv.nodes
  /\ sv' = [sv EXCEPT !.pending = @ \ {i}, !.completed[i] = r,
                      !.pc = [c \in ServiceCaller |-> IF c = CHOOSE d \in ServiceCaller : sv.pc[d] = "asleep" \/ \A e \in ServiceCaller : sv.pc[e] # "asleep"
                                               THEN Notified[c] ELSE sv.pc[c]]]
CompleteTask(i, r) ==
  /\ i < sv.nextId /\ i \notin sv.nodes
  /\ sv' = [sv EXCEPT !.pending = @ \ {i}, !.completed[i] = r, !.pc = Notified]

WaitReturns(c) ==
  /\ sv.pc[c] = "awake"
  /\ sv' = IF sv.completed[sv.id[c]] = NoResult THEN [sv EXCEPT !.pc[c] = "asleep"]
           ELSE [sv EXCEPT !.pc[c] = "returned", !.got[c] = sv.completed[sv.id[c]]]

ServiceNext ==
  \/ RegisterNode \/ DispatchTask
  \/ \E i \in Id, r \in 1..2 : CompleteTask(i, r)
  \/ \E c \in ServiceCaller : WaitReturns(c) \/ \E i \in Id : WaitTask(c, i)

\* A notified thread gets the lock and runs.
ServiceFairness == \A c \in ServiceCaller : WF_sv(WaitReturns(c))
ServiceSpec == ServiceInit /\ [][ServiceNext]_sv /\ ServiceFairness

-----------------------------------------------------------------------------
\* Whoever waits for a task that has completed returns, whichever tasks were
\* completed before it and whoever waits beside it.
WaitersReturn ==
  \A c \in ServiceCaller : (sv.pc[c] # "out" /\ sv.completed[sv.id[c]] # NoResult) ~> sv.pc[c] = "returned"
=============================================================================
