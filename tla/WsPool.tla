------------------------------- MODULE WsPool -------------------------------
(***************************************************************************)
(* foundation/ws_pool/ws_pool.h: WorkStealingPool and TaskGroup.           *)
(*                                                                         *)
(* Each worker's deque is a sequence, bottom last, with the operations of  *)
(* AbstractDeque, which ChaseLev implements.  Critical sections are one    *)
(* step; a wait on a condition variable is blocked until it is notified.   *)
(*                                                                         *)
(* The client runs the tasks 1..Roots in a group, waits for the group,     *)
(* waits for the pool or not, and destroys it.  A task may submit a child, *)
(* up to MaxTasks tasks in all.                                            *)
(***************************************************************************)
EXTENDS Integers, Sequences

CONSTANTS Worker, Roots, MaxTasks

ASSUME WsPoolAssumption == Roots \in Nat \ {0} /\ MaxTasks \in Nat /\ Roots <= MaxTasks

NoTask == 0

VARIABLE
  wp   \* roots, children: tasks created by the client, by tasks;
       \* inbox: inbox_; deque: of each worker; pending: pending_;
       \* remaining: TaskGroup::remaining_; shutdown: shutdown_;
       \* pc, task: of each worker; client; runs: calls of each task's fn

PoolInit ==
  wp = [roots |-> 0, children |-> 0, inbox |-> <<>>, deque |-> [w \in Worker |-> <<>>],
        pending |-> 0, remaining |-> 0, shutdown |-> FALSE,
        pc |-> [w \in Worker |-> "loop"], task |-> [w \in Worker |-> NoTask],
        client |-> "run", runs |-> [k \in 1..MaxTasks |-> 0]]

AllButLast(s) == SubSeq(s, 1, Len(s) - 1)

-----------------------------------------------------------------------------
(* The client                                                              *)

\* TaskGroup::run and submit count the task before it is in the inbox.
RunCount ==
  /\ wp.client = "run"
  /\ wp' = [wp EXCEPT !.remaining = @ + 1, !.pending = @ + 1, !.roots = @ + 1, !.client = "submit"]
SubmitInbox ==
  /\ wp.client = "submit"
  /\ wp' = [wp EXCEPT !.inbox = Append(@, wp.roots),
                      !.client = IF wp.roots = Roots THEN "groupWait" ELSE "run"]

GroupWait ==
  /\ wp.client = "groupWait"
  /\ wp' = [wp EXCEPT !.client = IF wp.remaining = 0 THEN "poolWait" ELSE "groupBlocked"]
PoolWait ==
  /\ wp.client = "poolWait"
  /\ wp' = [wp EXCEPT !.client = IF wp.pending = 0 THEN "destroy" ELSE "poolBlocked"]

\* The destructor; the client need not have called the pool's wait().
Destroy ==
  /\ wp.client \in {"poolWait", "destroy"}
  /\ wp' = [wp EXCEPT !.shutdown = TRUE, !.client = "join"]
Join ==
  /\ wp.client = "join" /\ \A w \in Worker : wp.pc[w] = "ended"
  /\ wp' = [wp EXCEPT !.client = "joined"]

ClientStep == RunCount \/ SubmitInbox \/ GroupWait \/ PoolWait \/ Destroy \/ Join

-----------------------------------------------------------------------------
(* worker_loop                                                             *)

LoopTest(w) == wp.pc[w] = "loop" /\ wp' = [wp EXCEPT !.pc[w] = IF wp.shutdown THEN "drain" ELSE "own"]

\* Its own deque, youngest first, also in the drain loop.
TakeOwn(w) ==
  LET d == wp.deque[w]
  IN /\ wp.pc[w] \in {"own", "drain"}
     /\ wp' = IF d = <<>>
              THEN [wp EXCEPT !.pc[w] = IF wp.pc[w] = "own" THEN "inbox" ELSE "drainInbox"]
              ELSE [wp EXCEPT !.pc[w] = "execute", !.task[w] = d[Len(d)], !.deque[w] = AllButLast(d)]

\* The youngest of the inbox, when the lock is to be had.
TakeInbox(w) ==
  /\ wp.pc[w] \in {"inbox", "drainInbox"} /\ wp.inbox # <<>>
  /\ wp' = [wp EXCEPT !.pc[w] = "execute", !.task[w] = wp.inbox[Len(wp.inbox)], !.inbox = AllButLast(@)]

\* The inbox is empty or, for worker_loop, its try_lock fails.
PassInbox(w) ==
  \/ wp.pc[w] = "inbox" /\ wp' = [wp EXCEPT !.pc[w] = "steal"]
  \/ wp.pc[w] = "drainInbox" /\ wp.inbox = <<>> /\ wp' = [wp EXCEPT !.pc[w] = "ended"]

\* try_steal asks the others in turn, and a steal that loses a race gives
\* nothing.  Without a task the worker yields or sleeps for a millisecond.
TakeStolen(w) ==
  /\ wp.pc[w] = "steal"
  /\ \/ \E v \in Worker \ {w} :
          /\ wp.deque[v] # <<>>
          /\ wp' = [wp EXCEPT !.pc[w] = "execute", !.task[w] = Head(wp.deque[v]), !.deque[v] = Tail(@)]
     \/ wp' = [wp EXCEPT !.pc[w] = "loop"]

-----------------------------------------------------------------------------
(* execute                                                                 *)

BugSubmitChild(w) ==
  /\ wp.pc[w] = "execute" /\ Roots + wp.children < MaxTasks
  /\ wp' = [wp EXCEPT !.children = @ + 1, !.deque[w] = Append(@, Roots + wp.children + 1)]
\* submit called by a task: the child goes to the worker's own deque.
SubmitChild(w) ==
  /\ wp.pc[w] = "execute" /\ Roots + wp.children < MaxTasks
  /\ wp' = [wp EXCEPT !.pending = @ + 1, !.children = @ + 1,
                      !.deque[w] = Append(@, Roots + wp.children + 1)]

\* fn() returns, and a task of the group counts itself off.
Execute(w) ==
  LET grouped == wp.task[w] <= Roots
  IN /\ wp.pc[w] = "execute"
     /\ wp' = [wp EXCEPT !.runs[wp.task[w]] = @ + 1,
                         !.remaining = IF grouped THEN @ - 1 ELSE @,
                         !.pc[w] = IF grouped /\ wp.remaining = 1 THEN "groupNotify" ELSE "count"]

GroupNotify(w) ==
  /\ wp.pc[w] = "groupNotify"
  /\ wp' = [wp EXCEPT !.pc[w] = "count", !.client = IF @ = "groupBlocked" THEN "groupWait" ELSE @]

BugCountDone(w) ==
  /\ wp.pc[w] = "count"
  /\ wp' = [wp EXCEPT !.pending = @ - 1, !.task[w] = NoTask,
                      !.pc[w] = IF wp.pending = 0 THEN "poolNotify" ELSE "loop"]
CountDone(w) ==
  /\ wp.pc[w] = "count"
  /\ wp' = [wp EXCEPT !.pending = @ - 1, !.task[w] = NoTask,
                      !.pc[w] = IF wp.pending = 1 THEN "poolNotify" ELSE "loop"]

PoolNotify(w) ==
  /\ wp.pc[w] = "poolNotify"
  /\ wp' = [wp EXCEPT !.pc[w] = "loop", !.client = IF @ = "poolBlocked" THEN "poolWait" ELSE @]

WorkerStep(w) ==
  \/ LoopTest(w) \/ TakeOwn(w) \/ TakeInbox(w) \/ PassInbox(w) \/ TakeStolen(w)
  \/ SubmitChild(w) \/ Execute(w) \/ GroupNotify(w) \/ CountDone(w) \/ PoolNotify(w)
PoolNext == ClientStep \/ \E w \in Worker : WorkerStep(w)

\* Every thread runs, and a worker that tries the lock of the inbox again and
\* again gets it some time.
PoolFairness ==
  WF_wp(ClientStep) /\ \A w \in Worker : WF_wp(WorkerStep(w)) /\ SF_wp(TakeInbox(w))
PoolSpec == PoolInit /\ [][PoolNext]_wp /\ PoolFairness

-----------------------------------------------------------------------------
\* No task runs twice; a group's wait() returns only after its tasks have
\* run, the pool's wait() and the destructor's join only after all tasks have,
\* those submitted by tasks during the shutdown included.
WaitsCoverTasks ==
  /\ \A k \in 1..MaxTasks : wp.runs[k] <= 1
  /\ wp.client \in {"poolWait", "poolBlocked", "destroy", "join", "joined"} => \A k \in 1..Roots : wp.runs[k] = 1
  /\ wp.client \in {"destroy", "joined"} => \A k \in 1..Roots + wp.children : wp.runs[k] = 1

\* Both waits return and the destructor's join returns: the worker that counts
\* the last task off wakes a client that has tested the count before.
PoolFinishes == <>(wp.client = "joined")
=============================================================================
