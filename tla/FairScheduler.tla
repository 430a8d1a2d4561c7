--------------------------- MODULE FairScheduler ---------------------------
(***************************************************************************)
(* networking/multitenancy: FairScheduler, a single-threaded policy: tasks *)
(* are queued by submit() and all of them are run by run(), priority by    *)
(* priority and in weighted round-robin within a priority.                 *)
(***************************************************************************)
EXTENDS Integers, Sequences, FiniteSets

CONSTANTS
  TenantOrder,   \* order_: the tenants in the order of their registration
  Priority, Weight, Quota,   \* TenantConfig of each
  MaxRuns        \* bound: calls of run()

Tenant == {TenantOrder[i] : i \in DOMAIN TenantOrder}

\* With a weight of 0 a class with a queued task would never drain.
ASSUME FairSchedulerAssumption ==
  \A t \in Tenant : Priority[t] \in Int /\ Weight[t] \in Nat \ {0} /\ Quota[t] \in Nat

VARIABLE
  fs   \* tasks: the length of each queue; ran: the tasks of each tenant this
       \* run() has run; todo: the priorities it has not finished; at, took:
       \* the place in the group (0: before a pass) and i of the inner loop

FairInit ==
  fs = [tasks |-> [t \in Tenant |-> 0], ran |-> [t \in Tenant |-> 0], todo |-> {}, at |-> 0, took |-> 0, runs |-> 0]

Running == fs.todo # {}
Class == CHOOSE p \in fs.todo : \A q \in fs.todo : p >= q
Group == SelectSeq(TenantOrder, LAMBDA t : Priority[t] = Class)
Turn == Group[fs.at]

\* A tenant at its quota is refused, and only its count of refusals changes.
Submit(t) == ~Running /\ fs.tasks[t] < Quota[t] /\ fs' = [fs EXCEPT !.tasks[t] = @ + 1]

RunStart ==
  /\ ~Running /\ fs.runs < MaxRuns
  /\ fs' = [fs EXCEPT !.todo = {Priority[t] : t \in Tenant}, !.ran = [t \in Tenant |-> 0], !.runs = @ + 1]

\* anyRemaining: another pass over the group, or the next priority.
Pass ==
  /\ Running /\ fs.at = 0
  /\ fs' = IF \E t \in Tenant : Priority[t] = Class /\ fs.tasks[t] > 0 THEN [fs EXCEPT !.at = 1]
           ELSE [fs EXCEPT !.todo = @ \ {Class}]

BugRunTask ==
  /\ Running /\ fs.at > 0 /\ fs.tasks[Turn] > 0
  /\ fs' = [fs EXCEPT !.tasks[Turn] = @ - 1, !.ran[Turn] = @ + 1, !.took = @ + 1]
RunTask ==
  /\ Running /\ fs.at > 0 /\ fs.took < Weight[Turn] /\ fs.tasks[Turn] > 0
  /\ fs' = [fs EXCEPT !.tasks[Turn] = @ - 1, !.ran[Turn] = @ + 1, !.took = @ + 1]

NextTenant ==
  /\ Running /\ fs.at > 0 /\ (fs.took >= Weight[Turn] \/ fs.tasks[Turn] = 0)
  /\ fs' = [fs EXCEPT !.took = 0, !.at = IF @ < Len(Group) THEN @ + 1 ELSE 0]

RunStep == Pass \/ RunTask \/ NextTenant
FairNext == (\E t \in Tenant : Submit(t)) \/ RunStart \/ RunStep

FairSchedulerSpec == FairInit /\ [][FairNext]_fs

-----------------------------------------------------------------------------
\* Two tenants of a priority that both still have tasks have had their share
\* in proportion to their weights, to within one turn.
FairShare ==
  \A t, u \in Tenant :
    Running /\ Priority[t] = Priority[u] /\ fs.tasks[t] > 0 /\ fs.tasks[u] > 0
      => fs.ran[t] * Weight[u] <= (fs.ran[u] + Weight[u]) * Weight[t]
=============================================================================
