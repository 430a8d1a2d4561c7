----------------------------- MODULE GuardPool -----------------------------
(***************************************************************************)
(* gpu_engine/streams: StreamPool and EventPool, the same class over two   *)
(* kinds of handle.  acquire() waits on cv_ for a free handle; the guard's *)
(* destructor pushes it back and notifies one waiter after the unlock.     *)
(***************************************************************************)
EXTENDS Integers, Sequences, FiniteSets

CONSTANTS
  GpThread,      \* host threads
  GpCapacity,    \* capacity
  MaxAcquires    \* bound: guards each thread takes

ASSUME GuardPoolAssumption == IsFiniteSet(GpThread) /\ GpCapacity \in Nat

NoHandle == 0

VARIABLE
  gp   \* free: free_, the last is given out; pc, held, taken: of each thread

GuardPoolInit ==
  gp = [free |-> [i \in 1..GpCapacity |-> i], pc |-> [t \in GpThread |-> "out"],
        held |-> [t \in GpThread |-> NoHandle], taken |-> [t \in GpThread |-> 0]]

Take(t) ==
  [gp EXCEPT !.held[t] = gp.free[Len(gp.free)], !.free = SubSeq(@, 1, Len(@) - 1), !.taken[t] = @ + 1, !.pc[t] = "holding"]

\* The predicate of the wait, on entry and on every waking.
GpAcquire(t) ==
  /\ gp.pc[t] \in {"out", "awake"} /\ (gp.pc[t] = "out" => gp.taken[t] < MaxAcquires)
  /\ gp' = IF gp.free = <<>> THEN [gp EXCEPT !.pc[t] = "asleep"] ELSE Take(t)

GpRelease(t) ==
  /\ gp.pc[t] = "holding"
  /\ gp' = [gp EXCEPT !.free = Append(@, gp.held[t]), !.held[t] = NoHandle, !.pc[t] = "notify"]

Asleep == {t \in GpThread : gp.pc[t] = "asleep"}
BugNotifyOne(t) ==
  /\ gp.pc[t] = "notify"
  /\ IF Asleep = {} \/ Len(gp.free) > 1 THEN gp' = [gp EXCEPT !.pc[t] = "out"]
     ELSE \E u \in Asleep : gp' = [gp EXCEPT !.pc[t] = "out", !.pc[u] = "awake"]
GpNotifyOne(t) ==
  /\ gp.pc[t] = "notify"
  /\ IF Asleep = {} THEN gp' = [gp EXCEPT !.pc[t] = "out"]
     ELSE \E u \in Asleep : gp' = [gp EXCEPT !.pc[t] = "out", !.pc[u] = "awake"]

GuardPoolNext == \E t \in GpThread : GpAcquire(t) \/ GpRelease(t) \/ GpNotifyOne(t)

GuardPoolSpec == GuardPoolInit /\ [][GuardPoolNext]_gp

-----------------------------------------------------------------------------
\* No wake-up is lost: as many threads as there are free handles are on their
\* way to one or still to notify, unless fewer sleep.  (One that has just come
\* may take the handle a woken thread was meant to have.)
WakeUpsSuffice ==
  Asleep # {} => Cardinality({t \in GpThread : gp.pc[t] \in {"awake", "notify"}}) >= Len(gp.free)
=============================================================================
