------------------------------ MODULE CoroSync ------------------------------
(***************************************************************************)
(* foundation/coro/coro.h: AwaitableEvent and AwaitableMutex.              *)
(*                                                                         *)
(* Several coroutines lock the mutex, MaxLocks times each; one of them     *)
(* awaits the event before, and one thread sets it.  One action per atomic *)
(* operation on state_, which on the target machines fails only if the     *)
(* value differs.  A suspended coroutine goes on when its handle is        *)
(* resumed, by the thread that does so or by a pool's worker.              *)
(***************************************************************************)
EXTENDS Integers

CONSTANTS
  Coroutine,
  AwaitsEvent,   \* the coroutine that awaits the event
  MaxLocks

\* No Waiter is at the address 0 or 1.
ASSUME CoroAssumption == AwaitsEvent \in Coroutine /\ MaxLocks \in Nat /\ Coroutine \cap {0, 1} = {}

\* state_ of the mutex is one of these, or the coroutine whose Waiter is the
\* head of the stack; state_ of the event likewise.
kUnlocked == 0
kLockedNoWaiters == 1
kNotSet == 0
kSet == 1

VARIABLE
  co   \* mutex: AwaitableMutex::state_; event: AwaitableEvent::state_;
       \* next: Waiter::next of each coroutine; seen: s in await_suspend and
       \* unlock; locks: locks taken; pc

CoInit ==
  co = [mutex |-> kUnlocked, event |-> kNotSet,
        next |-> [c \in Coroutine |-> kUnlocked], seen |-> [c \in Coroutine |-> kUnlocked],
        locks |-> [c \in Coroutine |-> 0],
        pc |-> [c \in Coroutine |-> IF c = AwaitsEvent THEN "ready" ELSE "lock"]]

-----------------------------------------------------------------------------
(* AwaitableEvent                                                          *)

AwaitReady(c) ==
  /\ co.pc[c] = "ready"
  /\ co' = [co EXCEPT !.pc[c] = IF co.event = kSet THEN "lock" ELSE "awaitSuspend"]

\* The compare-exchange fails when the event has been set in between.
AwaitSuspend(c) ==
  /\ co.pc[c] = "awaitSuspend"
  /\ co' = IF co.event = kNotSet THEN [co EXCEPT !.event = c, !.pc[c] = "suspended"]
           ELSE [co EXCEPT !.pc[c] = "lock"]

\* set: the exchange, and the resumption of the coroutine it found.
SetEvent ==
  /\ co.event # kSet
  /\ co' = IF co.event = kNotSet THEN [co EXCEPT !.event = kSet]
           ELSE [co EXCEPT !.event = kSet, !.pc[co.event] = "lock"]

-----------------------------------------------------------------------------
(* AwaitableMutex: lock                                                    *)

Acquired(c) == [co EXCEPT !.mutex = kLockedNoWaiters, !.pc[c] = "critical", !.locks[c] = @ + 1]
Reload(c) == co' = [co EXCEPT !.seen[c] = co.mutex]

LockReady(c) ==
  /\ co.pc[c] = "lock"
  /\ co' = IF co.mutex = kUnlocked THEN Acquired(c) ELSE [co EXCEPT !.pc[c] = "load"]

LockLoad(c) == co.pc[c] = "load" /\ co' = [co EXCEPT !.seen[c] = co.mutex, !.pc[c] = "suspend"]

BugLockSuspend(c) ==
  /\ co.pc[c] = "suspend"
  /\ co' = IF co.seen[c] = kUnlocked THEN Acquired(c)
           ELSE [co EXCEPT !.next[c] = co.seen[c], !.mutex = c, !.pc[c] = "waiting"]
\* Take a mutex just unlocked, or push the waiter on the stack.
LockSuspend(c) ==
  /\ co.pc[c] = "suspend"
  /\ \/ co.mutex # co.seen[c] /\ Reload(c)
     \/ /\ co.mutex = co.seen[c]
        /\ co' = IF co.seen[c] = kUnlocked THEN Acquired(c)
                 ELSE [co EXCEPT !.next[c] = co.seen[c], !.mutex = c, !.pc[c] = "waiting"]

-----------------------------------------------------------------------------
(* AwaitableMutex: unlock, by the guard's destructor                       *)

UnlockLoad(c) == co.pc[c] = "critical" /\ co' = [co EXCEPT !.seen[c] = co.mutex, !.pc[c] = "unlock"]

AfterUnlock(c) == IF co.locks[c] < MaxLocks THEN "lock" ELSE "finished"

BugUnlock(c) ==
  /\ co.pc[c] = "unlock" /\ co.seen[c] = kLockedNoWaiters
  /\ co' = [co EXCEPT !.mutex = kUnlocked, !.pc[c] = AfterUnlock(c)]
Unlock(c) ==
  /\ co.pc[c] = "unlock" /\ co.seen[c] = kLockedNoWaiters
  /\ \/ co.mutex # co.seen[c] /\ Reload(c)
     \/ co.mutex = co.seen[c] /\ co' = [co EXCEPT !.mutex = kUnlocked, !.pc[c] = AfterUnlock(c)]

\* Pop the head waiter and hand the lock to it.  Its next is what it saw in
\* state_: kLockedNoWaiters at the end of the stack.
HandOver(c) ==
  LET head == co.seen[c]
  IN /\ co.pc[c] = "unlock" /\ head # kLockedNoWaiters
     /\ \/ co.mutex # head /\ Reload(c)
        \/ /\ co.mutex = head
           /\ co' = [co EXCEPT !.mutex = co.next[head], !.locks[head] = @ + 1,
                               !.pc[c] = AfterUnlock(c), !.pc[head] = "critical"]

CoroutineStep(c) ==
  \/ AwaitReady(c) \/ AwaitSuspend(c)
  \/ LockReady(c) \/ LockLoad(c) \/ LockSuspend(c)
  \/ UnlockLoad(c) \/ Unlock(c) \/ HandOver(c)
CoNext == SetEvent \/ \E c \in Coroutine : CoroutineStep(c)

CoSpec == CoInit /\ [][CoNext]_co

-----------------------------------------------------------------------------
\* At most one coroutine is between its lock and its unlock, and the mutex is
\* unlocked exactly when none is; nobody passes the event before it is set.
CoExclusion ==
  LET holders == {c \in Coroutine : co.pc[c] \in {"critical", "unlock"}}
  IN /\ \A c, d \in holders : c = d
     /\ co.mutex = kUnlocked <=> holders = {}
     /\ co.event # kSet => co.pc[AwaitsEvent] \in {"ready", "awaitSuspend", "suspended"}

\* Every coroutine gets the lock as often as it asks for it: a waiter pushed
\* while the holder unlocks is not forgotten, nor one that awaits the event
\* while it is being set.  (Each step consumes a lock or loses to one that
\* does, so the runs are finite and never being stuck means to finish.)
CoNeverStuck == (\E c \in Coroutine : co.pc[c] # "finished") => ENABLED CoNext
=============================================================================
