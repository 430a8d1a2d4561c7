-------------------------------- MODULE Spsc --------------------------------
(***************************************************************************)
(* foundation/spsc_queue.h: SpscQueue, a ring of N slots between one       *)
(* producer and one consumer.  head_ and tail_ are slot numbers, so one    *)
(* slot stays empty to tell full from empty.  Each thread loads the index  *)
(* that only it stores and the other's in one step: its own cannot change  *)
(* in between.                                                             *)
(***************************************************************************)
EXTENDS RingQueue

CONSTANT SpN   \* N, slots of the ring

\* The static_assert; that N is a power of two only makes the masking with
\* kMask a remainder.
ASSUME SpscAssumption == SpN \in Nat /\ SpN >= 2

SpSlot == 0..SpN - 1

VARIABLES
  spTail,   \* tail_
  spHead,   \* head_
  spSlots,  \* slots_
  spPush,   \* the producer: its operation, and val
  spPop     \* the consumer: its operation, and val

spVars == <<spTail, spHead, spSlots, spPush, spPop>>

\* (i + 1) & kMask
After(i) == (i + 1) % SpN

SpscInit ==
  /\ spTail = 0 /\ spHead = 0
  /\ spSlots = [i \in SpSlot |-> Nothing]
  /\ spPush = [pc |-> "idle", val |-> Nothing]
  /\ spPop = [pc |-> "idle", val |-> Nothing]

-----------------------------------------------------------------------------
(* push                                                                    *)

BugSpPushCheck(v) ==
  /\ spPush.pc = "idle"
  /\ spPush' = [pc |-> "write", val |-> v]
  /\ UNCHANGED <<spTail, spHead, spSlots, spPop>>
\* A push that finds the queue full returns false and leaves no trace.
SpPushCheck(v) ==
  /\ spPush.pc = "idle" /\ After(spTail) # spHead
  /\ spPush' = [pc |-> "write", val |-> v]
  /\ UNCHANGED <<spTail, spHead, spSlots, spPop>>

SpPushWrite ==
  /\ spPush.pc = "write"
  /\ spSlots' = [spSlots EXCEPT ![spTail] = spPush.val]
  /\ spPush' = [spPush EXCEPT !.pc = "publish"]
  /\ UNCHANGED <<spTail, spHead, spPop>>

SpPushPublish ==
  /\ spPush.pc = "publish"
  /\ spTail' = After(spTail)
  /\ spPush' = [pc |-> "idle", val |-> Nothing]
  /\ UNCHANGED <<spHead, spSlots, spPop>>

-----------------------------------------------------------------------------
(* pop                                                                     *)

SpPopCheck ==
  /\ spPop.pc = "idle" /\ spHead # spTail
  /\ spPop' = [pc |-> "read", val |-> Nothing]
  /\ UNCHANGED <<spTail, spHead, spSlots, spPush>>

SpPopRead ==
  /\ spPop.pc = "read"
  /\ spPop' = [pc |-> "release", val |-> spSlots[spHead]]
  /\ UNCHANGED <<spTail, spHead, spSlots, spPush>>

SpPopRelease ==
  /\ spPop.pc = "release"
  /\ spHead' = After(spHead)
  /\ spPop' = [spPop EXCEPT !.pc = "deliver"]
  /\ UNCHANGED <<spTail, spSlots, spPush>>

\* The caller has the value.
SpPopReturn ==
  /\ spPop.pc = "deliver"
  /\ spPop' = [pc |-> "idle", val |-> Nothing]
  /\ UNCHANGED <<spTail, spHead, spSlots, spPush>>

SpscNext ==
  \/ \E v \in Value : SpPushCheck(v)
  \/ SpPushWrite \/ SpPushPublish
  \/ SpPopCheck \/ SpPopRead \/ SpPopRelease \/ SpPopReturn
SpscSpec == SpscInit /\ [][SpscNext]_spVars

-----------------------------------------------------------------------------
\* (tail - head + SpN) & kMask, what size_approx computes.
SpSize(head, tail) == (tail - head + SpN) % SpN

SpFifo == INSTANCE BoundedFifo WITH
  Client <- {"consumer"}, Capacity <- SpN - 1,
  contents <- [i \in 1..SpSize(spHead, spTail) |-> spSlots[(spHead + i - 1) % SpN]],
  taken <- [c \in {"consumer"} |-> IF spPop.pc = "deliver" THEN spPop.val ELSE Nothing]

\* SpscQueue is a FIFO queue of SpN - 1 values: the store of tail_ enters a
\* value and the store of head_ takes the oldest one; the value delivered was
\* read from the slot before that store, and the producer has not reused the
\* slot in the meantime.
SpscIsFifo == SpFifo!Spec
=============================================================================
