-------------------------------- MODULE Mpmc --------------------------------
(***************************************************************************)
(* foundation/mpmc_queue.h: MpmcQueue, a ring of N slots, each with the    *)
(* number of the position it is ready for.  One action per atomic          *)
(* operation, in one total order.  mpPc[t] is the operation thread t is    *)
(* about to execute; positions count up and never wrap (2^64).             *)
(***************************************************************************)
EXTENDS RingQueue

CONSTANTS
  N,            \* slots of the ring
  MpmcThread,
  MaxPosition   \* bound: no push starts once tail_ is there

\* The static_assert; that N is a power of two only makes the masking with
\* kMask a remainder.
ASSUME MpmcAssumption == N \in Nat /\ N >= 2 /\ MaxPosition \in Nat

Slot == 0..N - 1
SlotOf(pos) == pos % N

VARIABLES
  mpTail,      \* tail_
  mpHead,      \* head_
  mpSequence,  \* Slot::sequence
  mpData,      \* Slot::data
  mpPc,
  mpPos,       \* pos in push and pop
  mpVal        \* val in push and pop

mpVars == <<mpTail, mpHead, mpSequence, mpData, mpPc, mpPos, mpVal>>

MpmcInit ==
  /\ mpTail = 0 /\ mpHead = 0
  /\ mpSequence = [s \in Slot |-> s]
  /\ mpData = [s \in Slot |-> Nothing]
  /\ mpPc = [t \in MpmcThread |-> "idle"]
  /\ mpPos = [t \in MpmcThread |-> 0]
  /\ mpVal = [t \in MpmcThread |-> Nothing]

MpGoto(t, label) == mpPc' = [mpPc EXCEPT ![t] = label]

-----------------------------------------------------------------------------
(* push                                                                    *)

PushLoad(t) ==
  /\ mpPc[t] = "idle" /\ mpTail < MaxPosition
  /\ \E v \in Value : mpVal' = [mpVal EXCEPT ![t] = v]
  /\ mpPos' = [mpPos EXCEPT ![t] = mpTail]
  /\ MpGoto(t, "pushCheck")
  /\ UNCHANGED <<mpTail, mpHead, mpSequence, mpData>>

\* seq = pos: try to claim; seq < pos: full; seq > pos: reload pos.
PushCheck(t) ==
  /\ mpPc[t] = "pushCheck"
  /\ LET dif == mpSequence[SlotOf(mpPos[t])] - mpPos[t]
     IN \/ dif = 0 /\ MpGoto(t, "pushCas") /\ UNCHANGED <<mpPos, mpVal>>
        \/ dif < 0 /\ MpGoto(t, "idle") /\ mpVal' = [mpVal EXCEPT ![t] = Nothing] /\ UNCHANGED mpPos
        \/ dif > 0 /\ MpGoto(t, "pushReload") /\ UNCHANGED <<mpPos, mpVal>>
  /\ UNCHANGED <<mpTail, mpHead, mpSequence, mpData>>

PushReload(t) ==
  /\ mpPc[t] = "pushReload"
  /\ mpPos' = [mpPos EXCEPT ![t] = mpTail]
  /\ MpGoto(t, "pushCheck")
  /\ UNCHANGED <<mpTail, mpHead, mpSequence, mpData, mpVal>>

\* compare_exchange_weak: it may fail without cause.
PushClaim(t) ==
  /\ mpPc[t] = "pushCas"
  /\ \/ /\ mpTail = mpPos[t]
        /\ mpTail' = mpTail + 1
        /\ MpGoto(t, "pushWrite")
        /\ UNCHANGED mpPos
     \/ /\ mpPos' = [mpPos EXCEPT ![t] = mpTail]
        /\ MpGoto(t, "pushCheck")
        /\ UNCHANGED mpTail
  /\ UNCHANGED <<mpHead, mpSequence, mpData, mpVal>>

PushWrite(t) ==
  /\ mpPc[t] = "pushWrite"
  /\ mpData' = [mpData EXCEPT ![SlotOf(mpPos[t])] = mpVal[t]]
  /\ MpGoto(t, "pushPublish")
  /\ UNCHANGED <<mpTail, mpHead, mpSequence, mpPos, mpVal>>

PushPublish(t) ==
  /\ mpPc[t] = "pushPublish"
  /\ mpSequence' = [mpSequence EXCEPT ![SlotOf(mpPos[t])] = mpPos[t] + 1]
  /\ mpVal' = [mpVal EXCEPT ![t] = Nothing]
  /\ MpGoto(t, "idle")
  /\ UNCHANGED <<mpTail, mpHead, mpData, mpPos>>

-----------------------------------------------------------------------------
(* pop                                                                     *)

PopLoad(t) ==
  /\ mpPc[t] = "idle"
  /\ mpPos' = [mpPos EXCEPT ![t] = mpHead]
  /\ MpGoto(t, "popCheck")
  /\ UNCHANGED <<mpTail, mpHead, mpSequence, mpData, mpVal>>

BugPopCheck(t) ==
  /\ mpPc[t] = "popCheck"
  /\ LET dif == mpSequence[SlotOf(mpPos[t])] - (mpPos[t] + 1)
     IN \/ dif <= 0 /\ MpGoto(t, "popCas") /\ UNCHANGED mpPos
        \/ dif > 0 /\ MpGoto(t, "popReload") /\ UNCHANGED mpPos
  /\ UNCHANGED <<mpTail, mpHead, mpSequence, mpData, mpVal>>
PopCheck(t) ==
  /\ mpPc[t] = "popCheck"
  /\ LET dif == mpSequence[SlotOf(mpPos[t])] - (mpPos[t] + 1)
     IN \/ dif = 0 /\ MpGoto(t, "popCas") /\ UNCHANGED mpPos
        \/ dif < 0 /\ MpGoto(t, "idle") /\ UNCHANGED mpPos
        \/ dif > 0 /\ MpGoto(t, "popReload") /\ UNCHANGED mpPos
  /\ UNCHANGED <<mpTail, mpHead, mpSequence, mpData, mpVal>>

PopReload(t) ==
  /\ mpPc[t] = "popReload"
  /\ mpPos' = [mpPos EXCEPT ![t] = mpHead]
  /\ MpGoto(t, "popCheck")
  /\ UNCHANGED <<mpTail, mpHead, mpSequence, mpData, mpVal>>

PopClaim(t) ==
  /\ mpPc[t] = "popCas"
  /\ \/ /\ mpHead = mpPos[t]
        /\ mpHead' = mpHead + 1
        /\ MpGoto(t, "popRead")
        /\ UNCHANGED mpPos
     \/ /\ mpPos' = [mpPos EXCEPT ![t] = mpHead]
        /\ MpGoto(t, "popCheck")
        /\ UNCHANGED mpHead
  /\ UNCHANGED <<mpTail, mpSequence, mpData, mpVal>>

PopRead(t) ==
  /\ mpPc[t] = "popRead"
  /\ mpVal' = [mpVal EXCEPT ![t] = mpData[SlotOf(mpPos[t])]]
  /\ MpGoto(t, "popRelease")
  /\ UNCHANGED <<mpTail, mpHead, mpSequence, mpData, mpPos>>

\* The number the slot is given when it is free again.
BugFreeSequence(pos) == pos + 1
FreeSequence(pos) == pos + N

PopRelease(t) ==
  /\ mpPc[t] = "popRelease"
  /\ mpSequence' = [mpSequence EXCEPT ![SlotOf(mpPos[t])] = FreeSequence(mpPos[t])]
  /\ mpVal' = [mpVal EXCEPT ![t] = Nothing]
  /\ MpGoto(t, "idle")
  /\ UNCHANGED <<mpTail, mpHead, mpData, mpPos>>

-----------------------------------------------------------------------------
Push(t) == PushLoad(t) \/ PushCheck(t) \/ PushReload(t) \/ PushClaim(t) \/ PushWrite(t) \/ PushPublish(t)
Pop(t) == PopLoad(t) \/ PopCheck(t) \/ PopReload(t) \/ PopClaim(t) \/ PopRead(t) \/ PopRelease(t)
MpmcNext == \E t \in MpmcThread : Push(t) \/ Pop(t)
MpmcSpec == MpmcInit /\ [][MpmcNext]_mpVars

-----------------------------------------------------------------------------
Pushing(t) == mpPc[t] \in {"pushWrite", "pushPublish"}
Popping(t) == mpPc[t] \in {"popRead", "popRelease"}

\* The value that position pos of the queue holds: in the slot once it is
\* published, before that with the producer that has claimed the position.
ValueAt(pos) ==
  IF mpSequence[SlotOf(pos)] = pos
  THEN mpVal[CHOOSE t \in MpmcThread : Pushing(t) /\ mpPos[t] = pos]
  ELSE mpData[SlotOf(pos)]

Fifo == INSTANCE BoundedFifo WITH
  Client <- MpmcThread, Capacity <- N,
  contents <- [i \in 1..mpTail - mpHead |-> ValueAt(mpHead + i - 1)],
  taken <- [t \in MpmcThread |-> CASE mpPc[t] = "popRead" -> mpData[SlotOf(mpPos[t])]
                               [] mpPc[t] = "popRelease" -> mpVal[t]
                               [] OTHER -> Nothing]

\* MpmcQueue is a FIFO queue of N values: the successful compare-exchange of
\* tail_ enters a value, that of head_ takes the oldest one, although the
\* slot is written after the one and read after the other, when producers
\* and consumers of other positions may be at work on the ring.
MpmcIsFifo == Fifo!Spec

\* What a refused operation says is true.  push reports a full queue only while
\* the position one lap back is still in the queue, or its consumer has not
\* released the slot although its compare-exchange has shortened the queue; pop
\* reports an empty one only if it is empty, or the oldest position belongs to
\* a producer that has not published it, for which values behind it wait.
MpmcRefusalHasCause ==
  [][\A t \in MpmcThread :
       /\ mpPc[t] = "pushCheck" /\ mpPc'[t] = "idle" =>
            mpTail - mpHead = N \/ \E u \in MpmcThread : Popping(u) /\ mpPos[u] = mpTail - N
       /\ mpPc[t] = "popCheck" /\ mpPc'[t] = "idle" =>
            mpTail = mpHead \/ \E u \in MpmcThread : Pushing(u) /\ mpPos[u] = mpHead]_mpVars
=============================================================================
