------------------------------ MODULE MsQueue ------------------------------
(***************************************************************************)
(* foundation/msqueue/ms_queue.h: MsQueue, the Michael-Scott queue over    *)
(* hazard pointers.  No tags: only the hazard pointers stand between a     *)
(* compare-exchange and an address that has been freed and reused.         *)
(***************************************************************************)
EXTENDS Hazard, LinkedList

CONSTANTS
  Payload,    \* T
  NoPayload   \* the data of a sentinel, a consumer without a value

VARIABLES
  msHead, msTail,   \* head_, tail_
  msNext, msData,   \* Node::next, Node::data
  ms                \* the locals of enqueue and dequeue, by thread

msQueue == <<msHead, msTail, msNext, msData>>
msVars == <<hpVars, msQueue, ms>>

\* at is tail in enqueue and head in dequeue.
NoLocals == [node |-> NoNode, at |-> NoNode, next |-> NoNode, tmp |-> NoPayload]

MsQueueInit ==
  /\ \E s \in HpNode : msHead = s /\ msTail = s
  /\ msNext = [n \in HpNode |-> NoNode]
  /\ msData = [n \in HpNode |-> NoPayload]
  /\ ms = [t \in HpThread |-> NoLocals]

MsInit == HazardInit /\ MsQueueInit /\ hpUnused = HpNode \ {msHead}

\* Where a step leaves thread t: with a local set, at the next operation, at
\* the top of a loop where the locals are dead, or back in the caller.
MsSet(t, field, p, label) == HpGoto(t, label) /\ ms' = [ms EXCEPT ![t][field] = p]
MsOn(t, label) == HpGoto(t, label) /\ UNCHANGED ms
MsAgain(t, label) ==
  HpGoto(t, label) /\ ms' = [ms EXCEPT ![t] = [NoLocals EXCEPT !.node = ms[t].node]]
MsReturn(t) == ms' = [ms EXCEPT ![t] = NoLocals]

\* What a load leaves alone, and a store to a slot.
MsLoad == UNCHANGED <<hpDomain, hpUnused, msQueue>>
MsPublish == UNCHANGED <<hpRecords, hpRetire, hpScan, hpUnused, msQueue>>

\* A compare_exchange_strong of tail_.
SwingTail(from, to) ==
  /\ msTail' = IF msTail = from THEN to ELSE msTail
  /\ UNCHANGED <<hpRecords, hpRetire, hpScan, hpUnused, msHead, msNext, msData>>

-----------------------------------------------------------------------------
(* enqueue                                                                 *)

EnqAlloc(t) ==
  /\ hpPc[t] = "idle" /\ HpRegistered(t)
  /\ \E n \in hpUnused, v \in Payload :
       /\ hpUnused' = hpUnused \ {n}
       /\ msNext' = [msNext EXCEPT ![n] = NoNode]
       /\ msData' = [msData EXCEPT ![n] = v]
       /\ MsSet(t, "node", n, "enqLoad")
  /\ UNCHANGED <<hpDomain, msHead, msTail>>

EnqLoad(t) == hpPc[t] = "enqLoad" /\ MsSet(t, "at", msTail, "enqProtect") /\ MsLoad

EnqProtect(t) ==
  hpPc[t] = "enqProtect" /\ SetSlot(t, 0, ms[t].at) /\ MsOn(t, "enqValidate") /\ MsPublish

EnqValidate(t) ==
  /\ hpPc[t] = "enqValidate"
  /\ IF msTail = ms[t].at THEN MsOn(t, "enqNext") ELSE MsAgain(t, "enqLoad")
  /\ MsLoad

EnqNext(t) ==
  hpPc[t] = "enqNext" /\ MsSet(t, "next", msNext[ms[t].at], "enqRecheck") /\ MsLoad

EnqRecheck(t) ==
  /\ hpPc[t] = "enqRecheck"
  /\ IF msTail # ms[t].at THEN MsAgain(t, "enqLoad")
     ELSE MsOn(t, IF ms[t].next = NoNode THEN "enqLink" ELSE "enqHelp")
  /\ MsLoad

\* compare_exchange_weak: it may fail without cause.
BugEnqLink(t) ==
  /\ hpPc[t] = "enqLink"
  /\ msNext' = [msNext EXCEPT ![ms[t].at] = ms[t].node]
  /\ MsOn(t, "enqSwing")
  /\ UNCHANGED <<hpDomain, hpUnused, msHead, msTail, msData>>
EnqLink(t) ==
  /\ hpPc[t] = "enqLink"
  /\ \/ /\ msNext[ms[t].at] = NoNode
        /\ msNext' = [msNext EXCEPT ![ms[t].at] = ms[t].node]
        /\ MsOn(t, "enqSwing")
     \/ MsAgain(t, "enqLoad") /\ UNCHANGED msNext
  /\ UNCHANGED <<hpDomain, hpUnused, msHead, msTail, msData>>

EnqSwing(t) ==
  /\ hpPc[t] = "enqSwing"
  /\ SwingTail(ms[t].at, ms[t].node)
  /\ ResetSlots(t) /\ HpGoto(t, "idle") /\ MsReturn(t)

EnqHelp(t) ==
  /\ hpPc[t] = "enqHelp"
  /\ SwingTail(ms[t].at, ms[t].next)
  /\ MsAgain(t, "enqLoad") /\ UNCHANGED hpSlots

-----------------------------------------------------------------------------
(* dequeue; the destructor's drain_one takes the same steps.               *)

DeqLoad(t) ==
  /\ hpPc[t] \in {"idle", "deqLoad"} /\ HpRegistered(t)
  /\ MsSet(t, "at", msHead, "deqProtect") /\ MsLoad

DeqProtect(t) ==
  hpPc[t] = "deqProtect" /\ SetSlot(t, 0, ms[t].at) /\ MsOn(t, "deqValidate") /\ MsPublish

BugDeqValidate(t) == hpPc[t] = "deqValidate" /\ MsOn(t, "deqNext") /\ MsLoad
DeqValidate(t) ==
  /\ hpPc[t] = "deqValidate"
  /\ IF msHead = ms[t].at THEN MsOn(t, "deqNext") ELSE MsAgain(t, "deqLoad")
  /\ MsLoad

DeqNext(t) ==
  hpPc[t] = "deqNext" /\ MsSet(t, "next", msNext[ms[t].at], "deqProtectNext") /\ MsLoad

DeqProtectNext(t) ==
  /\ hpPc[t] = "deqProtectNext"
  /\ SetSlot(t, 1, ms[t].next) /\ MsOn(t, "deqValidateNext") /\ MsPublish

DeqValidateNext(t) ==
  /\ hpPc[t] = "deqValidateNext"
  /\ IF msNext[ms[t].at] = ms[t].next THEN MsOn(t, "deqCheck") ELSE MsOn(t, "deqNext")
  /\ MsLoad

\* head_ is loaded once more; a node without successor means empty.
DeqCheck(t) ==
  /\ hpPc[t] = "deqCheck"
  /\ msHead = ms[t].at => ms[t].next # NoNode
  /\ IF msHead = ms[t].at THEN MsOn(t, "deqTail") ELSE MsAgain(t, "deqLoad")
  /\ MsLoad

DeqEmpty(t) ==
  /\ hpPc[t] = "deqCheck" /\ msHead = ms[t].at /\ ms[t].next = NoNode
  /\ ResetSlots(t) /\ HpGoto(t, "idle") /\ MsReturn(t) /\ MsPublish

DeqTail(t) ==
  hpPc[t] = "deqTail" /\ MsOn(t, IF msTail = ms[t].at THEN "deqHelp" ELSE "deqCopy") /\ MsLoad

DeqHelp(t) ==
  /\ hpPc[t] = "deqHelp"
  /\ SwingTail(ms[t].at, ms[t].next)
  /\ MsAgain(t, "deqLoad") /\ UNCHANGED hpSlots

DeqCopy(t) == hpPc[t] = "deqCopy" /\ MsSet(t, "tmp", msData[ms[t].next], "deqCas") /\ MsLoad

DeqCas(t) ==
  /\ hpPc[t] = "deqCas"
  /\ \/ msHead = ms[t].at /\ msHead' = ms[t].next /\ MsOn(t, "deqRetire")
     \/ MsAgain(t, "deqLoad") /\ UNCHANGED msHead
  /\ UNCHANGED <<hpDomain, hpUnused, msTail, msNext, msData>>

DeqRetire(t) ==
  /\ hpPc[t] = "deqRetire"
  /\ Retire(t, ms[t].at) /\ MsReturn(t)
  /\ UNCHANGED <<hpRecords, hpScan, hpUnused, msQueue>>

\* What a freed node contained is gone.
MsScanFree(t) ==
  /\ ScanFree(t)
  /\ msNext' = [n \in HpNode |-> IF n \in hpUnused' THEN NoNode ELSE msNext[n]]
  /\ msData' = [n \in HpNode |-> IF n \in hpUnused' THEN NoPayload ELSE msData[n]]
  /\ UNCHANGED <<msHead, msTail, ms>>

Enqueue(t) ==
  \/ EnqAlloc(t) \/ EnqLoad(t) \/ EnqProtect(t) \/ EnqValidate(t) \/ EnqNext(t)
  \/ EnqRecheck(t) \/ EnqLink(t) \/ EnqSwing(t) \/ EnqHelp(t)
Dequeue(t) ==
  \/ DeqLoad(t) \/ DeqProtect(t) \/ DeqValidate(t) \/ DeqNext(t) \/ DeqProtectNext(t)
  \/ DeqValidateNext(t) \/ DeqCheck(t) \/ DeqEmpty(t) \/ DeqTail(t) \/ DeqHelp(t)
  \/ DeqCopy(t) \/ DeqCas(t) \/ DeqRetire(t)
MsNext ==
  \E t \in HpThread :
    Enqueue(t) \/ Dequeue(t) \/ MsScanFree(t) \/ (HazardStep(t) /\ UNCHANGED <<msQueue, ms>>)
MsSpec == MsInit /\ [][MsNext]_msVars

-----------------------------------------------------------------------------
\* The nodes a thread dereferences in its next step.
MsDereferences(t) ==
  CASE hpPc[t] \in {"enqNext", "enqLink", "deqNext", "deqValidateNext"} -> {ms[t].at}
    [] hpPc[t] = "deqCopy" -> {ms[t].next}
    [] OTHER -> {}

\* No operation of the queue touches a node that has been freed, although
\* between a thread's load of a pointer and its hazard pointer any number of
\* dequeues and scans may have passed.
MsNoUseAfterFree ==
  \A t \in HpThread : MsDereferences(t) \cap hpUnused = {}

\* The nodes linked behind n, oldest first.
Linked(n) == Tail(Walked(n, msNext, NoNode, Cardinality(HpNode)))

MsFifo == INSTANCE BoundedFifo WITH
  Client <- HpThread, Value <- Payload, Nothing <- NoPayload, Capacity <- Cardinality(HpNode),
  contents <- LET nodes == Linked(msHead) IN [i \in DOMAIN nodes |-> msData[nodes[i]]],
  taken <- [t \in HpThread |-> IF hpPc[t] = "deqRetire" THEN ms[t].tmp ELSE NoPayload]

\* MsQueue is a FIFO queue: the compare-exchange of the last node's next
\* enters a value and that of head_ takes the oldest one, which is the value
\* the consumer copied before it; a lagging tail_ shows to nobody.
MsQueueIsFifo == MsFifo!Spec
=============================================================================
