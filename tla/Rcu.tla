-------------------------------- MODULE Rcu --------------------------------
(***************************************************************************)
(* foundation/rcu: RcuDomain, grace periods by per-thread counters, and    *)
(* RcuPtr, the pointer whose old values it frees.                          *)
(*                                                                         *)
(* One action per atomic operation or critical section, in one total       *)
(* order.  A record is used by one live thread at a time and carries       *)
(* nothing but its counter, so thread t stands for its record too: ended   *)
(* and started again it claims its record back.  An object is allocated    *)
(* once, so that a use of a freed one can be told.                         *)
(***************************************************************************)
EXTENDS Integers, FiniteSets

CONSTANTS
  RcuThread,
  RcuWriter,             \* the threads that call store or reclaim_all
  Object,
  NoObject,              \* nullptr
  kRcuReclaimThreshold,
  MaxCtr                 \* bound: no section starts at this counter

ASSUME RcuAssumption ==
  /\ RcuWriter \subseteq RcuThread /\ NoObject \notin Object
  /\ kRcuReclaimThreshold \in Nat \ {0} /\ MaxCtr \in Nat

VARIABLES
  rcPtr,       \* RcuPtr::ptr_
  rcNew,       \* objects not allocated yet
  rcFreed,     \* objects reclaimed
  rcCtr,       \* ThreadRecord::ctr
  rcRecord,    \* "none" before get_or_create_record, "owned" while active, else "free"
  rcPending,   \* pending_
  rcPc,
  rcHeld,      \* the object a reader got from RcuPtr::get
  rcOld,       \* old in store, ptr in do_retire
  rcUnseen,    \* records the walk in synchronize has not reached
  rcWait,      \* waitlist in synchronize: pairs of a record and a snapshot
  rcToFree,    \* to_free in reclaim_all
  rcCovered,   \* history: what was pending when synchronize() began
  rcOvertaken  \* history: objects taken that were not

rcReader == <<rcCtr, rcRecord, rcHeld>>
rcMemory == <<rcPtr, rcNew, rcFreed>>
rcSync == <<rcUnseen, rcWait, rcCovered>>
rcuVars == <<rcReader, rcMemory, rcPending, rcPc, rcOld, rcSync, rcToFree, rcOvertaken>>

Odd(c) == c % 2 = 1
RcGoto(t, label) == rcPc' = [rcPc EXCEPT ![t] = label]
\* Between the constructor and the destructor of a ReadGuard.
Reading(t) == Odd(rcCtr[t])
Active(t) == rcRecord[t] = "owned"

RcuInit ==
  /\ \E o \in Object : rcPtr = o /\ rcNew = Object \ {o}
  /\ rcFreed = {} /\ rcPending = {} /\ rcOvertaken = {}
  /\ rcCtr = [t \in RcuThread |-> 0]
  /\ rcRecord = [t \in RcuThread |-> "none"]
  /\ rcPc = [t \in RcuThread |-> "idle"]
  /\ rcHeld = [t \in RcuThread |-> NoObject]
  /\ rcOld = [t \in RcuThread |-> NoObject]
  /\ rcUnseen = [t \in RcuThread |-> {}]
  /\ rcWait = [t \in RcuThread |-> {}]
  /\ rcToFree = [t \in RcuThread |-> {}]
  /\ rcCovered = [t \in RcuThread |-> {}]

-----------------------------------------------------------------------------
(* Records: tl() on first use, ~ThreadState at the end of the thread.      *)

RcuRegister(t) ==
  /\ ~Active(t) /\ rcPc[t] = "idle"
  /\ rcRecord' = [rcRecord EXCEPT ![t] = "owned"]
  /\ UNCHANGED <<rcCtr, rcHeld, rcMemory, rcPending, rcPc, rcOld, rcSync, rcToFree, rcOvertaken>>

RcuThreadExit(t) ==
  /\ Active(t) /\ rcPc[t] = "idle" /\ ~Reading(t)
  /\ rcRecord' = [rcRecord EXCEPT ![t] = "free"]
  /\ UNCHANGED <<rcCtr, rcHeld, rcMemory, rcPending, rcPc, rcOld, rcSync, rcToFree, rcOvertaken>>

-----------------------------------------------------------------------------
(* Readers                                                                 *)

ReadLock(t) ==
  /\ Active(t) /\ rcPc[t] = "idle" /\ ~Reading(t) /\ rcCtr[t] < MaxCtr
  /\ rcCtr' = [rcCtr EXCEPT ![t] = @ + 1]
  /\ UNCHANGED <<rcRecord, rcHeld, rcMemory, rcPending, rcPc, rcOld, rcSync, rcToFree, rcOvertaken>>

ReadGet(t) ==
  /\ Reading(t)
  /\ rcHeld' = [rcHeld EXCEPT ![t] = rcPtr]
  /\ UNCHANGED <<rcCtr, rcRecord, rcMemory, rcPending, rcPc, rcOld, rcSync, rcToFree, rcOvertaken>>

\* The reference is not used after the guard.
ReadUnlock(t) ==
  /\ Reading(t)
  /\ rcCtr' = [rcCtr EXCEPT ![t] = @ + 1]
  /\ rcHeld' = [rcHeld EXCEPT ![t] = NoObject]
  /\ UNCHANGED <<rcRecord, rcMemory, rcPending, rcPc, rcOld, rcSync, rcToFree, rcOvertaken>>

-----------------------------------------------------------------------------
(* Writers.  store and reclaim_all are called outside a ReadGuard: inside  *)
(* one synchronize() would wait for its own thread.                        *)

Exchange(t) ==
  /\ rcPc[t] = "idle" /\ ~Reading(t)
  /\ \E o \in rcNew : rcPtr' = o /\ rcNew' = rcNew \ {o}
  /\ rcOld' = [rcOld EXCEPT ![t] = rcPtr]
  /\ RcGoto(t, "retire")
  /\ UNCHANGED <<rcReader, rcFreed, rcPending, rcSync, rcToFree, rcOvertaken>>

DoRetire(t) ==
  /\ rcPc[t] = "retire"
  /\ rcPending' = rcPending \cup {rcOld[t]}
  /\ rcOld' = [rcOld EXCEPT ![t] = NoObject]
  /\ RcGoto(t, IF Cardinality(rcPending') >= kRcuReclaimThreshold THEN "reclaim" ELSE "idle")
  /\ UNCHANGED <<rcReader, rcMemory, rcSync, rcToFree, rcOvertaken>>

ReclaimAll(t) ==
  /\ rcPc[t] = "idle" /\ ~Reading(t)
  /\ RcGoto(t, "reclaim")
  /\ UNCHANGED <<rcReader, rcMemory, rcPending, rcOld, rcSync, rcToFree, rcOvertaken>>

\* synchronize() loads the head of the record list: a thread that registers
\* later is not looked at.
SyncStart(t) ==
  /\ rcPc[t] = "reclaim"
  /\ rcUnseen' = [rcUnseen EXCEPT ![t] = {u \in RcuThread : rcRecord[u] # "none"}]
  /\ rcWait' = [rcWait EXCEPT ![t] = {}]
  /\ rcCovered' = [rcCovered EXCEPT ![t] = rcPending]
  /\ RcGoto(t, "scan")
  /\ UNCHANGED <<rcReader, rcMemory, rcPending, rcOld, rcToFree, rcOvertaken>>

BugMustWait(u) == Active(u) /\ ~Odd(rcCtr[u])
MustWait(u) == Active(u) /\ Odd(rcCtr[u])

\* active and ctr of a record are two loads: what changes in between is a
\* section that began after the call, or one that has ended.
SyncScan(t) ==
  /\ rcPc[t] = "scan"
  /\ \E u \in rcUnseen[t] :
       /\ rcUnseen' = [rcUnseen EXCEPT ![t] = @ \ {u}]
       /\ rcWait' = [rcWait EXCEPT ![t] = IF MustWait(u) THEN @ \cup {<<u, rcCtr[u]>>} ELSE @]
  /\ UNCHANGED <<rcReader, rcMemory, rcPending, rcPc, rcOld, rcCovered, rcToFree, rcOvertaken>>

\* The counters only grow: waiting for one record after the other ends when
\* all of them have changed.
GracePeriodOver(t) ==
  /\ rcUnseen[t] = {}
  /\ \A w \in rcWait[t] : rcCtr[w[1]] # w[2]

TakePending(t) ==
  /\ rcPc[t] = "scan" /\ GracePeriodOver(t)
  /\ rcToFree' = [rcToFree EXCEPT ![t] = rcPending]
  /\ rcOvertaken' = rcOvertaken \cup (rcPending \ rcCovered[t])
  /\ rcPending' = {}
  /\ RcGoto(t, "free")
  /\ UNCHANGED <<rcReader, rcMemory, rcOld, rcSync>>

FreeAll(t) ==
  /\ rcPc[t] = "free"
  /\ rcFreed' = rcFreed \cup rcToFree[t]
  /\ rcToFree' = [rcToFree EXCEPT ![t] = {}]
  /\ rcUnseen' = [rcUnseen EXCEPT ![t] = {}]
  /\ rcWait' = [rcWait EXCEPT ![t] = {}]
  /\ rcCovered' = [rcCovered EXCEPT ![t] = {}]
  /\ RcGoto(t, "idle")
  /\ UNCHANGED <<rcReader, rcPtr, rcNew, rcPending, rcOld, rcOvertaken>>

RcuReaderStep(t) ==
  RcuRegister(t) \/ RcuThreadExit(t) \/ ReadLock(t) \/ ReadGet(t) \/ ReadUnlock(t)
RcuWriterStep(t) ==
  \/ Exchange(t) \/ DoRetire(t) \/ ReclaimAll(t)
  \/ SyncStart(t) \/ SyncScan(t) \/ TakePending(t) \/ FreeAll(t)
RcuNext ==
  \/ \E t \in RcuThread : RcuReaderStep(t)
  \/ \E t \in RcuWriter : RcuWriterStep(t)
RcuSpec == RcuInit /\ [][RcuNext]_rcuVars

-----------------------------------------------------------------------------
RcuTypeOK ==
  /\ rcPtr \in Object /\ rcNew \subseteq Object /\ rcFreed \subseteq Object
  /\ rcCtr \in [RcuThread -> Nat] /\ rcRecord \in [RcuThread -> {"none", "owned", "free"}]
  /\ rcHeld \in [RcuThread -> Object \cup {NoObject}]
  /\ rcOld \in [RcuThread -> Object \cup {NoObject}]
  /\ rcPending \subseteq Object /\ rcOvertaken \subseteq Object
  /\ rcPc \in [RcuThread -> {"idle", "retire", "reclaim", "scan", "free"}]
  /\ rcUnseen \in [RcuThread -> SUBSET RcuThread]
  /\ rcWait \in [RcuThread -> SUBSET (RcuThread \X Nat)]
  /\ rcToFree \in [RcuThread -> SUBSET Object]
  /\ rcCovered \in [RcuThread -> SUBSET Object]

\* What reclaim_all's synchronize() is for: an object that was pending when
\* it began is not freed under a reader that holds it.  Nothing is said of an
\* object retired while it waited, which reclaim_all takes as well.
GracePeriodRespected ==
  \A t \in RcuThread : rcHeld[t] \in rcFreed => rcHeld[t] \in rcOvertaken
=============================================================================
