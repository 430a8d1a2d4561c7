------------------------------- MODULE Hazard -------------------------------
(***************************************************************************)
(* foundation/hazard/hazard_ptr.h: HazardDomain.  A thread publishes the   *)
(* node it is about to dereference in a slot of its record; scan() frees   *)
(* the retired nodes that are in no slot.  MsQueue and HazardStack use it. *)
(*                                                                         *)
(* One action per atomic operation or critical section, in one total       *)
(* order; hpPc[t] is what thread t does next.  The allocator may hand out  *)
(* an address again as soon as it is free.                                 *)
(***************************************************************************)
EXTENDS Integers, Sequences, FiniteSets

CONSTANTS
  HpThread,
  HpNode,    \* addresses of nodes
  NoNode     \* nullptr

ASSUME HazardAssumption == IsFiniteSet(HpNode) /\ NoNode \notin HpNode

\* kHazardSlotsPerThread is 2.
HpSlot == {0, 1}
Pointer == HpNode \cup {NoNode}

VARIABLES
  hpRecords,    \* the record list, oldest first, each with its owner
  hpSlots,      \* HazardRecord::slots
  hpRetire,     \* global_retire_
  hpUnused,     \* addresses that are not allocated
  hpPc,
  hpToProcess,  \* to_process in scan
  hpHazards,    \* hazards in scan
  hpCursor      \* the record and slot scan reads next

hpScan == <<hpToProcess, hpHazards, hpCursor>>
hpDomain == <<hpRecords, hpSlots, hpRetire, hpScan>>
hpVars == <<hpDomain, hpUnused, hpPc>>

HpGoto(t, label) == hpPc' = [hpPc EXCEPT ![t] = label]

HazardInit ==
  /\ hpRecords = <<>>
  /\ hpSlots = [t \in HpThread |-> [i \in HpSlot |-> NoNode]]
  /\ hpRetire = {}
  /\ hpPc = [t \in HpThread |-> "idle"]
  /\ hpToProcess = [t \in HpThread |-> {}]
  /\ hpHazards = [t \in HpThread |-> {}]
  /\ hpCursor = [t \in HpThread |-> <<0, 0>>]

HpRegistered(t) == \E i \in 1..Len(hpRecords) : hpRecords[i] = t

\* A thread's first use of the domain prepends a record (the record of a
\* thread that has ended would serve as well: its slots are empty).
HpRegister(t) ==
  /\ hpPc[t] = "idle" /\ ~HpRegistered(t)
  /\ hpRecords' = Append(hpRecords, t)
  /\ UNCHANGED <<hpSlots, hpRetire, hpScan, hpUnused, hpPc>>

\* The slots of t after set_slot.
SetSlot(t, i, p) == hpSlots' = [hpSlots EXCEPT ![t][i] = p]
ResetSlots(t) == hpSlots' = [hpSlots EXCEPT ![t] = [i \in HpSlot |-> NoNode]]

\* do_retire, after the guards are reset.  The threshold is a multiple of
\* the number of records, and of no importance here: any retire may scan.
Retire(t, n) ==
  /\ ResetSlots(t)
  /\ hpRetire' = hpRetire \cup {n}
  /\ HpGoto(t, "idle") \/ HpGoto(t, "scan")

-----------------------------------------------------------------------------
(* scan, called by do_retire.  drain() and the destructor of MsQueue call  *)
(* it too, when the other threads have finished.                           *)

\* The list is taken under the mutex; head_ is loaded next, and a record
\* prepended later is not visited.
ScanTake(t) ==
  /\ hpPc[t] = "scan"
  /\ hpToProcess' = [hpToProcess EXCEPT ![t] = hpRetire]
  /\ hpCursor' = [hpCursor EXCEPT ![t] = <<Len(hpRecords), 0>>]
  /\ hpRetire' = {}
  /\ HpGoto(t, IF hpRetire = {} THEN "idle" ELSE "scanSlot")
  /\ UNCHANGED <<hpRecords, hpSlots, hpHazards, hpUnused>>

ScanSlot(t) ==
  /\ hpPc[t] = "scanSlot"
  /\ LET r == hpCursor[t][1]  i == hpCursor[t][2]
     IN /\ hpHazards' = [hpHazards EXCEPT ![t] = @ \cup ({hpSlots[hpRecords[r]][i]} \ {NoNode})]
        /\ hpCursor' = [hpCursor EXCEPT ![t] = IF i + 1 \in HpSlot THEN <<r, i + 1>> ELSE <<r - 1, 0>>]
        /\ HpGoto(t, IF i + 1 \notin HpSlot /\ r = 1 THEN "scanFree" ELSE "scanSlot")
  /\ UNCHANGED <<hpRecords, hpSlots, hpRetire, hpToProcess, hpUnused>>

\* Unprotected nodes are freed, the survivors go back on the list.
BugScanFree(t) ==
  /\ hpPc[t] = "scanFree"
  /\ hpUnused' = hpUnused \cup (hpToProcess[t] \ hpHazards[t])
  /\ hpToProcess' = [hpToProcess EXCEPT ![t] = {}]
  /\ hpHazards' = [hpHazards EXCEPT ![t] = {}]
  /\ hpCursor' = [hpCursor EXCEPT ![t] = <<0, 0>>]
  /\ HpGoto(t, "idle")
  /\ UNCHANGED <<hpRecords, hpSlots, hpRetire>>
ScanFree(t) ==
  /\ hpPc[t] = "scanFree"
  /\ hpUnused' = hpUnused \cup (hpToProcess[t] \ hpHazards[t])
  /\ hpRetire' = hpRetire \cup (hpToProcess[t] \cap hpHazards[t])
  /\ hpToProcess' = [hpToProcess EXCEPT ![t] = {}]
  /\ hpHazards' = [hpHazards EXCEPT ![t] = {}]
  /\ hpCursor' = [hpCursor EXCEPT ![t] = <<0, 0>>]
  /\ HpGoto(t, "idle")
  /\ UNCHANGED <<hpRecords, hpSlots>>

\* ScanFree apart, which concerns the contents of the nodes too.
HazardStep(t) == HpRegister(t) \/ ScanTake(t) \/ ScanSlot(t)
=============================================================================
