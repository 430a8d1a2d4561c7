------------------------------ MODULE MCReclaim -----------------------------
(* Safe memory reclamation: the two structures that use hazard pointers    *)
(* and RCU, one at a time.                                                 *)
EXTENDS MsQueue, HazardStack, Rcu, TLC

VARIABLE structure

msOwn == <<msQueue, ms>>
hsOwn == <<hsMemory, hsLocals>>

ReclaimInit ==
  /\ HazardInit /\ MsQueueInit /\ HazardStackInit /\ RcuInit
  /\ \/ structure = "ms_queue" /\ hpUnused = HpNode \ {msHead}
     \/ structure \in {"hazard_stack", "rcu"} /\ hpUnused = HpNode

ReclaimNext ==
  /\ UNCHANGED structure
  /\ \/ structure = "ms_queue" /\ MsNext /\ UNCHANGED <<hsOwn, rcuVars>>
     \/ structure = "hazard_stack" /\ StackNext /\ UNCHANGED <<msOwn, rcuVars>>
     \/ structure = "rcu" /\ RcuNext /\ UNCHANGED <<hpVars, msOwn, hsOwn>>

ReclaimSpec == ReclaimInit /\ [][ReclaimNext]_<<structure, hpVars, msOwn, hsOwn, rcuVars>>

-----------------------------------------------------------------------------
\* Two values in the queue at once are different: which of two equal values
\* came first cannot be told.
Live == {Linked(msHead)[i] : i \in DOMAIN Linked(msHead)} \cup ({ms[t].node : t \in HpThread} \ {NoNode})
DistinctPayloads == \A m, n \in Live : m # n => msData[m] # msData[n]

\* What the hazard pointers promise to both structures: no operation
\* dereferences a node that has been freed.
HazardNoUseAfterFree == MsNoUseAfterFree /\ StackNoUseAfterFree

\* StackOneOwner, where the hazard pointers serve the stack.
HazardStackOneOwner == structure = "hazard_stack" => StackOneOwner

ReclaimSymmetry == Permutations(HpThread) \cup Permutations(HpNode) \cup Permutations(Payload) \cup Permutations(Object)
=============================================================================
