---------------------------- MODULE HazardStack ----------------------------
(***************************************************************************)
(* foundation/hazard/hazard_stack.h: HazardStack, a Treiber stack with a   *)
(* tagged head over hazard pointers.                                       *)
(***************************************************************************)
EXTENDS Hazard, LinkedList

CONSTANT MaxTag   \* bound: no push or pop starts at this tag

VARIABLES
  hsHead,   \* head_: ptr and tag
  hsNext,   \* Node::next
  hsNode,   \* n in push
  hsOld,    \* old in push and pop
  hsSucc    \* next.ptr in pop

hsMemory == <<hsHead, hsNext>>
hsLocals == <<hsNode, hsOld, hsSucc>>
hsVars == <<hpVars, hsMemory, hsLocals>>

NoHead == [ptr |-> NoNode, tag |-> 0]

HazardStackInit ==
  /\ hsHead = NoHead
  /\ hsNext = [n \in HpNode |-> NoNode]
  /\ hsNode = [t \in HpThread |-> NoNode]
  /\ hsOld = [t \in HpThread |-> NoHead]
  /\ hsSucc = [t \in HpThread |-> NoNode]

StackInit == HazardInit /\ HazardStackInit /\ hpUnused = HpNode

\* The head after a successful compare-exchange that expected old.
Retagged(ptr, old) == [ptr |-> ptr, tag |-> old.tag + 1]

Returned(t) ==
  /\ hsNode' = [hsNode EXCEPT ![t] = NoNode]
  /\ hsOld' = [hsOld EXCEPT ![t] = NoHead]
  /\ hsSucc' = [hsSucc EXCEPT ![t] = NoNode]

-----------------------------------------------------------------------------
(* push                                                                    *)

HsPushLoad(t) ==
  /\ hpPc[t] = "idle" /\ hsHead.tag < MaxTag
  /\ \E n \in hpUnused : hpUnused' = hpUnused \ {n} /\ hsNode' = [hsNode EXCEPT ![t] = n]
  /\ hsOld' = [hsOld EXCEPT ![t] = hsHead]
  /\ HpGoto(t, "hsPush")
  /\ UNCHANGED <<hpDomain, hsMemory, hsSucc>>

\* n->next = old.ptr, which nobody else sees yet, and the compare-exchange.
HsPushCas(t) ==
  /\ hpPc[t] = "hsPush"
  /\ hsNext' = [hsNext EXCEPT ![hsNode[t]] = hsOld[t].ptr]
  /\ \/ hsHead = hsOld[t] /\ hsHead' = Retagged(hsNode[t], hsOld[t]) /\ HpGoto(t, "idle") /\ Returned(t)
     \/ hsOld' = [hsOld EXCEPT ![t] = hsHead] /\ UNCHANGED <<hsHead, hsNode, hsSucc, hpPc>>
  /\ UNCHANGED <<hpDomain, hpUnused>>

-----------------------------------------------------------------------------
(* pop; the destructor's drain_one takes the same steps.                   *)

HsPopLoad(t) ==
  /\ \/ hpPc[t] = "idle" /\ HpRegistered(t) /\ hsHead.tag < MaxTag
     \/ hpPc[t] = "hsLoad"
  /\ hsOld' = [hsOld EXCEPT ![t] = hsHead]
  /\ HpGoto(t, "hsProtect")
  /\ UNCHANGED <<hpDomain, hpUnused, hsMemory, hsNode, hsSucc>>

HsProtect(t) ==
  /\ hpPc[t] = "hsProtect"
  /\ SetSlot(t, 0, hsOld[t].ptr)
  /\ HpGoto(t, "hsValidate")
  /\ UNCHANGED <<hpRecords, hpRetire, hpScan, hpUnused, hsMemory, hsLocals>>

\* Only the pointer is compared, not the tag.
HsValidate(t) ==
  /\ hpPc[t] = "hsValidate" /\ (hsHead.ptr = hsOld[t].ptr => hsOld[t].ptr # NoNode)
  /\ HpGoto(t, IF hsHead.ptr = hsOld[t].ptr THEN "hsNext" ELSE "hsLoad")
  /\ UNCHANGED <<hpDomain, hpUnused, hsMemory, hsLocals>>

HsEmpty(t) ==
  /\ hpPc[t] = "hsValidate" /\ hsHead.ptr = NoNode /\ hsOld[t].ptr = NoNode
  /\ ResetSlots(t) /\ Returned(t) /\ HpGoto(t, "idle")
  /\ UNCHANGED <<hpRecords, hpRetire, hpScan, hpUnused, hsMemory>>

HsNext(t) ==
  /\ hpPc[t] = "hsNext"
  /\ hsSucc' = [hsSucc EXCEPT ![t] = hsNext[hsOld[t].ptr]]
  /\ HpGoto(t, "hsPop")
  /\ UNCHANGED <<hpDomain, hpUnused, hsMemory, hsNode, hsOld>>

HsPopCas(t) ==
  /\ hpPc[t] = "hsPop"
  /\ \/ hsHead = hsOld[t] /\ hsHead' = Retagged(hsSucc[t], hsOld[t]) /\ HpGoto(t, "hsRetire")
     \/ HpGoto(t, "hsLoad") /\ UNCHANGED hsHead
  /\ hsSucc' = [hsSucc EXCEPT ![t] = NoNode]
  /\ UNCHANGED <<hpDomain, hpUnused, hsNext, hsNode, hsOld>>

HsRetire(t) ==
  /\ hpPc[t] = "hsRetire"
  /\ Retire(t, hsOld[t].ptr) /\ Returned(t)
  /\ UNCHANGED <<hpRecords, hpScan, hpUnused, hsMemory>>

HsScanFree(t) ==
  /\ ScanFree(t)
  /\ hsNext' = [n \in HpNode |-> IF n \in hpUnused' THEN NoNode ELSE hsNext[n]]
  /\ UNCHANGED <<hsHead, hsLocals>>

StackStep(t) ==
  \/ HsPushLoad(t) \/ HsPushCas(t)
  \/ HsPopLoad(t) \/ HsProtect(t) \/ HsValidate(t) \/ HsEmpty(t) \/ HsNext(t)
  \/ HsPopCas(t) \/ HsRetire(t)
StackNext ==
  \E t \in HpThread :
    StackStep(t) \/ HsScanFree(t) \/ (HazardStep(t) /\ UNCHANGED <<hsMemory, hsLocals>>)
StackSpec == StackInit /\ [][StackNext]_hsVars

-----------------------------------------------------------------------------
\* The nodes on the stack.
HsOnStack == Reached(hsHead.ptr, hsNext, NoNode, Cardinality(HpNode))

\* pop reads the next pointer only of a node that has not been freed: the
\* hazard pointer was published while the node was still the head.
StackNoUseAfterFree ==
  \A t \in HpThread : hpPc[t] = "hsNext" => hsOld[t].ptr \notin hpUnused

\* Every node has one owner: the allocator, the stack, the thread that pushes
\* or has popped it, or the retirement.  A pop that acted on a stale next
\* pointer would bring a retired or free node back.
StackOneOwner ==
  LET held == {hsNode[t] : t \in HpThread} \ {NoNode}
      popped == {hsOld[t].ptr : t \in {u \in HpThread : hpPc[u] = "hsRetire"}}
      retired == hpRetire \cup UNION {hpToProcess[t] : t \in HpThread}
      owners(n) == Cardinality({o \in 1..5 : n \in <<hpUnused, HsOnStack, held, popped, retired>>[o]})
  IN \A n \in HpNode : owners(n) = 1
=============================================================================
