------------------------------ MODULE FreeList ------------------------------
(***************************************************************************)
(* foundation/freelist/freelist.h: FreeList, a lock-free pool of Capacity  *)
(* slots.  Free slots form a stack linked through next_, whose head packs  *)
(* a slot and a tag that every successful compare-exchange increments.     *)
(* The slots never leave the pool, so a stale next_ can be read, and only  *)
(* the tag tells that it is stale.                                         *)
(***************************************************************************)
EXTENDS Integers, FiniteSets, LinkedList

CONSTANTS
  FlThread,
  FlCapacity,   \* capacity_
  MaxFlTag      \* bound: no operation starts at this tag (uint32_t in the code)

ASSUME FreeListAssumption == FlCapacity \in Nat \ {0} /\ MaxFlTag \in Nat

VARIABLES
  flHead,    \* head_: idx and tag
  flNext,    \* next_
  flPc,
  flOld,     \* old in acquire and release
  flNxt,     \* nxt in acquire
  flOwned,   \* slots a thread has acquired and not begun to release
  flIdx      \* idx in release

flVars == <<flHead, flNext, flPc, flOld, flNxt, flOwned, flIdx>>

FlSlot == 0..FlCapacity - 1
kNone == FlCapacity
NoFlHead == [idx |-> kNone, tag |-> 0]

\* The constructor links slot i to slot i + 1.
FreeListInit ==
  /\ flHead = [idx |-> 0, tag |-> 0]
  /\ flNext = [i \in FlSlot |-> i + 1]
  /\ flPc = [t \in FlThread |-> "idle"]
  /\ flOld = [t \in FlThread |-> NoFlHead]
  /\ flNxt = [t \in FlThread |-> kNone]
  /\ flOwned = [t \in FlThread |-> {}]
  /\ flIdx = [t \in FlThread |-> kNone]

FlGoto(t, label) == flPc' = [flPc EXCEPT ![t] = label]
FlIdle(t) == flPc[t] = "idle" /\ flHead.tag < MaxFlTag

\* The new head of a compare-exchange that expected old.
BugTagged(idx, old) == [idx |-> idx, tag |-> old.tag]
Tagged(idx, old) == [idx |-> idx, tag |-> old.tag + 1]

-----------------------------------------------------------------------------
(* acquire                                                                 *)

\* An exhausted pool gives nullptr.
AcquireLoad(t) ==
  /\ FlIdle(t) /\ flHead.idx # kNone
  /\ flOld' = [flOld EXCEPT ![t] = flHead]
  /\ FlGoto(t, "next")
  /\ UNCHANGED <<flHead, flNext, flNxt, flOwned, flIdx>>

AcquireNext(t) ==
  /\ flPc[t] = "next"
  /\ flNxt' = [flNxt EXCEPT ![t] = flNext[flOld[t].idx]]
  /\ FlGoto(t, "acquire")
  /\ UNCHANGED <<flHead, flNext, flOld, flOwned, flIdx>>

AcquireCas(t) ==
  /\ flPc[t] = "acquire"
  /\ flHead = flOld[t]
  /\ flHead' = Tagged(flNxt[t], flOld[t])
  /\ flOwned' = [flOwned EXCEPT ![t] = @ \cup {flOld[t].idx}]
  /\ flOld' = [flOld EXCEPT ![t] = NoFlHead]
  /\ flNxt' = [flNxt EXCEPT ![t] = kNone]
  /\ FlGoto(t, "idle")
  /\ UNCHANGED <<flNext, flIdx>>

\* A compare-exchange that failed, spuriously or not, loaded the head.
AcquireRetry(t) ==
  /\ flPc[t] = "acquire"
  /\ flOld' = [flOld EXCEPT ![t] = IF flHead.idx = kNone THEN NoFlHead ELSE flHead]
  /\ flNxt' = [flNxt EXCEPT ![t] = kNone]
  /\ FlGoto(t, IF flHead.idx = kNone THEN "idle" ELSE "next")
  /\ UNCHANGED <<flHead, flNext, flOwned, flIdx>>

-----------------------------------------------------------------------------
(* release, of a slot the thread has acquired.                             *)

ReleaseLoad(t) ==
  /\ FlIdle(t)
  /\ \E i \in flOwned[t] : flIdx' = [flIdx EXCEPT ![t] = i] /\ flOwned' = [flOwned EXCEPT ![t] = @ \ {i}]
  /\ flOld' = [flOld EXCEPT ![t] = flHead]
  /\ FlGoto(t, "link")
  /\ UNCHANGED <<flHead, flNext, flNxt>>

ReleaseLink(t) ==
  /\ flPc[t] = "link"
  /\ flNext' = [flNext EXCEPT ![flIdx[t]] = flOld[t].idx]
  /\ FlGoto(t, "release")
  /\ UNCHANGED <<flHead, flOld, flNxt, flOwned, flIdx>>

ReleaseCas(t) ==
  /\ flPc[t] = "release"
  /\ flHead = flOld[t]
  /\ flHead' = Tagged(flIdx[t], flOld[t])
  /\ flOld' = [flOld EXCEPT ![t] = NoFlHead]
  /\ flIdx' = [flIdx EXCEPT ![t] = kNone]
  /\ FlGoto(t, "idle")
  /\ UNCHANGED <<flNext, flNxt, flOwned>>

ReleaseRetry(t) ==
  /\ flPc[t] = "release"
  /\ flOld' = [flOld EXCEPT ![t] = flHead]
  /\ FlGoto(t, "link")
  /\ UNCHANGED <<flHead, flNext, flNxt, flOwned, flIdx>>

FreeListNext ==
  \E t \in FlThread :
    \/ AcquireLoad(t) \/ AcquireNext(t) \/ AcquireCas(t) \/ AcquireRetry(t)
    \/ ReleaseLoad(t) \/ ReleaseLink(t) \/ ReleaseCas(t) \/ ReleaseRetry(t)
FreeListSpec == FreeListInit /\ [][FreeListNext]_flVars

-----------------------------------------------------------------------------
\* The slots available() counts.
FreeSlots == Reached(flHead.idx, flNext, kNone, FlCapacity)

\* Every slot is on the free stack, acquired by one thread, or being released
\* by one: no slot is handed out twice and none is lost, although acquire may
\* have read next_ of a slot that was acquired and released since.
SlotsPartitioned ==
  \A i \in FlSlot :
    Cardinality({t \in FlThread : i \in flOwned[t]}) + Cardinality({t \in FlThread : i = flIdx[t]})
      + (IF i \in FreeSlots THEN 1 ELSE 0) = 1
=============================================================================
