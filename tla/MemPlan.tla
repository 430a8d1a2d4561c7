------------------------------ MODULE MemPlan ------------------------------
(***************************************************************************)
(* compiler/mem_planning/MemPlanningPass.cpp: placing tensors in one arena *)
(* from their lifetimes, first fit over a free list.  A value is its       *)
(* number in the order of the stable sort by defTime.                      *)
(***************************************************************************)
EXTENDS Integers, Sequences, SequencesExt

CONSTANTS
  MaxValues,    \* tensor values of the function
  TensorSizes,  \* byteSize of a value, at least 1
  ArenaSize     \* stands for INT64_MAX: more than all values together

ASSUME MemPlanAssumption == \A s \in TensorSizes : s \in Nat \ {0} /\ s * MaxValues < ArenaSize

TensorValue == 1..MaxValues

VARIABLE
  mp   \* defTime, lastUseTime, size: of each value; placed: how many have an
       \* offset; offset; live: values not released; freeList; peak

Lifetimes(def, last, size) ==
  [def |-> def, last |-> last, size |-> size, placed |-> 0, offset |-> [i \in TensorValue |-> 0],
   live |-> {}, freeList |-> <<[offset |-> 0, size |-> ArenaSize]>>, peak |-> 0]
MemPlanInit ==
  \E def, last \in [TensorValue -> 1..MaxValues], size \in [TensorValue -> TensorSizes] :
    /\ def[1] = 1 /\ \A i \in 2..MaxValues : def[i] \in {def[i - 1], i}
    /\ \A i \in TensorValue : last[i] >= def[i]
    /\ mp = Lifetimes(def, last, size)

BugExpired(now) == {i \in mp.live : mp.last[i] <= now}
Expired(now) == {i \in mp.live : mp.last[i] < now}

\* Adjacent blocks of a sorted list become one.
Coalesced(blocks) ==
  FoldLeft(LAMBDA done, b :
             IF done # <<>> /\ Last(done).offset + Last(done).size = b.offset
             THEN [done EXCEPT ![Len(done)].size = @ + b.size] ELSE Append(done, b),
           <<>>, blocks)

ReleaseExpired(now) ==
  LET released == {[offset |-> mp.offset[i], size |-> mp.size[i]] : i \in Expired(now)}
      blocks == released \cup {mp.freeList[k] : k \in DOMAIN mp.freeList}
  IN Coalesced(SetToSortSeq(blocks, LAMBDA a, b : a.offset < b.offset))

\* The block it is taken from shrinks, or goes.
Carve(list, k, size) ==
  IF list[k].size = size THEN RemoveAt(list, k)
  ELSE [list EXCEPT ![k].offset = @ + size, ![k].size = @ - size]

PlaceNext ==
  /\ mp.placed < MaxValues
  /\ LET i == mp.placed + 1
         list == ReleaseExpired(mp.def[i])
         fit == CHOOSE k \in DOMAIN list : list[k].size >= mp.size[i] /\ \A j \in 1..k - 1 : list[j].size < mp.size[i]
         end == list[fit].offset + mp.size[i]
     IN mp' = [mp EXCEPT !.placed = i, !.offset[i] = list[fit].offset, !.live = (@ \ Expired(mp.def[i])) \cup {i},
                         !.freeList = Carve(list, fit, mp.size[i]), !.peak = IF end > @ THEN end ELSE @]

MemPlanNext == PlaceNext
MemPlanSpec == MemPlanInit /\ [][MemPlanNext]_mp

-----------------------------------------------------------------------------
Bytes(i) == mp.offset[i]..mp.offset[i] + mp.size[i] - 1

\* "overlapping intervals never alias": two values of which one is defined
\* while the other may still be read have no byte in common.
NoAliasing ==
  \A i, j \in 1..mp.placed :
    i < j /\ mp.last[i] >= mp.def[j] => Bytes(i) \cap Bytes(j) = {}
=============================================================================
