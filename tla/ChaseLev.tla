------------------------------ MODULE ChaseLev ------------------------------
(***************************************************************************)
(* foundation/chase_lev/chase_lev.h: ChaseLevDeque.  The owner pushes and  *)
(* pops at the bottom, any thread steals at the top; the owner replaces    *)
(* the array by one of twice the size when it is full, and thieves may     *)
(* still read the old one.                                                 *)
(*                                                                         *)
(* One action per access to shared memory, in one total order (the fences  *)
(* and the seq_cst compare-exchanges of the code are what justifies it).   *)
(***************************************************************************)
EXTENDS Integers, Sequences

CONSTANTS
  Owner,
  Thief,
  Item,
  NoItem,        \* nullopt; what a slot holds before the first store
  InitialCap,
  MaxBottom      \* bound: no push when bottom_ is here

ASSUME ChaseLevAssumption ==
  /\ NoItem \notin Item /\ Owner \notin Thief
  /\ InitialCap \in Nat \ {0} /\ MaxBottom \in Nat

VARIABLES
  clTop,      \* top_
  clBottom,   \* bottom_
  clArrays,   \* every array there has been, array_ last: the others are in trash_
  clOwner,    \* the owner's place and its locals b, t, val
  clThief     \* a thief's place and its locals t, a, val

clVars == <<clTop, clBottom, clArrays, clOwner, clThief>>

-----------------------------------------------------------------------------
(* Array: a sequence of cap slots, indexed modulo cap.                     *)

NewArray(c) == [i \in 1..c |-> NoItem]
Masked(a, i) == (i % Len(a)) + 1
At(a, i) == a[Masked(a, i)]
Put(a, i, v) == [a EXCEPT ![Masked(a, i)] = v]
CurrentArray == Len(clArrays)

\* grow copies the positions t..b-1 one by one; only the owner stores into
\* arrays, so that no thief can tell.
Grown(old, t, b) ==
  [i \in 1..2 * Len(old) |->
     IF \E p \in t..b - 1 : (p % (2 * Len(old))) + 1 = i
     THEN At(old, CHOOSE p \in t..b - 1 : (p % (2 * Len(old))) + 1 = i)
     ELSE NoItem]

OwnerIdle == [pc |-> "idle", b |-> 0, t |-> 0, val |-> NoItem]
ThiefIdle == [pc |-> "idle", t |-> 0, a |-> 0, val |-> NoItem]

ChaseLevInit ==
  /\ clTop = 0 /\ clBottom = 0
  /\ clArrays = <<NewArray(InitialCap)>>
  /\ clOwner = OwnerIdle
  /\ clThief = [t \in Thief |-> ThiefIdle]

-----------------------------------------------------------------------------
(* push, by the owner.                                                     *)

ClPushLoad(v) ==
  /\ clOwner.pc = "idle" /\ clBottom < MaxBottom
  /\ clOwner' = [pc |-> IF clBottom - clTop >= Len(clArrays[CurrentArray]) THEN "grow" ELSE "store",
                 b |-> clBottom, t |-> clTop, val |-> v]
  /\ UNCHANGED <<clTop, clBottom, clArrays, clThief>>

Grow ==
  /\ clOwner.pc = "grow"
  /\ clArrays' = Append(clArrays, Grown(clArrays[CurrentArray], clOwner.t, clOwner.b))
  /\ clOwner' = [clOwner EXCEPT !.pc = "store"]
  /\ UNCHANGED <<clTop, clBottom, clThief>>

ClPushStore ==
  /\ clOwner.pc = "store"
  /\ clArrays' = [clArrays EXCEPT ![CurrentArray] = Put(@, clOwner.b, clOwner.val)]
  /\ clOwner' = [clOwner EXCEPT !.pc = "publish"]
  /\ UNCHANGED <<clTop, clBottom, clThief>>

ClPushBottom ==
  /\ clOwner.pc = "publish"
  /\ clBottom' = clOwner.b + 1
  /\ clOwner' = OwnerIdle
  /\ UNCHANGED <<clTop, clArrays, clThief>>

-----------------------------------------------------------------------------
(* pop, by the owner.                                                      *)

ClPopBottom ==
  /\ clOwner.pc = "idle"
  /\ clBottom' = clBottom - 1
  /\ clOwner' = [OwnerIdle EXCEPT !.pc = "popTop", !.b = clBottom - 1]
  /\ UNCHANGED <<clTop, clArrays, clThief>>

\* t > b: empty; t < b: the item is the owner's; t = b: a race with the
\* thieves for the last item.
PopTop ==
  /\ clOwner.pc = "popTop"
  /\ LET b == clOwner.b
     IN clOwner' = [pc |-> IF clTop > b THEN "restore" ELSE IF clTop < b THEN "return" ELSE "popCas",
                    b |-> b, t |-> clTop,
                    val |-> IF clTop > b THEN NoItem ELSE At(clArrays[CurrentArray], b)]
  /\ UNCHANGED <<clTop, clBottom, clArrays, clThief>>

BugPopCas ==
  /\ clOwner.pc = "popCas"
  /\ clTop' = clOwner.t + 1 /\ clOwner' = [clOwner EXCEPT !.pc = "restore"]
  /\ UNCHANGED <<clBottom, clArrays, clThief>>
PopCas ==
  /\ clOwner.pc = "popCas"
  /\ \/ clTop = clOwner.t /\ clTop' = clTop + 1 /\ clOwner' = [clOwner EXCEPT !.pc = "restore"]
     \/ clTop # clOwner.t /\ clOwner' = [clOwner EXCEPT !.pc = "restore", !.val = NoItem] /\ UNCHANGED clTop
  /\ UNCHANGED <<clBottom, clArrays, clThief>>

PopRestore ==
  /\ clOwner.pc = "restore"
  /\ clBottom' = clOwner.b + 1
  /\ clOwner' = IF clOwner.val = NoItem THEN OwnerIdle ELSE [clOwner EXCEPT !.pc = "return"]
  /\ UNCHANGED <<clTop, clArrays, clThief>>

ClPopReturn ==
  /\ clOwner.pc = "return"
  /\ clOwner' = OwnerIdle
  /\ UNCHANGED <<clTop, clBottom, clArrays, clThief>>

-----------------------------------------------------------------------------
(* steal, by any thread.                                                   *)

StealTop(t) ==
  /\ clThief[t].pc = "idle"
  /\ clThief' = [clThief EXCEPT ![t].pc = "bottom", ![t].t = clTop]
  /\ UNCHANGED <<clTop, clBottom, clArrays, clOwner>>

StealBottom(t) ==
  /\ clThief[t].pc = "bottom"
  /\ clThief' = [clThief EXCEPT ![t] = IF @.t >= clBottom THEN ThiefIdle ELSE [@ EXCEPT !.pc = "array"]]
  /\ UNCHANGED <<clTop, clBottom, clArrays, clOwner>>

StealArray(t) ==
  /\ clThief[t].pc = "array"
  /\ clThief' = [clThief EXCEPT ![t].pc = "load", ![t].a = CurrentArray]
  /\ UNCHANGED <<clTop, clBottom, clArrays, clOwner>>

StealLoad(t) ==
  /\ clThief[t].pc = "load"
  /\ clThief' = [clThief EXCEPT ![t].pc = "cas", ![t].val = At(clArrays[clThief[t].a], clThief[t].t)]
  /\ UNCHANGED <<clTop, clBottom, clArrays, clOwner>>

StealCas(t) ==
  /\ clThief[t].pc = "cas"
  /\ \/ clTop = clThief[t].t /\ clTop' = clTop + 1 /\ clThief' = [clThief EXCEPT ![t].pc = "return"]
     \/ clTop # clThief[t].t /\ clThief' = [clThief EXCEPT ![t] = ThiefIdle] /\ UNCHANGED clTop
  /\ UNCHANGED <<clBottom, clArrays, clOwner>>

StealReturn(t) ==
  /\ clThief[t].pc = "return"
  /\ clThief' = [clThief EXCEPT ![t] = ThiefIdle]
  /\ UNCHANGED <<clTop, clBottom, clArrays, clOwner>>

ClOwnerStep ==
  \/ \E v \in Item : ClPushLoad(v)
  \/ Grow \/ ClPushStore \/ ClPushBottom
  \/ ClPopBottom \/ PopTop \/ PopCas \/ PopRestore \/ ClPopReturn
Steal(t) ==
  StealTop(t) \/ StealBottom(t) \/ StealArray(t) \/ StealLoad(t) \/ StealCas(t) \/ StealReturn(t)
ChaseLevNext == ClOwnerStep \/ \E t \in Thief : Steal(t)
ChaseLevSpec == ChaseLevInit /\ [][ChaseLevNext]_clVars

-----------------------------------------------------------------------------
\* The end of the deque: a pop that has moved bottom_ has not taken the item
\* until it knows that no thief can.
DequeEnd == IF clOwner.pc \in {"popTop", "popCas", "restore"} THEN clOwner.b + 1 ELSE clBottom

Deque == INSTANCE AbstractDeque WITH
  DequeItem <- Item, NoneTaken <- NoItem, DequeOwner <- Owner, DequeThief <- Thief,
  contents <- [i \in 1..DequeEnd - clTop |-> At(clArrays[CurrentArray], clTop + i - 1)],
  taken <- [t \in Thief \cup {Owner} |->
              IF t = Owner
              THEN IF clOwner.pc = "return" \/ (clOwner.pc = "restore" /\ clOwner.val # NoItem)
                   THEN clOwner.val ELSE NoItem
              ELSE IF clThief[t].pc = "return" THEN clThief[t].val ELSE NoItem]

\* ChaseLevDeque is a deque: every item pushed is taken once, by the owner
\* from the bottom or by a thief from the top, also when they race for the
\* last one and when a thief reads an array that the owner has replaced.
ChaseLevIsDeque == Deque!Spec
=============================================================================
