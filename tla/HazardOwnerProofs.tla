------------------------- MODULE HazardOwnerProofs --------------------------
(* Each node of the stack has one owner, and the queue implements a FIFO   *)
(* queue: what needs the lists to be finite.                               *)
EXTENDS HazardProofs, MCReclaim, WalkProofs

\* Leaves are proved by Zenon; the others cite the prover that finds them.
USE ZenonT(30)

-----------------------------------------------------------------------------
(* The nodes of the stack.                                                 *)

\* What HsInv says, in numbers.
LEMMA HsOwnedOnce == HsInv => StackOneOwner
<1> SUFFICES ASSUME HsInv PROVE StackOneOwner OBVIOUS
<1> DEFINE held == {hsNode[t] : t \in HpThread} \ {NoNode}
           popped == {hsOld[t].ptr : t \in {u \in HpThread : hpPc[u] = "hsRetire"}}
           retired == hpRetire \cup UNION {hpToProcess[t] : t \in HpThread}
           owner == <<hpUnused, HsOnStack, held, popped, retired>>
           O(n) == {o \in 1..5 : n \in owner[o]}
<1>1. HsOnStack = HsStacked
  <2>1. PICK c : IsList(c, HpNode, hsHead.ptr, hsNext, NoNode) /\ Members(c) = HsStacked BY DEF HsInv, HsListed
  <2>2. PICK h : h = hsHead.ptr OBVIOUS
  <2>3. Cardinality(HpNode) \in Nat /\ Len(c) <= Cardinality(HpNode) BY <2>1, <2>2, HazardAssumption, ListLength, FS_CardinalityType
  <2> QED BY SMTT(30), <2>1, <2>2, <2>3, HazardAssumption, ReachedIsList DEF HsOnStack
<1>2. ASSUME NEW n \in HpNode PROVE Cardinality(O(n)) = 1
  <2>1. n \in held <=> \E t \in HpThread : hpPc[t] = "hsPush" /\ hsMine[t] = n
    BY HazardAssumption DEF HsInv, HsLocal, hsMine
  <2>2. n \in popped <=> \E t \in HpThread : hpPc[t] = "hsRetire" /\ hsMine[t] = n
    BY DEF hsMine
  <2>3. n \in retired <=> n \in hpRetire \/ \E t \in HpThread : n \in hpToProcess[t] OBVIOUS
  <2>4. \A t \in HpThread : hsMine[t] = n => hpPc[t] = "hsPush" \/ hpPc[t] = "hsRetire" BY HazardAssumption DEF hsMine
  <2>5. n \in HsOnStack <=> n \notin hpUnused /\ n \notin held /\ n \notin popped /\ n \notin retired
    BY <1>1, <2>1, <2>2, <2>3, <2>4 DEF HsStacked, Rest
  <2>6. /\ n \in hpUnused => n \notin held /\ n \notin popped /\ n \notin retired
        /\ n \in held => n \notin popped /\ n \notin retired
        /\ n \in popped => n \notin retired
    BY SMTT(30), <2>1, <2>2, <2>3, HazardAssumption DEF HsInv, HsOwned, OwnApart
  <2>7. owner[1] = hpUnused /\ owner[2] = HsOnStack /\ owner[3] = held /\ owner[4] = popped /\ owner[5] = retired OBVIOUS
  <2> HIDE DEF held, popped, retired, owner
  <2>8. \E o \in 1..5 : O(n) = {o}
    <3>1. \A o : o \in 1..5 <=> o = 1 \/ o = 2 \/ o = 3 \/ o = 4 \/ o = 5 BY SMTT(30)
    <3>2. CASE n \in hpUnused
      <4>1. O(n) = {1} BY <2>5, <2>6, <2>7, <3>1, <3>2
      <4> QED BY <4>1, <3>1
    <3>3. CASE n \in held
      <4>1. O(n) = {3} BY <2>5, <2>6, <2>7, <3>1, <3>3
      <4> QED BY <4>1, <3>1
    <3>4. CASE n \in popped
      <4>1. O(n) = {4} BY SMTT(30), <2>5, <2>6, <2>7, <3>1, <3>4
      <4> QED BY <4>1, <3>1
    <3>5. CASE n \in retired
      <4>1. O(n) = {5} BY SMTT(30), <2>5, <2>6, <2>7, <3>1, <3>5
      <4> QED BY <4>1, <3>1
    <3>6. CASE n \notin hpUnused /\ n \notin held /\ n \notin popped /\ n \notin retired
      <4>1. O(n) = {2} BY SMTT(30), <2>5, <2>7, <3>1, <3>6
      <4> QED BY <4>1, <3>1
    <3> QED BY <3>2, <3>3, <3>4, <3>5, <3>6
  <2> HIDE DEF O
  <2> QED BY <2>8, FS_Singleton
<1> QED BY <1>2 DEF StackOneOwner

\* For any threads and nodes: a node is on the stack, with one thread, retired,
\* in the hands of one scan or unused, and in one place only.
THEOREM StackNodesOneOwner == StackSpec => []StackOneOwner
BY HsInvInit, HsInductive, HsOwnedOnce, PTL DEF StackSpec

-----------------------------------------------------------------------------
(* The refinement.  What the queue contains is a function of head_ and of   *)
(* the two fields of the nodes.                                             *)

\* The values behind first.
Contents(first, next, data) ==
  LET nodes == Tail(Walked(first, next, NoNode, Cardinality(HpNode))) IN [i \in DOMAIN nodes |-> data[nodes[i]]]
\* What the mapping gives for BoundedFifo's variables.
MsContents == LET nodes == Linked(msHead) IN [i \in DOMAIN nodes |-> msData[nodes[i]]]
MsTaken == [t \in HpThread |-> IF hpPc[t] = "deqRetire" THEN ms[t].tmp ELSE NoPayload]
\* What a node's data field holds.
MsDatum == Payload \cup {NoPayload}

\* With the nodes c linked from first, the values behind the first node.
LEMMA ContentsOf ==
  ASSUME NEW first \in HpNode, NEW next, NEW data \in [HpNode -> MsDatum], NEW c, IsList(c, HpNode, first, next, NoNode)
  PROVE  /\ c \in Seq(HpNode) /\ Len(c) \in Nat /\ 1 <= Len(c) /\ Len(c) <= Cardinality(HpNode) /\ c[1] = first
         /\ Contents(first, next, data) = [i \in 1..Len(c) - 1 |-> data[c[i + 1]]]
         /\ Contents(first, next, data) \in Seq(MsDatum) /\ Len(Contents(first, next, data)) = Len(c) - 1
<1>1. c \in Seq(HpNode) /\ c # <<>> /\ c[1] = first BY HazardAssumption DEF IsList
<1>2. Len(c) \in Nat /\ 1 <= Len(c) BY SMTT(30), <1>1, EmptySeq, LenProperties
<1>3. Len(c) <= Cardinality(HpNode) BY HazardAssumption, ListLength
<1>4. Cardinality(HpNode) \in Nat BY HazardAssumption, FS_CardinalityType
<1>5. Walked(first, next, NoNode, Cardinality(HpNode)) = c BY SMTT(30), <1>3, <1>4, HazardAssumption, WalkedIsList
<1>6. PICK tl : tl = Tail(c) OBVIOUS
<1>7. tl \in Seq(HpNode) /\ Len(tl) = Len(c) - 1 /\ \A i \in 1..Len(tl) : tl[i] = c[i + 1]
  BY <1>1, <1>6, HeadTailProperties
<1>8. DOMAIN tl = 1..Len(c) - 1 /\ \A i \in 1..Len(c) - 1 : tl[i] \in HpNode BY <1>7, LenProperties, ElementOfSeq
<1>9. Contents(first, next, data) = [i \in DOMAIN tl |-> data[tl[i]]] BY <1>5, <1>6 DEF Contents
<1>10. Contents(first, next, data) = [i \in 1..Len(c) - 1 |-> data[c[i + 1]]] BY <1>7, <1>8, <1>9
<1>11. PICK v : v = Contents(first, next, data) OBVIOUS
<1>12. v = [i \in 1..Len(c) - 1 |-> data[tl[i]]] BY <1>8, <1>9, <1>11
<1>13. Len(c) - 1 \in Nat /\ v \in [1..Len(c) - 1 -> MsDatum] BY SMTT(30), <1>2, <1>8, <1>12
<1>14. v \in Seq(MsDatum) /\ Len(v) = Len(c) - 1 BY SMTT(30), <1>13, IsASeq, LenProperties
<1> QED BY SMTT(30), <1>1, <1>2, <1>3, <1>10, <1>11, <1>14

\* A change to nodes that are not in the list does not show.
LEMMA ContentsKept ==
  ASSUME NEW first \in HpNode, NEW next, NEW data \in [HpNode -> MsDatum], NEW c, IsList(c, HpNode, first, next, NoNode),
         NEW next2, NEW data2 \in [HpNode -> MsDatum], \A n \in Members(c) : next2[n] = next[n] /\ data2[n] = data[n]
  PROVE  Contents(first, next2, data2) = Contents(first, next, data)
<1>1. IsList(c, HpNode, first, next2, NoNode) BY ListKept
<1>2. /\ Contents(first, next, data) = [i \in 1..Len(c) - 1 |-> data[c[i + 1]]]
      /\ Contents(first, next2, data2) = [i \in 1..Len(c) - 1 |-> data2[c[i + 1]]]
      /\ Len(c) \in Nat
  BY SMTT(30), <1>1, ContentsOf
<1>3. \A i \in 1..Len(c) - 1 : c[i + 1] \in Members(c) BY SMTT(30), <1>2 DEF Members
<1> QED BY <1>2, <1>3

\* A node linked behind the last one adds its value.
LEMMA ContentsLonger ==
  ASSUME NEW first \in HpNode, NEW next, NEW data \in [HpNode -> MsDatum], NEW c, IsList(c, HpNode, first, next, NoNode),
         NEW n \in HpNode, NEW next2, IsList(Append(c, n), HpNode, first, next2, NoNode)
  PROVE  /\ Contents(first, next2, data) = Append(Contents(first, next, data), data[n])
         /\ Len(Contents(first, next, data)) < Cardinality(HpNode)
<1>1. PICK m : m = Len(c) - 1 OBVIOUS
<1>2. PICK v : v = Contents(first, next, data) OBVIOUS
<1>3. /\ c \in Seq(HpNode) /\ Len(c) \in Nat /\ 1 <= Len(c) /\ Len(c) <= Cardinality(HpNode)
      /\ v = [i \in 1..Len(c) - 1 |-> data[c[i + 1]]] /\ v \in Seq(MsDatum) /\ Len(v) = Len(c) - 1
  BY SMTT(30), <1>2, ContentsOf
<1>4. PICK d : d = Append(c, n) OBVIOUS
<1>5. Len(d) = Len(c) + 1 /\ (\A i \in 1..Len(c) : d[i] = c[i]) /\ d[Len(c) + 1] = n
  BY SMTT(30), <1>3, <1>4, AppendOf
<1>6. PICK w : w = Contents(first, next2, data) OBVIOUS
<1>a. IsList(d, HpNode, first, next2, NoNode) BY <1>4
<1>7. w = [i \in 1..Len(d) - 1 |-> data[d[i + 1]]] BY SMTT(30), <1>6, <1>a, ContentsOf
<1>8. m \in Nat /\ Len(c) = m + 1 /\ w = [i \in 1..m + 1 |-> data[d[i + 1]]] /\ v = [i \in 1..m |-> data[c[i + 1]]] /\ Len(v) = m
  BY SMTT(30), <1>1, <1>3, <1>5, <1>7
<1>9. PICK a : a = Append(v, data[n]) OBVIOUS
<1>10. data[n] \in MsDatum OBVIOUS
<1>11. a \in Seq(MsDatum) /\ Len(a) = m + 1 /\ (\A i \in 1..m : a[i] = v[i]) /\ a[m + 1] = data[n]
  BY SMTT(30), <1>3, <1>8, <1>9, <1>10, AppendOf
<1>12. a \in [1..m + 1 -> MsDatum] BY <1>11, LenProperties
<1>13. \A i \in 1..m + 1 : a[i] = data[d[i + 1]]
  <2> TAKE i \in 1..m + 1
  <2>1. CASE i = m + 1 BY <1>5, <1>8, <1>11, <2>1
  <2>2. CASE i # m + 1
    <3>1. i \in 1..m /\ i + 1 \in 1..Len(c) BY SMTT(30), <1>8, <2>2
    <3> QED BY <1>5, <1>8, <1>11, <3>1
  <2> QED BY <2>1, <2>2
<1>14. a = w BY <1>8, <1>12, <1>13
<1>b. Cardinality(HpNode) \in Nat BY HazardAssumption, FS_CardinalityType
<1>15. Len(v) < Cardinality(HpNode)
  <2>1. Len(v) = Len(c) - 1 /\ Len(c) \in Nat /\ Len(c) <= Cardinality(HpNode) BY <1>3
  <2> QED BY ONLY <1>b, <2>1
<1>16. w = Append(v, data[n]) BY <1>9, <1>14
<1> QED BY <1>2, <1>6, <1>15, <1>16

\* Without the first node the oldest value is gone.
LEMMA ContentsShorter ==
  ASSUME NEW first \in HpNode, NEW next, NEW data \in [HpNode -> MsDatum], NEW c, IsList(c, HpNode, first, next, NoNode),
         NEW second \in HpNode, next[first] = second
  PROVE  /\ Contents(first, next, data) # <<>> /\ Head(Contents(first, next, data)) = data[second]
         /\ Contents(second, next, data) = Tail(Contents(first, next, data))
<1>1. PICK m : m = Len(c) - 1 OBVIOUS
<1>2. PICK v : v = Contents(first, next, data) OBVIOUS
<1>3. /\ c \in Seq(HpNode) /\ Len(c) \in Nat /\ 1 <= Len(c) /\ c[1] = first
      /\ v = [i \in 1..Len(c) - 1 |-> data[c[i + 1]]] /\ v \in Seq(MsDatum) /\ Len(v) = Len(c) - 1
  BY SMTT(30), <1>2, ContentsOf
<1>4. PICK d : d = Tail(c) OBVIOUS
<1>5. c # <<>> /\ 1 \in 1..Len(c) BY SMTT(30), <1>3
<1>6. Len(d) = Len(c) - 1 /\ \A i \in 1..Len(d) : d[i] = c[i + 1] BY <1>3, <1>4, <1>5, HeadTailProperties
<1>7. IsList(d, HpNode, second, next, NoNode) BY <1>4, HazardAssumption, ListPop
<1>8. PICK w : w = Contents(second, next, data) OBVIOUS
<1>9. 1 <= Len(d) /\ d[1] = second /\ w = [i \in 1..Len(d) - 1 |-> data[d[i + 1]]] BY SMTT(30), <1>7, <1>8, ContentsOf
<1>10. /\ m \in Nat /\ 1 <= m /\ Len(v) = m /\ v = [i \in 1..m |-> data[c[i + 1]]] /\ Len(d) = m
       /\ w = [i \in 1..m - 1 |-> data[d[i + 1]]]
  BY SMTT(30), <1>1, <1>3, <1>6, <1>9
<1>11. PICK tl : tl = Tail(v) OBVIOUS
<1>12. v # <<>>
  <2>1. Len(v) >= 1 BY <1>10
  <2>2. Len(<<>>) = 0 OBVIOUS
  <2> QED BY ONLY <2>1, <2>2
<1>13. tl \in Seq(MsDatum) /\ Len(tl) = m - 1 /\ \A i \in 1..m - 1 : tl[i] = v[i + 1]
  <2>1. Tail(v) \in Seq(MsDatum) /\ Len(Tail(v)) = Len(v) - 1 /\ \A i \in 1..Len(Tail(v)) : Tail(v)[i] = v[i + 1]
    BY <1>3, <1>12, HeadTailProperties
  <2>2. Len(v) = m BY <1>10
  <2> QED BY ONLY <1>11, <2>1, <2>2
<1>14. tl \in [1..m - 1 -> MsDatum] BY <1>13, LenProperties
<1>15. \A i \in 1..m - 1 : tl[i] = data[d[i + 1]]
  <2> TAKE i \in 1..m - 1
  <2>1. i + 1 \in 1..m /\ i + 1 \in 1..Len(d) BY SMTT(30), <1>10
  <2>2. d[i + 1] = c[i + 1 + 1] BY <1>6, <2>1
  <2>3. v[i + 1] = data[c[i + 1 + 1]] BY <1>10, <2>1
  <2> QED BY <1>13, <2>2, <2>3
<1>16. tl = w BY <1>10, <1>14, <1>15
<1>17. Head(v) = data[second]
  <2>1. Head(v) = v[1] /\ 1 \in 1..m /\ 1 \in 1..Len(d) BY SMTT(30), <1>10
  <2>2. d[1] = c[1 + 1] /\ v[1] = data[c[1 + 1]] BY <1>6, <1>10, <2>1
  <2> QED BY <1>9, <2>1, <2>2
<1> QED BY <1>2, <1>8, <1>11, <1>12, <1>16, <1>17

\* A step of t that leaves the queued nodes alone and neither takes nor
\* delivers.
LEMMA MsUnseen ==
  ASSUME MsInv, MsInv', NEW t \in HpThread, msHead' = msHead, hpPc[t] # "deqRetire", hpPc'[t] # "deqRetire",
         \A n \in MsQueued : msNext'[n] = msNext[n] /\ msData'[n] = msData[n],
         \A u \in HpThread \ {t} : hpPc'[u] = hpPc[u] /\ ms'[u] = ms[u]
  PROVE  UNCHANGED <<MsContents, MsTaken>>
<1>1. \A u \in HpThread : MsTaken'[u] = MsTaken[u] BY DEF MsTaken
<1>2. MsTaken' = MsTaken BY <1>1 DEF MsTaken
<1>3. PICK c : IsList(c, HpNode, msHead, msNext, NoNode) /\ Members(c) = MsQueued BY DEF MsInv, MsListed
<1>4. PICK first \in HpNode, data \in [HpNode -> MsDatum], data2 \in [HpNode -> MsDatum] :
        first = msHead /\ data = msData /\ data2 = msData'
  BY DEF MsInv, MsTypeOK, MsDatum
<1>5. PICK next, next2 : next = msNext /\ next2 = msNext' OBVIOUS
<1>6. \A n \in Members(c) : next2[n] = next[n] /\ data2[n] = data[n] BY <1>3, <1>4, <1>5
<1>7. IsList(c, HpNode, first, next, NoNode) BY <1>3, <1>4, <1>5
<1>8. Contents(first, next2, data2) = Contents(first, next, data) BY SMTT(30), <1>6, <1>7, ContentsKept
<1>9. MsContents = Contents(first, next, data) BY <1>4, <1>5 DEF MsContents, Contents, Linked
<1>10. MsContents' = Contents(first, next2, data2) BY <1>4, <1>5 DEF MsContents, Contents, Linked
<1> QED BY <1>2, <1>8, <1>9, <1>10

\* Where a step that stays in the operation leaves the threads.
LEMMA MsMoves ==
  ASSUME MsInv, NEW t \in HpThread, NEW l,
         (\E f, p : MsSet(t, f, p, l)) \/ MsOn(t, l) \/ MsAgain(t, l) \/ (MsReturn(t) /\ HpGoto(t, l))
  PROVE  hpPc'[t] = l /\ \A u \in HpThread \ {t} : hpPc'[u] = hpPc[u] /\ ms'[u] = ms[u]
<1>1. hpPc \in [HpThread -> HpLabel] /\ ms \in [HpThread -> MsLocals] BY DEF MsInv, MsTypeOK, HpInv, HpTypeOK
<1>2. hpPc' = [hpPc EXCEPT ![t] = l] BY DEF MsSet, MsOn, MsAgain, HpGoto
<1>3. \A u \in HpThread \ {t} : ms'[u] = ms[u]
  <2>1. CASE MsOn(t, l) BY <2>1 DEF MsOn
  <2>2. CASE \E f, p : MsSet(t, f, p, l)
    <3>1. PICK f, p : MsSet(t, f, p, l) BY <2>2
    <3> QED BY <1>1, <3>1 DEF MsSet
  <2>3. CASE MsAgain(t, l) BY <1>1, <2>3 DEF MsAgain
  <2>4. CASE MsReturn(t) BY <1>1, <2>4 DEF MsReturn
  <2> QED BY <2>1, <2>2, <2>3, <2>4
<1> QED BY <1>1, <1>2, <1>3

\* The steps of enqueue and dequeue that are not seen from outside.
LEMMA MsSearchUnseen ==
  ASSUME MsInv, MsInv', NEW t \in HpThread,
         \/ EnqLoad(t) \/ EnqProtect(t) \/ EnqValidate(t) \/ EnqNext(t) \/ EnqRecheck(t) \/ EnqSwing(t) \/ EnqHelp(t)
         \/ (EnqLink(t) /\ MsAgain(t, "enqLoad") /\ UNCHANGED msNext)
         \/ DeqLoad(t) \/ DeqProtect(t) \/ DeqValidate(t) \/ DeqNext(t) \/ DeqProtectNext(t)
         \/ DeqValidateNext(t) \/ DeqCheck(t) \/ DeqEmpty(t) \/ DeqTail(t) \/ DeqHelp(t) \/ DeqCopy(t)
         \/ (DeqCas(t) /\ MsAgain(t, "deqLoad") /\ UNCHANGED msHead)
  PROVE  UNCHANGED <<MsContents, MsTaken>>
<1>1. UNCHANGED <<msHead, msNext, msData>>
  BY DEF EnqLoad, EnqProtect, EnqValidate, EnqNext, EnqRecheck, EnqLink, EnqSwing, EnqHelp, DeqLoad, DeqProtect, DeqValidate, DeqNext,
         DeqProtectNext, DeqValidateNext, DeqCheck, DeqEmpty, DeqTail, DeqHelp, DeqCopy, DeqCas, MsLoad, MsPublish, SwingTail, msQueue
<1>2. hpPc[t] # "deqRetire"
  BY DEF EnqLoad, EnqProtect, EnqValidate, EnqNext, EnqRecheck, EnqLink, EnqSwing, EnqHelp, DeqLoad, DeqProtect, DeqValidate, DeqNext,
         DeqProtectNext, DeqValidateNext, DeqCheck, DeqEmpty, DeqTail, DeqHelp, DeqCopy, DeqCas
<1>3. PICK l : /\ l # "deqRetire"
               /\ (\E f, p : MsSet(t, f, p, l)) \/ MsOn(t, l) \/ MsAgain(t, l) \/ (MsReturn(t) /\ HpGoto(t, l))
  <2>1. CASE EnqLoad(t) \/ EnqNext(t) \/ DeqLoad(t) \/ DeqNext(t) \/ DeqCopy(t)
    <3>1. CASE EnqLoad(t) BY <3>1 DEF EnqLoad
    <3>2. CASE EnqNext(t) BY <3>2 DEF EnqNext
    <3>3. CASE DeqLoad(t) BY <3>3 DEF DeqLoad
    <3>4. CASE DeqNext(t) BY <3>4 DEF DeqNext
    <3>5. CASE DeqCopy(t) BY <3>5 DEF DeqCopy
    <3> QED BY SMTT(30), <2>1, <3>1, <3>2, <3>3, <3>4, <3>5
  <2>2. CASE EnqProtect(t) \/ EnqValidate(t) \/ EnqRecheck(t) BY <2>2 DEF EnqProtect, EnqValidate, EnqRecheck
  <2>3. CASE EnqSwing(t) \/ DeqEmpty(t) BY <2>3 DEF EnqSwing, DeqEmpty
  <2>4. CASE EnqHelp(t) \/ DeqHelp(t) \/ MsAgain(t, "enqLoad") \/ MsAgain(t, "deqLoad") BY <2>4 DEF EnqHelp, DeqHelp
  <2>5. CASE DeqProtect(t) \/ DeqValidate(t) \/ DeqProtectNext(t) \/ DeqValidateNext(t)
    BY <2>5 DEF DeqProtect, DeqValidate, DeqProtectNext, DeqValidateNext
  <2>6. CASE DeqCheck(t) \/ DeqTail(t) BY <2>6 DEF DeqCheck, DeqTail
  <2> QED BY SMTT(30), <2>1, <2>2, <2>3, <2>4, <2>5, <2>6
<1>4. hpPc'[t] = l /\ \A u \in HpThread \ {t} : hpPc'[u] = hpPc[u] /\ ms'[u] = ms[u] BY <1>3, MsMoves
<1> QED BY SMTT(30), <1>1, <1>2, <1>3, <1>4, MsUnseen

\* Allocation, registration and the scans are not seen from outside.
LEMMA MsMemoryUnseen ==
  ASSUME MsInv, MsInv', NEW t \in HpThread,
         EnqAlloc(t) \/ MsScanFree(t) \/ (HazardStep(t) /\ UNCHANGED <<msQueue, ms>>)
  PROVE  UNCHANGED <<MsContents, MsTaken>>
<1>ty. /\ hpPc \in [HpThread -> HpLabel] /\ msNext \in [HpNode -> Pointer] /\ msData \in [HpNode -> MsDatum]
       /\ hpToProcess \in [HpThread -> SUBSET HpNode]
  BY DEF MsInv, MsTypeOK, HpInv, HpTypeOK, MsDatum
<1>q. \A n \in MsQueued : n \in HpNode /\ n \notin hpUnused /\ n \notin hpToProcess[t] BY DEF MsQueued, Rest
<1>1. CASE EnqAlloc(t)
  <2>1. PICK n \in hpUnused, v \in Payload :
          /\ msNext' = [msNext EXCEPT ![n] = NoNode] /\ msData' = [msData EXCEPT ![n] = v] /\ MsSet(t, "node", n, "enqLoad")
    BY <1>1 DEF EnqAlloc
  <2>2. msHead' = msHead /\ hpPc[t] # "deqRetire" BY <1>1 DEF EnqAlloc
  <2>3. hpPc'[t] = "enqLoad" /\ \A u \in HpThread \ {t} : hpPc'[u] = hpPc[u] /\ ms'[u] = ms[u] BY <2>1, MsMoves
  <2>4. \A m \in MsQueued : msNext'[m] = msNext[m] /\ msData'[m] = msData[m] BY <1>ty, <1>q, <2>1
  <2> QED BY SMTT(30), <2>2, <2>3, <2>4, MsUnseen
<1>2. CASE MsScanFree(t)
  <2>1. /\ hpPc[t] = "scanFree" /\ hpPc' = [hpPc EXCEPT ![t] = "idle"] /\ UNCHANGED <<msHead, ms>>
        /\ hpUnused' = hpUnused \cup (hpToProcess[t] \ hpHazards[t])
    BY <1>2 DEF MsScanFree, ScanFree, HpGoto
  <2>2. /\ msNext' = [n \in HpNode |-> IF n \in hpUnused' THEN NoNode ELSE msNext[n]]
        /\ msData' = [n \in HpNode |-> IF n \in hpUnused' THEN NoPayload ELSE msData[n]]
    BY <1>2 DEF MsScanFree
  <2>3. \A m \in MsQueued : m \in HpNode /\ m \notin hpUnused' BY <1>q, <2>1
  <2>4. \A m \in MsQueued : msNext'[m] = msNext[m] /\ msData'[m] = msData[m] BY <2>2, <2>3
  <2>5. hpPc'[t] = "idle" /\ \A u \in HpThread \ {t} : hpPc'[u] = hpPc[u] /\ ms'[u] = ms[u] BY <1>ty, <2>1
  <2> QED BY SMTT(30), <2>1, <2>4, <2>5, MsUnseen
<1>3. CASE HazardStep(t) /\ UNCHANGED <<msQueue, ms>>
  <2>1. UNCHANGED <<msHead, msNext, msData, ms>> BY <1>3 DEF msQueue
  <2>2. /\ \A u \in HpThread \ {t} : hpPc'[u] = hpPc[u]
        /\ hpPc[t] # "deqRetire" /\ hpPc'[t] # "deqRetire"
    BY <1>ty, <1>3 DEF HazardStep, HpRegister, ScanTake, ScanSlot, HpGoto
  <2> QED BY <2>1, <2>2, MsUnseen
<1> QED BY <1>1, <1>2, <1>3

\* The compare-exchange of next is where a value enters.
LEMMA MsLinkEnters ==
  ASSUME MsInv, MsInv', NEW t \in HpThread, EnqLink(t), msNext[ms[t].at] = NoNode,
         msNext' = [msNext EXCEPT ![ms[t].at] = ms[t].node], MsOn(t, "enqSwing")
  PROVE  \E v \in Payload : /\ Len(MsContents) < Cardinality(HpNode) /\ MsContents' = Append(MsContents, v)
                            /\ MsTaken' = MsTaken
<1>ty. /\ hpPc \in [HpThread -> HpLabel] /\ msNext \in [HpNode -> Pointer] /\ msData \in [HpNode -> MsDatum] /\ msHead \in HpNode
  BY DEF MsInv, MsTypeOK, HpInv, HpTypeOK, MsDatum
<1>me. MsEnq(t) /\ MsSlots(t) /\ MsDeq(t) BY DEF MsInv, MsLocal
<1>1. hpPc[t] = "enqLink" /\ UNCHANGED <<msHead, msData, ms>> BY DEF EnqLink, MsOn
<1>2. hpPc'[t] = "enqSwing" /\ \A u \in HpThread \ {t} : hpPc'[u] = hpPc[u] /\ ms'[u] = ms[u] BY MsMoves
<1>3. MsTaken' = MsTaken
  <2>1. \A u \in HpThread : MsTaken'[u] = MsTaken[u] BY <1>1, <1>2 DEF MsTaken
  <2> QED BY <2>1 DEF MsTaken
<1>4. PICK n \in HpNode : n = ms[t].node /\ msNext[n] = NoNode /\ msData[n] \in Payload BY <1>1, <1>me DEF MsEnq, Building
<1>5. PICK a \in HpNode : a = ms[t].at /\ MsSafe(t, 0, a) BY <1>1, <1>me DEF MsSlots, AtGuarded, MsSafe
<1>6. PICK c : IsList(c, HpNode, msHead, msNext, NoNode) /\ Members(c) = MsQueued BY DEF MsInv, MsListed
<1>7. n \notin MsQueued BY SMTT(30), <1>1, <1>4, HazardAssumption DEF MsQueued, Rest, msMine, Building
<1>8. a \in MsQueued
  <2>1. \A u \in HpThread : hpPc[u] \in Building => msMine[u] # a BY <1>5 DEF MsSafe, msMine
  <2>2. a \notin hpRetire /\ \A u \in HpThread : a \notin hpToProcess[u] /\ ~(hpPc[u] = "deqRetire" /\ ms[u].at = a)
    BY <1>5 DEF MsInv, MsLeft
  <2>3. \A u \in HpThread : msMine[u] # a BY <2>1, <2>2, HazardAssumption DEF msMine
  <2>4. a \notin hpUnused BY <1>5 DEF MsSafe
  <2> QED BY SMTT(30), <2>2, <2>3, <2>4 DEF MsQueued, Rest
<1>9. PICK first \in HpNode, data \in [HpNode -> MsDatum] : first = msHead /\ data = msData BY <1>ty
<1>10. PICK next, next2 : next = msNext /\ next2 = msNext' OBVIOUS
<1>11. IsList(c, HpNode, first, next, NoNode) /\ n \notin Members(c) /\ a \in Members(c) /\ next[a] = NoNode
  BY SMTT(30), <1>5, <1>6, <1>7, <1>8, <1>9, <1>10
<1>12. next2[a] = n /\ next2[n] = NoNode /\ \A m \in Members(c) : m # a => next2[m] = next[m]
  <2>1. a # n BY <1>7, <1>8
  <2>2. \A m \in Members(c) : m \in HpNode BY <1>6 DEF MsQueued, Rest
  <2>3. next2 = [next EXCEPT ![a] = n] /\ next \in [HpNode -> Pointer] /\ next[n] = NoNode BY SMTT(30), <1>ty, <1>4, <1>5, <1>10
  <2> QED BY SMTT(30), <2>1, <2>2, <2>3
<1>13. IsList(Append(c, n), HpNode, first, next2, NoNode) BY SMTT(30), <1>11, <1>12, HazardAssumption, ListAppend
<1>14. /\ Contents(first, next2, data) = Append(Contents(first, next, data), data[n])
       /\ Len(Contents(first, next, data)) < Cardinality(HpNode)
  BY <1>11, <1>13, ContentsLonger
<1>15. MsContents = Contents(first, next, data) BY <1>9, <1>10 DEF MsContents, Contents, Linked
<1>16. MsContents' = Contents(first, next2, data) BY <1>1, <1>9, <1>10 DEF MsContents, Contents, Linked
<1>17. PICK v \in Payload : v = data[n] BY <1>4, <1>9
<1> QED BY SMTT(30), <1>3, <1>14, <1>15, <1>16, <1>17

\* The compare-exchange of head_ is where the oldest value leaves.
LEMMA MsCasTakes ==
  ASSUME MsInv, MsInv', NEW t \in HpThread, DeqCas(t), msHead = ms[t].at, msHead' = ms[t].next, MsOn(t, "deqRetire")
  PROVE  MsContents # <<>> /\ MsTaken' = [MsTaken EXCEPT ![t] = Head(MsContents)] /\ MsContents' = Tail(MsContents)
<1>ty. /\ hpPc \in [HpThread -> HpLabel] /\ msNext \in [HpNode -> Pointer] /\ msData \in [HpNode -> MsDatum] /\ msHead \in HpNode
       /\ msHead' \in HpNode
  BY DEF MsInv, MsTypeOK, HpInv, HpTypeOK, MsDatum
<1>me. MsDeq(t) BY DEF MsInv, MsLocal
<1>1. hpPc[t] = "deqCas" /\ UNCHANGED <<msNext, msData, ms>> BY DEF DeqCas, MsOn
<1>2. hpPc'[t] = "deqRetire" /\ \A u \in HpThread \ {t} : hpPc'[u] = hpPc[u] /\ ms'[u] = ms[u] BY MsMoves
<1>3. PICK first \in HpNode, second \in HpNode, data \in [HpNode -> MsDatum] : first = msHead /\ second = msHead' /\ data = msData BY <1>ty
<1>4. PICK next : next = msNext OBVIOUS
<1>5. next[first] = second /\ ms[t].tmp = data[second]
  <2>1. second # NoNode BY HazardAssumption
  <2> QED BY <1>1, <1>3, <1>4, <1>me, <2>1 DEF MsDeq, NextRead, Dequeuing
<1>6. PICK c : IsList(c, HpNode, first, next, NoNode) BY <1>3, <1>4 DEF MsInv, MsListed
<1>7. /\ Contents(first, next, data) # <<>> /\ Head(Contents(first, next, data)) = data[second]
      /\ Contents(second, next, data) = Tail(Contents(first, next, data))
  BY SMTT(30), <1>5, <1>6, ContentsShorter
<1>8. MsContents = Contents(first, next, data) BY <1>3, <1>4 DEF MsContents, Contents, Linked
<1>9. MsContents' = Contents(second, next, data) BY <1>1, <1>3, <1>4 DEF MsContents, Contents, Linked
<1>10. PICK v : v = Head(MsContents) OBVIOUS
<1>11. \A u \in HpThread : MsTaken'[u] = IF u = t THEN v ELSE MsTaken[u]
  <2>1. ms'[t].tmp = v BY SMTT(30), <1>1, <1>5, <1>7, <1>8, <1>10
  <2> QED BY <1>2, <2>1 DEF MsTaken
<1>12. MsTaken' = [MsTaken EXCEPT ![t] = v] BY <1>11 DEF MsTaken
<1> QED BY SMTT(30), <1>7, <1>8, <1>9, <1>10, <1>12

\* dequeue returns the value it has taken.
LEMMA MsRetireDelivers ==
  ASSUME MsInv, MsInv', NEW t \in HpThread, DeqRetire(t)
  PROVE  MsTaken' = [MsTaken EXCEPT ![t] = NoPayload] /\ MsContents' = MsContents
<1>1. UNCHANGED <<msHead, msNext, msData>> BY DEF DeqRetire, msQueue
<1>2. MsContents' = MsContents BY <1>1 DEF MsContents, Linked
<1>3. PICK l \in {"idle", "scan"} : HpGoto(t, l) /\ MsReturn(t) BY DEF DeqRetire, Retire
<1>4. hpPc'[t] = l /\ \A u \in HpThread \ {t} : hpPc'[u] = hpPc[u] /\ ms'[u] = ms[u] BY <1>3, MsMoves
<1>5. \A u \in HpThread : MsTaken'[u] = IF u = t THEN NoPayload ELSE MsTaken[u] BY <1>4 DEF MsTaken
<1>6. MsTaken' = [MsTaken EXCEPT ![t] = NoPayload] BY <1>5 DEF MsTaken
<1> QED BY <1>2, <1>6

\* For any threads, nodes and values: the Michael-Scott queue with hazard
\* pointers implements a FIFO.  Values enter at the compare-exchange of next and
\* leave, oldest first, at the compare-exchange of head_.
THEOREM MsQueueImplementsFifo == MsSpec => MsQueueIsFifo
<1>1. MsInit => MsFifo!Init
  <2> SUFFICES ASSUME MsInit PROVE MsContents = <<>> /\ MsTaken = [c \in HpThread |-> NoPayload]
    BY DEF MsFifo!Init, MsContents, MsTaken
  <2>1. MsTaken = [c \in HpThread |-> NoPayload] BY DEF MsInit, HazardInit, MsTaken
  <2>2. PICK s \in HpNode, data \in [HpNode -> MsDatum], next \in [HpNode -> Pointer] : msHead = s /\ data = msData /\ next = msNext
    BY DEF MsInit, MsQueueInit, MsDatum, Pointer
  <2>3. IsList(<<s>>, HpNode, s, next, NoNode) /\ Len(<<s>>) = 1
    BY SMTT(30), <2>2, HazardAssumption DEF IsList, MsInit, MsQueueInit
  <2>4. Contents(s, next, data) \in Seq(MsDatum) /\ Len(Contents(s, next, data)) = 0 BY SMTT(30), <2>3, ContentsOf
  <2>5. MsContents = Contents(s, next, data) BY <2>2 DEF MsContents, Contents, Linked
  <2> QED BY SMTT(30), <2>1, <2>4, <2>5, EmptySeq
<1>2. MsInv /\ MsInv' /\ [MsNext]_msVars => [MsFifo!Next]_<<MsContents, MsTaken>>
  <2> SUFFICES ASSUME MsInv, MsInv', [MsNext]_msVars PROVE [MsFifo!Next]_<<MsContents, MsTaken>> OBVIOUS
  <2>1. CASE UNCHANGED msVars
    BY <2>1 DEF msVars, hpVars, msQueue, MsContents, MsTaken, Linked
  <2>2. ASSUME NEW t \in HpThread, Enqueue(t) \/ Dequeue(t) \/ MsScanFree(t) \/ (HazardStep(t) /\ UNCHANGED <<msQueue, ms>>)
        PROVE  [MsFifo!Next]_<<MsContents, MsTaken>>
    <3>1. CASE EnqAlloc(t) \/ MsScanFree(t) \/ (HazardStep(t) /\ UNCHANGED <<msQueue, ms>>) BY <3>1, MsMemoryUnseen
    <3>2. CASE \/ EnqLoad(t) \/ EnqProtect(t) \/ EnqValidate(t) \/ EnqNext(t) \/ EnqRecheck(t) \/ EnqSwing(t) \/ EnqHelp(t)
               \/ DeqLoad(t) \/ DeqProtect(t) \/ DeqValidate(t) \/ DeqNext(t) \/ DeqProtectNext(t)
               \/ DeqValidateNext(t) \/ DeqCheck(t) \/ DeqEmpty(t) \/ DeqTail(t) \/ DeqHelp(t) \/ DeqCopy(t)
      BY <3>2, MsSearchUnseen
    <3>3. CASE EnqLink(t)
      <4>1. CASE msNext[ms[t].at] = NoNode /\ msNext' = [msNext EXCEPT ![ms[t].at] = ms[t].node] /\ MsOn(t, "enqSwing")
        <5>1. PICK v \in Payload : /\ Len(MsContents) < Cardinality(HpNode) /\ MsContents' = Append(MsContents, v) /\ MsTaken' = MsTaken
          BY <3>3, <4>1, MsLinkEnters
        <5>2. MsFifo!Enter(v) BY <5>1 DEF MsFifo!Enter, MsContents, MsTaken
        <5> QED BY <5>2 DEF MsFifo!Next
      <4>2. CASE MsAgain(t, "enqLoad") /\ UNCHANGED msNext BY <3>3, <4>2, MsSearchUnseen
      <4> QED BY <3>3, <4>1, <4>2 DEF EnqLink
    <3>4. CASE DeqCas(t)
      <4>1. CASE msHead = ms[t].at /\ msHead' = ms[t].next /\ MsOn(t, "deqRetire")
        <5>1. MsFifo!Take(t) BY <3>4, <4>1, MsCasTakes DEF MsFifo!Take, MsContents, MsTaken
        <5> QED BY <5>1 DEF MsFifo!Next
      <4>2. CASE MsAgain(t, "deqLoad") /\ UNCHANGED msHead BY <3>4, <4>2, MsSearchUnseen
      <4> QED BY <3>4, <4>1, <4>2 DEF DeqCas
    <3>5. CASE DeqRetire(t)
      <4>1. MsFifo!Deliver(t) BY <3>5, MsRetireDelivers DEF MsFifo!Deliver, MsContents, MsTaken
      <4> QED BY <4>1 DEF MsFifo!Next
    <3> QED BY SMTT(30), <2>2, <3>1, <3>2, <3>3, <3>4, <3>5 DEF Enqueue, Dequeue
  <2> QED BY <2>1, <2>2 DEF MsNext
<1> QED BY <1>1, <1>2, MsInvInit, MsInductive, PTL DEF MsSpec, MsQueueIsFifo, MsFifo!Spec, MsContents, MsTaken

-----------------------------------------------------------------------------
(* Both structures, as they are model-checked.                             *)

\* Each structure keeps its own invariant; the other one does not move, and its
\* locals name no node.
ReclaimInv ==
  /\ hpUnused \subseteq HpNode
  /\ \/ structure = "ms_queue" /\ MsInv /\ hsOld = [t \in HpThread |-> NoHead]
     \/ structure = "hazard_stack" /\ HsInv /\ ms = [t \in HpThread |-> NoLocals]
     \/ structure = "rcu" /\ hsOld = [t \in HpThread |-> NoHead] /\ ms = [t \in HpThread |-> NoLocals]

\* ReclaimInv holds at first.
LEMMA ReclaimInvInit == ReclaimInit => ReclaimInv
<1> SUFFICES ASSUME ReclaimInit PROVE ReclaimInv OBVIOUS
<1>1. HazardInit /\ MsQueueInit /\ HazardStackInit BY DEF ReclaimInit
<1>2. hsOld = [t \in HpThread |-> NoHead] /\ ms = [t \in HpThread |-> NoLocals]
  BY <1>1 DEF HazardStackInit, MsQueueInit
<1>3. CASE structure = "ms_queue" /\ hpUnused = HpNode \ {msHead}
  BY <1>1, <1>2, <1>3, MsInvInit DEF MsInit, ReclaimInv
<1>4. CASE structure \in {"hazard_stack", "rcu"} /\ hpUnused = HpNode
  <2>1. HsInv BY <1>1, <1>4, HsInvInit DEF StackInit
  <2> QED BY <1>2, <1>4, <2>1 DEF ReclaimInv
<1> QED BY <1>3, <1>4 DEF ReclaimInit

\* ReclaimInv is preserved.
LEMMA ReclaimInductive ==
  ReclaimInv /\ [ReclaimNext]_<<structure, hpVars, msOwn, hsOwn, rcuVars>> => ReclaimInv'
<1> SUFFICES ASSUME ReclaimInv, [ReclaimNext]_<<structure, hpVars, msOwn, hsOwn, rcuVars>>
             PROVE  ReclaimInv'
  OBVIOUS
<1>1. structure' = structure BY DEF ReclaimNext
<1>2. \/ structure = "ms_queue" /\ MsNext /\ UNCHANGED <<hsOwn, rcuVars>>
      \/ structure = "hazard_stack" /\ StackNext /\ UNCHANGED <<msOwn, rcuVars>>
      \/ UNCHANGED <<hpVars, msOwn, hsOwn>>
  BY DEF ReclaimNext
<1>3. UNCHANGED hsOwn => hsOld' = hsOld BY DEF hsOwn, hsLocals
<1>4. UNCHANGED msOwn => ms' = ms BY DEF msOwn
<1>5. CASE structure = "ms_queue"
  <2>1. MsInv /\ hsOld = [t \in HpThread |-> NoHead] BY <1>5 DEF ReclaimInv
  <2>2. [MsNext]_msVars /\ UNCHANGED hsOwn BY <1>2, <1>5 DEF msVars, msOwn
  <2>3. MsInv' BY <2>1, <2>2, MsInductive
  <2>4. hpUnused' \subseteq HpNode BY <2>3 DEF MsInv, MsTypeOK, HpInv, HpTypeOK
  <2> QED BY <1>1, <1>3, <1>5, <2>1, <2>2, <2>3, <2>4 DEF ReclaimInv
<1>6. CASE structure = "hazard_stack"
  <2>1. HsInv /\ ms = [t \in HpThread |-> NoLocals] BY <1>6 DEF ReclaimInv
  <2>2. [StackNext]_hsVars /\ UNCHANGED msOwn BY <1>2, <1>6 DEF hsVars, hsOwn
  <2>3. HsInv' BY <2>1, <2>2, HsInductive
  <2>4. hpUnused' \subseteq HpNode BY <2>3 DEF HsInv, HsTypeOK, HpInv, HpTypeOK
  <2> QED BY <1>1, <1>4, <1>6, <2>1, <2>2, <2>3, <2>4 DEF ReclaimInv
<1>7. CASE structure = "rcu"
  <2>1. UNCHANGED <<hpVars, msOwn, hsOwn>> BY <1>2, <1>7
  <2>2. UNCHANGED hpUnused BY <2>1 DEF hpVars
  <2> QED BY <1>1, <1>3, <1>4, <1>7, <2>1, <2>2 DEF ReclaimInv
<1> QED BY <1>5, <1>6, <1>7 DEF ReclaimInv

\* For any threads and nodes: while either structure runs, none of its
\* operations dereferences a node that has been freed.
THEOREM HazardPointersProtect == ReclaimSpec => []HazardNoUseAfterFree
<1>1. ReclaimInv => HazardNoUseAfterFree
  <2> SUFFICES ASSUME ReclaimInv PROVE HazardNoUseAfterFree OBVIOUS
  <2>1. NoNode \notin hpUnused BY HazardAssumption DEF ReclaimInv
  <2>2. NoHead.ptr = NoNode /\ NoLocals.at = NoNode /\ NoLocals.next = NoNode BY DEF NoHead, NoLocals
  <2>3. ASSUME hsOld = [t \in HpThread |-> NoHead] PROVE StackNoUseAfterFree
    <3>1. \A t \in HpThread : hsOld[t] = NoHead BY <2>3
    <3> QED BY <2>1, <2>2, <3>1 DEF StackNoUseAfterFree
  <2>4. ASSUME ms = [t \in HpThread |-> NoLocals] PROVE MsNoUseAfterFree
    <3>1. \A t \in HpThread : ms[t] = NoLocals BY <2>4
    <3>2. \A t \in HpThread : MsDereferences(t) \subseteq {NoNode} BY <2>2, <3>1 DEF MsDereferences
    <3> QED BY <2>1, <3>2 DEF MsNoUseAfterFree
  <2> QED BY <2>3, <2>4, HsUsesNoFreed, MsUsesNoFreed DEF ReclaimInv, HazardNoUseAfterFree
<1> QED BY <1>1, ReclaimInvInit, ReclaimInductive, PTL DEF ReclaimSpec

\* The same for the owners of the nodes while the stack runs: each node has one.
THEOREM HazardStackNodesOneOwner == ReclaimSpec => []HazardStackOneOwner
<1>1. ReclaimInv => HazardStackOneOwner BY HsOwnedOnce DEF ReclaimInv, HazardStackOneOwner
<1> QED BY <1>1, ReclaimInvInit, ReclaimInductive, PTL DEF ReclaimSpec
=============================================================================
