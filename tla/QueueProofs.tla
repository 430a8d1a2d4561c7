---------------------------- MODULE QueueProofs -----------------------------
(* The two array queues implement BoundedFifo, for any size of the ring.   *)
EXTENDS Spsc, Mpmc, SequenceTheorems, TLAPS

\* Leaves are proved by Zenon; the others cite the prover that finds them.
USE ZenonT(30)

-----------------------------------------------------------------------------
(* The single-producer single-consumer ring.                               *)

Elem == Value \cup {Nothing}

\* What the mapping gives for BoundedFifo's variables.
Contents == [i \in 1..SpSize(spHead, spTail) |-> spSlots[(spHead + i - 1) % SpN]]
Delivering == [c \in {"consumer"} |-> IF spPop.pc = "deliver" THEN spPop.val ELSE Nothing]

\* The inductive invariant: a push that passed its check still has its free
\* slot and a pop that passed its check still has its value, although the
\* other thread goes on; and what was written or read is still in the slot.
SpIInv ==
  /\ spTail \in SpSlot /\ spHead \in SpSlot /\ spSlots \in [SpSlot -> Elem]
  /\ spPush \in [pc : {"idle", "write", "publish"}, val : Elem]
  /\ spPop \in [pc : {"idle", "read", "release", "deliver"}, val : Elem]
  /\ spPush.pc # "idle" => After(spTail) # spHead /\ spPush.val \in Value
  /\ spPush.pc = "publish" => spSlots[spTail] = spPush.val
  /\ spPop.pc \in {"read", "release"} => spHead # spTail
  /\ spPop.pc = "release" => spPop.val = spSlots[spHead]

-----------------------------------------------------------------------------
(* Positions in the ring.                                                  *)

\* A remainder by SpN, for numbers that went round at most once.
LEMMA AroundOnce ==
  ASSUME NEW x \in Nat, x < 2 * SpN
  PROVE  x % SpN = IF x < SpN THEN x ELSE x - SpN
<1>1. SpN \in Nat \ {0} BY SMTT(30), SpscAssumption
<1> QED BY SMTT(30), <1>1

\* After(i) is the next slot, or slot 0 after the last.
LEMMA AfterIs ==
  ASSUME NEW i \in SpSlot
  PROVE  After(i) \in SpSlot /\ After(i) = IF i = SpN - 1 THEN 0 ELSE i + 1
<1> DEFINE x == i + 1
<1>1. x \in Nat /\ x < 2 * SpN BY SMTT(30), SpscAssumption DEF SpSlot
<1> HIDE DEF x
<1>2. x % SpN = IF x < SpN THEN x ELSE x - SpN BY <1>1, AroundOnce
<1> USE DEF x
<1> QED BY SMTT(30), <1>2, SpscAssumption DEF After, SpSlot

\* What size_approx computes.
LEMMA SizeIs ==
  ASSUME NEW h \in SpSlot, NEW t \in SpSlot
  PROVE  SpSize(h, t) \in 0..SpN - 1 /\ SpSize(h, t) = IF t >= h THEN t - h ELSE t - h + SpN
<1> DEFINE x == t - h + SpN
<1>1. x \in Nat /\ x < 2 * SpN BY SMTT(30), SpscAssumption DEF SpSlot
<1> HIDE DEF x
<1>2. x % SpN = IF x < SpN THEN x ELSE x - SpN BY <1>1, AroundOnce
<1> USE DEF x
<1> QED BY SMTT(30), <1>2, SpscAssumption DEF SpSize, SpSlot

\* The slot of the i-th oldest value.
LEMMA PlaceIs ==
  ASSUME NEW h \in SpSlot, NEW i \in 1..SpN
  PROVE  (h + i - 1) % SpN \in SpSlot /\ (h + i - 1) % SpN = IF h + i - 1 < SpN THEN h + i - 1 ELSE h + i - 1 - SpN
<1>1. h + i - 1 \in Nat /\ h + i - 1 < 2 * SpN BY SMTT(30), SpscAssumption DEF SpSlot
<1> QED BY SMTT(30), <1>1, AroundOnce, SpscAssumption DEF SpSlot

\* The contents are a sequence of as many elements as the two indices say.
LEMMA ContentsSeq ==
  ASSUME spHead \in SpSlot, spTail \in SpSlot, spSlots \in [SpSlot -> Elem]
  PROVE  /\ Contents \in Seq(Elem) /\ Len(Contents) = SpSize(spHead, spTail)
         /\ \A i \in 1..SpSize(spHead, spTail) : Contents[i] = spSlots[(spHead + i - 1) % SpN]
<1> DEFINE n == SpSize(spHead, spTail)
<1>1. n \in Nat /\ n < SpN BY SMTT(30), SizeIs, SpscAssumption
<1>2. \A i \in 1..n : (spHead + i - 1) % SpN \in SpSlot BY SMTT(30), <1>1, PlaceIs, SpscAssumption
<1>3. Contents \in [1..n -> Elem] BY <1>2 DEF Contents
<1> HIDE DEF n
<1> QED BY SMTT(30), <1>1, <1>3 DEF Contents, n

-----------------------------------------------------------------------------
(* The invariant.                                                          *)

\* Both threads idle, the ring empty.
LEMMA SpInitHolds == SpscInit => SpIInv
BY SMTT(30), SpscAssumption DEF SpscInit, SpIInv, SpSlot, Elem

\* The producer's three steps.
LEMMA PushPreserves ==
  ASSUME SpIInv, (\E v \in Value : SpPushCheck(v)) \/ SpPushWrite \/ SpPushPublish
  PROVE  SpIInv'
<1>1. ASSUME NEW v \in Value, SpPushCheck(v) PROVE SpIInv'
  BY <1>1 DEF SpIInv, SpPushCheck, Elem
<1>2. CASE SpPushWrite
  <2>1. spTail # spHead => spSlots'[spHead] = spSlots[spHead] BY <1>2 DEF SpIInv, SpPushWrite
  <2>2. spSlots' \in [SpSlot -> Elem] /\ spSlots'[spTail] = spPush.val BY <1>2 DEF SpIInv, SpPushWrite
  <2>3. spPush' \in [pc : {"idle", "write", "publish"}, val : Elem] /\ spPush'.val = spPush.val
    BY <1>2 DEF SpIInv, SpPushWrite
  <2> QED BY <1>2, <2>1, <2>2, <2>3 DEF SpIInv, SpPushWrite
<1>3. CASE SpPushPublish
  <2>1. After(spTail) \in SpSlot BY AfterIs DEF SpIInv
  <2>2. After(spTail) # spHead BY <1>3 DEF SpIInv, SpPushPublish
  <2> QED BY <1>3, <2>1, <2>2 DEF SpIInv, SpPushPublish, Elem
<1> QED BY <1>1, <1>2, <1>3

\* The consumer's four steps.
LEMMA PopPreserves ==
  ASSUME SpIInv, SpPopCheck \/ SpPopRead \/ SpPopRelease \/ SpPopReturn
  PROVE  SpIInv'
<1>1. CASE SpPopCheck BY <1>1 DEF SpIInv, SpPopCheck, Elem
<1>2. CASE SpPopRead BY <1>2 DEF SpIInv, SpPopRead
<1>3. CASE SpPopRelease
  <2>1. spHead # spTail BY <1>3 DEF SpIInv, SpPopRelease
  <2>2. After(spHead) \in SpSlot BY AfterIs DEF SpIInv
  <2>3. After(spTail) # After(spHead) BY SMTT(30), <2>1, AfterIs, SpscAssumption DEF SpIInv, SpSlot
  <2> QED BY <1>3, <2>2, <2>3 DEF SpIInv, SpPopRelease
<1>4. CASE SpPopReturn BY <1>4 DEF SpIInv, SpPopReturn, Elem
<1> QED BY <1>1, <1>2, <1>3, <1>4

\* SpIInv holds whatever the two threads do.
THEOREM SpInductive == SpscSpec => []SpIInv
<1>1. SpIInv /\ [SpscNext]_spVars => SpIInv'
  <2>1. SpIInv /\ UNCHANGED spVars => SpIInv' BY DEF SpIInv, spVars, After
  <2> QED BY <2>1, PushPreserves, PopPreserves DEF SpscNext
<1> QED BY <1>1, SpInitHolds, PTL DEF SpscSpec

-----------------------------------------------------------------------------
(* The steps of BoundedFifo.                                               *)

\* A push writes to a slot outside the contents: nothing to see yet.
LEMMA WriteIsUnseen ==
  ASSUME SpIInv, SpPushWrite
  PROVE  Contents' = Contents /\ Delivering' = Delivering
<1> DEFINE n == SpSize(spHead, spTail)
<1>1. spHead' = spHead /\ spTail' = spTail /\ spPop' = spPop BY DEF SpPushWrite
<1>2. spHead \in SpSlot /\ spTail \in SpSlot /\ spSlots \in [SpSlot -> Elem] BY DEF SpIInv
<1>3. ASSUME NEW i \in 1..n
      PROVE  spSlots'[(spHead + i - 1) % SpN] = spSlots[(spHead + i - 1) % SpN]
  <2>1. n \in 0..SpN - 1 /\ n = IF spTail >= spHead THEN spTail - spHead ELSE spTail - spHead + SpN
    BY <1>2, SizeIs
  <2> HIDE DEF n
  <2>2. i \in 1..SpN BY SMTT(30), <2>1, SpscAssumption
  <2> DEFINE p == (spHead + i - 1) % SpN
  <2>3. p \in SpSlot /\ p = IF spHead + i - 1 < SpN THEN spHead + i - 1 ELSE spHead + i - 1 - SpN
    BY <1>2, <2>2, PlaceIs
  <2> HIDE DEF p
  <2>4. p # spTail BY SMTT(30), <1>2, <2>1, <2>3, SpscAssumption DEF SpSlot
  <2>5. spSlots'[p] = spSlots[p] BY <1>2, <2>3, <2>4 DEF SpPushWrite
  <2> QED BY <2>5 DEF p
<1> HIDE DEF n
<1> QED BY <1>1, <1>3 DEF Contents, Delivering, n

\* The store of tail_ puts the value behind the others, where there is room.
LEMMA PublishEnters ==
  ASSUME SpIInv, SpPushPublish
  PROVE  /\ Len(Contents) < SpN - 1 /\ spPush.val \in Value
         /\ Contents' = Append(Contents, spPush.val) /\ Delivering' = Delivering
<1> DEFINE n == SpSize(spHead, spTail)
<1>1. /\ spHead' = spHead /\ spTail' = After(spTail) /\ spSlots' = spSlots /\ spPop' = spPop
      /\ After(spTail) # spHead /\ spPush.val \in Value /\ spSlots[spTail] = spPush.val
  BY DEF SpIInv, SpPushPublish
<1>2. /\ spHead \in SpSlot /\ spTail \in SpSlot /\ spSlots \in [SpSlot -> Elem]
      /\ spTail' \in SpSlot /\ spTail' = IF spTail = SpN - 1 THEN 0 ELSE spTail + 1
  BY <1>1, AfterIs DEF SpIInv
<1>3. n \in 0..SpN - 1 /\ n = IF spTail >= spHead THEN spTail - spHead ELSE spTail - spHead + SpN
  BY <1>2, SizeIs
<1>4. n' \in 0..SpN - 1 /\ n' = IF spTail' >= spHead THEN spTail' - spHead ELSE spTail' - spHead + SpN
  BY <1>1, <1>2, SizeIs
<1>5. Contents \in Seq(Elem) /\ Len(Contents) = n /\ \A i \in 1..n : Contents[i] = spSlots[(spHead + i - 1) % SpN]
  BY <1>2, ContentsSeq
<1>6. Contents' = [i \in 1..n' |-> spSlots[(spHead + i - 1) % SpN]] BY <1>1 DEF Contents
<1> HIDE DEF n
<1>7. n' = n + 1 /\ n < SpN - 1 BY SMTT(30), <1>1, <1>2, <1>3, <1>4, SpscAssumption DEF SpSlot
<1>8. (spHead + (n + 1) - 1) % SpN = spTail
  <2>1. n + 1 \in 1..SpN BY SMTT(30), <1>3, SpscAssumption
  <2> DEFINE i == n + 1
             p == (spHead + i - 1) % SpN
  <2>2. i \in 1..SpN BY <2>1
  <2>3. i = n + 1 OBVIOUS
  <2> HIDE DEF i
  <2>4. p = IF spHead + i - 1 < SpN THEN spHead + i - 1 ELSE spHead + i - 1 - SpN
    BY <1>2, <2>2, PlaceIs
  <2> HIDE DEF p
  <2>5. p = spTail BY SMTT(30), <1>2, <1>3, <2>3, <2>4, SpscAssumption DEF SpSlot
  <2> QED BY <2>5 DEF p, i
<1>9. Contents' = Append(Contents, spPush.val)
  <2> DEFINE app == Append(Contents, spPush.val)
  <2>1. spPush.val \in Elem BY <1>1 DEF Elem
  <2>2. /\ app \in Seq(Elem) /\ Len(app) = n + 1 /\ app[n + 1] = spPush.val
        /\ \A i \in 1..n : app[i] = Contents[i]
    BY SMTT(30), <1>5, <2>1, AppendProperties
  <2> HIDE DEF app
  <2>3. app \in [1..n + 1 -> Elem] BY <2>2, LenProperties
  <2>4. ASSUME NEW i \in 1..n + 1 PROVE app[i] = spSlots[(spHead + i - 1) % SpN]
    <3>1. CASE i = n + 1 BY <1>1, <1>8, <2>2, <3>1
    <3>2. CASE i # n + 1
      <4>1. i \in 1..n BY SMTT(30), <1>3, <3>2
      <4> QED BY <1>5, <2>2, <4>1
    <3> QED BY <3>1, <3>2
  <2>5. app = [i \in 1..n + 1 |-> spSlots[(spHead + i - 1) % SpN]] BY <2>3, <2>4
  <2> QED BY <1>6, <1>7, <2>5 DEF app
<1> QED BY <1>1, <1>5, <1>7, <1>9 DEF Delivering

\* The store of head_ takes the oldest value, which the pop has read.
LEMMA ReleaseTakes ==
  ASSUME SpIInv, SpPopRelease
  PROVE  /\ Contents # <<>> /\ Contents' = Tail(Contents)
         /\ Delivering' = [Delivering EXCEPT !["consumer"] = Head(Contents)]
<1> DEFINE n == SpSize(spHead, spTail)
<1>1. /\ spTail' = spTail /\ spHead' = After(spHead) /\ spSlots' = spSlots
      /\ spHead # spTail /\ spPop.val = spSlots[spHead]
      /\ spPop'.pc = "deliver" /\ spPop'.val = spPop.val
  BY DEF SpIInv, SpPopRelease
<1>2. /\ spHead \in SpSlot /\ spTail \in SpSlot /\ spSlots \in [SpSlot -> Elem]
      /\ spHead' \in SpSlot /\ spHead' = IF spHead = SpN - 1 THEN 0 ELSE spHead + 1
  BY <1>1, AfterIs DEF SpIInv
<1>3. n \in 0..SpN - 1 /\ n = IF spTail >= spHead THEN spTail - spHead ELSE spTail - spHead + SpN
  BY <1>2, SizeIs
<1>4. n' \in 0..SpN - 1 /\ n' = IF spTail >= spHead' THEN spTail - spHead' ELSE spTail - spHead' + SpN
  BY <1>1, <1>2, SizeIs
<1>5. Contents \in Seq(Elem) /\ Len(Contents) = n /\ \A i \in 1..n : Contents[i] = spSlots[(spHead + i - 1) % SpN]
  BY <1>2, ContentsSeq
<1>6. Contents' = [i \in 1..n' |-> spSlots[(spHead' + i - 1) % SpN]] BY <1>1 DEF Contents
<1> HIDE DEF n
<1>7. n' = n - 1 /\ n > 0 BY SMTT(30), <1>1, <1>2, <1>3, <1>4, SpscAssumption DEF SpSlot
<1>8. Contents # <<>> BY SMTT(30), <1>5, <1>7, EmptySeq
<1>9. Head(Contents) = spPop.val
  <2> DEFINE p == (spHead + 1 - 1) % SpN
  <2>1. 1 \in 1..SpN /\ 1 \in 1..n BY SMTT(30), <1>3, <1>7, SpscAssumption
  <2>2. p = IF spHead + 1 - 1 < SpN THEN spHead + 1 - 1 ELSE spHead + 1 - 1 - SpN
    BY <1>2, <2>1, PlaceIs
  <2> HIDE DEF p
  <2>3. p = spHead BY SMTT(30), <1>2, <2>2, SpscAssumption DEF SpSlot
  <2>4. Contents[1] = spSlots[p] BY <1>5, <2>1 DEF p
  <2>5. Head(Contents) = Contents[1] BY SMTT(30), <1>5, <1>8
  <2> QED BY <1>1, <2>3, <2>4, <2>5
<1>10. Contents' = Tail(Contents)
  <2> DEFINE tl == Tail(Contents)
  <2>1. tl \in Seq(Elem) /\ Len(tl) = n - 1 /\ \A i \in 1..n - 1 : tl[i] = Contents[i + 1]
    BY <1>5, <1>8, HeadTailProperties
  <2> HIDE DEF tl
  <2>2. tl \in [1..n - 1 -> Elem] BY <2>1, LenProperties
  <2>3. ASSUME NEW i \in 1..n - 1 PROVE tl[i] = spSlots[(spHead' + i - 1) % SpN]
    <3> DEFINE j == i + 1
               p == (spHead + j - 1) % SpN
               q == (spHead' + i - 1) % SpN
    <3>1. i \in 1..SpN /\ j \in 1..SpN /\ j \in 1..n /\ j = i + 1 BY SMTT(30), <1>3, <1>7, SpscAssumption
    <3> HIDE DEF j
    <3>2. p = IF spHead + j - 1 < SpN THEN spHead + j - 1 ELSE spHead + j - 1 - SpN
      BY <1>2, <3>1, PlaceIs
    <3>3. q = IF spHead' + i - 1 < SpN THEN spHead' + i - 1 ELSE spHead' + i - 1 - SpN
      BY <1>2, <3>1, PlaceIs
    <3>4. Contents[j] = spSlots[p] BY <1>5, <3>1
    <3> HIDE DEF p, q
    <3>5. p = q BY SMTT(30), <1>2, <1>3, <3>1, <3>2, <3>3, SpscAssumption DEF SpSlot
    <3>6. tl[i] = spSlots[q] BY <2>1, <3>1, <3>4, <3>5
    <3> QED BY <3>6 DEF q
  <2>4. tl = [i \in 1..n - 1 |-> spSlots[(spHead' + i - 1) % SpN]] BY <2>2, <2>3
  <2> QED BY <1>6, <1>7, <2>4 DEF tl
<1> QED BY <1>1, <1>8, <1>9, <1>10 DEF Delivering

\* For any ring of at least two slots and any values: SpscQueue implements the
\* bounded FIFO of SpN - 1 values.
THEOREM SpscImplementsFifo == SpscSpec => SpscIsFifo
<1>1. SpscInit => SpFifo!Init
  <2> SUFFICES ASSUME SpscInit PROVE Contents = <<>> /\ Delivering = [c \in {"consumer"} |-> Nothing]
    BY DEF SpFifo!Init, Contents, Delivering
  <2>1. SpIInv BY SpInitHolds
  <2>2. SpSize(spHead, spTail) = 0
    <3>1. 0 \in SpSlot /\ spHead = 0 /\ spTail = 0 BY SMTT(30), SpscAssumption DEF SpscInit, SpSlot
    <3>2. SpSize(0, 0) = 0 BY SMTT(30), <3>1, SizeIs
    <3> QED BY <3>1, <3>2
  <2>3. Contents \in Seq(Elem) /\ Len(Contents) = 0 BY <2>1, <2>2, ContentsSeq DEF SpIInv
  <2> QED BY <2>3, EmptySeq DEF SpscInit, Delivering
<1>2. SpIInv /\ [SpscNext]_spVars => [SpFifo!Next]_<<Contents, Delivering>>
  <2> SUFFICES ASSUME SpIInv, [SpscNext]_spVars PROVE [SpFifo!Next]_<<Contents, Delivering>> OBVIOUS
  <2>1. CASE \E v \in Value : SpPushCheck(v) BY <2>1 DEF SpPushCheck, Contents, Delivering
  <2>2. CASE SpPushWrite BY <2>2, WriteIsUnseen
  <2>3. CASE SpPushPublish
    <3>1. PICK v \in Value : v = spPush.val BY <2>3, PublishEnters
    <3>2. SpFifo!Enter(v)
      BY <2>3, <3>1, PublishEnters DEF SpFifo!Enter, Contents, Delivering
    <3> QED BY <3>2 DEF SpFifo!Next
  <2>4. CASE SpPopCheck \/ SpPopRead
    BY SMTT(30), <2>4 DEF SpPopCheck, SpPopRead, Contents, Delivering
  <2>5. CASE SpPopRelease
    <3>1. SpFifo!Take("consumer") BY <2>5, ReleaseTakes DEF SpFifo!Take, Contents, Delivering
    <3> QED BY <3>1 DEF SpFifo!Next
  <2>6. CASE SpPopReturn
    <3>1. Contents' = Contents BY <2>6 DEF SpPopReturn, Contents
    <3>2. Delivering' = [Delivering EXCEPT !["consumer"] = Nothing] BY <2>6 DEF SpPopReturn, Delivering
    <3>3. SpFifo!Deliver("consumer") BY <3>1, <3>2 DEF SpFifo!Deliver, Contents, Delivering
    <3> QED BY <3>3 DEF SpFifo!Next
  <2>7. CASE UNCHANGED spVars BY <2>7 DEF spVars, Contents, Delivering
  <2> QED BY <2>1, <2>2, <2>3, <2>4, <2>5, <2>6, <2>7 DEF SpscNext
<1> QED BY <1>1, <1>2, SpInductive, PTL DEF SpscSpec, SpscIsFifo, SpFifo!Spec, Contents, Delivering

-----------------------------------------------------------------------------
(* The queue of many producers and consumers.                              *)

\* What a slot holds.
MpElem == Value \cup {Nothing}

\* The labels of a search for a position, and of the work at a claimed one.
MpPushPc == {"pushCheck", "pushReload", "pushCas"}
MpPopPc == {"popCheck", "popReload", "popCas"}
MpWorkPc == {"pushWrite", "pushPublish", "popRead", "popRelease"}

\* What the variables hold.
MpTypeOK ==
  /\ mpTail \in Nat /\ mpHead \in Nat
  /\ mpSequence \in [Slot -> Int]
  /\ mpData \in [Slot -> MpElem]
  /\ mpPc \in [MpmcThread -> {"idle"} \cup MpPushPc \cup MpPopPc \cup MpWorkPc]
  /\ mpPos \in [MpmcThread -> Nat]
  /\ mpVal \in [MpmcThread -> MpElem]

\* The last N positions claimed share the ring.  One that is in the queue has
\* its own number until its producer publishes it, then the next one; one that
\* has been taken keeps that until its consumer hands the slot on.
MpRing ==
  /\ mpHead <= mpTail /\ mpTail <= mpHead + N
  /\ \A p \in mpHead..mpTail - 1 :
       \/ mpSequence[SlotOf(p)] = p /\ \E t \in MpmcThread : Pushing(t) /\ mpPos[t] = p
       \/ mpSequence[SlotOf(p)] = p + 1
  /\ \A p \in mpTail - N..mpHead - 1 :
       \/ mpSequence[SlotOf(p)] = p + 1 /\ \E t \in MpmcThread : Popping(t) /\ mpPos[t] = p
       \/ mpSequence[SlotOf(p)] = p + N

\* A position has one producer and one consumer.
MpApart ==
  \A t, u \in MpmcThread :
    t # u /\ ((Pushing(t) /\ Pushing(u)) \/ (Popping(t) /\ Popping(u))) => mpPos[t] # mpPos[u]

\* What a thread knows of the position it works at or is about to claim: what
\* it has found there still holds if the claim succeeds.
MpClaim(t) ==
  /\ Pushing(t) => /\ mpPos[t] \in mpHead..mpTail - 1
                   /\ mpSequence[SlotOf(mpPos[t])] = mpPos[t] /\ mpVal[t] \in Value
  /\ mpPc[t] = "pushPublish" => mpData[SlotOf(mpPos[t])] = mpVal[t]
  /\ Popping(t) => mpPos[t] \in mpTail - N..mpHead - 1 /\ mpSequence[SlotOf(mpPos[t])] = mpPos[t] + 1
  /\ mpPc[t] \in MpPushPc => mpPos[t] <= mpTail /\ mpVal[t] \in Value
  /\ mpPc[t] \in MpPopPc => mpPos[t] <= mpHead
  /\ mpPc[t] = "pushCas" /\ mpPos[t] = mpTail => mpSequence[SlotOf(mpTail)] = mpTail
  /\ mpPc[t] = "popCas" /\ mpPos[t] = mpHead => mpSequence[SlotOf(mpHead)] = mpHead + 1

\* The inductive invariant.
MpInv == MpTypeOK /\ MpRing /\ MpApart /\ \A t \in MpmcThread : MpClaim(t)

-----------------------------------------------------------------------------
\* The slot of a position.
LEMMA SlotOfType == ASSUME NEW p \in Int PROVE SlotOf(p) \in Slot
BY SMTT(30), MpmcAssumption DEF SlotOf, Slot

\* A position is a number of laps and a slot.
LEMMA Quotient ==
  ASSUME NEW p \in Int
  PROVE  \E q \in Int : p = N * q + SlotOf(p)
<1>1. p = N * (p \div N) + (p % N) /\ p \div N \in Int BY SMTT(30), MpmcAssumption
<1> QED BY <1>1 DEF SlotOf

\* A lap later it is the same slot.
LEMMA SlotOfLap == ASSUME NEW p \in Int PROVE SlotOf(p + N) = SlotOf(p)
<1>1. PICK q \in Int : p = N * q + SlotOf(p) BY Quotient
<1>2. SlotOf(p) \in 0..N - 1 BY SlotOfType DEF Slot
<1>3. p + N = N * (q + 1) + SlotOf(p) BY SMTT(30), <1>1, <1>2, MpmcAssumption
<1>4. ASSUME NEW x \in Int, NEW k \in Int, NEW r \in 0..N - 1, x = N * k + r PROVE x % N = r
  BY SMTT(30), <1>4, MpmcAssumption
<1>5. p + N \in Int /\ q + 1 \in Int BY SMTT(30), MpmcAssumption
<1> QED BY <1>2, <1>3, <1>4, <1>5 DEF SlotOf

\* Within a lap all slots differ.
LEMMA SlotOfDiffers ==
  ASSUME NEW p \in Int, NEW s \in Int, p < s, s < p + N
  PROVE  SlotOf(p) # SlotOf(s)
<1> SUFFICES ASSUME SlotOf(p) = SlotOf(s) PROVE FALSE OBVIOUS
<1>1. PICK q \in Int : p = N * q + SlotOf(p) BY Quotient
<1>2. PICK k \in Int : s = N * k + SlotOf(s) BY Quotient
<1>3. SlotOf(p) \in Int BY SMTT(30), SlotOfType, MpmcAssumption DEF Slot
<1>4. N * (k - q) = N * k - N * q BY SMTT(30), MpmcAssumption
<1>5. N * (k - q) = s - p
  <2> DEFINE a == N * q
             b == N * k
  <2>1. a \in Int /\ b \in Int BY SMTT(30), MpmcAssumption
  <2>2. p = a + SlotOf(p) /\ s = b + SlotOf(p) BY <1>1, <1>2
  <2>3. N * (k - q) = b - a BY <1>4
  <2> HIDE DEF a, b
  <2> QED BY SMTT(30), <1>3, <2>1, <2>2, <2>3
<1>6. ASSUME NEW j \in Int, NEW d \in Int, N * j = d, 0 < d, d < N PROVE FALSE
  BY SMTT(30), <1>6, MpmcAssumption
<1>7. k - q \in Int /\ s - p \in Int /\ 0 < s - p /\ s - p < N BY SMTT(30), MpmcAssumption
<1> QED BY <1>5, <1>6, <1>7

\* The two together, for the positions that share the ring with p.
LEMMA SlotOfOthers ==
  ASSUME NEW p \in Int, NEW s \in Int, p # s, s < p + N, p < s + N
  PROVE  SlotOf(p) # SlotOf(s)
BY SMTT(30), SlotOfDiffers, MpmcAssumption


\* Any N positions in a row have one in the slot of p.
LEMMA SlotShared ==
  ASSUME NEW p \in Int, NEW m \in Int
  PROVE  \E q \in m - N..m - 1 : SlotOf(q) = SlotOf(p)
<1> USE MpmcAssumption
<1>1. PICK k \in Int : p - m = N * k + SlotOf(p - m)
  <2>1. p - m \in Int BY SMTT(30)
  <2> QED BY <2>1, Quotient
<1>2. PICK j \in Int : p = N * j + SlotOf(p) BY Quotient
<1> DEFINE r == SlotOf(p - m)
           s == SlotOf(p)
           q == m - N + r
<1>3. r \in 0..N - 1 /\ s \in 0..N - 1
  <2>1. p - m \in Int BY SMTT(30)
  <2> QED BY <2>1, SlotOfType DEF Slot
<1> HIDE DEF r, s
<1>4. q \in m - N..m - 1 BY SMTT(30), <1>3
<1>5. q = N * (j - k - 1) + s
  <2> DEFINE a == N * k
             b == N * j
  <2>1. a \in Int /\ b \in Int BY SMTT(30)
  <2>2. p - m = a + r /\ p = b + s BY <1>1, <1>2 DEF r, s
  <2>3. N * (j - k - 1) = b - a - N BY SMTT(30)
  <2> HIDE DEF a, b
  <2> QED BY SMTT(30), <1>3, <2>1, <2>2, <2>3
<1>6. ASSUME NEW x \in Int, NEW i \in Int, NEW c \in 0..N - 1, x = N * i + c PROVE x % N = c
  BY SMTT(30), <1>6
<1>7. q \in Int /\ j - k - 1 \in Int BY SMTT(30), <1>4
<1> HIDE DEF q
<1>8. SlotOf(q) = s BY <1>3, <1>5, <1>6, <1>7 DEF SlotOf
<1> QED BY <1>4, <1>8 DEF s

-----------------------------------------------------------------------------
\* At first slot i has the number i.
LEMMA MpInvInit == MpmcInit => MpInv
<1> SUFFICES ASSUME MpmcInit PROVE MpInv OBVIOUS
<1>1. MpTypeOK BY SMTT(30), MpmcAssumption DEF MpmcInit, MpTypeOK, Slot, MpElem
<1>2. \A t \in MpmcThread : ~Pushing(t) /\ ~Popping(t) BY DEF MpmcInit, Pushing, Popping
<1>3. MpRing
  <2>1. \A p \in 0 - N..0 - 1 : mpSequence[SlotOf(p)] = p + N
    <3> SUFFICES ASSUME NEW p \in 0 - N..0 - 1 PROVE mpSequence[SlotOf(p)] = p + N OBVIOUS
    <3>1. p \in Int /\ p + N \in Slot BY SMTT(30), MpmcAssumption DEF Slot
    <3>2. SlotOf(p + N) = SlotOf(p) BY <3>1, SlotOfLap
    <3>3. ASSUME NEW x \in Slot PROVE SlotOf(x) = x BY SMTT(30), MpmcAssumption DEF Slot, SlotOf
    <3> QED BY <3>1, <3>2, <3>3 DEF MpmcInit
  <2> QED BY SMTT(30), <2>1, MpmcAssumption DEF MpRing, MpmcInit
<1>4. MpApart BY <1>2 DEF MpApart
<1>5. \A t \in MpmcThread : MpClaim(t) BY <1>2 DEF MpClaim, MpmcInit, MpPushPc, MpPopPc
<1> QED BY <1>1, <1>3, <1>4, <1>5 DEF MpInv

\* A step that claims no position and hands none on.
LEMMA MpRingKept ==
  ASSUME MpRing, MpApart, mpTail' = mpTail, mpHead' = mpHead, mpSequence' = mpSequence,
         \A u \in MpmcThread : /\ Pushing(u)' <=> Pushing(u)
                               /\ Popping(u)' <=> Popping(u)
                               /\ Pushing(u) \/ Popping(u) => mpPos'[u] = mpPos[u]
  PROVE  MpRing' /\ MpApart'
<1>1. MpRing'
  <2>1. \A p : (\E t \in MpmcThread : Pushing(t) /\ mpPos[t] = p) => \E t \in MpmcThread : Pushing(t)' /\ mpPos'[t] = p OBVIOUS
  <2>2. \A p : (\E t \in MpmcThread : Popping(t) /\ mpPos[t] = p) => \E t \in MpmcThread : Popping(t)' /\ mpPos'[t] = p OBVIOUS
  <2> QED BY <2>1, <2>2 DEF MpRing
<1>2. MpApart' BY DEF MpApart
<1> QED BY <1>1, <1>2

\* The loads and the checks of push and pop.
LEMMA MpSearchStep ==
  ASSUME MpInv, NEW t \in MpmcThread,
         PushLoad(t) \/ PushCheck(t) \/ PushReload(t) \/ PopLoad(t) \/ PopCheck(t) \/ PopReload(t)
  PROVE  MpInv'
<1>1. MpTypeOK /\ MpRing /\ MpApart /\ \A u \in MpmcThread : MpClaim(u) BY DEF MpInv
<1>2. mpTail' = mpTail /\ mpHead' = mpHead /\ mpSequence' = mpSequence /\ mpData' = mpData
  BY DEF PushLoad, PushCheck, PushReload, PopLoad, PopCheck, PopReload
<1>3. /\ ~Pushing(t) /\ ~Popping(t)
      /\ mpPc' = [mpPc EXCEPT ![t] = mpPc'[t]]
      /\ mpPc'[t] \in {"idle"} \cup MpPushPc \cup MpPopPc
      /\ mpPos' = [mpPos EXCEPT ![t] = mpPos'[t]] /\ mpPos'[t] \in Nat
      /\ mpVal' = [mpVal EXCEPT ![t] = mpVal'[t]] /\ mpVal'[t] \in MpElem
  BY <1>1 DEF MpTypeOK, PushLoad, PushCheck, PushReload, PopLoad, PopCheck, PopReload, MpGoto,
              Pushing, Popping, MpPushPc, MpPopPc, MpElem
<1>4. MpTypeOK' BY <1>1, <1>2, <1>3 DEF MpTypeOK
<1>5. ~Pushing(t)' /\ ~Popping(t)' BY <1>3 DEF Pushing, Popping, MpPushPc, MpPopPc
<1>6. \A u \in MpmcThread : u # t => mpPc'[u] = mpPc[u] /\ mpPos'[u] = mpPos[u] /\ mpVal'[u] = mpVal[u]
  BY <1>1, <1>3 DEF MpTypeOK
<1>7. \A u \in MpmcThread : /\ Pushing(u)' <=> Pushing(u)
                            /\ Popping(u)' <=> Popping(u)
                            /\ Pushing(u) \/ Popping(u) => mpPos'[u] = mpPos[u]
  BY <1>3, <1>5, <1>6 DEF Pushing, Popping
<1>8. MpRing' /\ MpApart' BY <1>1, <1>2, <1>7, MpRingKept
<1>9. \A u \in MpmcThread : u # t => MpClaim(u)' BY SMTT(30), <1>1, <1>2, <1>6, <1>7 DEF MpClaim
<1>10. MpClaim(t)'
  <2>1. mpPc'[t] \in MpPushPc => mpPos'[t] <= mpTail /\ mpVal'[t] \in Value
    BY SMTT(30), <1>1 DEF MpTypeOK, MpClaim, PushLoad, PushCheck, PushReload, PopLoad, PopCheck, PopReload, MpGoto, MpPushPc
  <2>2. mpPc'[t] \in MpPopPc => mpPos'[t] <= mpHead
    BY SMTT(30), <1>1 DEF MpTypeOK, MpClaim, PushLoad, PushCheck, PushReload, PopLoad, PopCheck, PopReload, MpGoto, MpPopPc
  <2>3. mpPc'[t] = "pushCas" => mpSequence[SlotOf(mpPos'[t])] = mpPos'[t]
    <3>1. mpPc'[t] = "pushCas" => PushCheck(t)
      BY <1>1 DEF MpTypeOK, PushLoad, PushReload, PopLoad, PopCheck, PopReload, MpGoto
    <3>2. mpPos[t] \in Int /\ SlotOf(mpPos[t]) \in Slot BY SMTT(30), <1>1, SlotOfType DEF MpTypeOK
    <3>3. mpSequence[SlotOf(mpPos[t])] \in Int BY <1>1, <3>2 DEF MpTypeOK
    <3> QED BY SMTT(30), <1>1, <3>1, <3>2, <3>3 DEF MpTypeOK, PushCheck, MpGoto
  <2>4. mpPc'[t] = "popCas" => mpSequence[SlotOf(mpPos'[t])] = mpPos'[t] + 1
    <3>1. mpPc'[t] = "popCas" => PopCheck(t)
      BY <1>1 DEF MpTypeOK, PushLoad, PushCheck, PushReload, PopLoad, PopReload, MpGoto
    <3>2. mpPos[t] \in Int /\ SlotOf(mpPos[t]) \in Slot BY SMTT(30), <1>1, SlotOfType DEF MpTypeOK
    <3>3. mpSequence[SlotOf(mpPos[t])] \in Int BY <1>1, <3>2 DEF MpTypeOK
    <3> QED BY SMTT(30), <1>1, <3>1, <3>2, <3>3 DEF MpTypeOK, PopCheck, MpGoto
  <2>5. mpPc'[t] # "pushPublish" BY <1>5 DEF Pushing
  <2> QED BY <1>2, <1>5, <2>1, <2>2, <2>3, <2>4, <2>5 DEF MpClaim
<1> QED BY <1>4, <1>8, <1>9, <1>10 DEF MpInv

\* The compare-exchange of tail_.
LEMMA MpPushClaimStep ==
  ASSUME MpInv, NEW t \in MpmcThread, PushClaim(t)
  PROVE  MpInv'
<1> USE MpmcAssumption
<1>1. MpTypeOK /\ MpRing /\ MpApart /\ \A u \in MpmcThread : MpClaim(u) BY DEF MpInv
<1>2. /\ mpHead' = mpHead /\ mpSequence' = mpSequence /\ mpData' = mpData /\ mpVal' = mpVal
      /\ mpPc[t] = "pushCas" /\ ~Pushing(t) /\ ~Popping(t)
      /\ \A u \in MpmcThread : u # t => mpPc'[u] = mpPc[u] /\ mpPos'[u] = mpPos[u]
      /\ mpTail \in Nat /\ mpHead \in Nat
  BY <1>1 DEF PushClaim, MpTypeOK, MpGoto, Pushing, Popping
<1>3. \A u \in MpmcThread : u # t => (Pushing(u)' <=> Pushing(u)) /\ (Popping(u)' <=> Popping(u))
  BY <1>2 DEF Pushing, Popping
<1>4. CASE mpTail = mpPos[t] /\ mpTail' = mpTail + 1 /\ MpGoto(t, "pushWrite") /\ UNCHANGED mpPos
  <2>1. mpPc'[t] = "pushWrite" /\ mpPos'[t] = mpTail /\ Pushing(t)' /\ ~Popping(t)'
    BY <1>1, <1>4 DEF MpTypeOK, MpGoto, Pushing, Popping
  <2>2. mpSequence[SlotOf(mpTail)] = mpTail BY <1>1, <1>2, <1>4 DEF MpClaim
  <2>3. SlotOf(mpTail) = SlotOf(mpTail - N)
    <3>1. mpTail - N \in Int /\ mpTail - N + N = mpTail BY SMTT(30), <1>2
    <3> QED BY <3>1, SlotOfLap
  <2>4. mpTail < mpHead + N
    <3> SUFFICES ASSUME mpTail = mpHead + N PROVE FALSE BY SMTT(30), <1>1, <1>2 DEF MpRing
    <3>1. mpHead \in mpHead..mpTail - 1 BY SMTT(30), <1>2
    <3>2. mpSequence[SlotOf(mpHead)] \in {mpHead, mpHead + 1} BY <1>1, <3>1 DEF MpRing
    <3>3. mpTail - N = mpHead BY SMTT(30), <1>2
    <3> QED BY SMTT(30), <1>2, <2>2, <2>3, <3>2, <3>3
  <2>5. MpTypeOK' BY SMTT(30), <1>1, <1>2, <1>4 DEF MpTypeOK, MpGoto, MpWorkPc
  <2>6. MpRing'
    <3>1. \A p \in mpHead..mpTail : p = mpTail \/ p \in mpHead..mpTail - 1 BY SMTT(30), <1>2
    <3>2. \A p \in mpTail + 1 - N..mpHead - 1 : p \in mpTail - N..mpHead - 1 BY SMTT(30), <1>2
    <3>3. \A p : (\E u \in MpmcThread : Pushing(u) /\ mpPos[u] = p) => \E u \in MpmcThread : Pushing(u)' /\ mpPos'[u] = p
      BY <1>2, <1>3
    <3>4. \A p : (\E u \in MpmcThread : Popping(u) /\ mpPos[u] = p) => \E u \in MpmcThread : Popping(u)' /\ mpPos'[u] = p
      BY <1>2, <1>3
    <3>5. mpTail' - 1 = mpTail /\ mpTail' = mpTail + 1 BY SMTT(30), <1>2, <1>4
    <3>6. mpHead <= mpTail' /\ mpTail' <= mpHead + N BY SMTT(30), <1>1, <1>2, <1>4, <2>4 DEF MpRing
    <3>7. ASSUME NEW p \in mpHead..mpTail
          PROVE  \/ mpSequence[SlotOf(p)] = p /\ \E u \in MpmcThread : Pushing(u)' /\ mpPos'[u] = p
                 \/ mpSequence[SlotOf(p)] = p + 1
      <4>1. CASE p = mpTail BY <4>1, <2>1, <2>2
      <4>2. CASE p \in mpHead..mpTail - 1 BY <4>2, <1>1, <3>3 DEF MpRing
      <4> QED BY <3>1, <4>1, <4>2
    <3>8. ASSUME NEW p \in mpTail + 1 - N..mpHead - 1
          PROVE  \/ mpSequence[SlotOf(p)] = p + 1 /\ \E u \in MpmcThread : Popping(u)' /\ mpPos'[u] = p
                 \/ mpSequence[SlotOf(p)] = p + N
      BY <1>1, <3>2, <3>4 DEF MpRing
    <3> QED BY SMTT(30), <1>2, <3>5, <3>6, <3>7, <3>8 DEF MpRing
  <2>7. MpApart'
    <3>1. \A u \in MpmcThread : Pushing(u) => mpPos[u] # mpTail BY SMTT(30), <1>1, <1>2 DEF MpClaim
    <3> QED BY SMTT(30), <1>1, <1>2, <1>3, <2>1, <3>1 DEF MpApart
  <2>8. ASSUME NEW u \in MpmcThread, u # t PROVE MpClaim(u)'
    <3>1. MpClaim(u) /\ mpPos[u] \in Nat BY <1>1 DEF MpTypeOK
    <3>2. Pushing(u) => mpPos[u] \in mpHead..mpTail BY SMTT(30), <1>2, <3>1 DEF MpClaim
    <3>3. Popping(u) => mpPos[u] \in mpTail + 1 - N..mpHead - 1
      <4> SUFFICES ASSUME Popping(u), mpPos[u] = mpTail - N PROVE FALSE BY SMTT(30), <1>2, <3>1 DEF MpClaim
      <4>1. mpSequence[SlotOf(mpTail)] = mpTail - N + 1 BY <2>3, <3>1 DEF MpClaim
      <4> QED BY SMTT(30), <1>2, <2>2, <4>1
    <3>4. mpPc[u] \in MpPushPc => mpPos[u] <= mpTail BY <3>1 DEF MpClaim
    <3>5. mpTail' - 1 = mpTail /\ mpTail' = mpTail + 1 BY SMTT(30), <1>2, <1>4
    <3>6. mpPc[u] = "pushCas" => mpPc[u] \in MpPushPc BY DEF MpPushPc
    <3> QED BY SMTT(30), <1>2, <1>3, <2>8, <3>1, <3>2, <3>3, <3>4, <3>5, <3>6 DEF MpClaim
  <2>9. MpClaim(t)'
    <3>1. mpVal[t] \in Value BY <1>1, <1>2 DEF MpClaim, MpPushPc
    <3>2. mpTail \in mpHead..mpTail' - 1 BY SMTT(30), <1>1, <1>2, <1>4 DEF MpRing
    <3> QED BY <1>2, <2>1, <2>2, <3>1, <3>2 DEF MpClaim, MpPushPc, MpPopPc
  <2> QED BY <2>5, <2>6, <2>7, <2>8, <2>9 DEF MpInv
<1>5. CASE mpPos' = [mpPos EXCEPT ![t] = mpTail] /\ MpGoto(t, "pushCheck") /\ UNCHANGED mpTail
  <2>1. mpPc'[t] = "pushCheck" /\ mpPos'[t] = mpTail /\ ~Pushing(t)' /\ ~Popping(t)'
    BY <1>1, <1>5 DEF MpTypeOK, MpGoto, Pushing, Popping
  <2>2. MpTypeOK' BY <1>1, <1>2, <1>5 DEF MpTypeOK, MpGoto, MpPushPc
  <2>3. MpRing' /\ MpApart' BY <1>1, <1>2, <1>3, <1>5, <2>1, MpRingKept
  <2>4. \A u \in MpmcThread : u # t => MpClaim(u)' BY SMTT(30), <1>1, <1>2, <1>3, <1>5 DEF MpClaim
  <2>5. MpClaim(t)'
    <3>1. mpVal[t] \in Value BY <1>1, <1>2 DEF MpClaim, MpPushPc
    <3> QED BY SMTT(30), <1>2, <1>5, <2>1, <3>1 DEF MpClaim, MpPushPc, MpPopPc
  <2> QED BY <2>2, <2>3, <2>4, <2>5 DEF MpInv
<1> QED BY <1>4, <1>5 DEF PushClaim

\* The compare-exchange of head_.
LEMMA MpPopClaimStep ==
  ASSUME MpInv, NEW t \in MpmcThread, PopClaim(t)
  PROVE  MpInv'
<1> USE MpmcAssumption
<1>1. MpTypeOK /\ MpRing /\ MpApart /\ \A u \in MpmcThread : MpClaim(u) BY DEF MpInv
<1>2. /\ mpTail' = mpTail /\ mpSequence' = mpSequence /\ mpData' = mpData /\ mpVal' = mpVal
      /\ mpPc[t] = "popCas" /\ ~Pushing(t) /\ ~Popping(t)
      /\ \A u \in MpmcThread : u # t => mpPc'[u] = mpPc[u] /\ mpPos'[u] = mpPos[u]
      /\ mpTail \in Nat /\ mpHead \in Nat
  BY <1>1 DEF PopClaim, MpTypeOK, MpGoto, Pushing, Popping
<1>3. \A u \in MpmcThread : u # t => (Pushing(u)' <=> Pushing(u)) /\ (Popping(u)' <=> Popping(u))
  BY <1>2 DEF Pushing, Popping
<1>4. CASE mpHead = mpPos[t] /\ mpHead' = mpHead + 1 /\ MpGoto(t, "popRead") /\ UNCHANGED mpPos
  <2>1. mpPc'[t] = "popRead" /\ mpPos'[t] = mpHead /\ ~Pushing(t)' /\ Popping(t)'
    BY <1>1, <1>4 DEF MpTypeOK, MpGoto, Pushing, Popping
  <2>2. mpSequence[SlotOf(mpHead)] = mpHead + 1 BY <1>1, <1>2, <1>4 DEF MpClaim
  <2>3. mpHead < mpTail
    <3> SUFFICES ASSUME mpHead = mpTail PROVE FALSE BY SMTT(30), <1>1, <1>2 DEF MpRing
    <3> DEFINE p == mpHead - N
    <3>1. p \in Int /\ p + N = mpHead /\ p \in mpTail - N..mpHead - 1 BY SMTT(30), <1>2
    <3> HIDE DEF p
    <3>2. mpSequence[SlotOf(p)] \in {p + 1, p + N} BY <1>1, <3>1 DEF MpRing
    <3>3. SlotOf(mpHead) = SlotOf(p) BY <3>1, SlotOfLap
    <3> QED BY SMTT(30), <1>2, <2>2, <3>1, <3>2, <3>3
  <2>4. MpTypeOK' BY SMTT(30), <1>1, <1>2, <1>4 DEF MpTypeOK, MpGoto, MpWorkPc
  <2>5. MpRing'
    <3>1. \A p \in mpTail - N..mpHead : p = mpHead \/ p \in mpTail - N..mpHead - 1 BY SMTT(30), <1>2
    <3>2. \A p \in mpHead + 1..mpTail - 1 : p \in mpHead..mpTail - 1 BY SMTT(30), <1>2
    <3>3. \A p : (\E u \in MpmcThread : Pushing(u) /\ mpPos[u] = p) => \E u \in MpmcThread : Pushing(u)' /\ mpPos'[u] = p
      BY <1>2, <1>3
    <3>4. \A p : (\E u \in MpmcThread : Popping(u) /\ mpPos[u] = p) => \E u \in MpmcThread : Popping(u)' /\ mpPos'[u] = p
      BY <1>2, <1>3
    <3>5. mpHead' - 1 = mpHead /\ mpHead' = mpHead + 1 BY SMTT(30), <1>2, <1>4
    <3>6. mpHead' <= mpTail /\ mpTail <= mpHead' + N BY SMTT(30), <1>1, <1>2, <1>4, <2>3 DEF MpRing
    <3>7. ASSUME NEW p \in mpHead + 1..mpTail - 1
          PROVE  \/ mpSequence[SlotOf(p)] = p /\ \E u \in MpmcThread : Pushing(u)' /\ mpPos'[u] = p
                 \/ mpSequence[SlotOf(p)] = p + 1
      BY <1>1, <3>2, <3>3 DEF MpRing
    <3>8. ASSUME NEW p \in mpTail - N..mpHead
          PROVE  \/ mpSequence[SlotOf(p)] = p + 1 /\ \E u \in MpmcThread : Popping(u)' /\ mpPos'[u] = p
                 \/ mpSequence[SlotOf(p)] = p + N
      <4>1. CASE p = mpHead BY <4>1, <2>1, <2>2
      <4>2. CASE p \in mpTail - N..mpHead - 1 BY <4>2, <1>1, <3>4 DEF MpRing
      <4> QED BY <3>1, <4>1, <4>2
    <3> QED BY <1>2, <3>5, <3>6, <3>7, <3>8 DEF MpRing
  <2>6. MpApart'
    <3>1. \A u \in MpmcThread : Popping(u) => mpPos[u] # mpHead BY SMTT(30), <1>1, <1>2 DEF MpClaim
    <3> QED BY SMTT(30), <1>1, <1>2, <1>3, <2>1, <3>1 DEF MpApart
  <2>7. ASSUME NEW u \in MpmcThread, u # t PROVE MpClaim(u)'
    <3>1. MpClaim(u) /\ mpPos[u] \in Nat BY <1>1 DEF MpTypeOK
    <3>2. Popping(u) => mpPos[u] \in mpTail - N..mpHead BY SMTT(30), <1>2, <3>1 DEF MpClaim
    <3>3. Pushing(u) => mpPos[u] \in mpHead + 1..mpTail - 1
      <4> SUFFICES ASSUME Pushing(u), mpPos[u] = mpHead PROVE FALSE BY SMTT(30), <1>2, <3>1 DEF MpClaim
      <4>1. mpSequence[SlotOf(mpHead)] = mpHead BY <3>1 DEF MpClaim
      <4> QED BY SMTT(30), <1>2, <2>2, <4>1
    <3>4. mpPc[u] \in MpPopPc => mpPos[u] <= mpHead BY <3>1 DEF MpClaim
    <3>5. mpHead' - 1 = mpHead /\ mpHead' = mpHead + 1 BY SMTT(30), <1>2, <1>4
    <3>6. mpPc[u] = "popCas" => mpPc[u] \in MpPopPc BY DEF MpPopPc
    <3> QED BY SMTT(30), <1>2, <1>3, <2>7, <3>1, <3>2, <3>3, <3>4, <3>5, <3>6 DEF MpClaim
  <2>8. MpClaim(t)'
    <3>1. mpHead \in mpTail - N..mpHead' - 1 BY SMTT(30), <1>1, <1>2, <1>4 DEF MpRing
    <3> QED BY <1>2, <2>1, <2>2, <3>1 DEF MpClaim, MpPushPc, MpPopPc
  <2> QED BY <2>4, <2>5, <2>6, <2>7, <2>8 DEF MpInv
<1>5. CASE mpPos' = [mpPos EXCEPT ![t] = mpHead] /\ MpGoto(t, "popCheck") /\ UNCHANGED mpHead
  <2>1. mpPc'[t] = "popCheck" /\ mpPos'[t] = mpHead /\ ~Pushing(t)' /\ ~Popping(t)'
    BY <1>1, <1>5 DEF MpTypeOK, MpGoto, Pushing, Popping
  <2>2. MpTypeOK' BY <1>1, <1>2, <1>5 DEF MpTypeOK, MpGoto, MpPopPc
  <2>3. MpRing' /\ MpApart' BY <1>1, <1>2, <1>3, <1>5, <2>1, MpRingKept
  <2>4. \A u \in MpmcThread : u # t => MpClaim(u)' BY SMTT(30), <1>1, <1>2, <1>3, <1>5 DEF MpClaim
  <2>5. MpClaim(t)' BY SMTT(30), <1>2, <1>5, <2>1 DEF MpClaim, MpPushPc, MpPopPc
  <2> QED BY <2>2, <2>3, <2>4, <2>5 DEF MpInv
<1> QED BY <1>4, <1>5 DEF PopClaim

\* Writing and reading the slot of a claimed position.
LEMMA MpSlotStep ==
  ASSUME MpInv, NEW t \in MpmcThread, PushWrite(t) \/ PopRead(t)
  PROVE  MpInv'
<1> USE MpmcAssumption
<1>1. MpTypeOK /\ MpRing /\ MpApart /\ \A u \in MpmcThread : MpClaim(u) BY DEF MpInv
<1>2. /\ mpTail' = mpTail /\ mpHead' = mpHead /\ mpSequence' = mpSequence /\ mpPos' = mpPos
      /\ \A u \in MpmcThread : u # t => mpPc'[u] = mpPc[u] /\ mpVal'[u] = mpVal[u]
      /\ mpTail \in Nat /\ mpHead \in Nat
  BY <1>1 DEF PushWrite, PopRead, MpTypeOK, MpGoto
<1>3. \A u \in MpmcThread : (Pushing(u)' <=> Pushing(u)) /\ (Popping(u)' <=> Popping(u))
  BY <1>1, <1>2 DEF PushWrite, PopRead, MpTypeOK, MpGoto, Pushing, Popping
<1>4. MpRing' /\ MpApart' BY <1>1, <1>2, <1>3, MpRingKept
<1>5. \A u \in MpmcThread : mpPos[u] \in Int /\ SlotOf(mpPos[u]) \in Slot BY SMTT(30), <1>1, SlotOfType DEF MpTypeOK
<1>6. CASE PushWrite(t)
  <2>1. mpPc'[t] = "pushPublish" /\ mpVal' = mpVal /\ mpPc[t] = "pushWrite" /\ Pushing(t) /\ ~Popping(t)
    BY <1>1, <1>6 DEF PushWrite, MpTypeOK, MpGoto, Pushing, Popping
  <2>2. mpData'[SlotOf(mpPos[t])] = mpVal[t] /\ \A s \in Slot : s # SlotOf(mpPos[t]) => mpData'[s] = mpData[s]
    BY <1>1, <1>5, <1>6 DEF PushWrite, MpTypeOK
  <2>3. MpTypeOK' BY <1>1, <1>2, <1>5, <1>6 DEF PushWrite, MpTypeOK, MpGoto, MpWorkPc
  <2>4. ASSUME NEW u \in MpmcThread, u # t PROVE MpClaim(u)'
    <3>1. mpPc[u] = "pushPublish" => mpData'[SlotOf(mpPos[u])] = mpData[SlotOf(mpPos[u])]
      <4> SUFFICES ASSUME mpPc[u] = "pushPublish" PROVE SlotOf(mpPos[u]) # SlotOf(mpPos[t]) BY <1>5, <2>2
      <4>1. Pushing(u) BY DEF Pushing
      <4>2. mpPos[u] # mpPos[t] BY <1>1, <2>1, <2>4, <4>1 DEF MpApart
      <4>3. mpPos[u] \in mpHead..mpTail - 1 /\ mpPos[t] \in mpHead..mpTail - 1 BY <1>1, <2>1, <4>1 DEF MpClaim
      <4>4. mpPos[u] < mpPos[t] + N /\ mpPos[t] < mpPos[u] + N BY SMTT(30), <1>1, <1>2, <4>3 DEF MpRing
      <4> QED BY <1>5, <4>2, <4>4, SlotOfOthers
    <3> QED BY <1>1, <1>2, <1>3, <2>1, <2>4, <3>1 DEF MpClaim
  <2>5. MpClaim(t)' BY <1>1, <1>2, <1>3, <2>1, <2>2 DEF MpClaim, MpPushPc, MpPopPc
  <2> QED BY <1>4, <2>3, <2>4, <2>5 DEF MpInv
<1>7. CASE PopRead(t)
  <2>1. mpPc'[t] = "popRelease" /\ mpData' = mpData /\ mpPc[t] = "popRead" /\ Popping(t) /\ ~Pushing(t)
    BY <1>1, <1>7 DEF PopRead, MpTypeOK, MpGoto, Pushing, Popping
  <2>2. MpTypeOK' BY <1>1, <1>2, <1>5, <1>7 DEF PopRead, MpTypeOK, MpGoto, MpWorkPc
  <2>3. \A u \in MpmcThread : u # t => MpClaim(u)' BY SMTT(30), <1>1, <1>2, <1>3, <2>1 DEF MpClaim
  <2>4. MpClaim(t)' BY <1>1, <1>2, <1>3, <2>1 DEF MpClaim, MpPushPc, MpPopPc
  <2> QED BY <1>4, <2>2, <2>3, <2>4 DEF MpInv
<1> QED BY <1>6, <1>7

\* A new number for one position's slot is none for the others'.
LEMMA MpRenumber ==
  ASSUME MpTypeOK, MpRing, NEW p \in mpTail - N..mpTail - 1, NEW x \in Int,
         mpSequence' = [mpSequence EXCEPT ![SlotOf(p)] = x]
  PROVE  /\ mpSequence'[SlotOf(p)] = x
         /\ \A q \in mpTail - N..mpTail - 1 : q # p => mpSequence'[SlotOf(q)] = mpSequence[SlotOf(q)]
         /\ p # mpTail - N => mpSequence'[SlotOf(mpTail)] = mpSequence[SlotOf(mpTail)]
         /\ mpSequence' \in [Slot -> Int]
<1> USE MpmcAssumption
<1>1. mpTail \in Nat BY DEF MpTypeOK
<1>2. p \in Int /\ SlotOf(p) \in Slot BY SMTT(30), <1>1, SlotOfType
<1>3. ASSUME NEW q \in mpTail - N..mpTail - 1, q # p PROVE mpSequence'[SlotOf(q)] = mpSequence[SlotOf(q)]
  <2>1. q \in Int /\ SlotOf(q) \in Slot /\ q < p + N /\ p < q + N BY SMTT(30), <1>1, SlotOfType
  <2>2. SlotOf(q) # SlotOf(p) BY <1>2, <1>3, <2>1, SlotOfOthers
  <2> QED BY <2>1, <2>2 DEF MpTypeOK
<1>4. ASSUME p # mpTail - N PROVE mpSequence'[SlotOf(mpTail)] = mpSequence[SlotOf(mpTail)]
  <2>1. mpTail \in Int /\ SlotOf(mpTail) \in Slot /\ p < mpTail /\ mpTail < p + N BY SMTT(30), <1>1, <1>4, SlotOfType
  <2>2. SlotOf(mpTail) # SlotOf(p) BY <1>2, <2>1, SlotOfDiffers
  <2> QED BY <2>1, <2>2 DEF MpTypeOK
<1> QED BY <1>2, <1>3, <1>4 DEF MpTypeOK

\* The producer publishes its position.
LEMMA MpPublishStep ==
  ASSUME MpInv, NEW t \in MpmcThread, PushPublish(t)
  PROVE  MpInv'
<1> USE MpmcAssumption
<1>1. MpTypeOK /\ MpRing /\ MpApart /\ \A u \in MpmcThread : MpClaim(u) BY DEF MpInv
<1>2. /\ mpTail' = mpTail /\ mpHead' = mpHead /\ mpData' = mpData /\ mpPos' = mpPos
      /\ mpPc[t] = "pushPublish" /\ mpPc'[t] = "idle"
      /\ \A u \in MpmcThread : u # t => mpPc'[u] = mpPc[u] /\ mpVal'[u] = mpVal[u]
      /\ mpTail \in Nat /\ mpHead \in Nat
  BY <1>1 DEF PushPublish, MpTypeOK, MpGoto
<1>3. /\ Pushing(t) /\ ~Popping(t) /\ ~Pushing(t)' /\ ~Popping(t)'
      /\ \A u \in MpmcThread : u # t => (Pushing(u)' <=> Pushing(u)) /\ (Popping(u)' <=> Popping(u))
  BY <1>2 DEF Pushing, Popping
<1>4. PICK p \in mpHead..mpTail - 1 : p = mpPos[t] /\ mpSequence[SlotOf(p)] = p BY <1>1, <1>3 DEF MpClaim
<1>5. p \in mpTail - N..mpTail - 1 /\ p + 1 \in Int BY SMTT(30), <1>1, <1>2 DEF MpRing
<1>6. /\ mpSequence'[SlotOf(p)] = p + 1
      /\ \A q \in mpTail - N..mpTail - 1 : q # p => mpSequence'[SlotOf(q)] = mpSequence[SlotOf(q)]
      /\ p # mpTail - N => mpSequence'[SlotOf(mpTail)] = mpSequence[SlotOf(mpTail)]
      /\ mpSequence' \in [Slot -> Int]
  <2>1. mpSequence' = [mpSequence EXCEPT ![SlotOf(p)] = p + 1] BY <1>4 DEF PushPublish
  <2> QED BY <1>1, <1>5, <2>1, MpRenumber
<1>7. MpTypeOK' BY <1>1, <1>2, <1>6 DEF PushPublish, MpTypeOK, MpGoto, MpElem
<1>8. MpRing'
  <2>1. ASSUME NEW q \in mpHead..mpTail - 1
        PROVE  \/ mpSequence'[SlotOf(q)] = q /\ \E u \in MpmcThread : Pushing(u)' /\ mpPos[u] = q
               \/ mpSequence'[SlotOf(q)] = q + 1
    <3>1. CASE q = p BY <1>6, <3>1
    <3>2. CASE q # p
      <4>1. mpSequence'[SlotOf(q)] = mpSequence[SlotOf(q)] BY SMTT(30), <1>1, <1>2, <1>6, <3>2 DEF MpRing
      <4> QED BY <1>1, <1>3, <1>4, <3>2, <4>1 DEF MpRing
    <3> QED BY <3>1, <3>2
  <2>2. ASSUME NEW q \in mpTail - N..mpHead - 1
        PROVE  \/ mpSequence'[SlotOf(q)] = q + 1 /\ \E u \in MpmcThread : Popping(u)' /\ mpPos[u] = q
               \/ mpSequence'[SlotOf(q)] = q + N
    <3>1. mpSequence'[SlotOf(q)] = mpSequence[SlotOf(q)] BY SMTT(30), <1>1, <1>2, <1>6 DEF MpRing
    <3> QED BY <1>1, <1>3, <3>1 DEF MpRing
  <2> QED BY <1>1, <1>2, <2>1, <2>2 DEF MpRing
<1>9. MpApart' BY <1>1, <1>2, <1>3 DEF MpApart
<1>10. ASSUME NEW u \in MpmcThread, u # t PROVE MpClaim(u)'
  <2>1. MpClaim(u) BY <1>1
  <2>2. Pushing(u) => mpSequence'[SlotOf(mpPos[u])] = mpSequence[SlotOf(mpPos[u])]
    <3> SUFFICES ASSUME Pushing(u) PROVE mpSequence'[SlotOf(mpPos[u])] = mpSequence[SlotOf(mpPos[u])] OBVIOUS
    <3>1. mpPos[u] # p BY <1>1, <1>3, <1>4, <1>10 DEF MpApart
    <3>2. mpPos[u] \in mpTail - N..mpTail - 1 BY SMTT(30), <1>1, <1>2, <2>1 DEF MpClaim, MpRing
    <3> QED BY <1>6, <3>1, <3>2
  <2>3. Popping(u) => mpSequence'[SlotOf(mpPos[u])] = mpSequence[SlotOf(mpPos[u])]
    <3> SUFFICES ASSUME Popping(u) PROVE mpSequence'[SlotOf(mpPos[u])] = mpSequence[SlotOf(mpPos[u])] OBVIOUS
    <3>1. mpPos[u] \in mpTail - N..mpTail - 1 /\ mpPos[u] # p BY SMTT(30), <1>1, <1>2, <1>4, <2>1 DEF MpClaim, MpRing
    <3> QED BY <1>6, <3>1
  <2>4. mpPc[u] = "pushCas" /\ mpPos[u] = mpTail => mpSequence'[SlotOf(mpTail)] = mpTail
    <3> SUFFICES ASSUME mpPc[u] = "pushCas", mpPos[u] = mpTail PROVE mpSequence'[SlotOf(mpTail)] = mpTail OBVIOUS
    <3>1. mpSequence[SlotOf(mpTail)] = mpTail BY <2>1 DEF MpClaim
    <3>2. p = mpTail - N => SlotOf(p) = SlotOf(mpTail)
      <4>1. mpTail - N \in Int /\ mpTail - N + N = mpTail BY SMTT(30), <1>2
      <4> QED BY <4>1, SlotOfLap
    <3>3. p # mpTail - N BY SMTT(30), <1>2, <1>4, <3>1, <3>2
    <3> QED BY <1>6, <3>1, <3>3
  <2>5. mpPc[u] = "popCas" /\ mpPos[u] = mpHead => mpSequence'[SlotOf(mpHead)] = mpHead + 1
    <3> SUFFICES ASSUME mpPc[u] = "popCas", mpPos[u] = mpHead PROVE mpSequence'[SlotOf(mpHead)] = mpHead + 1 OBVIOUS
    <3>1. mpSequence[SlotOf(mpHead)] = mpHead + 1 BY <2>1 DEF MpClaim
    <3>2. mpHead # p BY SMTT(30), <1>2, <1>4, <3>1
    <3>3. mpHead \in mpTail - N..mpTail - 1 BY SMTT(30), <1>1, <1>2, <1>4 DEF MpRing
    <3> QED BY <1>6, <3>1, <3>2, <3>3
  <2> QED BY <1>2, <1>3, <1>10, <2>1, <2>2, <2>3, <2>4, <2>5 DEF MpClaim
<1>11. MpClaim(t)' BY <1>2, <1>3 DEF MpClaim, MpPushPc, MpPopPc
<1> QED BY <1>7, <1>8, <1>9, <1>10, <1>11 DEF MpInv

\* The consumer hands the slot on to the next lap.
LEMMA MpReleaseStep ==
  ASSUME MpInv, NEW t \in MpmcThread, PopRelease(t)
  PROVE  MpInv'
<1> USE MpmcAssumption
<1>1. MpTypeOK /\ MpRing /\ MpApart /\ \A u \in MpmcThread : MpClaim(u) BY DEF MpInv
<1>2. /\ mpTail' = mpTail /\ mpHead' = mpHead /\ mpData' = mpData /\ mpPos' = mpPos
      /\ mpPc[t] = "popRelease" /\ mpPc'[t] = "idle"
      /\ \A u \in MpmcThread : u # t => mpPc'[u] = mpPc[u] /\ mpVal'[u] = mpVal[u]
      /\ mpTail \in Nat /\ mpHead \in Nat
  BY <1>1 DEF PopRelease, MpTypeOK, MpGoto
<1>3. /\ Popping(t) /\ ~Pushing(t) /\ ~Pushing(t)' /\ ~Popping(t)'
      /\ \A u \in MpmcThread : u # t => (Pushing(u)' <=> Pushing(u)) /\ (Popping(u)' <=> Popping(u))
  BY <1>2 DEF Pushing, Popping
<1>4. PICK p \in mpTail - N..mpHead - 1 : p = mpPos[t] /\ mpSequence[SlotOf(p)] = p + 1 BY <1>1, <1>3 DEF MpClaim
<1>5. p \in mpTail - N..mpTail - 1 /\ p + N \in Int BY SMTT(30), <1>1, <1>2 DEF MpRing
<1>6. /\ mpSequence'[SlotOf(p)] = p + N
      /\ \A q \in mpTail - N..mpTail - 1 : q # p => mpSequence'[SlotOf(q)] = mpSequence[SlotOf(q)]
      /\ p # mpTail - N => mpSequence'[SlotOf(mpTail)] = mpSequence[SlotOf(mpTail)]
      /\ mpSequence' \in [Slot -> Int]
  <2>1. mpSequence' = [mpSequence EXCEPT ![SlotOf(p)] = p + N] BY <1>4 DEF PopRelease, FreeSequence
  <2> QED BY <1>1, <1>5, <2>1, MpRenumber
<1>7. MpTypeOK' BY <1>1, <1>2, <1>6 DEF PopRelease, MpTypeOK, MpGoto, MpElem
<1>8. MpRing'
  <2>1. ASSUME NEW q \in mpHead..mpTail - 1
        PROVE  \/ mpSequence'[SlotOf(q)] = q /\ \E u \in MpmcThread : Pushing(u)' /\ mpPos[u] = q
               \/ mpSequence'[SlotOf(q)] = q + 1
    <3>1. mpSequence'[SlotOf(q)] = mpSequence[SlotOf(q)] BY SMTT(30), <1>1, <1>2, <1>6 DEF MpRing
    <3> QED BY <1>1, <1>3, <3>1 DEF MpRing
  <2>2. ASSUME NEW q \in mpTail - N..mpHead - 1
        PROVE  \/ mpSequence'[SlotOf(q)] = q + 1 /\ \E u \in MpmcThread : Popping(u)' /\ mpPos[u] = q
               \/ mpSequence'[SlotOf(q)] = q + N
    <3>1. CASE q = p BY <1>6, <3>1
    <3>2. CASE q # p
      <4>1. mpSequence'[SlotOf(q)] = mpSequence[SlotOf(q)] BY SMTT(30), <1>1, <1>2, <1>6, <3>2 DEF MpRing
      <4> QED BY <1>1, <1>3, <1>4, <3>2, <4>1 DEF MpRing
    <3> QED BY <3>1, <3>2
  <2> QED BY <1>1, <1>2, <2>1, <2>2 DEF MpRing
<1>9. MpApart' BY <1>1, <1>2, <1>3 DEF MpApart
<1>10. ASSUME NEW u \in MpmcThread, u # t PROVE MpClaim(u)'
  <2>1. MpClaim(u) BY <1>1
  <2>2. Pushing(u) => mpSequence'[SlotOf(mpPos[u])] = mpSequence[SlotOf(mpPos[u])]
    <3> SUFFICES ASSUME Pushing(u) PROVE mpSequence'[SlotOf(mpPos[u])] = mpSequence[SlotOf(mpPos[u])] OBVIOUS
    <3>1. mpPos[u] \in mpTail - N..mpTail - 1 /\ mpPos[u] # p BY SMTT(30), <1>1, <1>2, <1>4, <2>1 DEF MpClaim, MpRing
    <3> QED BY <1>6, <3>1
  <2>3. Popping(u) => mpSequence'[SlotOf(mpPos[u])] = mpSequence[SlotOf(mpPos[u])]
    <3> SUFFICES ASSUME Popping(u) PROVE mpSequence'[SlotOf(mpPos[u])] = mpSequence[SlotOf(mpPos[u])] OBVIOUS
    <3>1. mpPos[u] # p BY <1>1, <1>3, <1>4, <1>10 DEF MpApart
    <3>2. mpPos[u] \in mpTail - N..mpTail - 1 BY SMTT(30), <1>1, <1>2, <2>1 DEF MpClaim, MpRing
    <3> QED BY <1>6, <3>1, <3>2
  <2>4. mpPc[u] = "pushCas" /\ mpPos[u] = mpTail => mpSequence'[SlotOf(mpTail)] = mpTail
    <3> SUFFICES ASSUME mpPc[u] = "pushCas", mpPos[u] = mpTail PROVE mpSequence'[SlotOf(mpTail)] = mpTail OBVIOUS
    <3>1. mpSequence[SlotOf(mpTail)] = mpTail BY <2>1 DEF MpClaim
    <3>2. p = mpTail - N => SlotOf(p) = SlotOf(mpTail)
      <4>1. mpTail - N \in Int /\ mpTail - N + N = mpTail BY SMTT(30), <1>2
      <4> QED BY <4>1, SlotOfLap
    <3>3. p # mpTail - N BY SMTT(30), <1>2, <1>4, <3>1, <3>2
    <3> QED BY <1>6, <3>1, <3>3
  <2>5. mpPc[u] = "popCas" /\ mpPos[u] = mpHead => mpSequence'[SlotOf(mpHead)] = mpHead + 1
    <3> SUFFICES ASSUME mpPc[u] = "popCas", mpPos[u] = mpHead PROVE mpSequence'[SlotOf(mpHead)] = mpHead + 1 OBVIOUS
    <3>1. mpSequence[SlotOf(mpHead)] = mpHead + 1 BY <2>1 DEF MpClaim
    <3>2. CASE mpHead < mpTail
      <4>1. mpHead \in mpTail - N..mpTail - 1 /\ mpHead # p BY SMTT(30), <1>1, <1>2, <1>4, <3>2 DEF MpRing
      <4> QED BY <1>6, <3>1, <4>1
    <3>3. CASE mpHead = mpTail
      <4>1. p = mpTail - N => SlotOf(p) = SlotOf(mpTail)
        <5>1. mpTail - N \in Int /\ mpTail - N + N = mpTail BY SMTT(30), <1>2
        <5> QED BY <5>1, SlotOfLap
      <4>2. p # mpTail - N BY SMTT(30), <1>2, <1>4, <3>1, <3>3, <4>1
      <4> QED BY <1>6, <3>1, <3>3, <4>2
    <3> QED BY SMTT(30), <1>1, <1>2, <3>2, <3>3 DEF MpRing
  <2> QED BY <1>2, <1>3, <1>10, <2>1, <2>2, <2>3, <2>4, <2>5 DEF MpClaim
<1>11. MpClaim(t)' BY <1>2, <1>3 DEF MpClaim, MpPushPc, MpPopPc
<1> QED BY <1>7, <1>8, <1>9, <1>10, <1>11 DEF MpInv

\* MpInv holds whatever the threads do.
THEOREM MpInductive == MpmcSpec => []MpInv
<1>1. MpInv /\ UNCHANGED mpVars => MpInv'
  BY SMTT(30) DEF MpInv, MpTypeOK, MpRing, MpApart, MpClaim, Pushing, Popping, mpVars
<1>2. MpInv /\ MpmcNext => MpInv'
  BY MpSearchStep, MpPushClaimStep, MpPopClaimStep, MpSlotStep, MpPublishStep, MpReleaseStep
     DEF MpmcNext, Push, Pop
<1> QED BY <1>1, <1>2, MpInvInit, PTL DEF MpmcSpec

-----------------------------------------------------------------------------
(* The steps of BoundedFifo.                                               *)

\* What the mapping gives for BoundedFifo's variables.
MpContents == [i \in 1..mpTail - mpHead |-> ValueAt(mpHead + i - 1)]
\* What each consumer has taken and not returned yet.
MpTaken ==
  [t \in MpmcThread |-> CASE mpPc[t] = "popRead" -> mpData[SlotOf(mpPos[t])]
                          [] mpPc[t] = "popRelease" -> mpVal[t]
                          [] OTHER -> Nothing]

\* The value of a position: its producer's until it is published, the slot's
\* from then on.
MpValued ==
  \A p \in mpHead..mpTail - 1 :
    /\ \A t \in MpmcThread : Pushing(t) /\ mpPos[t] = p => ValueAt(p) = mpVal[t]
    /\ mpSequence[SlotOf(p)] = p + 1 => ValueAt(p) = mpData[SlotOf(p)]
    /\ ValueAt(p) \in MpElem

\* ValueAt is what a producer or the slot has.
LEMMA MpValues == MpInv => MpValued
<1> SUFFICES ASSUME MpInv, NEW p \in mpHead..mpTail - 1
             PROVE  /\ \A t \in MpmcThread : Pushing(t) /\ mpPos[t] = p => ValueAt(p) = mpVal[t]
                    /\ mpSequence[SlotOf(p)] = p + 1 => ValueAt(p) = mpData[SlotOf(p)]
                    /\ ValueAt(p) \in MpElem
  BY DEF MpValued
<1>1. MpTypeOK /\ MpRing /\ MpApart /\ \A u \in MpmcThread : MpClaim(u) BY DEF MpInv
<1>2. p \in Int /\ p # p + 1 /\ SlotOf(p) \in Slot BY SMTT(30), <1>1, SlotOfType DEF MpTypeOK
<1>3. ASSUME NEW t \in MpmcThread, Pushing(t), mpPos[t] = p PROVE ValueAt(p) = mpVal[t]
  <2>1. mpSequence[SlotOf(p)] = p BY <1>1, <1>3 DEF MpClaim
  <2>2. \A u \in MpmcThread : Pushing(u) /\ mpPos[u] = p => u = t BY <1>1, <1>3 DEF MpApart
  <2>3. (CHOOSE u \in MpmcThread : Pushing(u) /\ mpPos[u] = p) = t BY <1>3, <2>2
  <2> QED BY <2>1, <2>3 DEF ValueAt
<1>4. mpSequence[SlotOf(p)] = p + 1 => ValueAt(p) = mpData[SlotOf(p)] BY <1>2 DEF ValueAt
<1>5. ValueAt(p) \in MpElem
  <2>1. CASE mpSequence[SlotOf(p)] = p + 1 BY <1>1, <1>2, <1>4, <2>1 DEF MpTypeOK
  <2>2. CASE \E t \in MpmcThread : Pushing(t) /\ mpPos[t] = p BY <1>1, <1>3, <2>2 DEF MpTypeOK
  <2> QED BY <1>1, <2>1, <2>2 DEF MpRing
<1> QED BY <1>3, <1>4, <1>5

\* The same after a step.
LEMMA MpValuesNext == MpInv' => MpValued'
BY MpValues, PTL

\* Why a position that stays in the queue keeps its value in a step.
MpKeeps(p) ==
  \/ /\ mpSequence[SlotOf(p)] = p + 1 /\ mpSequence'[SlotOf(p)] = p + 1
     /\ mpData'[SlotOf(p)] = mpData[SlotOf(p)]
  \/ \E u \in MpmcThread : /\ Pushing(u) /\ mpPos[u] = p
                           /\ \/ Pushing(u)' /\ mpPos'[u] = p /\ mpVal'[u] = mpVal[u]
                              \/ mpSequence'[SlotOf(p)] = p + 1 /\ mpData'[SlotOf(p)] = mpVal[u]

\* Such a position keeps its value.
LEMMA MpKeepsValue ==
  ASSUME MpInv, MpInv', NEW p \in mpHead..mpTail - 1, p \in mpHead'..mpTail' - 1, MpKeeps(p)
  PROVE  ValueAt(p)' = ValueAt(p)
<1>1. MpValued /\ MpValued' BY MpValues, MpValuesNext
<1>2. /\ \A t \in MpmcThread : Pushing(t) /\ mpPos[t] = p => ValueAt(p) = mpVal[t]
      /\ mpSequence[SlotOf(p)] = p + 1 => ValueAt(p) = mpData[SlotOf(p)]
  BY <1>1 DEF MpValued
<1>3. /\ \A t \in MpmcThread : Pushing(t)' /\ mpPos'[t] = p => ValueAt(p)' = mpVal'[t]
      /\ mpSequence'[SlotOf(p)] = p + 1 => ValueAt(p)' = mpData'[SlotOf(p)]
  BY <1>1 DEF MpValued
<1> QED BY SMTT(30), <1>2, <1>3 DEF MpKeeps

\* The contents are a sequence of the positions from mpHead to mpTail.
LEMMA MpContentsSeq ==
  ASSUME MpInv
  PROVE  /\ mpTail - mpHead \in Nat /\ MpContents \in Seq(MpElem) /\ Len(MpContents) = mpTail - mpHead
         /\ \A i \in 1..mpTail - mpHead : MpContents[i] = ValueAt(mpHead + i - 1)
<1> DEFINE n == mpTail - mpHead
<1>1. n \in Nat /\ mpTail \in Nat /\ mpHead \in Nat BY SMTT(30) DEF MpInv, MpTypeOK, MpRing
<1>2. \A i \in 1..n : mpHead + i - 1 \in mpHead..mpTail - 1 BY SMTT(30), <1>1
<1>3. MpContents \in [1..n -> MpElem] BY <1>2, MpValues DEF MpContents, MpValued
<1>4. \A i \in 1..n : MpContents[i] = ValueAt(mpHead + i - 1) BY DEF MpContents
<1> HIDE DEF n
<1> QED BY SMTT(30), <1>1, <1>3, <1>4 DEF n

\* Contents in which every position keeps its value are the same.
LEMMA MpContentsKept ==
  ASSUME MpInv, MpInv', mpTail' = mpTail, mpHead' = mpHead, \A p \in mpHead..mpTail - 1 : MpKeeps(p)
  PROVE  MpContents' = MpContents
<1>1. mpTail \in Nat /\ mpHead \in Nat BY DEF MpInv, MpTypeOK
<1>2. \A p \in mpHead..mpTail - 1 : ValueAt(p)' = ValueAt(p) BY MpKeepsValue
<1>3. \A i \in 1..mpTail - mpHead : mpHead + i - 1 \in mpHead..mpTail - 1 BY SMTT(30), <1>1
<1>4. \A i \in 1..mpTail - mpHead : ValueAt(mpHead + i - 1)' = ValueAt(mpHead + i - 1) BY <1>2, <1>3
<1> QED BY <1>4 DEF MpContents

\* A search and a failed claim are not seen from outside.
LEMMA MpSearchUnseen ==
  ASSUME MpInv, MpInv', NEW t \in MpmcThread,
         \/ PushLoad(t) \/ PushCheck(t) \/ PushReload(t) \/ PopLoad(t) \/ PopCheck(t) \/ PopReload(t)
         \/ PushClaim(t) /\ mpTail' = mpTail
         \/ PopClaim(t) /\ mpHead' = mpHead
  PROVE  MpContents' = MpContents /\ MpTaken' = MpTaken
<1>1. MpTypeOK /\ MpRing BY DEF MpInv
<1>2. mpTail \in Nat /\ mpHead \in Nat BY <1>1 DEF MpTypeOK
<1>3. mpTail' = mpTail /\ mpHead' = mpHead /\ mpSequence' = mpSequence /\ mpData' = mpData
  BY DEF PushLoad, PushCheck, PushReload, PopLoad, PopCheck, PopReload, PushClaim, PopClaim
<1>4. /\ ~Pushing(t) /\ ~Popping(t) /\ ~Popping(t)'
      /\ \A u \in MpmcThread : u # t => mpPc'[u] = mpPc[u] /\ mpPos'[u] = mpPos[u] /\ mpVal'[u] = mpVal[u]
  BY SMTT(30), <1>1, <1>2 DEF MpTypeOK, PushLoad, PushCheck, PushReload, PopLoad, PopCheck, PopReload, PushClaim, PopClaim,
              MpGoto, Pushing, Popping
<1>5. ASSUME NEW p \in mpHead..mpTail - 1 PROVE MpKeeps(p)
  <2>1. CASE mpSequence[SlotOf(p)] = p + 1 BY <1>3, <2>1 DEF MpKeeps
  <2>2. CASE \E u \in MpmcThread : Pushing(u) /\ mpPos[u] = p BY <1>4, <2>2 DEF MpKeeps, Pushing
  <2> QED BY <1>1, <2>1, <2>2 DEF MpRing
<1>6. MpContents' = MpContents BY <1>3, <1>5, MpContentsKept
<1>7. MpTaken' = MpTaken BY <1>3, <1>4 DEF MpTaken, Popping
<1> QED BY <1>6, <1>7

\* A producer writes where no value is, a consumer keeps what it has taken.
LEMMA MpSlotUnseen ==
  ASSUME MpInv, MpInv', NEW t \in MpmcThread, PushWrite(t) \/ PopRead(t)
  PROVE  MpContents' = MpContents /\ MpTaken' = MpTaken
<1> USE MpmcAssumption
<1>1. MpTypeOK /\ MpRing /\ \A u \in MpmcThread : MpClaim(u) BY DEF MpInv
<1>2. /\ mpTail' = mpTail /\ mpHead' = mpHead /\ mpSequence' = mpSequence /\ mpPos' = mpPos
      /\ \A u \in MpmcThread : u # t => mpPc'[u] = mpPc[u] /\ mpVal'[u] = mpVal[u]
      /\ mpTail \in Nat /\ mpHead \in Nat
  BY <1>1 DEF PushWrite, PopRead, MpTypeOK, MpGoto
<1>3. \A u \in MpmcThread : mpPos[u] \in Int /\ SlotOf(mpPos[u]) \in Slot BY SMTT(30), <1>1, SlotOfType DEF MpTypeOK
<1>4. CASE PushWrite(t)
  <2>1. PICK p \in mpHead..mpTail - 1 : p = mpPos[t] /\ mpSequence[SlotOf(p)] = p
    BY <1>1, <1>4 DEF PushWrite, MpClaim, Pushing
  <2>2. mpVal' = mpVal /\ mpPc[t] = "pushWrite" /\ mpPc'[t] = "pushPublish"
    BY <1>1, <1>4 DEF PushWrite, MpGoto, MpTypeOK
  <2>3. ASSUME NEW q \in mpTail - N..mpTail - 1, q # p PROVE mpData'[SlotOf(q)] = mpData[SlotOf(q)]
    <3>1. q \in Int /\ SlotOf(q) \in Slot /\ p \in Int BY SMTT(30), <1>2, SlotOfType
    <3>2. q < p + N /\ p < q + N BY SMTT(30), <1>1, <1>2 DEF MpRing
    <3>3. SlotOf(q) # SlotOf(p) BY <2>3, <3>1, <3>2, SlotOfOthers
    <3> QED BY <1>1, <1>4, <2>1, <3>1, <3>3 DEF PushWrite, MpTypeOK
  <2>4. ASSUME NEW q \in mpHead..mpTail - 1 PROVE MpKeeps(q)
    <3>1. CASE mpSequence[SlotOf(q)] = q + 1
      <4>1. q # p /\ q \in mpTail - N..mpTail - 1 BY SMTT(30), <1>1, <1>2, <2>1, <3>1 DEF MpRing
      <4> QED BY <1>2, <2>3, <3>1, <4>1 DEF MpKeeps
    <3>2. CASE \E u \in MpmcThread : Pushing(u) /\ mpPos[u] = q BY <1>2, <2>2, <3>2 DEF MpKeeps, Pushing
    <3> QED BY <1>1, <3>1, <3>2 DEF MpRing
  <2>5. MpContents' = MpContents BY <1>2, <2>4, MpContentsKept
  <2>6. \A u \in MpmcThread : mpPc[u] = "popRead" => mpData'[SlotOf(mpPos[u])] = mpData[SlotOf(mpPos[u])]
    <3> SUFFICES ASSUME NEW u \in MpmcThread, mpPc[u] = "popRead"
                 PROVE  mpData'[SlotOf(mpPos[u])] = mpData[SlotOf(mpPos[u])]
      OBVIOUS
    <3>1. mpPos[u] \in mpTail - N..mpHead - 1 BY <1>1 DEF MpClaim, Popping
    <3>2. mpPos[u] \in mpTail - N..mpTail - 1 /\ mpPos[u] # p BY SMTT(30), <1>1, <1>2, <3>1 DEF MpRing
    <3> QED BY <2>3, <3>2
  <2>7. MpTaken' = MpTaken BY <1>2, <2>2, <2>6 DEF MpTaken
  <2> QED BY <2>5, <2>7
<1>5. CASE PopRead(t)
  <2>1. /\ mpData' = mpData /\ mpPc[t] = "popRead" /\ mpPc'[t] = "popRelease"
        /\ mpVal'[t] = mpData[SlotOf(mpPos[t])]
    BY <1>1, <1>5 DEF PopRead, MpGoto, MpTypeOK
  <2>2. ASSUME NEW q \in mpHead..mpTail - 1 PROVE MpKeeps(q)
    <3>1. CASE mpSequence[SlotOf(q)] = q + 1 BY <1>2, <2>1, <3>1 DEF MpKeeps
    <3>2. CASE \E u \in MpmcThread : Pushing(u) /\ mpPos[u] = q BY <1>2, <2>1, <3>2 DEF MpKeeps, Pushing
    <3> QED BY <1>1, <3>1, <3>2 DEF MpRing
  <2>3. MpContents' = MpContents BY <1>2, <2>2, MpContentsKept
  <2>4. MpTaken' = MpTaken BY <1>2, <2>1 DEF MpTaken
  <2> QED BY <2>3, <2>4
<1> QED BY <1>4, <1>5

\* Publication moves a value from the producer's hands into the slot.
LEMMA MpPublishUnseen ==
  ASSUME MpInv, MpInv', NEW t \in MpmcThread, PushPublish(t)
  PROVE  MpContents' = MpContents /\ MpTaken' = MpTaken
<1> USE MpmcAssumption
<1>1. MpTypeOK /\ MpRing /\ \A u \in MpmcThread : MpClaim(u) BY DEF MpInv
<1>2. /\ mpTail' = mpTail /\ mpHead' = mpHead /\ mpData' = mpData /\ mpPos' = mpPos
      /\ mpPc[t] = "pushPublish" /\ mpPc'[t] = "idle"
      /\ \A u \in MpmcThread : u # t => mpPc'[u] = mpPc[u] /\ mpVal'[u] = mpVal[u]
      /\ mpTail \in Nat /\ mpHead \in Nat
  BY <1>1 DEF PushPublish, MpTypeOK, MpGoto
<1>3. PICK p \in mpHead..mpTail - 1 : p = mpPos[t] BY <1>1, <1>2 DEF MpClaim, Pushing
<1>4. mpData[SlotOf(p)] = mpVal[t] /\ Pushing(t) BY <1>1, <1>2, <1>3 DEF MpClaim, Pushing
<1>5. p \in mpTail - N..mpTail - 1 /\ p + 1 \in Int BY SMTT(30), <1>1, <1>2 DEF MpRing
<1>6. /\ mpSequence'[SlotOf(p)] = p + 1
      /\ \A q \in mpTail - N..mpTail - 1 : q # p => mpSequence'[SlotOf(q)] = mpSequence[SlotOf(q)]
  <2>1. mpSequence' = [mpSequence EXCEPT ![SlotOf(p)] = p + 1] BY <1>3 DEF PushPublish
  <2> QED BY <1>1, <1>5, <2>1, MpRenumber
<1>7. ASSUME NEW q \in mpHead..mpTail - 1 PROVE MpKeeps(q)
  <2>1. CASE q = p BY <1>2, <1>3, <1>4, <1>6, <2>1 DEF MpKeeps
  <2>2. CASE q # p /\ mpSequence[SlotOf(q)] = q + 1
    <3>1. mpSequence'[SlotOf(q)] = mpSequence[SlotOf(q)] BY SMTT(30), <1>1, <1>2, <1>6, <2>2 DEF MpRing
    <3> QED BY <1>2, <2>2, <3>1 DEF MpKeeps
  <2>3. CASE q # p /\ \E u \in MpmcThread : Pushing(u) /\ mpPos[u] = q BY <1>2, <1>3, <2>3 DEF MpKeeps, Pushing
  <2> QED BY <1>1, <2>1, <2>2, <2>3 DEF MpRing
<1>8. MpContents' = MpContents BY <1>2, <1>7, MpContentsKept
<1>9. MpTaken' = MpTaken BY <1>2 DEF MpTaken
<1> QED BY <1>8, <1>9

\* The consumer gives the slot back and returns.
LEMMA MpReleaseDelivers ==
  ASSUME MpInv, MpInv', NEW t \in MpmcThread, PopRelease(t)
  PROVE  MpContents' = MpContents /\ MpTaken' = [MpTaken EXCEPT ![t] = Nothing]
<1> USE MpmcAssumption
<1>1. MpTypeOK /\ MpRing /\ \A u \in MpmcThread : MpClaim(u) BY DEF MpInv
<1>2. /\ mpTail' = mpTail /\ mpHead' = mpHead /\ mpData' = mpData /\ mpPos' = mpPos
      /\ mpPc[t] = "popRelease" /\ mpPc'[t] = "idle"
      /\ \A u \in MpmcThread : u # t => mpPc'[u] = mpPc[u] /\ mpVal'[u] = mpVal[u]
      /\ mpTail \in Nat /\ mpHead \in Nat
  BY <1>1 DEF PopRelease, MpTypeOK, MpGoto
<1>3. PICK p \in mpTail - N..mpHead - 1 : p = mpPos[t] BY <1>1, <1>2 DEF MpClaim, Popping
<1>4. p \in mpTail - N..mpTail - 1 /\ p + N \in Int BY SMTT(30), <1>1, <1>2 DEF MpRing
<1>5. \A q \in mpTail - N..mpTail - 1 : q # p => mpSequence'[SlotOf(q)] = mpSequence[SlotOf(q)]
  <2>1. mpSequence' = [mpSequence EXCEPT ![SlotOf(p)] = p + N] BY <1>3 DEF PopRelease, FreeSequence
  <2> QED BY <1>1, <1>4, <2>1, MpRenumber
<1>6. ASSUME NEW q \in mpHead..mpTail - 1 PROVE MpKeeps(q)
  <2>1. mpSequence'[SlotOf(q)] = mpSequence[SlotOf(q)] BY SMTT(30), <1>1, <1>2, <1>5 DEF MpRing
  <2>2. CASE mpSequence[SlotOf(q)] = q + 1 BY <1>2, <2>1, <2>2 DEF MpKeeps
  <2>3. CASE \E u \in MpmcThread : Pushing(u) /\ mpPos[u] = q BY <1>2, <2>3 DEF MpKeeps, Pushing
  <2> QED BY <1>1, <2>2, <2>3 DEF MpRing
<1>7. MpContents' = MpContents BY <1>2, <1>6, MpContentsKept
<1>8. MpTaken' = [MpTaken EXCEPT ![t] = Nothing] BY <1>2 DEF MpTaken
<1> QED BY <1>7, <1>8

\* The compare-exchange of tail_ enters the value, where there is room.
LEMMA MpClaimEnters ==
  ASSUME MpInv, MpInv', NEW t \in MpmcThread, PushClaim(t), mpTail' # mpTail
  PROVE  /\ Len(MpContents) < N /\ mpVal[t] \in Value
         /\ MpContents' = Append(MpContents, mpVal[t]) /\ MpTaken' = MpTaken
<1> USE MpmcAssumption
<1> DEFINE n == mpTail - mpHead
<1>1. MpTypeOK /\ MpRing /\ MpRing' /\ \A u \in MpmcThread : MpClaim(u) BY DEF MpInv
<1>2. /\ mpHead' = mpHead /\ mpSequence' = mpSequence /\ mpData' = mpData /\ mpVal' = mpVal /\ mpPos' = mpPos
      /\ mpTail' = mpTail + 1 /\ mpPos[t] = mpTail
      /\ mpPc[t] = "pushCas" /\ mpPc'[t] = "pushWrite"
      /\ \A u \in MpmcThread : u # t => mpPc'[u] = mpPc[u]
      /\ mpTail \in Nat /\ mpHead \in Nat
  BY <1>1 DEF PushClaim, MpTypeOK, MpGoto
<1>3. mpVal[t] \in Value /\ mpVal[t] \in MpElem BY <1>1, <1>2 DEF MpClaim, MpPushPc, MpElem
<1>4. n \in Nat /\ n < N BY SMTT(30), <1>1, <1>2 DEF MpRing
<1>5. MpContents \in Seq(MpElem) /\ Len(MpContents) = n /\ \A i \in 1..n : MpContents[i] = ValueAt(mpHead + i - 1)
  BY MpContentsSeq
<1>6. \A p \in mpHead..mpTail - 1 : ValueAt(p)' = ValueAt(p)
  <2> SUFFICES ASSUME NEW p \in mpHead..mpTail - 1 PROVE ValueAt(p)' = ValueAt(p) OBVIOUS
  <2>1. p \in mpHead'..mpTail' - 1 BY SMTT(30), <1>2
  <2>2. MpKeeps(p)
    <3>1. CASE mpSequence[SlotOf(p)] = p + 1 BY <1>2, <3>1 DEF MpKeeps
    <3>2. CASE \E u \in MpmcThread : Pushing(u) /\ mpPos[u] = p BY <1>2, <3>2 DEF MpKeeps, Pushing
    <3> QED BY <1>1, <3>1, <3>2 DEF MpRing
  <2> QED BY <2>1, <2>2, MpKeepsValue
<1>7. ASSUME NEW p, p = mpTail PROVE ValueAt(p)' = mpVal[t]
  <2>1. p \in mpHead'..mpTail' - 1 BY SMTT(30), <1>1, <1>2, <1>7 DEF MpRing
  <2>2. Pushing(t)' /\ mpPos'[t] = p BY <1>2, <1>7 DEF Pushing
  <2>3. ValueAt(p)' = mpVal'[t] BY <2>1, <2>2, MpValuesNext DEF MpValued
  <2> QED BY <1>2, <2>3
<1>8. PICK h \in Nat : h = mpHead BY <1>2
<1>9. MpContents' = [i \in 1..n + 1 |-> ValueAt(h + i - 1)']
  <2>1. mpTail' - mpHead' = n + 1 /\ mpHead' = h BY SMTT(30), <1>2, <1>8
  <2> QED BY <2>1 DEF MpContents
<1> HIDE DEF n
<1>10. \A i \in 1..n + 1 : ValueAt(h + i - 1)' = IF i = n + 1 THEN mpVal[t] ELSE MpContents[i]
  <2> SUFFICES ASSUME NEW i \in 1..n + 1 PROVE ValueAt(h + i - 1)' = IF i = n + 1 THEN mpVal[t] ELSE MpContents[i] OBVIOUS
  <2>1. PICK p : p = h + i - 1 OBVIOUS
  <2>2. CASE i = n + 1
    <3>1. p = mpTail BY SMTT(30), <1>2, <1>8, <2>1, <2>2 DEF n
    <3> QED BY <1>7, <2>1, <2>2, <3>1
  <2>3. CASE i # n + 1
    <3>1. i \in 1..n /\ p \in mpHead..mpTail - 1 BY SMTT(30), <1>2, <1>4, <1>8, <2>1, <2>3 DEF n
    <3> QED BY <1>5, <1>6, <1>8, <2>1, <2>3, <3>1
  <2> QED BY <2>2, <2>3
<1>11. MpContents' = Append(MpContents, mpVal[t])
  <2> DEFINE app == Append(MpContents, mpVal[t])
  <2>1. /\ app \in Seq(MpElem) /\ Len(app) = n + 1 /\ app[n + 1] = mpVal[t]
        /\ \A i \in 1..n : app[i] = MpContents[i]
    BY SMTT(30), <1>3, <1>5, AppendProperties
  <2> HIDE DEF app
  <2>2. app \in [1..n + 1 -> MpElem] BY <2>1, LenProperties
  <2>3. \A i \in 1..n + 1 : app[i] = IF i = n + 1 THEN mpVal[t] ELSE MpContents[i] BY SMTT(30), <1>4, <2>1
  <2>4. \A i \in 1..n + 1 : app[i] = ValueAt(h + i - 1)' BY <1>10, <2>3
  <2>5. app = [i \in 1..n + 1 |-> ValueAt(h + i - 1)'] BY <2>2, <2>4
  <2> QED BY <1>9, <2>5 DEF app
<1>12. MpTaken' = MpTaken BY <1>2 DEF MpTaken
<1> QED BY <1>3, <1>4, <1>5, <1>11, <1>12

\* The compare-exchange of head_ takes the oldest value.
LEMMA MpClaimTakes ==
  ASSUME MpInv, MpInv', NEW t \in MpmcThread, PopClaim(t), mpHead' # mpHead
  PROVE  /\ MpContents # <<>> /\ MpContents' = Tail(MpContents)
         /\ MpTaken' = [MpTaken EXCEPT ![t] = Head(MpContents)]
<1> USE MpmcAssumption
<1> DEFINE n == mpTail - mpHead
<1>1. MpTypeOK /\ MpRing /\ MpRing' /\ \A u \in MpmcThread : MpClaim(u) BY DEF MpInv
<1>2. /\ mpTail' = mpTail /\ mpSequence' = mpSequence /\ mpData' = mpData /\ mpVal' = mpVal /\ mpPos' = mpPos
      /\ mpHead' = mpHead + 1 /\ mpPos[t] = mpHead
      /\ mpPc[t] = "popCas" /\ mpPc'[t] = "popRead"
      /\ \A u \in MpmcThread : u # t => mpPc'[u] = mpPc[u]
      /\ mpTail \in Nat /\ mpHead \in Nat
  BY <1>1 DEF PopClaim, MpTypeOK, MpGoto
<1>3. n \in Nat /\ n > 0 BY SMTT(30), <1>1, <1>2 DEF MpRing
<1>4. MpContents \in Seq(MpElem) /\ Len(MpContents) = n /\ \A i \in 1..n : MpContents[i] = ValueAt(mpHead + i - 1)
  BY MpContentsSeq
<1>5. \A p \in mpHead + 1..mpTail - 1 : ValueAt(p)' = ValueAt(p)
  <2> SUFFICES ASSUME NEW p \in mpHead + 1..mpTail - 1 PROVE ValueAt(p)' = ValueAt(p) OBVIOUS
  <2>1. p \in mpHead'..mpTail' - 1 /\ p \in mpHead..mpTail - 1 BY SMTT(30), <1>2
  <2>2. MpKeeps(p)
    <3>1. CASE mpSequence[SlotOf(p)] = p + 1 BY <1>2, <3>1 DEF MpKeeps
    <3>2. CASE \E u \in MpmcThread : Pushing(u) /\ mpPos[u] = p BY <1>2, <3>2 DEF MpKeeps, Pushing
    <3> QED BY <1>1, <2>1, <3>1, <3>2 DEF MpRing
  <2> QED BY <2>1, <2>2, MpKeepsValue
<1>6. MpContents # <<>> /\ Head(MpContents) = mpData[SlotOf(mpHead)]
  <2>1. MpContents # <<>> /\ Head(MpContents) = MpContents[1] BY SMTT(30), <1>3, <1>4
  <2>2. mpSequence[SlotOf(mpHead)] = mpHead + 1 BY <1>1, <1>2 DEF MpClaim
  <2>3. mpHead \in mpHead..mpTail - 1 BY SMTT(30), <1>2, <1>3
  <2>4. ValueAt(mpHead) = mpData[SlotOf(mpHead)] BY <2>2, <2>3, MpValues DEF MpValued
  <2>5. 1 \in 1..n /\ mpHead + 1 - 1 = mpHead BY SMTT(30), <1>2, <1>3
  <2>6. MpContents[1] = ValueAt(mpHead) BY <1>4, <2>5
  <2> QED BY <2>1, <2>4, <2>6
<1>7. PICK h \in Nat : h = mpHead BY <1>2
<1>8. MpContents' = [i \in 1..n - 1 |-> ValueAt(h + 1 + i - 1)']
  <2>1. mpTail' - mpHead' = n - 1 /\ mpHead' = h + 1 BY SMTT(30), <1>2, <1>7
  <2> QED BY <2>1 DEF MpContents
<1> HIDE DEF n
<1>9. \A i \in 1..n - 1 : ValueAt(h + 1 + i - 1)' = MpContents[i + 1]
  <2> SUFFICES ASSUME NEW i \in 1..n - 1 PROVE ValueAt(h + 1 + i - 1)' = MpContents[i + 1] OBVIOUS
  <2>1. PICK p : p = h + 1 + i - 1 OBVIOUS
  <2>2. i + 1 \in 1..n /\ p = mpHead + (i + 1) - 1 /\ p \in mpHead + 1..mpTail - 1
    BY SMTT(30), <1>2, <1>3, <1>7, <2>1 DEF n
  <2>3. MpContents[i + 1] = ValueAt(mpHead + (i + 1) - 1) BY <1>4, <2>2
  <2>4. MpContents[i + 1] = ValueAt(p) BY <2>2, <2>3
  <2>5. ValueAt(p)' = ValueAt(p) BY <1>5, <2>2
  <2> QED BY <2>1, <2>4, <2>5
<1>10. MpContents' = Tail(MpContents)
  <2> DEFINE tl == Tail(MpContents)
  <2>1. tl \in Seq(MpElem) /\ Len(tl) = n - 1 /\ \A i \in 1..n - 1 : tl[i] = MpContents[i + 1]
    BY SMTT(30), <1>4, <1>6, HeadTailProperties
  <2> HIDE DEF tl
  <2>2. tl \in [1..n - 1 -> MpElem] BY <2>1, LenProperties
  <2>3. \A i \in 1..n - 1 : tl[i] = ValueAt(h + 1 + i - 1)' BY <1>9, <2>1
  <2>4. tl = [i \in 1..n - 1 |-> ValueAt(h + 1 + i - 1)'] BY <2>2, <2>3
  <2> QED BY <1>8, <2>4 DEF tl
<1>11. MpTaken' = [MpTaken EXCEPT ![t] = Head(MpContents)] BY <1>2, <1>6 DEF MpTaken
<1> QED BY <1>6, <1>10, <1>11

\* For any ring of at least two slots, any number of threads and any values:
\* MpmcQueue implements the bounded FIFO of N values.
THEOREM MpmcImplementsFifo == MpmcSpec => MpmcIsFifo
<1>1. MpmcInit => Fifo!Init
  <2> SUFFICES ASSUME MpmcInit PROVE MpContents = <<>> /\ MpTaken = [c \in MpmcThread |-> Nothing]
    BY DEF Fifo!Init, MpContents, MpTaken
  <2>1. MpInv BY MpInvInit
  <2>2. MpContents \in Seq(MpElem) /\ Len(MpContents) = 0 BY SMTT(30), <2>1, MpContentsSeq DEF MpmcInit
  <2> QED BY <2>2, EmptySeq DEF MpmcInit, MpTaken
<1>2. MpInv /\ MpInv' /\ [MpmcNext]_mpVars => [Fifo!Next]_<<MpContents, MpTaken>>
  <2> SUFFICES ASSUME MpInv, MpInv', [MpmcNext]_mpVars PROVE [Fifo!Next]_<<MpContents, MpTaken>> OBVIOUS
  <2>1. CASE UNCHANGED mpVars
    BY SMTT(30), <2>1 DEF mpVars, MpContents, MpTaken, ValueAt, Pushing
  <2>2. ASSUME NEW t \in MpmcThread, Push(t) \/ Pop(t) PROVE [Fifo!Next]_<<MpContents, MpTaken>>
    <3>1. CASE \/ PushLoad(t) \/ PushCheck(t) \/ PushReload(t) \/ PopLoad(t) \/ PopCheck(t) \/ PopReload(t)
               \/ PushClaim(t) /\ mpTail' = mpTail
               \/ PopClaim(t) /\ mpHead' = mpHead
      BY <3>1, MpSearchUnseen
    <3>2. CASE PushClaim(t) /\ mpTail' # mpTail
      <4>1. PICK v \in Value : v = mpVal[t] BY <3>2, MpClaimEnters
      <4>2. Fifo!Enter(v) BY <3>2, <4>1, MpClaimEnters DEF Fifo!Enter, MpContents, MpTaken
      <4> QED BY <4>2 DEF Fifo!Next
    <3>3. CASE PushWrite(t) \/ PopRead(t) BY <3>3, MpSlotUnseen
    <3>4. CASE PushPublish(t) BY <3>4, MpPublishUnseen
    <3>5. CASE PopClaim(t) /\ mpHead' # mpHead
      <4>1. Fifo!Take(t) BY <3>5, MpClaimTakes DEF Fifo!Take, MpContents, MpTaken
      <4> QED BY <4>1 DEF Fifo!Next
    <3>6. CASE PopRelease(t)
      <4>1. Fifo!Deliver(t) BY <3>6, MpReleaseDelivers DEF Fifo!Deliver, MpContents, MpTaken
      <4> QED BY <4>1 DEF Fifo!Next
    <3> QED BY <2>2, <3>1, <3>2, <3>3, <3>4, <3>5, <3>6 DEF Push, Pop
  <2> QED BY <2>1, <2>2 DEF MpmcNext
<1> QED BY <1>1, <1>2, MpInductive, PTL DEF MpmcSpec, MpmcIsFifo, Fifo!Spec, MpContents, MpTaken

\* For any ring, threads and values: an operation that is refused was refused
\* for a reason.
THEOREM MpmcRefusals == MpmcSpec => MpmcRefusalHasCause
<1> DEFINE Cause == \A t \in MpmcThread :
       /\ mpPc[t] = "pushCheck" /\ mpPc'[t] = "idle" =>
            mpTail - mpHead = N \/ \E u \in MpmcThread : Popping(u) /\ mpPos[u] = mpTail - N
       /\ mpPc[t] = "popCheck" /\ mpPc'[t] = "idle" =>
            mpTail = mpHead \/ \E u \in MpmcThread : Pushing(u) /\ mpPos[u] = mpHead
<1>1. MpInv /\ [MpmcNext]_mpVars => [Cause]_mpVars
  <2> USE MpmcAssumption
  <2> SUFFICES ASSUME MpInv, NEW s \in MpmcThread, Push(s) \/ Pop(s), NEW t \in MpmcThread PROVE
       /\ mpPc[t] = "pushCheck" /\ mpPc'[t] = "idle" =>
            mpTail - mpHead = N \/ \E u \in MpmcThread : Popping(u) /\ mpPos[u] = mpTail - N
       /\ mpPc[t] = "popCheck" /\ mpPc'[t] = "idle" =>
            mpTail = mpHead \/ \E u \in MpmcThread : Pushing(u) /\ mpPos[u] = mpHead
    BY DEF MpmcNext
  <2>1. MpTypeOK /\ MpRing /\ MpClaim(t) /\ mpTail \in Nat /\ mpHead \in Nat BY DEF MpInv, MpTypeOK
  <2>2. PICK p \in Nat : p = mpPos[t] BY <2>1 DEF MpTypeOK
  <2>3. SlotOf(p) \in Slot /\ mpSequence[SlotOf(p)] \in Int BY SMTT(30), <2>1, SlotOfType DEF MpTypeOK
  <2>4. PICK q \in mpTail - N..mpTail - 1 : SlotOf(q) = SlotOf(p)
    <3>1. p \in Int /\ mpTail \in Int BY SMTT(30), <2>1
    <3> QED BY <3>1, SlotShared
  <2>5. q \in Int /\ mpSequence[SlotOf(p)] >= q BY SMTT(30), <2>1, <2>4 DEF MpRing
  <2>6. q < p => p >= q + N BY SMTT(30), <2>4, <2>5, SlotOfDiffers
  <2>7. ASSUME mpPc[t] = "pushCheck", mpPc'[t] = "idle"
        PROVE  mpTail - mpHead = N \/ \E u \in MpmcThread : Popping(u) /\ mpPos[u] = mpTail - N
    <3>1. PushCheck(t)
      BY <2>1, <2>7 DEF MpTypeOK, Push, Pop, PushLoad, PushReload, PushClaim, PushWrite, PushPublish, PushCheck,
                        PopLoad, PopCheck, PopReload, PopClaim, PopRead, PopRelease, MpGoto
    <3>2. mpSequence[SlotOf(p)] < p BY SMTT(30), <2>1, <2>2, <2>3, <2>7, <3>1 DEF PushCheck, MpGoto, MpTypeOK
    <3>3. p <= mpTail BY <2>1, <2>2, <2>7 DEF MpClaim, MpPushPc
    <3>4. q = mpTail - N /\ mpSequence[SlotOf(q)] < mpTail BY SMTT(30), <2>1, <2>3, <2>4, <2>5, <2>6, <3>2, <3>3
    <3>5. CASE q >= mpHead BY SMTT(30), <2>1, <3>4, <3>5 DEF MpRing
    <3>6. CASE q < mpHead
      <4>1. q \in mpTail - N..mpHead - 1 /\ q + N = mpTail BY SMTT(30), <2>1, <2>4, <3>4, <3>6
      <4>2. \E u \in MpmcThread : Popping(u) /\ mpPos[u] = q BY SMTT(30), <2>1, <3>4, <4>1 DEF MpRing
      <4> QED BY <3>4, <4>2
    <3> QED BY SMTT(30), <2>1, <2>5, <3>5, <3>6
  <2>8. ASSUME mpPc[t] = "popCheck", mpPc'[t] = "idle"
        PROVE  mpTail = mpHead \/ \E u \in MpmcThread : Pushing(u) /\ mpPos[u] = mpHead
    <3>1. PopCheck(t)
      BY <2>1, <2>8 DEF MpTypeOK, Push, Pop, PushLoad, PushReload, PushClaim, PushWrite, PushPublish, PushCheck,
                        PopLoad, PopCheck, PopReload, PopClaim, PopRead, PopRelease, MpGoto
    <3>2. mpSequence[SlotOf(p)] < p + 1 BY SMTT(30), <2>1, <2>2, <2>3, <2>8, <3>1 DEF PopCheck, MpGoto, MpTypeOK
    <3>3. p <= mpHead BY <2>1, <2>2, <2>8 DEF MpClaim, MpPopPc
    <3>4. CASE q < p BY SMTT(30), <2>1, <2>4, <2>6, <3>3, <3>4 DEF MpRing
    <3>5. CASE q = p
      <4>1. p \notin mpTail - N..mpHead - 1 BY SMTT(30), <2>1, <3>2 DEF MpRing
      <4>2. p = mpHead /\ p \in mpHead..mpTail - 1 BY SMTT(30), <2>1, <2>4, <3>3, <3>5, <4>1
      <4>3. \E u \in MpmcThread : Pushing(u) /\ mpPos[u] = p BY SMTT(30), <2>1, <3>2, <4>2 DEF MpRing
      <4> QED BY <4>2, <4>3
    <3> QED BY SMTT(30), <2>3, <2>5, <3>2, <3>4, <3>5
  <2> QED BY <2>7, <2>8
<1> QED BY <1>1, MpInductive, PTL DEF MpmcSpec, MpmcRefusalHasCause
=============================================================================
