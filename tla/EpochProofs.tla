---------------------------- MODULE EpochProofs -----------------------------
(* Theorems about Epoch, for any number of threads and nodes.              *)
EXTENDS Epoch, WalkProofs

\* Leaves are proved by Zenon; the others cite the prover that finds them.
USE ZenonT(30)

TypeInv == TypeOK /\ LocalsOK

\* The constructor of EpochDomain and an empty EpochStack are well typed.
LEMMA InitTyped == Init => TypeInv
BY SMTT(30), EpochAssumption DEF Init, Records, Empty, Locals, TypeInv, TypeOK, DomainOK, StackOK, RetireOK, LocalsOK, Label,
   Dereferences, kEBREpochs

\* A pool whose threads are registered is well typed.
LEMMA PoolInitTyped == PoolInit => TypeInv
<1> SUFFICES ASSUME PoolInit PROVE TypeInv
  OBVIOUS
<1> DEFINE N == Cardinality(Thread)
<1>1. N \in Nat
  BY EpochAssumption, FS_CardinalityType
<1>3. LocalsOK
  BY DEF PoolInit, Locals, LocalsOK, Dereferences
<1>4. TypeOK
  BY SMTT(30), <1>1 DEF PoolInit, Records, Empty, Locals, TypeOK, DomainOK, StackOK, RetireOK, Label, kEBREpochs
<1> QED
  BY <1>3, <1>4 DEF TypeInv

\* The slot try_advance moves out is one of the three.
LEMMA OldSlotRange == ASSUME NEW e \in Nat PROVE OldSlot(e) \in 0..kEBREpochs - 1
BY SMTT(30) DEF OldSlot, kEBREpochs

\* Every operation of a thread on the domain or the stack keeps the types.
LEMMA StepDomainOK ==
  ASSUME TypeOK, LocalsOK, NEW t \in Thread, Step(t) \/ threadExit(t)
  PROVE  DomainOK'
<1>ty. DomainOK
  BY DEF TypeOK
<1>lo. pc[t] = "scanLocal" => cursor[t] # 0
  BY DEF LocalsOK
<1> USE DEF DomainOK, Goto, HeadRecord, domainVars, recordVars,
        stackVars, popVars, historyVars
<1>1. CASE pushLoad(t)
  BY <1>ty, <1>1 DEF pushLoad
<1>2. CASE pushCas(t)
  BY <1>ty, <1>2 DEF pushCas
<1>3. CASE popStart(t)
  <2>1. UNCHANGED <<globalEpoch, threadCount, localEpoch, active, record, epoch, entryEpoch>>
    BY <1>3 DEF popStart
  <2>2. cursor' \in [Thread -> 0..threadCount]
    <3>1. threadCount \in Nat /\ cursor \in [Thread -> 0..threadCount]
      BY <1>ty
    <3>2. cursor' = cursor \/ \E c \in 0..threadCount : cursor' = [cursor EXCEPT ![t] = c]
      BY SMTT(30), <1>3, <3>1 DEF popStart
    <3> QED
      BY <3>1, <3>2
  <2> QED
    BY <1>ty, <2>1, <2>2
<1>4. CASE claimRecord(t)
  <2>1. /\ threadCount \in Nat /\ cursor \in [Thread -> 0..threadCount]
        /\ record \in [Thread -> 0..threadCount] /\ active \in [1..threadCount -> BOOLEAN]
    BY <1>ty
  <2>2. cursor[t] \in 1..threadCount
    BY SMTT(30), <1>4, <2>1 DEF claimRecord
  <2>3. UNCHANGED <<globalEpoch, threadCount, localEpoch, epoch, entryEpoch>>
    BY <1>4 DEF claimRecord
  <2>4. CASE active[cursor[t]]
    <3>1. UNCHANGED <<active, record>> /\ cursor' = [cursor EXCEPT ![t] = cursor[t] - 1]
      BY <1>4, <2>4 DEF claimRecord
    <3>2. cursor' \in [Thread -> 0..threadCount]
      BY SMTT(30), <2>1, <2>2, <3>1
    <3> QED
      BY <1>ty, <2>3, <3>1, <3>2
  <2>5. CASE ~active[cursor[t]]
    <3>1. /\ UNCHANGED cursor /\ record' = [record EXCEPT ![t] = cursor[t]]
          /\ active' = [active EXCEPT ![cursor[t]] = TRUE]
      BY <1>4, <2>5 DEF claimRecord
    <3>2. record' \in [Thread -> 0..threadCount]
      BY <2>1, <2>2, <3>1
    <3>3. active' \in [1..threadCount -> BOOLEAN]
      BY <2>1, <2>2, <3>1
    <3> QED
      BY <1>ty, <2>3, <3>1, <3>2, <3>3
  <2> QED
    BY <2>4, <2>5
<1>5. CASE createRecord(t)
  <2> DEFINE k == threadCount + 1
  <2>1. /\ threadCount \in Nat /\ cursor \in [Thread -> 0..threadCount]
        /\ record \in [Thread -> 0..threadCount] /\ localEpoch \in [1..threadCount -> Nat]
    BY <1>ty
  <2>2. k \in Nat /\ 0..threadCount \subseteq 0..k /\ k \in 0..k
    BY SMTT(30), <2>1
  <2>3. /\ threadCount' = k /\ record' = [record EXCEPT ![t] = k]
        /\ localEpoch' = [r \in 1..k |-> IF r <= threadCount THEN localEpoch[r] ELSE 0]
        /\ active' = [r \in 1..k |-> IF r <= threadCount THEN active[r] ELSE TRUE]
        /\ UNCHANGED <<globalEpoch, cursor, epoch, entryEpoch>>
    BY <1>5 DEF createRecord
  <2>4. \A r \in 1..k : r <= threadCount => r \in 1..threadCount
    BY SMTT(30), <2>1
  <2> HIDE DEF k
  <2>5. record' \in [Thread -> 0..k] /\ cursor' \in [Thread -> 0..k]
    BY <2>1, <2>2, <2>3
  <2>6. localEpoch' \in [1..k -> Nat]
    BY <2>1, <2>3, <2>4
  <2>7. active' \in [1..k -> BOOLEAN]
    <3>1. active \in [1..threadCount -> BOOLEAN]
      BY <1>ty
    <3>2. \A r \in 1..k : (IF r <= threadCount THEN active[r] ELSE TRUE) \in BOOLEAN
      BY <3>1, <2>4
    <3> QED
      BY <3>2, <2>3
  <2> QED
    BY <1>ty, <2>2, <2>3, <2>5, <2>6, <2>7
<1>6. CASE enterLoad(t)
  BY <1>ty, <1>6 DEF enterLoad
<1>7. CASE enterLocal(t)
  BY <1>ty, <1>7 DEF enterLocal
<1>8. CASE enterActive(t)
  BY <1>ty, <1>8 DEF enterActive
<1>9. CASE popLoad(t)
  BY <1>ty, <1>9 DEF popLoad
<1>10. CASE popNext(t)
  BY <1>ty, <1>10 DEF popNext
<1>11. CASE popCas(t)
  BY <1>ty, <1>11 DEF popCas
<1>12. CASE exit(t)
  BY <1>ty, <1>12 DEF exit
<1>13. CASE retireLoad(t)
  BY <1>ty, <1>13 DEF retireLoad
<1>14. CASE retirePush(t)
  BY <1>ty, <1>14 DEF retirePush
<1>15. CASE advanceLoad(t)
  BY SMTT(30), <1>ty, <1>15 DEF advanceLoad
<1>16. CASE scanActive(t)
  <2>1. UNCHANGED <<globalEpoch, threadCount, localEpoch, active, record, epoch, entryEpoch>>
    BY <1>16 DEF scanActive
  <2>2. cursor' \in [Thread -> 0..threadCount]
    <3>1. threadCount \in Nat /\ cursor \in [Thread -> 0..threadCount]
      BY <1>ty
    <3>2. cursor' = cursor \/ \E c \in 0..threadCount : cursor' = [cursor EXCEPT ![t] = c]
      BY SMTT(30), <1>16, <3>1 DEF scanActive
    <3> QED
      BY <3>1, <3>2
  <2> QED
    BY <1>ty, <2>1, <2>2
<1>17. CASE scanLocal(t)
  <2>1. UNCHANGED <<globalEpoch, threadCount, localEpoch, active, record, epoch, entryEpoch>>
    BY <1>17 DEF scanLocal
  <2>2. cursor' \in [Thread -> 0..threadCount]
    <3>1. threadCount \in Nat /\ cursor \in [Thread -> 0..threadCount]
      BY <1>ty
    <3>2. cursor[t] - 1 \in 0..threadCount
      BY SMTT(30), <1>17, <1>lo, <3>1 DEF scanLocal
    <3>3. cursor' = cursor \/ cursor' = [cursor EXCEPT ![t] = cursor[t] - 1]
      BY <1>17 DEF scanLocal
    <3> QED
      BY <3>1, <3>2, <3>3
  <2> QED
    BY <1>ty, <2>1, <2>2
<1>18. CASE advanceCas(t)
  BY SMTT(30), <1>ty, <1>18 DEF advanceCas
<1>19. CASE moveSlot(t)
  BY <1>ty, <1>19 DEF moveSlot, Emptied
<1>20. CASE reclaim(t)
  BY <1>ty, <1>20 DEF reclaim
<1>21. CASE threadExit(t)
  BY SMTT(30), <1>ty, <1>21 DEF threadExit
<1> HIDE DEF DomainOK, Goto, HeadRecord, domainVars, recordVars,
        stackVars, popVars, historyVars
<1> QED
  BY <1>1, <1>2, <1>3, <1>4, <1>5, <1>6, <1>7, <1>8, <1>9, <1>10, <1>11, <1>12, <1>13,
     <1>14, <1>15, <1>16, <1>17, <1>18, <1>19, <1>20, <1>21 DEF Step, PoolStep

\* head_, next and the pointers a push or pop holds stay nodes or null.
LEMMA StepStackOK ==
  ASSUME TypeOK, LocalsOK, NEW t \in Thread, Step(t) \/ threadExit(t)
  PROVE  StackOK'
<1>ty. StackOK
  BY DEF TypeOK
<1>lo. (pc[t] = "pushCas" => node[t] \in Node) /\ (pc[t] = "popNext" => old[t] \in Node)
  BY DEF LocalsOK, Dereferences
<1> USE DEF StackOK, Goto, HeadRecord, domainVars, recordVars,
        stackVars, popVars, historyVars
<1>1. CASE pushLoad(t)
  <2>1. fresh \subseteq Node
    BY DEF TypeOK, RetireOK
  <2>2. PICK n \in Node : node' = [node EXCEPT ![t] = n]
    BY <1>1, <2>1 DEF pushLoad
  <2>3. old' = [old EXCEPT ![t] = head] /\ UNCHANGED <<head, next, succ>>
    BY <1>1 DEF pushLoad
  <2> QED
    BY <1>ty, <2>2, <2>3
<1>2. CASE pushCas(t)
  BY <1>ty, <1>lo, <1>2 DEF pushCas
<1>3. CASE popStart(t)
  BY <1>ty, <1>lo, <1>3 DEF popStart
<1>4. CASE claimRecord(t)
  BY <1>ty, <1>lo, <1>4 DEF claimRecord
<1>5. CASE createRecord(t)
  BY <1>ty, <1>lo, <1>5 DEF createRecord
<1>6. CASE enterLoad(t)
  BY <1>ty, <1>lo, <1>6 DEF enterLoad
<1>7. CASE enterLocal(t)
  BY <1>ty, <1>lo, <1>7 DEF enterLocal
<1>8. CASE enterActive(t)
  BY <1>ty, <1>lo, <1>8 DEF enterActive
<1>9. CASE popLoad(t)
  BY <1>ty, <1>lo, <1>9 DEF popLoad
<1>10. CASE popNext(t)
  BY <1>ty, <1>lo, <1>10 DEF popNext
<1>11. CASE popCas(t)
  BY SMTT(30), <1>ty, <1>lo, <1>11 DEF popCas
<1>12. CASE exit(t)
  BY <1>ty, <1>lo, <1>12 DEF exit
<1>13. CASE retireLoad(t)
  BY <1>ty, <1>lo, <1>13 DEF retireLoad
<1>14. CASE retirePush(t)
  BY <1>ty, <1>lo, <1>14 DEF retirePush
<1>15. CASE advanceLoad(t)
  BY <1>ty, <1>lo, <1>15 DEF advanceLoad
<1>16. CASE scanActive(t)
  BY <1>ty, <1>lo, <1>16 DEF scanActive
<1>17. CASE scanLocal(t)
  BY <1>ty, <1>lo, <1>17 DEF scanLocal
<1>18. CASE advanceCas(t)
  BY <1>ty, <1>lo, <1>18 DEF advanceCas
<1>19. CASE moveSlot(t)
  BY <1>ty, <1>lo, <1>19 DEF moveSlot, Emptied
<1>20. CASE reclaim(t)
  BY <1>ty, <1>lo, <1>20 DEF reclaim
<1>21. CASE threadExit(t)
  BY <1>ty, <1>lo, <1>21 DEF threadExit
<1> HIDE DEF StackOK, Goto, HeadRecord, domainVars, recordVars,
        stackVars, popVars, historyVars
<1> QED
  BY <1>1, <1>2, <1>3, <1>4, <1>5, <1>6, <1>7, <1>8, <1>9, <1>10, <1>11, <1>12, <1>13,
     <1>14, <1>15, <1>16, <1>17, <1>18, <1>19, <1>20, <1>21 DEF Step, PoolStep

\* The retire lists of the three epochs, and what is taken from them, stay sets of nodes.
LEMMA StepRetireOK ==
  ASSUME TypeOK, LocalsOK, NEW t \in Thread, Step(t) \/ threadExit(t)
  PROVE  RetireOK'
<1>ty. RetireOK
  BY DEF TypeOK
<1>ep. epoch[t] \in Nat
  BY DEF TypeOK, DomainOK
<1>lo. pc[t] = "retirePush" => node[t] \in Node
  BY DEF LocalsOK
<1> USE DEF RetireOK, Goto, HeadRecord, domainVars, recordVars,
        stackVars, popVars, historyVars
<1>1. CASE pushLoad(t)
  BY <1>ty, <1>1 DEF pushLoad
<1>2. CASE pushCas(t)
  BY <1>ty, <1>2 DEF pushCas
<1>3. CASE popStart(t)
  BY <1>ty, <1>3 DEF popStart
<1>4. CASE claimRecord(t)
  BY <1>ty, <1>4 DEF claimRecord
<1>5. CASE createRecord(t)
  BY <1>ty, <1>5 DEF createRecord
<1>6. CASE enterLoad(t)
  BY <1>ty, <1>6 DEF enterLoad
<1>7. CASE enterLocal(t)
  BY <1>ty, <1>7 DEF enterLocal
<1>8. CASE enterActive(t)
  BY <1>ty, <1>8 DEF enterActive
<1>9. CASE popLoad(t)
  BY <1>ty, <1>9 DEF popLoad
<1>10. CASE popNext(t)
  BY <1>ty, <1>10 DEF popNext
<1>11. CASE popCas(t)
  BY <1>ty, <1>11 DEF popCas
<1>12. CASE exit(t)
  BY <1>ty, <1>12 DEF exit
<1>13. CASE retireLoad(t)
  BY <1>ty, <1>13 DEF retireLoad
<1>14. CASE retirePush(t)
  <2>1. epoch[t] % kEBREpochs \in 0..kEBREpochs - 1
    BY SMTT(30), <1>ep DEF kEBREpochs
  <2> QED
    BY <1>ty, <1>lo, <1>ep, <1>14, <2>1 DEF retirePush
<1>15. CASE advanceLoad(t)
  BY <1>ty, <1>15 DEF advanceLoad
<1>16. CASE scanActive(t)
  BY <1>ty, <1>16 DEF scanActive
<1>17. CASE scanLocal(t)
  BY <1>ty, <1>17 DEF scanLocal
<1>18. CASE advanceCas(t)
  BY <1>ty, <1>18 DEF advanceCas
<1>19. CASE moveSlot(t)
  <2> DEFINE s == OldSlot(epoch[t])
  <2>1. s \in 0..kEBREpochs - 1
    BY <1>ep, OldSlotRange
  <2>2. /\ toReclaim' = [toReclaim EXCEPT ![t] = globalRetire[s]]
        /\ globalRetire' = [globalRetire EXCEPT ![s] = {}]
        /\ late' = late \/ late' = late \cup {t}
        /\ UNCHANGED <<retiredIn, fresh, freed>>
    BY <1>19 DEF moveSlot, Emptied
  <2> HIDE DEF s
  <2>3. toReclaim' \in [Thread -> SUBSET Node]
    BY <1>ty, <2>1, <2>2
  <2>4. globalRetire' \in [0..kEBREpochs - 1 -> SUBSET Node]
    <3> DEFINE R == 0..kEBREpochs - 1
    <3>1. globalRetire \in [R -> SUBSET Node] /\ {} \in SUBSET Node
      BY <1>ty
    <3>2. globalRetire' = [globalRetire EXCEPT ![s] = {}]
      BY <2>2
    <3> HIDE DEF R
    <3>3. globalRetire' \in [R -> SUBSET Node]
      BY <3>1, <3>2
    <3> QED
      BY <3>3 DEF R
  <2> QED
    BY <1>ty, <2>2, <2>3, <2>4
<1>20. CASE reclaim(t)
  BY <1>ty, <1>20 DEF reclaim
<1>21. CASE threadExit(t)
  BY <1>ty, <1>21 DEF threadExit
<1> HIDE DEF RetireOK, Goto, HeadRecord, domainVars, recordVars,
        stackVars, popVars, historyVars
<1> QED
  BY <1>1, <1>2, <1>3, <1>4, <1>5, <1>6, <1>7, <1>8, <1>9, <1>10, <1>11, <1>12, <1>13,
     <1>14, <1>15, <1>16, <1>17, <1>18, <1>19, <1>20, <1>21 DEF Step, PoolStep

\* A thread stays at a step of some operation.
LEMMA StepPcOK ==
  ASSUME TypeOK, LocalsOK, NEW t \in Thread, Step(t) \/ threadExit(t)
  PROVE  (pc \in [Thread -> Label])'
<1>ty. pc \in [Thread -> Label]
  BY DEF TypeOK
<1> USE DEF Label, Goto, HeadRecord, domainVars, recordVars,
        stackVars, popVars, historyVars
<1>1. CASE pushLoad(t)
  BY <1>ty, <1>1 DEF pushLoad
<1>2. CASE pushCas(t)
  BY <1>ty, <1>2 DEF pushCas
<1>3. CASE popStart(t)
  BY <1>ty, <1>3 DEF popStart
<1>4. CASE claimRecord(t)
  BY <1>ty, <1>4 DEF claimRecord
<1>5. CASE createRecord(t)
  BY <1>ty, <1>5 DEF createRecord
<1>6. CASE enterLoad(t)
  BY <1>ty, <1>6 DEF enterLoad
<1>7. CASE enterLocal(t)
  BY <1>ty, <1>7 DEF enterLocal
<1>8. CASE enterActive(t)
  BY <1>ty, <1>8 DEF enterActive
<1>9. CASE popLoad(t)
  BY <1>ty, <1>9 DEF popLoad
<1>10. CASE popNext(t)
  BY <1>ty, <1>10 DEF popNext
<1>11. CASE popCas(t)
  BY <1>ty, <1>11 DEF popCas
<1>12. CASE exit(t)
  BY <1>ty, <1>12 DEF exit
<1>13. CASE retireLoad(t)
  BY <1>ty, <1>13 DEF retireLoad
<1>14. CASE retirePush(t)
  BY <1>ty, <1>14 DEF retirePush
<1>15. CASE advanceLoad(t)
  BY <1>ty, <1>15 DEF advanceLoad
<1>16. CASE scanActive(t)
  BY <1>ty, <1>16 DEF scanActive
<1>17. CASE scanLocal(t)
  BY <1>ty, <1>17 DEF scanLocal
<1>18. CASE advanceCas(t)
  BY <1>ty, <1>18 DEF advanceCas
<1>19. CASE moveSlot(t)
  BY <1>ty, <1>19 DEF moveSlot, Emptied
<1>20. CASE reclaim(t)
  BY <1>ty, <1>20 DEF reclaim
<1>21. CASE threadExit(t)
  BY <1>ty, <1>21 DEF threadExit
<1> HIDE DEF Label, Goto, HeadRecord, domainVars, recordVars,
        stackVars, popVars, historyVars
<1> QED
  BY <1>1, <1>2, <1>3, <1>4, <1>5, <1>6, <1>7, <1>8, <1>9, <1>10, <1>11, <1>12, <1>13,
     <1>14, <1>15, <1>16, <1>17, <1>18, <1>19, <1>20, <1>21 DEF Step, PoolStep

\* What a thread holds between two steps stays typed.
LEMMA StepLocalsOK ==
  ASSUME TypeOK, LocalsOK, NEW t \in Thread, Step(t) \/ threadExit(t)
  PROVE  LocalsOK'
<1>ty. /\ pc \in [Thread -> Label] /\ record \in [Thread -> 0..threadCount]
       /\ cursor \in [Thread -> 0..threadCount] /\ threadCount \in Nat
       /\ node \in [Thread -> Node \cup {Null}] /\ old \in [Thread -> Node \cup {Null}]
       /\ head \in Node \cup {Null}
  BY DEF TypeOK, DomainOK, StackOK
<1> USE DEF LocalsOK, Dereferences, Goto, HeadRecord, domainVars, recordVars,
        stackVars, popVars, historyVars
<1>1. CASE pushLoad(t)
  <2>1. fresh \subseteq Node
    BY DEF TypeOK, RetireOK
  <2>2. PICK n \in Node : node' = [node EXCEPT ![t] = n]
    BY <1>1, <2>1 DEF pushLoad
  <2>3. /\ old' = [old EXCEPT ![t] = head] /\ pc' = [pc EXCEPT ![t] = "pushCas"]
        /\ UNCHANGED <<record, cursor>>
    BY <1>1 DEF pushLoad
  <2> QED
    BY <1>ty, <2>2, <2>3
<1>2. CASE pushCas(t)
  BY <1>ty, <1>2 DEF pushCas
<1>3. CASE popStart(t)
  BY <1>ty, <1>3 DEF popStart
<1>4. CASE claimRecord(t)
  BY SMTT(30), <1>ty, <1>4 DEF claimRecord
<1>5. CASE createRecord(t)
  BY SMTT(30), <1>ty, <1>5 DEF createRecord
<1>6. CASE enterLoad(t)
  BY <1>ty, <1>6 DEF enterLoad
<1>7. CASE enterLocal(t)
  BY <1>ty, <1>7 DEF enterLocal
<1>8. CASE enterActive(t)
  BY <1>ty, <1>8 DEF enterActive
<1>9. CASE popLoad(t)
  BY <1>ty, <1>9 DEF popLoad
<1>10. CASE popNext(t)
  BY <1>ty, <1>10 DEF popNext
<1>11. CASE popCas(t)
  BY SMTT(30), <1>ty, <1>11 DEF popCas
<1>12. CASE exit(t)
  BY <1>ty, <1>12 DEF exit
<1>13. CASE retireLoad(t)
  BY <1>ty, <1>13 DEF retireLoad
<1>14. CASE retirePush(t)
  BY <1>ty, <1>14 DEF retirePush
<1>15. CASE advanceLoad(t)
  BY <1>ty, <1>15 DEF advanceLoad
<1>16. CASE scanActive(t)
  BY SMTT(30), <1>ty, <1>16 DEF scanActive
<1>17. CASE scanLocal(t)
  BY SMTT(30), <1>ty, <1>17 DEF scanLocal
<1>18. CASE advanceCas(t)
  BY <1>ty, <1>18 DEF advanceCas
<1>19. CASE moveSlot(t)
  BY <1>ty, <1>19 DEF moveSlot, Emptied
<1>20. CASE reclaim(t)
  BY <1>ty, <1>20 DEF reclaim
<1>21. CASE threadExit(t)
  BY <1>ty, <1>21 DEF threadExit
<1> HIDE DEF LocalsOK, Dereferences, Goto, HeadRecord, domainVars, recordVars,
        stackVars, popVars, historyVars
<1> QED
  BY <1>1, <1>2, <1>3, <1>4, <1>5, <1>6, <1>7, <1>8, <1>9, <1>10, <1>11, <1>12, <1>13,
     <1>14, <1>15, <1>16, <1>17, <1>18, <1>19, <1>20, <1>21 DEF Step, PoolStep

\* Together: every step of a thread keeps the types.
LEMMA StepTyped ==
  ASSUME TypeInv, NEW t \in Thread, Step(t) \/ threadExit(t)
  PROVE  TypeInv'
BY StepDomainOK, StepStackOK, StepRetireOK, StepPcOK, StepLocalsOK DEF TypeInv, TypeOK

\* Every state of every execution is well typed.
THEOREM TypeCorrect == Spec => []TypeOK
<1>1. TypeInv /\ [Next]_vars => TypeInv'
  <2>1. CASE Next
    BY <2>1, StepTyped DEF Next
  <2>2. CASE UNCHANGED vars
    BY <2>2 DEF TypeInv, TypeOK, DomainOK, StackOK, RetireOK, LocalsOK, Dereferences, vars, domainVars, recordVars,
       stackVars, popVars, historyVars
  <2> QED
    BY <2>1, <2>2
<1>2. TypeInv => TypeOK
  BY DEF TypeInv
<1> QED
  BY InitTyped, <1>1, <1>2, PTL DEF Spec

-----------------------------------------------------------------------------
(* The epoch argument.  Announced is inductive relative to TypeInv; in a   *)
(* section it leaves no room for a second advance: the scan before it      *)
(* would have had to go past the record of the section.                    *)

SectionInv == TypeInv /\ Announced /\ AtMostOneAdvance

\* A pool starts with nobody in a read section.
LEMMA PoolInitSection == PoolInit => SectionInv
<1> SUFFICES ASSUME PoolInit PROVE Announced /\ AtMostOneAdvance
  BY PoolInitTyped DEF SectionInv
<1>1. \A t \in Thread : pc[t] = "idle" /\ record[t] \in 1..Cardinality(Thread)
  BY DEF PoolInit, Locals
<1>2. \A r \in 1..threadCount : localEpoch[r] <= globalEpoch
  BY SMTT(30) DEF PoolInit, Records, Empty
<1> QED
  BY SMTT(30), <1>1, <1>2 DEF PoolInit, Announced, OwnRecord, LocalNotAhead, ReadNotAhead,
     SectionActive, SectionEntered, ScanBehind, AtMostOneAdvance, InSection

\* The operations that neither write a record nor move the epoch or a scan.
LEMMA QuietStep ==
  ASSUME SectionInv, NEW t \in Thread,
         UNCHANGED <<globalEpoch, threadCount, localEpoch, active, record, entryEpoch>>,
         \A u \in Thread \ {t} : pc'[u] = pc[u] /\ cursor'[u] = cursor[u] /\ epoch'[u] = epoch[u],
         InSection(t)' => InSection(t),
         pc'[t] \notin {"claim", "enterLocal", "scanActive", "scanLocal"}
  PROVE  (Announced /\ AtMostOneAdvance)'
BY SMTT(30) DEF SectionInv, Announced, OwnRecord, LocalNotAhead, ReadNotAhead,
     SectionActive, SectionEntered, ScanBehind, AtMostOneAdvance, InSection

\* Every operation of a thread of the pool keeps the argument going.
LEMMA StepSection ==
  ASSUME SectionInv, NEW t \in Thread, Step(t)
  PROVE  SectionInv'
<1>0. TypeInv'
  BY StepTyped DEF SectionInv
<1> SUFFICES (Announced /\ AtMostOneAdvance)'
  BY <1>0 DEF SectionInv
<1>t. Announced
  BY DEF SectionInv
<1>ty. /\ globalEpoch \in Nat /\ threadCount \in Nat
       /\ pc \in [Thread -> Label] /\ epoch \in [Thread -> Nat] /\ entryEpoch \in [Thread -> Nat]
       /\ cursor \in [Thread -> Nat]
       /\ localEpoch \in [1..threadCount -> Nat]
       /\ active \in [1..threadCount -> BOOLEAN]
  BY SMTT(30) DEF SectionInv, TypeInv, TypeOK, DomainOK
<1>rec. record \in [Thread -> 1..threadCount]
  BY SMTT(30), <1>t, <1>ty DEF SectionInv, TypeInv, TypeOK, DomainOK, StackOK, RetireOK, Announced, OwnRecord
<1> USE DEF HeadRecord, Goto, domainVars, recordVars, stackVars, popVars, historyVars
<1>1. CASE pushLoad(t)
  BY <1>1, <1>t, <1>ty, <1>rec, QuietStep DEF pushLoad, InSection
<1>2. CASE pushCas(t)
  BY <1>2, <1>t, <1>ty, <1>rec, QuietStep DEF pushCas, InSection
<1>3. CASE popStart(t)
  <2>1. record[t] # 0
    BY <1>t, <1>ty, <1>rec DEF Announced, OwnRecord, LocalNotAhead, ReadNotAhead,
     SectionActive, SectionEntered, ScanBehind
  <2>2. pc' = [pc EXCEPT ![t] = "enterLoad"] /\ UNCHANGED cursor
    BY <1>3, <2>1 DEF popStart
  <2> QED
    BY <1>3, <1>t, <1>ty, <1>rec, <2>2, QuietStep DEF popStart, InSection
<1>4. CASE claimRecord(t) \/ createRecord(t)
  BY <1>4, <1>t, <1>ty, <1>rec DEF claimRecord, createRecord, Announced, OwnRecord, LocalNotAhead, ReadNotAhead,
     SectionActive, SectionEntered, ScanBehind
<1>6. CASE enterLoad(t)
  BY SMTT(30), <1>6, <1>t, <1>ty, <1>rec DEF SectionInv, enterLoad, InSection, Announced, OwnRecord, LocalNotAhead, ReadNotAhead,
     SectionActive, SectionEntered, ScanBehind, AtMostOneAdvance
<1>7. CASE enterLocal(t)
  BY <1>7, <1>t, <1>ty, <1>rec DEF SectionInv, enterLocal, InSection, Announced, OwnRecord, LocalNotAhead, ReadNotAhead,
     SectionActive, SectionEntered, ScanBehind, AtMostOneAdvance
<1>8. CASE enterActive(t)
  \* No scan is for an epoch later than the one in which the section starts.
  <2>1. /\ UNCHANGED <<globalEpoch, threadCount, localEpoch, record, cursor, epoch>>
        /\ active' = [active EXCEPT ![record[t]] = TRUE]
        /\ entryEpoch' = [entryEpoch EXCEPT ![t] = globalEpoch]
        /\ pc' = [pc EXCEPT ![t] = "popLoad"]
    BY <1>8 DEF enterActive
  <2>2. \A u \in Thread : u # t =>
          /\ InSection(u)' <=> InSection(u)
          /\ entryEpoch'[u] = entryEpoch[u]
    BY <1>t, <1>ty, <1>rec, <2>1 DEF InSection
  <2>3. entryEpoch'[t] = globalEpoch
    BY <1>t, <1>ty, <1>rec, <2>1
  <2>4. \A u \in Thread : u # t => active'[record'[u]] = active[record[u]]
    <3>1. \A u \in Thread : u # t => record'[u] = record[u] /\ record[u] # record[t]
      BY <1>t, <1>ty, <1>rec, <2>1 DEF Announced, OwnRecord
    <3>2. \A u \in Thread : record[u] \in 1..threadCount
      BY <1>t, <1>ty, <1>rec DEF Announced, OwnRecord
    <3>3. active \in [1..threadCount -> BOOLEAN]
      BY <1>t, <1>ty, <1>rec
    <3> QED
      BY <2>1, <3>1, <3>2, <3>3
  <2>4a. active'[record'[t]] = TRUE
    <3>1. record[t] \in 1..threadCount
      BY <1>t, <1>ty, <1>rec DEF Announced, OwnRecord
    <3>2. active \in [1..threadCount -> BOOLEAN]
      BY <1>t, <1>ty, <1>rec
    <3> QED
      BY <2>1, <3>1, <3>2
  <2>5. OwnRecord' /\ LocalNotAhead' /\ ReadNotAhead'
    BY <1>t, <1>ty, <1>rec, <2>1 DEF Announced, OwnRecord, LocalNotAhead, ReadNotAhead
  <2>6. SectionActive'
    BY <1>t, <1>ty, <1>rec, <2>2, <2>4, <2>4a DEF Announced, SectionActive
  <2>7. SectionEntered'
    <3>1. record[t] \in 1..threadCount
      BY <1>t, <1>ty, <1>rec DEF Announced, OwnRecord
    <3> QED
      BY SMTT(30), <1>t, <1>ty, <1>rec, <2>1, <2>2, <2>3, <3>1 DEF Announced, SectionEntered, LocalNotAhead
  <2>8. ScanBehind'
    <3>1. \A s \in Thread : pc'[s] \in {"scanActive", "scanLocal"}
            => pc[s] = pc'[s] /\ epoch[s] <= globalEpoch
      BY <1>t, <1>ty, <1>rec, <2>1 DEF Announced, ReadNotAhead
    <3>2. SUFFICES ASSUME NEW u \in Thread, NEW s \in Thread, InSection(u)',
                          pc'[s] \in {"scanActive", "scanLocal"}, epoch[s] > entryEpoch'[u]
                   PROVE  record[u] <= cursor[s]
      BY <2>1 DEF ScanBehind
    <3>3. u # t
      BY SMTT(30), <1>ty, <2>3, <3>1, <3>2
    <3> QED
      BY <1>t, <2>2, <3>1, <3>2, <3>3 DEF Announced, ScanBehind
  <2>9. AtMostOneAdvance'
    BY SMTT(30), <1>t, <1>ty, <1>rec, <2>1, <2>2, <2>3 DEF SectionInv, AtMostOneAdvance
  <2> QED
    BY <2>5, <2>6, <2>7, <2>8, <2>9 DEF Announced
<1>9. CASE popLoad(t)
  BY <1>9, <1>t, <1>ty, <1>rec, QuietStep DEF popLoad, InSection
<1>10. CASE popNext(t)
  BY <1>10, <1>t, <1>ty, <1>rec, QuietStep DEF popNext, InSection
<1>11. CASE popCas(t)
  BY <1>11, <1>t, <1>ty, <1>rec, QuietStep DEF popCas, InSection
<1>12. CASE exit(t)
  BY <1>12, <1>t, <1>ty, <1>rec DEF SectionInv, exit, InSection, Announced, OwnRecord, LocalNotAhead, ReadNotAhead,
     SectionActive, SectionEntered, ScanBehind, AtMostOneAdvance
<1>13. CASE retireLoad(t)
  BY <1>13, <1>t, <1>ty, <1>rec, QuietStep DEF retireLoad, InSection
<1>14. CASE retirePush(t)
  BY <1>14, <1>t, <1>ty, <1>rec, QuietStep DEF retirePush, InSection
<1>15. CASE advanceLoad(t)
  BY SMTT(30), <1>15, <1>t, <1>ty, <1>rec DEF SectionInv, advanceLoad, InSection, Announced, OwnRecord, LocalNotAhead, ReadNotAhead,
     SectionActive, SectionEntered, ScanBehind, AtMostOneAdvance
<1>16. CASE scanActive(t)
  <2>1. CASE active[cursor[t]]
    <3>1. /\ UNCHANGED <<globalEpoch, threadCount, localEpoch, active, record, cursor, epoch, entryEpoch>>
          /\ pc' = [pc EXCEPT ![t] = "scanLocal"]
      BY <1>16, <2>1 DEF scanActive
    <3>2. \A u \in Thread : InSection(u)' <=> InSection(u)
      BY <1>16, <1>t, <1>ty, <1>rec, <3>1 DEF scanActive, InSection
    <3>3. \A u \in Thread :
            /\ pc'[u] \in {"enterLocal", "scanActive", "scanLocal"}
                 => pc[u] \in {"enterLocal", "scanActive", "scanLocal"}
            /\ pc'[u] \in {"scanActive", "scanLocal"} => pc[u] \in {"scanActive", "scanLocal"}
            /\ pc'[u] = "claim" => pc[u] = "claim"
      BY <1>16, <1>t, <1>ty, <1>rec, <3>1 DEF scanActive
    <3> QED
      BY <1>t, <1>ty, <1>rec, <3>1, <3>2, <3>3 DEF SectionInv, Announced, OwnRecord, LocalNotAhead,
         ReadNotAhead, SectionActive, SectionEntered, ScanBehind, AtMostOneAdvance
  \* The record the scan goes past belongs to no section.
  <2>2. CASE ~active[cursor[t]]
    <3>1. \A u \in Thread : InSection(u) => record[u] # cursor[t]
      BY <1>t, <1>ty, <1>rec, <2>2 DEF Announced, OwnRecord, LocalNotAhead, ReadNotAhead,
     SectionActive, SectionEntered, ScanBehind
    <3>2. /\ cursor' = [cursor EXCEPT ![t] = @ - 1]
          /\ UNCHANGED <<pc, record, epoch, active, localEpoch, threadCount, globalEpoch, entryEpoch>>
      BY <1>16, <2>2 DEF scanActive
    <3>3. \A u \in Thread : record[u] <= cursor[t] /\ record[u] # cursor[t] => record[u] <= cursor'[t]
      BY SMTT(30), <1>t, <1>ty, <1>rec, <3>2
    <3> QED
      BY <1>t, <1>ty, <1>rec, <3>1, <3>2, <3>3 DEF SectionInv, InSection, Announced, OwnRecord, LocalNotAhead, ReadNotAhead,
     SectionActive, SectionEntered, ScanBehind, AtMostOneAdvance
  <2> QED
    BY <2>1, <2>2
<1>17. CASE scanLocal(t)
  <2> DEFINE caughtUp == CaughtUp(localEpoch[cursor[t]], epoch[t])
  \* A section whose record the scan goes past announced the epoch of the
  \* scan, which is then not later than its entry.
  <2>1. CASE caughtUp
    <3>1. \A u \in Thread : InSection(u) /\ epoch[t] > entryEpoch[u] => record[u] # cursor[t]
      BY SMTT(30), <1>t, <1>ty, <1>rec, <2>1 DEF Announced, OwnRecord, LocalNotAhead, ReadNotAhead,
     SectionActive, SectionEntered, ScanBehind, CaughtUp
    <3>2. /\ cursor' = [cursor EXCEPT ![t] = @ - 1] /\ pc' = [pc EXCEPT ![t] = "scanActive"]
          /\ UNCHANGED <<record, epoch, active, localEpoch, threadCount, globalEpoch, entryEpoch>>
      BY <1>17, <2>1 DEF scanLocal
    <3>3. \A u \in Thread : record[u] <= cursor[t] /\ record[u] # cursor[t] => record[u] <= cursor'[t]
      BY SMTT(30), <1>t, <1>ty, <1>rec, <3>2
    <3>4. \A u \in Thread : InSection(u)' <=> InSection(u)
      BY <1>17, <1>t, <1>ty, <1>rec, <3>2 DEF InSection, scanLocal
    <3>5. AtMostOneAdvance'
      BY <3>2, <3>4 DEF SectionInv, AtMostOneAdvance
    <3>6. \A u \in Thread :
            /\ pc'[u] \in {"enterLocal", "scanActive", "scanLocal"}
                 => pc[u] \in {"enterLocal", "scanActive", "scanLocal"}
            /\ pc'[u] \in {"scanActive", "scanLocal"} => pc[u] \in {"scanActive", "scanLocal"}
            /\ pc'[u] = "claim" => pc[u] = "claim"
      BY <1>17, <1>t, <1>ty, <1>rec, <3>2 DEF scanLocal
    <3>7. ScanBehind'
      <4>1. \A u \in Thread : u # t => cursor'[u] = cursor[u]
        BY <1>t, <1>ty, <1>rec, <3>2
      <4>2. pc[t] = "scanLocal"
        BY <1>17 DEF scanLocal
      <4> QED
        BY <1>t, <1>ty, <1>rec, <3>1, <3>2, <3>3, <3>4, <3>6, <4>1, <4>2 DEF Announced, ScanBehind
    <3> QED
      BY <1>t, <1>ty, <1>rec, <3>2, <3>4, <3>5, <3>6, <3>7 DEF Announced, OwnRecord, LocalNotAhead,
         ReadNotAhead, SectionActive, SectionEntered
  <2>2. CASE ~caughtUp
    <3>1. pc' = [pc EXCEPT ![t] = "idle"] /\ UNCHANGED cursor
      BY <1>17, <2>2 DEF scanLocal
    <3> QED
      BY <1>17, <1>t, <1>ty, <1>rec, <3>1, QuietStep DEF scanLocal, InSection
  <2> QED
    BY <2>1, <2>2
<1>18. CASE advanceCas(t)
  <2>1. CASE globalEpoch = epoch[t]
    \* The scan is over, so no section was entered before its epoch.
    <3>1. \A u \in Thread : InSection(u) => epoch[t] <= entryEpoch[u]
      <4>1. pc[t] = "scanActive" /\ cursor[t] = 0
        BY <1>18 DEF advanceCas
      <4>2. \A u \in Thread : ~(record[u] <= cursor[t])
        <5>1. \A u \in Thread : record[u] \in Nat /\ record[u] # 0
          BY SMTT(30), <1>t, <1>ty, <1>rec DEF Announced, OwnRecord
        <5> QED
          BY SMTT(30), <4>1, <5>1
      <4>3. \A u \in Thread : InSection(u) => ~(epoch[t] > entryEpoch[u])
        BY <1>t, <1>ty, <1>rec, <4>1, <4>2 DEF Announced, ScanBehind
      <4>4. epoch[t] \in Nat /\ \A u \in Thread : entryEpoch[u] \in Nat
        BY <1>t, <1>ty, <1>rec
      <4> QED
        BY SMTT(30), <4>3, <4>4
    <3>2. /\ globalEpoch' = globalEpoch + 1 /\ pc' = [pc EXCEPT ![t] = "move"]
          /\ UNCHANGED <<cursor, record, epoch, active, localEpoch, threadCount, entryEpoch>>
      BY <1>18, <2>1 DEF advanceCas
    <3>3. \A u \in Thread : InSection(u)' <=> InSection(u)
      BY <1>18, <1>t, <1>ty, <1>rec, <3>2 DEF InSection, advanceCas
    <3>4. AtMostOneAdvance'
      BY SMTT(30), <1>t, <1>ty, <1>rec, <2>1, <3>1, <3>2, <3>3 DEF AtMostOneAdvance
    <3> QED
      BY SMTT(30), <1>t, <1>ty, <1>rec, <3>2, <3>3, <3>4 DEF Announced, OwnRecord, LocalNotAhead, ReadNotAhead,
     SectionActive, SectionEntered, ScanBehind
  <2>2. CASE globalEpoch # epoch[t]
    <3>1. pc' = [pc EXCEPT ![t] = "idle"] /\ UNCHANGED globalEpoch
      BY <1>18, <2>2 DEF advanceCas
    <3> QED
      BY <1>18, <1>t, <1>ty, <1>rec, <3>1, QuietStep DEF advanceCas, InSection
  <2> QED
    BY <2>1, <2>2
<1>19. CASE moveSlot(t)
  BY <1>19, <1>t, <1>ty, <1>rec, QuietStep DEF moveSlot, InSection
<1>20. CASE reclaim(t)
  BY <1>20, <1>t, <1>ty, <1>rec, QuietStep DEF reclaim, InSection
<1> HIDE DEF HeadRecord, Goto, domainVars, recordVars, stackVars, popVars, historyVars
<1> QED
  BY <1>1, <1>2, <1>3, <1>4, <1>6, <1>7, <1>8, <1>9, <1>10, <1>11, <1>12, <1>13,
     <1>14, <1>15, <1>16, <1>17, <1>18, <1>19, <1>20 DEF Step, PoolStep

\* While a thread of the pool is inside a section the global epoch advances
\* at most once, for any number of threads and whatever scans of
\* try_advance were under way when it entered.
THEOREM SectionSpansOneAdvance == PoolSpec => []AtMostOneAdvance
<1>1. SectionInv /\ [PoolNext]_vars => SectionInv'
  <2>1. CASE PoolNext
    BY <2>1, StepSection DEF PoolNext, Step
  <2>2. CASE UNCHANGED vars
    BY <2>2 DEF SectionInv, TypeInv, TypeOK, DomainOK, StackOK, RetireOK, LocalsOK, Dereferences, Announced, OwnRecord, LocalNotAhead, ReadNotAhead,
     SectionActive, SectionEntered, ScanBehind,
       AtMostOneAdvance, InSection, vars, domainVars, recordVars, stackVars, popVars, historyVars
  <2> QED
    BY <2>1, <2>2
<1>2. SectionInv => AtMostOneAdvance
  BY DEF SectionInv
<1> QED
  BY PoolInitSection, <1>1, <1>2, PTL DEF PoolSpec

-----------------------------------------------------------------------------
(* The nodes of the stack and their owners.                                *)

\* The slots of the retire lists.
Slot == 0..kEBREpochs - 1
\* The nodes that nobody else has are those on the stack.
Stacked ==
  {n \in Node : /\ n \notin fresh /\ n \notin freed
                /\ \A t \in Thread : node[t] # n /\ n \notin toReclaim[t]
                /\ \A s \in Slot : n \notin globalRetire[s]}

\* Every node that is not on the stack has one owner.
HeldApart ==
  \A t \in Thread :
    /\ node[t] \notin fresh /\ node[t] \notin freed
    /\ \A u \in Thread : /\ node[t] \notin toReclaim[u]
                         /\ node[t] = node[u] /\ node[t] # Null => t = u
    /\ \A s \in Slot : node[t] \notin globalRetire[s]
\* A retired node is in one list, or in the hands of one reclaimer.
RetiredApart ==
  /\ \A n \in fresh : n \notin freed
  /\ \A s \in Slot : \A n \in globalRetire[s] :
       /\ n \notin fresh /\ n \notin freed
       /\ \A r \in Slot : n \in globalRetire[r] => r = s
       /\ \A t \in Thread : n \notin toReclaim[t]
  /\ \A t \in Thread : \A n \in toReclaim[t] :
       /\ n \notin fresh /\ n \notin freed
       /\ \A u \in Thread : n \in toReclaim[u] => u = t
\* The labels at which a thread has a node of its own: one it pushes, one it
\* has popped.
HoldsNode(t) == pc[t] \in {"pushCas", "exit", "retireLoad", "retirePush"}
\* At other labels a thread has none, and nodes to reclaim only in reclaim.
Carried ==
  \A t \in Thread : (node[t] # Null => HoldsNode(t)) /\ (toReclaim[t] # {} => pc[t] = "reclaim")
\* The nodes on the stack are linked from head to Null, each once.
StackList == \E c : IsList(c, Node, head, next, Null) /\ Members(c) = Stacked
\* The node a pop dereferences has been on the stack and is not being pushed
\* again, so its link is still the one that was read.
Followed ==
  \A t \in Thread : Dereferences(t) =>
    /\ old[t] \notin fresh
    /\ \A u \in Thread : pc[u] = "pushCas" => node[u] # old[t]
    /\ pc[t] = "popCas" => succ[t] = next[old[t]]

\* Nodes have one owner each.
OwnedApart == HeldApart /\ RetiredApart
\* The inductive invariant.
StackInv == TypeInv /\ OwnedApart /\ Carried /\ StackList /\ Followed

\* What the owners depend on.
ownerVars == <<fresh, freed, node, globalRetire, toReclaim>>

\* At first the stack is empty and every node is fresh.
LEMMA StackInvInit == Init \/ PoolInit => StackInv
<1> SUFFICES ASSUME Init \/ PoolInit PROVE StackInv OBVIOUS
<1>1. TypeInv BY InitTyped, PoolInitTyped
<1>2. Empty /\ Locals BY DEF Init, PoolInit
<1>3. OwnedApart /\ Carried /\ Followed
  BY <1>2, EpochAssumption DEF Empty, Locals, OwnedApart, HeldApart, RetiredApart, Carried, Followed, HoldsNode, Dereferences, Slot
<1>4. StackList
  <2>1. Stacked = {} BY <1>2 DEF Stacked, Empty
  <2>2. IsList(<<>>, Node, head, next, Null) /\ Members(<<>>) = {} BY SMTT(30), <1>2 DEF Empty, IsList, Members
  <2> QED BY <2>1, <2>2 DEF StackList
<1> QED BY <1>1, <1>3, <1>4 DEF StackInv

\* A node at the head of the stack.
LEMMA HeadStacked ==
  ASSUME StackInv, head # Null
  PROVE  head \in Stacked
<1>1. PICK c : IsList(c, Node, head, next, Null) /\ Members(c) = Stacked BY DEF StackInv, StackList
<1> QED BY <1>1, ListPop, EpochAssumption

\* A step that moves no node and no link.
LEMMA OwnersSame ==
  ASSUME StackInv, UNCHANGED <<ownerVars, head, next>>
  PROVE  OwnedApart' /\ StackList'
<1>1. UNCHANGED <<fresh, freed, node, globalRetire, toReclaim, head, next>> BY DEF ownerVars
<1>2. Stacked' = Stacked BY <1>1 DEF Stacked
<1>3. StackList' BY <1>1, <1>2 DEF StackInv, StackList
<1>4. OwnedApart' BY <1>1 DEF StackInv, OwnedApart, HeldApart, RetiredApart
<1> QED BY <1>3, <1>4

\* The operations that leave every node where it is.
LEMMA QuietOwners ==
  ASSUME StackInv, NEW t \in Thread, TypeInv', UNCHANGED <<ownerVars, head, next>>,
         \A u \in Thread \ {t} : pc'[u] = pc[u] /\ old'[u] = old[u] /\ succ'[u] = succ[u],
         pc'[t] # "pushCas",
         HoldsNode(t) /\ ~HoldsNode(t)' => node[t] = Null,
         pc[t] # "reclaim",
         Dereferences(t)' => old'[t] \in Stacked \/ (Dereferences(t) /\ old'[t] = old[t]),
         pc'[t] = "popCas" => succ'[t] = next[old'[t]]
  PROVE  StackInv'
<1>1. OwnedApart' /\ StackList' BY OwnersSame
<1>2. UNCHANGED <<fresh, freed, node, globalRetire, toReclaim, head, next>> BY DEF ownerVars
<1>3. Carried' BY <1>2 DEF StackInv, Carried, HoldsNode
<1>4. Followed'
  <2>1. \A n \in Stacked : n \notin fresh /\ \A u \in Thread : node[u] # n BY DEF Stacked
  <2>2. \A u \in Thread : pc'[u] = "pushCas" => pc[u] = "pushCas" OBVIOUS
  <2>3. ASSUME NEW u \in Thread, u # t, Dereferences(u)'
        PROVE  /\ old'[u] \notin fresh' /\ \A v \in Thread : pc'[v] = "pushCas" => node'[v] # old'[u]
               /\ pc'[u] = "popCas" => succ'[u] = next'[old'[u]]
    BY SMTT(30), <1>2, <2>2, <2>3 DEF StackInv, Followed, Dereferences
  <2>4. ASSUME Dereferences(t)'
        PROVE  /\ old'[t] \notin fresh' /\ \A v \in Thread : pc'[v] = "pushCas" => node'[v] # old'[t]
               /\ pc'[t] = "popCas" => succ'[t] = next'[old'[t]]
    BY SMTT(30), <1>2, <2>1, <2>2, <2>4 DEF StackInv, Followed
  <2> QED BY <2>3, <2>4 DEF Followed
<1> QED BY <1>1, <1>3, <1>4 DEF StackInv

\* The steps of the domain and of pop that move no node.
LEMMA QuietSteps ==
  ASSUME StackInv, TypeInv', NEW t \in Thread,
         \/ popStart(t) \/ claimRecord(t) \/ createRecord(t) \/ threadExit(t)
         \/ enterLoad(t) \/ enterLocal(t) \/ enterActive(t) \/ popLoad(t) \/ popNext(t)
         \/ exit(t) \/ retireLoad(t)
         \/ advanceLoad(t) \/ scanActive(t) \/ scanLocal(t) \/ advanceCas(t)
  PROVE  StackInv'
<1>ty. /\ pc \in [Thread -> Label] /\ old \in [Thread -> Node \cup {Null}] /\ succ \in [Thread -> Node \cup {Null}]
       /\ next \in [Node -> Node \cup {Null}] /\ node \in [Thread -> Node \cup {Null}]
  BY DEF StackInv, TypeInv, TypeOK, StackOK
<1> USE DEF Goto, HeadRecord, domainVars, recordVars, stackVars, popVars, historyVars, ownerVars
<1>1. CASE popStart(t) BY <1>1, <1>ty, QuietOwners DEF popStart, HoldsNode, Dereferences
<1>2. CASE claimRecord(t) BY <1>2, <1>ty, QuietOwners DEF claimRecord, HoldsNode, Dereferences
<1>3. CASE createRecord(t) BY <1>3, <1>ty, QuietOwners DEF createRecord, HoldsNode, Dereferences
<1>4. CASE threadExit(t) BY <1>4, <1>ty, QuietOwners DEF threadExit, HoldsNode, Dereferences
<1>5. CASE enterLoad(t) BY <1>5, <1>ty, QuietOwners DEF enterLoad, HoldsNode, Dereferences
<1>6. CASE enterLocal(t) BY <1>6, <1>ty, QuietOwners DEF enterLocal, HoldsNode, Dereferences
<1>7. CASE enterActive(t) BY <1>7, <1>ty, QuietOwners DEF enterActive, HoldsNode, Dereferences
<1>8. CASE popLoad(t) BY <1>8, <1>ty, QuietOwners, HeadStacked DEF popLoad, HoldsNode, Dereferences
<1>9. CASE popNext(t) BY <1>9, <1>ty, QuietOwners DEF popNext, HoldsNode, Dereferences
<1>11. CASE exit(t) BY <1>11, <1>ty, QuietOwners DEF exit, HoldsNode, Dereferences
<1>12. CASE retireLoad(t) BY <1>12, <1>ty, QuietOwners DEF retireLoad, HoldsNode, Dereferences
<1>13. CASE advanceLoad(t) BY <1>13, <1>ty, QuietOwners DEF advanceLoad, HoldsNode, Dereferences
<1>14. CASE scanActive(t) BY <1>14, <1>ty, QuietOwners DEF scanActive, HoldsNode, Dereferences
<1>15. CASE scanLocal(t) BY <1>15, <1>ty, QuietOwners DEF scanLocal, HoldsNode, Dereferences
<1>16. CASE advanceCas(t) BY <1>16, <1>ty, QuietOwners DEF advanceCas, HoldsNode, Dereferences
<1> HIDE DEF Goto, HeadRecord, domainVars, recordVars, stackVars, popVars, historyVars, ownerVars
<1> QED BY SMTT(30), <1>1, <1>2, <1>3, <1>4, <1>5, <1>6, <1>7, <1>8, <1>9, <1>11, <1>12, <1>13, <1>14, <1>15, <1>16

\* A thread reads head_ again; the compare-exchange takes the head off.
LEMMA PopSteps ==
  ASSUME StackInv, TypeInv', NEW t \in Thread, popCas(t)
  PROVE  StackInv'
<1>ty. /\ pc \in [Thread -> Label] /\ old \in [Thread -> Node \cup {Null}] /\ succ \in [Thread -> Node \cup {Null}]
       /\ next \in [Node -> Node \cup {Null}] /\ node \in [Thread -> Node \cup {Null}]
  BY DEF StackInv, TypeInv, TypeOK, StackOK
<1>1. /\ pc[t] = "popCas" /\ UNCHANGED <<next, fresh, freed, succ, toReclaim, globalRetire>> /\ Null \notin Node
      /\ old[t] \in Node /\ old[t] # Null /\ succ[t] = next[old[t]] /\ old[t] \notin fresh
      /\ node[t] = Null /\ toReclaim[t] = {}
  BY EpochAssumption DEF popCas, domainVars, StackInv, TypeInv, LocalsOK, Dereferences, Carried, HoldsNode, Followed
<1>2. CASE /\ old' = [old EXCEPT ![t] = head] /\ UNCHANGED <<head, node>>
           /\ pc' = [pc EXCEPT ![t] = IF head = Null THEN "exit" ELSE "popNext"]
  BY <1>1, <1>2, <1>ty, QuietOwners, HeadStacked DEF HoldsNode, Dereferences, ownerVars
<1>3. CASE /\ head = old[t] /\ head' = succ[t] /\ node' = [node EXCEPT ![t] = old[t]]
           /\ pc' = [pc EXCEPT ![t] = "exit"] /\ UNCHANGED old
  <2>1. PICK h \in Node : h = head /\ h = old[t] /\ h # Null BY <1>1, <1>3
  <2>2. PICK c : IsList(c, Node, h, next, Null) /\ Members(c) = Stacked BY <2>1 DEF StackInv, StackList
  <2>3. h \in Stacked BY <2>1, HeadStacked
  <2>4. \A u \in Thread : node'[u] = IF u = t THEN h ELSE node[u] BY <1>3, <1>ty, <2>1
  <2>5. Stacked' = Stacked \ {h}
    <3>1. \A n \in Node : (n \in Stacked') <=> (n \in Stacked /\ n # h) BY <1>1, <2>1, <2>4 DEF Stacked
    <3>2. Stacked' \subseteq Node /\ Stacked \subseteq Node BY DEF Stacked
    <3> QED BY <3>1, <3>2
  <2>6. StackList'
    <3>1. IsList(Tail(c), Node, next[h], next, Null) /\ Members(Tail(c)) = Members(c) \ {h} BY SMTT(30), <2>1, <2>2, <1>1, ListPop
    <3>2. head' = next[h] /\ next' = next BY <1>1, <1>3, <2>1
    <3> QED BY <2>2, <2>5, <3>1, <3>2 DEF StackList
  <2>7. OwnedApart'
    <3>1. h \notin fresh /\ h \notin freed /\ (\A u \in Thread : node[u] # h /\ h \notin toReclaim[u]) /\ \A s \in Slot : h \notin globalRetire[s]
      BY <2>3 DEF Stacked
    <3>2. HeldApart' BY SMTT(30), <1>1, <2>4, <3>1 DEF StackInv, OwnedApart, HeldApart
    <3>3. RetiredApart' BY <1>1 DEF StackInv, OwnedApart, RetiredApart
    <3> QED BY <3>2, <3>3 DEF OwnedApart
  <2>8. Carried' BY <1>1, <1>3, <1>ty, <2>4 DEF StackInv, Carried, HoldsNode
  <2>9. Followed'
    <3>1. \A u \in Thread : u # t => pc'[u] = pc[u] BY <1>3, <1>ty
    <3>2. pc'[t] = "exit" BY <1>3, <1>ty
    <3> QED BY SMTT(30), <1>1, <1>3, <2>4, <3>1, <3>2 DEF StackInv, Followed, Dereferences
  <2> QED BY <2>6, <2>7, <2>8, <2>9 DEF StackInv
<1> QED BY <1>2, <1>3 DEF popCas, Goto

\* A push: the node is taken, linked and published.
LEMMA PushSteps ==
  ASSUME StackInv, TypeInv', NEW t \in Thread, pushLoad(t) \/ pushCas(t)
  PROVE  StackInv'
<1>ty. /\ pc \in [Thread -> Label] /\ old \in [Thread -> Node \cup {Null}] /\ succ \in [Thread -> Node \cup {Null}]
       /\ next \in [Node -> Node \cup {Null}] /\ node \in [Thread -> Node \cup {Null}] /\ fresh \subseteq Node
  BY DEF StackInv, TypeInv, TypeOK, StackOK, RetireOK
<1>nn. Null \notin Node BY EpochAssumption
<1>1. CASE pushLoad(t)
  <2>1. PICK n \in fresh : fresh' = fresh \ {n} /\ node' = [node EXCEPT ![t] = n] BY <1>1 DEF pushLoad
  <2>2. /\ pc[t] = "idle" /\ pc' = [pc EXCEPT ![t] = "pushCas"] /\ old' = [old EXCEPT ![t] = head]
        /\ UNCHANGED <<head, next, freed, succ, toReclaim, globalRetire>>
    BY <1>1 DEF pushLoad, Goto, domainVars
  <2>3. node[t] = Null BY <2>2 DEF StackInv, Carried, HoldsNode
  <2>4. \A u \in Thread : node'[u] = IF u = t THEN n ELSE node[u] BY <2>1, <1>ty
  <2>5. Stacked' = Stacked
    <3>1. \A m \in Node : (m \in Stacked') <=> (m \in Stacked) BY <1>nn, <2>1, <2>2, <2>3, <2>4 DEF Stacked
    <3>2. Stacked' \subseteq Node /\ Stacked \subseteq Node BY DEF Stacked
    <3> QED BY <3>1, <3>2
  <2>6. StackList' BY <2>2, <2>5 DEF StackInv, StackList
  <2>7. n \notin freed /\ (\A u \in Thread : node[u] # n /\ n \notin toReclaim[u]) /\ \A s \in Slot : n \notin globalRetire[s]
    BY SMTT(30) DEF StackInv, OwnedApart, HeldApart, RetiredApart
  <2>8. HeldApart' BY SMTT(30), <2>1, <2>2, <2>4, <2>7 DEF StackInv, OwnedApart, HeldApart
  <2>9. RetiredApart' BY <2>1, <2>2, <2>7 DEF StackInv, OwnedApart, RetiredApart
  <2>10. Carried' BY <1>ty, <2>2, <2>4 DEF StackInv, Carried, HoldsNode
  <2>11. Followed'
    <3>1. \A u \in Thread : u # t => pc'[u] = pc[u] /\ old'[u] = old[u] BY <1>ty, <2>2
    <3>2. pc'[t] = "pushCas" BY <1>ty, <2>2
    <3> QED BY SMTT(30), <2>1, <2>2, <2>4, <3>1, <3>2 DEF StackInv, Followed, Dereferences
  <2> QED BY <2>6, <2>8, <2>9, <2>10, <2>11 DEF StackInv, OwnedApart
<1>2. CASE pushCas(t)
  <2>1. /\ pc[t] = "pushCas" /\ UNCHANGED <<fresh, freed, succ, toReclaim, globalRetire>>
        /\ next' = [next EXCEPT ![node[t]] = old[t]]
    BY <1>2 DEF pushCas, domainVars
  <2>2. PICK n \in Node : n = node[t] BY <2>1 DEF StackInv, TypeInv, LocalsOK
  <2>3. \A m \in Node : next'[m] = IF m = n THEN old[t] ELSE next[m] BY <1>ty, <2>1, <2>2
  <2>4. n \notin Stacked /\ toReclaim[t] = {} BY <2>1, <2>2 DEF Stacked, StackInv, Carried
  <2>5. PICK c : IsList(c, Node, head, next, Null) /\ Members(c) = Stacked BY DEF StackInv, StackList
  <2>6. IsList(c, Node, head, next', Null)
    <3>1. \A m \in Members(c) : m \in Node /\ m # n BY <2>4, <2>5 DEF Stacked
    <3> QED BY <2>3, <2>5, <3>1, ListKept
  <2>7. next' \in [Node -> Node \cup {Null}] BY DEF TypeInv, TypeOK, StackOK
  <2>8. \A u \in Thread : Dereferences(u) => old[u] # n /\ old[u] \in Node BY <2>1, <2>2 DEF StackInv, Followed, TypeInv, LocalsOK
  <2>9. CASE head = old[t] /\ head' = node[t] /\ node' = [node EXCEPT ![t] = Null] /\ pc' = [pc EXCEPT ![t] = "idle"] /\ UNCHANGED old
    <3>1. \A u \in Thread : node'[u] = IF u = t THEN Null ELSE node[u] BY <2>9, <1>ty
    <3>2. \A u \in Thread : u # t => node[u] # n BY <2>2, <1>nn DEF StackInv, OwnedApart, HeldApart
    <3>3. Stacked' = Stacked \cup {n}
      <4>1. n \notin fresh /\ n \notin freed /\ (\A u \in Thread : n \notin toReclaim[u]) /\ \A s \in Slot : n \notin globalRetire[s]
        BY <2>2 DEF StackInv, OwnedApart, HeldApart
      <4>2. \A m \in Node : (m \in Stacked') <=> (m \in Stacked \/ m = n) BY <1>nn, <2>1, <2>2, <3>1, <3>2, <4>1 DEF Stacked
      <4>3. Stacked' \subseteq Node /\ Stacked \subseteq Node BY DEF Stacked
      <4> QED BY <4>2, <4>3
    <3>4. StackList'
      <4>1. next'[n] = head BY <2>3, <2>9
      <4>2. n \notin Members(c) BY <2>4, <2>5
      <4>3. IsList(<<n>> \o c, Node, n, next', Null) /\ Members(<<n>> \o c) = Members(c) \cup {n}
        <5>1. PICK nx \in [Node -> Node \cup {Null}] : nx = next' BY <2>7
        <5> QED BY SMTT(30), <1>nn, <2>6, <4>1, <4>2, <5>1, ListPush
      <4> QED BY <2>2, <2>5, <2>9, <3>3, <4>3 DEF StackList
    <3>5. HeldApart'
      <4>1. /\ Null \notin fresh /\ Null \notin freed /\ (\A v \in Thread : Null \notin toReclaim[v])
            /\ \A r \in Slot : Null \notin globalRetire[r]
        BY <1>nn DEF StackInv, TypeInv, TypeOK, RetireOK, Slot
      <4> QED BY <2>1, <3>1, <4>1 DEF StackInv, OwnedApart, HeldApart
    <3>6. RetiredApart' BY <2>1 DEF StackInv, OwnedApart, RetiredApart
    <3>7. Carried' BY <1>ty, <2>1, <2>4, <2>9, <3>1 DEF StackInv, Carried, HoldsNode
    <3>8. Followed'
      <4>1. \A u \in Thread : u # t => pc'[u] = pc[u] BY <1>ty, <2>9
      <4>2. pc'[t] = "idle" BY <1>ty, <2>9
      <4> QED BY SMTT(30), <2>1, <2>3, <2>8, <2>9, <3>1, <4>1, <4>2 DEF StackInv, Followed, Dereferences
    <3> QED BY <3>4, <3>5, <3>6, <3>7, <3>8 DEF StackInv, OwnedApart
  <2>10. CASE old' = [old EXCEPT ![t] = head] /\ UNCHANGED <<head, node, pc>>
    <3>1. Stacked' = Stacked BY <2>1, <2>10 DEF Stacked
    <3>2. StackList' BY <2>5, <2>6, <2>10, <3>1 DEF StackList
    <3>3. OwnedApart' BY <2>1, <2>10 DEF StackInv, OwnedApart, HeldApart, RetiredApart
    <3>4. Carried' BY <2>1, <2>10 DEF StackInv, Carried, HoldsNode
    <3>5. Followed'
      <4>1. \A u \in Thread : u # t => old'[u] = old[u] BY <1>ty, <2>10
      <4> QED BY SMTT(30), <2>1, <2>3, <2>8, <2>10, <4>1 DEF StackInv, Followed, Dereferences
    <3> QED BY <3>2, <3>3, <3>4, <3>5 DEF StackInv
  <2> QED BY <1>2, <2>9, <2>10 DEF pushCas, Goto
<1> QED BY <1>1, <1>2

\* Retirement, the epoch change and reclamation move nodes from owner to owner.
LEMMA RetireSteps ==
  ASSUME StackInv, TypeInv', NEW t \in Thread, retirePush(t) \/ moveSlot(t) \/ reclaim(t)
  PROVE  StackInv'
<1>ty. /\ pc \in [Thread -> Label] /\ node \in [Thread -> Node \cup {Null}] /\ freed \subseteq Node
       /\ globalRetire \in [Slot -> SUBSET Node] /\ toReclaim \in [Thread -> SUBSET Node] /\ epoch[t] \in Nat /\ fresh \subseteq Node
  BY DEF StackInv, TypeInv, TypeOK, StackOK, RetireOK, DomainOK, Slot
<1>nn. Null \notin Node BY EpochAssumption
<1>0. /\ UNCHANGED <<head, next, fresh, old, succ>> /\ ~HoldsNode(t)' /\ ~Dereferences(t)'
      /\ \A u \in Thread : u # t => pc'[u] = pc[u]
  BY <1>ty DEF retirePush, moveSlot, reclaim, Goto, stackVars, popVars, HoldsNode, Dereferences
<1>a. ASSUME \A u \in Thread : node'[u] = node[u] \/ node'[u] = Null PROVE Followed'
  <2>1. \A u \in Thread : pc'[u] = "pushCas" => pc[u] = "pushCas" /\ u # t BY <1>0 DEF HoldsNode
  <2>2. \A u \in Thread : Dereferences(u)' => Dereferences(u) /\ u # t /\ pc'[u] = pc[u] /\ old[u] \in Node
    BY <1>0 DEF Dereferences, StackInv, TypeInv, LocalsOK
  <2> QED BY SMTT(30), <1>0, <1>a, <1>nn, <2>1, <2>2 DEF StackInv, Followed
<1>b. ASSUME Stacked' = Stacked PROVE StackList' BY <1>0, <1>b DEF StackInv, StackList
<1>c. ASSUME \A m \in Node : (m \in Stacked') <=> (m \in Stacked) PROVE Stacked' = Stacked
  <2>1. Stacked' \subseteq Node /\ Stacked \subseteq Node BY DEF Stacked
  <2> QED BY <1>c, <2>1
<1>1. CASE retirePush(t)
  <2>1. PICK n \in Node, s \in Slot : n = node[t] /\ s = epoch[t] % kEBREpochs
    <3>1. node[t] \in Node BY <1>1 DEF retirePush, StackInv, TypeInv, LocalsOK
    <3>2. epoch[t] % kEBREpochs \in Slot BY SMTT(30), <1>ty DEF Slot, kEBREpochs
    <3> QED BY <3>1, <3>2
  <2>2. /\ globalRetire' = [globalRetire EXCEPT ![s] = @ \cup {n}] /\ node' = [node EXCEPT ![t] = Null]
        /\ UNCHANGED <<freed, toReclaim>> /\ pc[t] = "retirePush"
    BY <1>1, <2>1 DEF retirePush
  <2>3. \A u \in Thread : node'[u] = IF u = t THEN Null ELSE node[u] BY <1>ty, <2>2
  <2>4. \A r \in Slot : globalRetire'[r] = IF r = s THEN globalRetire[r] \cup {n} ELSE globalRetire[r] BY <1>ty, <2>2
  <2>5. /\ n \notin fresh /\ n \notin freed /\ (\A u \in Thread : n \notin toReclaim[u]) /\ (\A r \in Slot : n \notin globalRetire[r])
        /\ \A u \in Thread : u # t => node[u] # n
    BY <1>nn, <2>1 DEF StackInv, OwnedApart, HeldApart
  <2>6. \A m \in Node : (m \in Stacked') <=> (m \in Stacked) BY SMTT(30), <1>0, <1>nn, <2>1, <2>2, <2>3, <2>4 DEF Stacked
  <2>7. HeldApart'
    <3> SUFFICES ASSUME NEW u \in Thread, u # t
                 PROVE  /\ node[u] \notin fresh /\ node[u] \notin freed
                        /\ \A v \in Thread : node[u] \notin toReclaim[v] /\ (node[u] = node'[v] /\ node[u] # Null => u = v)
                        /\ \A r \in Slot : node[u] \notin globalRetire'[r]
      <4>1. /\ Null \notin fresh /\ Null \notin freed /\ (\A v \in Thread : Null \notin toReclaim[v])
            /\ \A r \in Slot : Null \notin globalRetire'[r]
        BY <1>nn, <1>ty, <2>4
      <4> QED BY SMTT(30), <1>0, <2>2, <2>3, <4>1 DEF HeldApart
    <3> QED BY <2>3, <2>4, <2>5 DEF StackInv, OwnedApart, HeldApart
  <2>8. RetiredApart' BY SMTT(30), <1>0, <2>2, <2>4, <2>5 DEF StackInv, OwnedApart, RetiredApart
  <2>9. Carried' BY <1>0, <2>2, <2>3 DEF StackInv, Carried, HoldsNode
  <2>10. StackList' BY <1>b, <1>c, <2>6
  <2>11. Followed' BY <1>a, <2>3
  <2> QED BY <2>7, <2>8, <2>9, <2>10, <2>11 DEF StackInv, OwnedApart
<1>2. CASE moveSlot(t)
  <2>1. PICK s \in Slot : s = OldSlot(epoch[t]) BY <1>ty, OldSlotRange DEF Slot
  <2>2. /\ toReclaim' = [toReclaim EXCEPT ![t] = globalRetire[s]] /\ globalRetire' = [globalRetire EXCEPT ![s] = {}]
        /\ UNCHANGED <<node, freed>> /\ pc[t] = "move" /\ pc' = [pc EXCEPT ![t] = "reclaim"]
    BY <1>2, <2>1 DEF moveSlot, Emptied, popVars, Goto
  <2>3. toReclaim[t] = {} /\ node[t] = Null /\ pc'[t] = "reclaim" BY <1>ty, <2>2 DEF StackInv, Carried, HoldsNode
  <2>4. \A u \in Thread : toReclaim'[u] = IF u = t THEN globalRetire[s] ELSE toReclaim[u] BY <1>ty, <2>2
  <2>5. \A r \in Slot : globalRetire'[r] = IF r = s THEN {} ELSE globalRetire[r] BY <1>ty, <2>2
  <2>6. \A m \in Node : (m \in Stacked') <=> (m \in Stacked) BY SMTT(30), <1>0, <2>2, <2>3, <2>4, <2>5 DEF Stacked
  <2>7. HeldApart' BY SMTT(30), <1>0, <2>2, <2>4, <2>5 DEF StackInv, OwnedApart, HeldApart
  <2>8. RetiredApart' BY SMTT(30), <1>0, <2>2, <2>4, <2>5 DEF StackInv, OwnedApart, RetiredApart
  <2>9. Carried' BY <1>0, <2>2, <2>3, <2>4 DEF StackInv, Carried, HoldsNode
  <2>10. StackList' BY <1>b, <1>c, <2>6
  <2>11. Followed' BY <1>a, <2>2
  <2> QED BY <2>7, <2>8, <2>9, <2>10, <2>11 DEF StackInv, OwnedApart
<1>3. CASE reclaim(t)
  <2>2. /\ toReclaim' = [toReclaim EXCEPT ![t] = {}] /\ freed' = freed \cup toReclaim[t]
        /\ UNCHANGED <<node, globalRetire>> /\ pc[t] = "reclaim"
    BY <1>3 DEF reclaim, popVars, domainVars
  <2>3. node[t] = Null BY <2>2 DEF StackInv, Carried, HoldsNode
  <2>4. \A u \in Thread : toReclaim'[u] = IF u = t THEN {} ELSE toReclaim[u] BY <1>ty, <2>2
  <2>6. \A m \in Node : (m \in Stacked') <=> (m \in Stacked) BY SMTT(30), <1>0, <2>2, <2>4 DEF Stacked
  <2>5. \A m : m \in freed' <=> m \in freed \/ m \in toReclaim[t] BY <2>2
  <2>7. HeldApart' BY SMTT(30), <1>0, <2>2, <2>4, <2>5 DEF StackInv, OwnedApart, HeldApart
  <2>8. RetiredApart'
    <3>1. \A n \in fresh : n \notin freed' BY <2>5 DEF StackInv, OwnedApart, RetiredApart
    <3>2. \A r \in Slot : \A n \in globalRetire[r] : n \notin freed' BY <2>5 DEF StackInv, OwnedApart, RetiredApart
    <3>3. \A u \in Thread : \A n \in toReclaim'[u] : n \notin freed' /\ n \in toReclaim[u] BY <2>4, <2>5 DEF StackInv, OwnedApart, RetiredApart
    <3> QED BY <1>0, <2>2, <2>4, <3>1, <3>2, <3>3 DEF StackInv, OwnedApart, RetiredApart
  <2>9. Carried' BY <1>0, <2>2, <2>3, <2>4 DEF StackInv, Carried, HoldsNode
  <2>10. StackList' BY <1>b, <1>c, <2>6
  <2>11. Followed' BY <1>a, <2>2
  <2> QED BY <2>7, <2>8, <2>9, <2>10, <2>11 DEF StackInv, OwnedApart
<1> QED BY <1>1, <1>2, <1>3

\* Every step preserves StackInv.
LEMMA StepStack ==
  ASSUME StackInv, NEW t \in Thread, Step(t) \/ threadExit(t)
  PROVE  StackInv'
<1>1. TypeInv' BY StepTyped DEF StackInv
<1> QED BY <1>1, QuietSteps, PopSteps, PushSteps, RetireSteps DEF Step, PoolStep

\* StackInv depends on vars alone.
LEMMA StackUnchanged == ASSUME StackInv, UNCHANGED vars PROVE StackInv'
<1>1. TypeInv' BY DEF StackInv, TypeInv, TypeOK, DomainOK, StackOK, RetireOK, LocalsOK, Dereferences, vars, domainVars, recordVars,
       stackVars, popVars, historyVars
<1>2. UNCHANGED <<fresh, freed, node, globalRetire, toReclaim, head, next, pc, old, succ>>
  BY DEF vars, domainVars, stackVars, popVars
<1>3. OwnedApart' /\ StackList' BY <1>2, OwnersSame DEF ownerVars
<1>4. Carried' /\ Followed' BY <1>2 DEF StackInv, Carried, HoldsNode, Followed, Dereferences
<1> QED BY <1>1, <1>3, <1>4 DEF StackInv

\* The number of the members of a set that has at most one.
LEMMA AtMostOne ==
  ASSUME NEW T, \A t, u \in T : t = u
  PROVE  Cardinality(T) = IF T = {} THEN 0 ELSE 1
<1>1. CASE T = {} BY <1>1, FS_EmptySet
<1>2. CASE T # {}
  <2>1. PICK t : T = {t} BY SMTT(30), <1>2
  <2> QED BY <2>1, <1>2, FS_Singleton
<1> QED BY <1>1, <1>2

\* What StackInv says, in numbers.
LEMMA OwnedOnce == StackInv => OneOwner
<1> SUFFICES ASSUME StackInv, NEW n \in Node PROVE Owners(n) = 1 BY DEF OneOwner
<1> DEFINE H == {t \in Thread : node[t] = n}
           R == {t \in Thread : n \in toReclaim[t]}
           S == {s \in 0..kEBREpochs - 1 : n \in globalRetire[s]}
<1>1. OnStack = Stacked
  <2>1. PICK c : IsList(c, Node, head, next, Null) /\ Members(c) = Stacked BY DEF StackInv, StackList
  <2>2. Cardinality(Node) \in Nat /\ Len(c) <= Cardinality(Node) BY <2>1, EpochAssumption, ListLength, FS_CardinalityType
  <2> QED BY SMTT(30), <2>1, <2>2, EpochAssumption, ReachedIsList DEF OnStack
<1>2. /\ \A t, u \in H : t = u
      /\ \A t, u \in R : t = u
      /\ \A r, s \in S : r = s
  BY EpochAssumption DEF StackInv, OwnedApart, HeldApart, RetiredApart, Slot
<1>3. /\ Cardinality(H) = IF H = {} THEN 0 ELSE 1
      /\ Cardinality(R) = IF R = {} THEN 0 ELSE 1
      /\ Cardinality(S) = IF S = {} THEN 0 ELSE 1
  <2> HIDE DEF H, R, S
  <2> QED BY <1>2, AtMostOne
<1>4. n \in Stacked <=> n \notin fresh /\ n \notin freed /\ H = {} /\ R = {} /\ S = {} BY DEF Stacked, Slot
<1>5. /\ n \in fresh => n \notin freed /\ H = {} /\ R = {} /\ S = {}
      /\ n \in freed => H = {} /\ R = {} /\ S = {}
      /\ H # {} => R = {} /\ S = {}
      /\ R # {} => S = {}
  BY SMTT(30) DEF StackInv, OwnedApart, HeldApart, RetiredApart, Slot
<1>6. Owners(n) = Cardinality(H) + Cardinality(R) + Cardinality(S) + (IF n \in OnStack THEN 1 ELSE 0)
                    + (IF n \in fresh THEN 1 ELSE 0) + (IF n \in freed THEN 1 ELSE 0)
  BY DEF Owners
<1> HIDE DEF H, R, S
<1> QED BY SMTT(30), <1>1, <1>3, <1>4, <1>5, <1>6

\* For any threads and nodes, through registration, exit and re-use of records:
\* a node is on the stack, with one thread, on one retire list or free, and in
\* one place only; nothing is freed twice and nothing is lost.
THEOREM EachNodeOneOwner == Spec => []OneOwner
<1>1. StackInv /\ [Next]_vars => StackInv' BY StepStack, StackUnchanged DEF Next
<1> QED BY <1>1, StackInvInit, OwnedOnce, PTL DEF Spec

-----------------------------------------------------------------------------
\* How long a retired node is kept.  A reader that dereferences it entered in an
\* epoch no later than the one it was retired in; one that is to be freed or has
\* been freed is dereferenced only once a slot was moved out late.
Delayed ==
  /\ \A s \in Slot : \A n \in globalRetire[s] : retiredIn[n] % kEBREpochs = s /\ retiredIn[n] <= globalEpoch
  /\ \A u \in Thread : pc[u] = "retirePush" => epoch[u] <= globalEpoch
  /\ \A t, u \in Thread : Dereferences(t) /\ pc[u] = "retirePush" /\ node[u] = old[t] => epoch[u] >= entryEpoch[t]
  /\ \A t \in Thread : \A s \in Slot : Dereferences(t) /\ old[t] \in globalRetire[s] => retiredIn[old[t]] >= entryEpoch[t]
  /\ late = {} => \A t \in Thread : Dereferences(t) => old[t] \notin freed /\ \A u \in Thread : old[t] \notin toReclaim[u]

\* The inductive invariant.
DelayInv == SectionInv /\ StackInv /\ Delayed

\* A step that retires nothing and frees nothing.
LEMMA QuietDelay ==
  ASSUME DelayInv, NEW t \in Thread, UNCHANGED <<globalRetire, retiredIn, freed, toReclaim, late>>,
         globalEpoch' \in Nat, globalEpoch <= globalEpoch',
         \A u \in Thread \ {t} : /\ pc'[u] = pc[u] /\ old'[u] = old[u] /\ epoch'[u] = epoch[u]
                                   /\ entryEpoch'[u] = entryEpoch[u] /\ node'[u] = node[u],
         pc'[t] = "retirePush" => epoch'[t] = globalEpoch /\ node'[t] = node[t],
         Dereferences(t)' => /\ old'[t] \in Stacked \/ (Dereferences(t) /\ old'[t] = old[t])
                             /\ entryEpoch'[t] = entryEpoch[t] /\ InSection(t)
  PROVE  Delayed'
<1>ty. /\ epoch \in [Thread -> Nat] /\ entryEpoch \in [Thread -> Nat] /\ globalEpoch \in Nat
       /\ retiredIn \in [Node -> Nat] /\ globalRetire \in [Slot -> SUBSET Node]
  BY DEF DelayInv, StackInv, TypeInv, TypeOK, DomainOK, RetireOK, Slot
<1>1. \A n \in Stacked : /\ n \notin freed /\ \A u \in Thread : n \notin toReclaim[u] /\ node[u] # n
                          /\ \A s \in Slot : n \notin globalRetire[s]
  BY DEF Stacked
<1>2. \A u \in Thread : InSection(u) => entryEpoch[u] <= globalEpoch BY DEF DelayInv, SectionInv, Announced, SectionEntered
<1>3. \A u \in Thread : Dereferences(u)' =>
        /\ entryEpoch'[u] = entryEpoch[u] /\ entryEpoch[u] <= globalEpoch
        /\ old'[u] \in Stacked \/ (Dereferences(u) /\ old'[u] = old[u])
  BY <1>2 DEF Dereferences, InSection
<1>4. \A s \in Slot : \A n \in globalRetire'[s] : retiredIn'[n] % kEBREpochs = s /\ retiredIn'[n] <= globalEpoch'
  <2> SUFFICES ASSUME NEW s \in Slot, NEW n \in globalRetire[s] PROVE retiredIn[n] % kEBREpochs = s /\ retiredIn[n] <= globalEpoch'
    OBVIOUS
  <2>1. retiredIn[n] % kEBREpochs = s /\ retiredIn[n] <= globalEpoch /\ retiredIn[n] \in Nat BY <1>ty DEF DelayInv, Delayed
  <2> QED BY SMTT(30), <1>ty, <2>1
<1>5. \A u \in Thread : pc'[u] = "retirePush" => epoch'[u] <= globalEpoch' BY SMTT(30), <1>ty DEF DelayInv, Delayed
<1>6. \A u, v \in Thread : Dereferences(u)' /\ pc'[v] = "retirePush" /\ node'[v] = old'[u] => epoch'[v] >= entryEpoch'[u]
  BY SMTT(30), <1>ty, <1>1, <1>3 DEF DelayInv, Delayed
<1>7. \A u \in Thread : \A s \in Slot : Dereferences(u)' /\ old'[u] \in globalRetire'[s] => retiredIn'[old'[u]] >= entryEpoch'[u]
  BY <1>1, <1>3 DEF DelayInv, Delayed
<1>8. late' = {} => \A u \in Thread : Dereferences(u)' => old'[u] \notin freed' /\ \A v \in Thread : old'[u] \notin toReclaim'[v]
  BY <1>1, <1>3 DEF DelayInv, Delayed
<1> QED BY <1>4, <1>5, <1>6, <1>7, <1>8 DEF Delayed

\* The slot of epoch e - 1 is neither that of e nor that of e + 1.
LEMMA OldSlotDiffers ==
  ASSUME NEW e \in Nat, NEW r \in Nat, e <= r, r <= e + 1
  PROVE  r % kEBREpochs # OldSlot(e)
<1>1. r = e \/ r = e + 1 BY SMTT(30)
<1>2. e % 3 # (e + 2) % 3 /\ (e + 1) % 3 # (e + 2) % 3 BY SMTT(30)
<1>3. e - 1 + 3 = e + 2 BY SMTT(30)
<1> QED BY <1>1, <1>2, <1>3 DEF OldSlot, kEBREpochs

\* Retirement, the epoch change and reclamation.
LEMMA RetireDelay ==
  ASSUME DelayInv, NEW t \in Thread, retirePush(t) \/ moveSlot(t) \/ reclaim(t)
  PROVE  Delayed'
<1>ty. /\ epoch \in [Thread -> Nat] /\ entryEpoch \in [Thread -> Nat] /\ globalEpoch \in Nat
       /\ retiredIn \in [Node -> Nat] /\ globalRetire \in [Slot -> SUBSET Node] /\ toReclaim \in [Thread -> SUBSET Node]
       /\ node \in [Thread -> Node \cup {Null}] /\ pc \in [Thread -> Label]
  BY DEF DelayInv, StackInv, TypeInv, TypeOK, DomainOK, StackOK, RetireOK, Slot
<1>0. /\ UNCHANGED <<globalEpoch, epoch, entryEpoch, old>> /\ pc'[t] # "retirePush" /\ ~Dereferences(t)'
      /\ \A u \in Thread : u # t => pc'[u] = pc[u]
  BY <1>ty DEF retirePush, moveSlot, reclaim, Goto, domainVars, popVars, historyVars, Dereferences
<1>d. \A u \in Thread : Dereferences(u)' => Dereferences(u) /\ old[u] \in Node /\ u # t
  BY <1>0 DEF Dereferences, DelayInv, StackInv, TypeInv, LocalsOK
<1>1. CASE retirePush(t)
  <2>1. PICK n \in Node, e \in Nat, s \in Slot : n = node[t] /\ e = epoch[t] /\ s = e % kEBREpochs
    <3>1. node[t] \in Node BY <1>1 DEF retirePush, DelayInv, StackInv, TypeInv, LocalsOK
    <3>2. epoch[t] % kEBREpochs \in Slot BY SMTT(30), <1>ty DEF Slot, kEBREpochs
    <3> QED BY <1>ty, <3>1, <3>2
  <2>2. /\ globalRetire' = [globalRetire EXCEPT ![s] = @ \cup {n}] /\ node' = [node EXCEPT ![t] = Null]
        /\ retiredIn' = [retiredIn EXCEPT ![n] = e]
        /\ UNCHANGED <<freed, toReclaim, late>> /\ pc[t] = "retirePush"
    BY <1>1, <2>1 DEF retirePush
  <2>3. \A r \in Slot : globalRetire'[r] = IF r = s THEN globalRetire[r] \cup {n} ELSE globalRetire[r] BY <1>ty, <2>2
  <2>4. \A m \in Node : retiredIn'[m] = IF m = n THEN e ELSE retiredIn[m] BY <1>ty, <2>2
  <2>5. \A r \in Slot : n \notin globalRetire[r] BY <2>1 DEF DelayInv, StackInv, OwnedApart, HeldApart
  <2>6. e <= globalEpoch /\ \A u \in Thread : Dereferences(u) /\ old[u] = n => e >= entryEpoch[u]
    BY <2>1, <2>2 DEF DelayInv, Delayed
  <2>7. \A r \in Slot : \A m \in globalRetire'[r] : retiredIn'[m] % kEBREpochs = r /\ retiredIn'[m] <= globalEpoch'
    <3> SUFFICES ASSUME NEW r \in Slot, NEW m \in globalRetire'[r]
                 PROVE  retiredIn'[m] % kEBREpochs = r /\ retiredIn'[m] <= globalEpoch
      BY <1>0
    <3>1. CASE m = n
      <4>1. r = s BY <2>3, <2>5, <3>1
      <4> QED BY <2>1, <2>4, <2>6, <3>1, <4>1
    <3>2. CASE m # n
      <4>1. m \in globalRetire[r] BY <2>3, <3>2
      <4>2. m \in Node BY <1>ty, <4>1
      <4>3. retiredIn'[m] = retiredIn[m] BY <2>4, <3>2, <4>2
      <4> QED BY <4>1, <4>3 DEF DelayInv, Delayed
    <3> QED BY <3>1, <3>2
  <2>8. \A u \in Thread : pc'[u] = "retirePush" => pc[u] = "retirePush" /\ node'[u] = node[u] BY <1>0, <1>ty, <2>2
  <2>9. \A u \in Thread : \A r \in Slot : Dereferences(u)' /\ old'[u] \in globalRetire'[r] => retiredIn'[old'[u]] >= entryEpoch'[u]
    <3> SUFFICES ASSUME NEW u \in Thread, NEW r \in Slot, Dereferences(u)', old[u] \in globalRetire'[r]
                 PROVE  retiredIn'[old[u]] >= entryEpoch[u]
      BY <1>0
    <3>0. Dereferences(u) /\ old[u] \in Node BY <1>d
    <3>1. CASE old[u] = n BY <2>4, <2>6, <3>0, <3>1
    <3>2. CASE old[u] # n
      <4>1. old[u] \in globalRetire[r] BY <2>3, <3>2
      <4>2. retiredIn'[old[u]] = retiredIn[old[u]] BY <2>4, <3>0, <3>2
      <4> QED BY <3>0, <4>1, <4>2 DEF DelayInv, Delayed
    <3> QED BY <3>1, <3>2
  <2>10. \A u, v \in Thread : Dereferences(u)' /\ pc'[v] = "retirePush" /\ node'[v] = old'[u] => epoch'[v] >= entryEpoch'[u]
    BY <1>0, <1>d, <2>8 DEF DelayInv, Delayed
  <2>11. late' = {} => \A u \in Thread : Dereferences(u)' => old'[u] \notin freed' /\ \A v \in Thread : old'[u] \notin toReclaim'[v]
    BY <1>0, <1>d, <2>2 DEF DelayInv, Delayed
  <2>12. \A u \in Thread : pc'[u] = "retirePush" => epoch'[u] <= globalEpoch' BY <1>0, <2>8 DEF DelayInv, Delayed
  <2> QED BY <2>7, <2>9, <2>10, <2>11, <2>12 DEF Delayed
<1>2. CASE moveSlot(t)
  <2>1. PICK e \in Nat, s \in Slot : e = epoch[t] /\ s = OldSlot(e) BY <1>ty, OldSlotRange DEF Slot
  <2>2. /\ toReclaim' = [toReclaim EXCEPT ![t] = globalRetire[s]] /\ globalRetire' = [globalRetire EXCEPT ![s] = {}]
        /\ UNCHANGED <<node, freed, retiredIn>> /\ late' = IF globalEpoch = e + 1 THEN late ELSE late \cup {t}
    BY <1>2, <2>1 DEF moveSlot, Emptied, popVars
  <2>3. \A u \in Thread : toReclaim'[u] = IF u = t THEN globalRetire[s] ELSE toReclaim[u] BY <1>ty, <2>2
  <2>4. \A r \in Slot : globalRetire'[r] = IF r = s THEN {} ELSE globalRetire[r] BY <1>ty, <2>2
  <2>5. \A u \in Thread : pc'[u] = "retirePush" => pc[u] = "retirePush" BY <1>0
  <2>6. ASSUME late' = {} PROVE late = {} /\ globalEpoch = e + 1 BY <2>2, <2>6
  <2>7. ASSUME late' = {}, NEW u \in Thread, Dereferences(u)' PROVE old[u] \notin globalRetire[s]
    <3> SUFFICES ASSUME old[u] \in globalRetire[s] PROVE FALSE OBVIOUS
    <3>1. PICK r \in Nat : r = retiredIn[old[u]] BY <1>d, <1>ty, <2>7
    <3>2. r % kEBREpochs = s /\ r <= globalEpoch /\ r >= entryEpoch[u] BY <1>d, <2>7, <3>1 DEF DelayInv, Delayed
    <3>3. globalEpoch <= entryEpoch[u] + 1 BY <1>d, <2>7 DEF DelayInv, SectionInv, AtMostOneAdvance, InSection, Dereferences
    <3>4. e <= r /\ r <= e + 1 BY SMTT(30), <1>ty, <2>6, <2>7, <3>2, <3>3
    <3> QED BY <2>1, <3>2, <3>4, OldSlotDiffers
  <2>8. late' = {} => \A u \in Thread : Dereferences(u)' => old'[u] \notin freed' /\ \A v \in Thread : old'[u] \notin toReclaim'[v]
    BY <1>0, <1>d, <2>2, <2>3, <2>6, <2>7 DEF DelayInv, Delayed
  <2>9. \A r \in Slot : \A m \in globalRetire'[r] : retiredIn'[m] % kEBREpochs = r /\ retiredIn'[m] <= globalEpoch'
    BY SMTT(30), <1>0, <2>2, <2>4 DEF DelayInv, Delayed
  <2>10. \A u \in Thread : \A r \in Slot : Dereferences(u)' /\ old'[u] \in globalRetire'[r] => retiredIn'[old'[u]] >= entryEpoch'[u]
    BY SMTT(30), <1>0, <1>d, <2>2, <2>4 DEF DelayInv, Delayed
  <2>11. /\ \A u, v \in Thread : Dereferences(u)' /\ pc'[v] = "retirePush" /\ node'[v] = old'[u] => epoch'[v] >= entryEpoch'[u]
         /\ \A u \in Thread : pc'[u] = "retirePush" => epoch'[u] <= globalEpoch'
    BY <1>0, <1>d, <2>2, <2>5 DEF DelayInv, Delayed
  <2> QED BY <2>8, <2>9, <2>10, <2>11 DEF Delayed
<1>3. CASE reclaim(t)
  <2>2. /\ toReclaim' = [toReclaim EXCEPT ![t] = {}] /\ freed' = freed \cup toReclaim[t]
        /\ UNCHANGED <<node, globalRetire, late, retiredIn>>
    BY <1>3 DEF reclaim, popVars, domainVars, historyVars
  <2>3. \A u \in Thread : toReclaim'[u] = IF u = t THEN {} ELSE toReclaim[u] BY <1>ty, <2>2
  <2>5. \A u \in Thread : pc'[u] = "retirePush" => pc[u] = "retirePush" BY <1>0
  <2>8. late' = {} => \A u \in Thread : Dereferences(u)' => old'[u] \notin freed' /\ \A v \in Thread : old'[u] \notin toReclaim'[v]
    BY <1>0, <1>d, <2>2, <2>3 DEF DelayInv, Delayed
  <2>9. /\ \A r \in Slot : \A m \in globalRetire'[r] : retiredIn'[m] % kEBREpochs = r /\ retiredIn'[m] <= globalEpoch'
        /\ \A u \in Thread : \A r \in Slot : Dereferences(u)' /\ old'[u] \in globalRetire'[r] => retiredIn'[old'[u]] >= entryEpoch'[u]
    BY <1>0, <1>d, <2>2 DEF DelayInv, Delayed
  <2>11. /\ \A u, v \in Thread : Dereferences(u)' /\ pc'[v] = "retirePush" /\ node'[v] = old'[u] => epoch'[v] >= entryEpoch'[u]
         /\ \A u \in Thread : pc'[u] = "retirePush" => epoch'[u] <= globalEpoch'
    BY <1>0, <1>d, <2>2, <2>5 DEF DelayInv, Delayed
  <2> QED BY <2>8, <2>9, <2>11 DEF Delayed
<1> QED BY <1>1, <1>2, <1>3

\* Every step of registered threads preserves DelayInv.
LEMMA StepDelay ==
  ASSUME DelayInv, NEW t \in Thread, PoolStep(t)
  PROVE  DelayInv'
<1>1. SectionInv' /\ StackInv' BY StepSection, StepStack DEF DelayInv, Step
<1> SUFFICES Delayed' BY <1>1 DEF DelayInv
<1>ty. /\ pc \in [Thread -> Label] /\ old \in [Thread -> Node \cup {Null}] /\ node \in [Thread -> Node \cup {Null}]
       /\ epoch \in [Thread -> Nat] /\ entryEpoch \in [Thread -> Nat] /\ globalEpoch \in Nat
  BY DEF DelayInv, StackInv, TypeInv, TypeOK, StackOK, DomainOK
<1>hd. head # Null => head \in Stacked BY HeadStacked DEF DelayInv
<1> USE DEF Goto, HeadRecord, domainVars, recordVars, stackVars, popVars, historyVars
<1>2. CASE pushLoad(t) BY SMTT(30), <1>2, <1>ty, QuietDelay DEF pushLoad, Dereferences
<1>3. CASE pushCas(t) BY SMTT(30), <1>3, <1>ty, QuietDelay DEF pushCas, Dereferences
<1>4. CASE popStart(t) BY SMTT(30), <1>4, <1>ty, QuietDelay DEF popStart, Dereferences
<1>5. CASE enterLoad(t) BY SMTT(30), <1>5, <1>ty, QuietDelay DEF enterLoad, Dereferences
<1>6. CASE enterLocal(t) BY SMTT(30), <1>6, <1>ty, QuietDelay DEF enterLocal, Dereferences
<1>7. CASE enterActive(t) BY SMTT(30), <1>7, <1>ty, QuietDelay DEF enterActive, Dereferences
<1>8. CASE popLoad(t) BY SMTT(30), <1>8, <1>ty, <1>hd, QuietDelay DEF popLoad, Dereferences, InSection
<1>9. CASE popNext(t) BY SMTT(30), <1>9, <1>ty, QuietDelay DEF popNext, Dereferences, InSection
<1>10. CASE popCas(t) BY SMTT(30), <1>10, <1>ty, <1>hd, QuietDelay DEF popCas, Dereferences, InSection
<1>11. CASE exit(t) BY SMTT(30), <1>11, <1>ty, QuietDelay DEF exit, Dereferences
<1>12. CASE retireLoad(t) BY SMTT(30), <1>12, <1>ty, QuietDelay DEF retireLoad, Dereferences
<1>13. CASE advanceLoad(t) BY SMTT(30), <1>13, <1>ty, QuietDelay DEF advanceLoad, Dereferences
<1>14. CASE scanActive(t) BY SMTT(30), <1>14, <1>ty, QuietDelay DEF scanActive, Dereferences
<1>15. CASE scanLocal(t) BY SMTT(30), <1>15, <1>ty, QuietDelay DEF scanLocal, Dereferences
<1>16. CASE advanceCas(t) BY SMTT(30), <1>16, <1>ty, QuietDelay DEF advanceCas, Dereferences
<1> HIDE DEF Goto, HeadRecord, domainVars, recordVars, stackVars, popVars, historyVars
<1> QED
  BY SMTT(30), <1>2, <1>3, <1>4, <1>5, <1>6, <1>7, <1>8, <1>9, <1>10, <1>11, <1>12, <1>13, <1>14, <1>15, <1>16, RetireDelay DEF PoolStep

\* For any threads that are registered from the start: a node that a pop still
\* dereferences is not freed, as long as every thread moves the old slot out
\* before the epoch it has set advances again.
THEOREM ReferencesProtectedUnlessLate == PoolSpec => []ProtectedUnlessLate
<1>1. PoolInit => DelayInv
  <2> SUFFICES ASSUME PoolInit PROVE Delayed BY PoolInitSection, StackInvInit DEF DelayInv
  <2> QED BY DEF PoolInit, Empty, Locals, Delayed, Dereferences, Slot
<1>2. DelayInv /\ [PoolNext]_vars => DelayInv'
  <2>1. CASE PoolNext BY <2>1, StepDelay DEF PoolNext
  <2>2. ASSUME DelayInv, UNCHANGED vars PROVE DelayInv'
    <3>1. SectionInv'
      BY <2>2 DEF DelayInv, SectionInv, TypeInv, TypeOK, DomainOK, StackOK, RetireOK, LocalsOK, Dereferences, Announced,
         OwnRecord, LocalNotAhead, ReadNotAhead, SectionActive, SectionEntered, ScanBehind,
         AtMostOneAdvance, InSection, vars, domainVars, recordVars, stackVars, popVars, historyVars
    <3>2. StackInv' BY <2>2, StackUnchanged DEF DelayInv
    <3>3. Delayed' BY <2>2 DEF DelayInv, Delayed, Dereferences, vars, domainVars, popVars, historyVars
    <3> QED BY <3>1, <3>2, <3>3 DEF DelayInv
  <2> QED BY <2>1, <2>2
<1>3. DelayInv => ProtectedUnlessLate BY DEF DelayInv, Delayed, ProtectedUnlessLate, ReferencesProtected
<1> QED BY <1>1, <1>2, <1>3, PTL DEF PoolSpec
=============================================================================
