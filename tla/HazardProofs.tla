---------------------------- MODULE HazardProofs ----------------------------
(* Theorems about hazard pointers and the stack and the queue that use     *)
(* them, for any number of threads and nodes.                              *)
EXTENDS HazardStack, MsQueue, ListProofs

\* Leaves are proved by Zenon; the others cite the prover that finds them.
USE ZenonT(30)

-----------------------------------------------------------------------------
(* Nodes and their owners.  A node is unused, held by a thread (mine),     *)
(* retired, in the hands of a scan (proc), or else in the structure.       *)

\* What the owners hold.
OwnTyped(mine, unused, retire, proc) ==
  /\ mine \in [HpThread -> Pointer] /\ unused \subseteq HpNode /\ retire \subseteq HpNode
  /\ proc \in [HpThread -> SUBSET HpNode]
\* No node has two owners.
OwnApart(mine, unused, retire, proc) ==
  /\ OwnTyped(mine, unused, retire, proc)
  /\ \A t \in HpThread : mine[t] # NoNode =>
       /\ mine[t] \notin unused /\ mine[t] \notin retire
       /\ \A u \in HpThread : mine[t] \notin proc[u] /\ (mine[u] = mine[t] => u = t)
  /\ \A n \in retire : n \notin unused /\ \A u \in HpThread : n \notin proc[u]
  /\ \A t \in HpThread : \A n \in proc[t] : n \notin unused /\ \A u \in HpThread : n \in proc[u] => u = t
\* The nodes without an owner, those of the structure.
Rest(mine, unused, retire, proc) ==
  {n \in HpNode : n \notin unused /\ n \notin retire /\ \A t \in HpThread : mine[t] # n /\ n \notin proc[t]}

\* m is mine, but for t, which now holds p.
NowHolds(m, mine, t, p) ==
  m \in [HpThread -> Pointer] /\ \A u \in HpThread : m[u] = IF u = t THEN p ELSE mine[u]

\* An unused node is allocated: it does not enter the structure.
LEMMA OwnAlloc ==
  ASSUME NEW mine, NEW unused, NEW retire, NEW proc, OwnApart(mine, unused, retire, proc),
         NEW t \in HpThread, mine[t] = NoNode, NEW n \in unused, NEW m, NowHolds(m, mine, t, n)
  PROVE  /\ OwnApart(m, unused \ {n}, retire, proc)
         /\ Rest(m, unused \ {n}, retire, proc) = Rest(mine, unused, retire, proc)
<1>1. OwnTyped(m, unused \ {n}, retire, proc) BY DEF NowHolds, OwnApart, OwnTyped, Pointer
<1>2. \A u \in HpThread : m[u] = IF u = t THEN n ELSE mine[u] BY DEF NowHolds
<1>3. OwnApart(m, unused \ {n}, retire, proc) BY SMTT(30), <1>1, <1>2 DEF OwnApart
<1>4. \A k \in HpNode : k \in Rest(m, unused \ {n}, retire, proc) <=> k \in Rest(mine, unused, retire, proc)
  BY <1>2, HazardAssumption DEF Rest
<1>5. Rest(m, unused \ {n}, retire, proc) \subseteq HpNode /\ Rest(mine, unused, retire, proc) \subseteq HpNode BY DEF Rest
<1>6. Rest(m, unused \ {n}, retire, proc) = Rest(mine, unused, retire, proc) BY <1>4, <1>5
<1> QED BY <1>3, <1>6

\* The node that t holds enters the structure.
LEMMA OwnPublish ==
  ASSUME NEW mine, NEW unused, NEW retire, NEW proc, OwnApart(mine, unused, retire, proc),
         NEW t \in HpThread, mine[t] # NoNode, NEW m, NowHolds(m, mine, t, NoNode)
  PROVE  /\ OwnApart(m, unused, retire, proc)
         /\ Rest(m, unused, retire, proc) = Rest(mine, unused, retire, proc) \cup {mine[t]}
<1>1. OwnTyped(m, unused, retire, proc) /\ mine[t] \in HpNode BY DEF NowHolds, OwnApart, OwnTyped, Pointer
<1>2. \A u \in HpThread : m[u] = IF u = t THEN NoNode ELSE mine[u] BY DEF NowHolds
<1>3. OwnApart(m, unused, retire, proc) BY <1>1, <1>2 DEF OwnApart
<1>4. \A k \in HpNode : k \in Rest(m, unused, retire, proc) <=> k \in Rest(mine, unused, retire, proc) \/ k = mine[t]
  BY <1>2, HazardAssumption DEF Rest, OwnApart
<1>5. Rest(m, unused, retire, proc) \subseteq HpNode /\ Rest(mine, unused, retire, proc) \subseteq HpNode BY DEF Rest
<1>6. Rest(m, unused, retire, proc) = Rest(mine, unused, retire, proc) \cup {mine[t]} BY <1>1, <1>4, <1>5
<1> QED BY <1>3, <1>6

\* A node of the structure becomes t's.
LEMMA OwnTake ==
  ASSUME NEW mine, NEW unused, NEW retire, NEW proc, OwnApart(mine, unused, retire, proc),
         NEW t \in HpThread, mine[t] = NoNode, NEW n \in Rest(mine, unused, retire, proc), NEW m, NowHolds(m, mine, t, n)
  PROVE  /\ OwnApart(m, unused, retire, proc)
         /\ Rest(m, unused, retire, proc) = Rest(mine, unused, retire, proc) \ {n}
<1>0. n \in HpNode /\ n \notin unused /\ n \notin retire /\ \A u \in HpThread : mine[u] # n /\ n \notin proc[u] BY DEF Rest
<1>1. OwnTyped(m, unused, retire, proc) BY <1>0 DEF NowHolds, OwnApart, OwnTyped, Pointer
<1>2. \A u \in HpThread : m[u] = IF u = t THEN n ELSE mine[u] BY DEF NowHolds
<1>3. OwnApart(m, unused, retire, proc) BY <1>0, <1>1, <1>2 DEF OwnApart
<1>4. \A k \in HpNode : k \in Rest(m, unused, retire, proc) <=> k \in Rest(mine, unused, retire, proc) /\ k # n
  BY <1>2, HazardAssumption DEF Rest
<1>5. Rest(m, unused, retire, proc) \subseteq HpNode /\ Rest(mine, unused, retire, proc) \subseteq HpNode BY DEF Rest
<1>6. Rest(m, unused, retire, proc) = Rest(mine, unused, retire, proc) \ {n} BY <1>4, <1>5
<1> QED BY <1>3, <1>6

\* The node that t holds is retired.
LEMMA OwnRetire ==
  ASSUME NEW mine, NEW unused, NEW retire, NEW proc, OwnApart(mine, unused, retire, proc),
         NEW t \in HpThread, mine[t] # NoNode, NEW m, NowHolds(m, mine, t, NoNode)
  PROVE  /\ OwnApart(m, unused, retire \cup {mine[t]}, proc)
         /\ Rest(m, unused, retire \cup {mine[t]}, proc) = Rest(mine, unused, retire, proc)
<1> DEFINE r == retire \cup {mine[t]}
<1>1. OwnTyped(m, unused, r, proc) /\ mine[t] \in HpNode BY SMTT(30) DEF NowHolds, OwnApart, OwnTyped, Pointer
<1>2. \A u \in HpThread : m[u] = IF u = t THEN NoNode ELSE mine[u] BY DEF NowHolds
<1>a. \A k : k \in r <=> k \in retire \/ k = mine[t] OBVIOUS
<1> HIDE DEF r
<1>3. OwnApart(m, unused, r, proc) BY SMTT(30), <1>1, <1>2, <1>a DEF OwnApart
<1>4. \A k \in HpNode : k \in Rest(m, unused, r, proc) <=> k \in Rest(mine, unused, retire, proc)
  BY <1>2, <1>a, HazardAssumption DEF Rest, OwnApart
<1>5. Rest(m, unused, r, proc) \subseteq HpNode /\ Rest(mine, unused, retire, proc) \subseteq HpNode BY DEF Rest
<1>6. Rest(m, unused, r, proc) = Rest(mine, unused, retire, proc) BY <1>4, <1>5
<1> QED BY <1>3, <1>6 DEF r

\* What to_process becomes when thread t takes the retired list, and what the
\* three sets become when it has sorted it by the hazards h it has read.
Taken(p, proc, t, retire) == p = [proc EXCEPT ![t] = retire]
Sorted(x, r, p, unused, retire, proc, t, h) ==
  /\ p = [proc EXCEPT ![t] = {}]
  /\ x = unused \cup (proc[t] \ h)
  /\ r = retire \cup (proc[t] \cap h)

\* A scan takes the retired list.
LEMMA OwnScanTake ==
  ASSUME NEW mine, NEW unused, NEW retire, NEW proc, OwnApart(mine, unused, retire, proc),
         NEW t \in HpThread, proc[t] = {}, NEW p, Taken(p, proc, t, retire)
  PROVE  OwnApart(mine, unused, {}, p) /\ Rest(mine, unused, {}, p) = Rest(mine, unused, retire, proc)
<1>1. OwnTyped(mine, unused, {}, p) BY DEF OwnApart, OwnTyped, Taken
<1>2. \A u \in HpThread : p[u] = IF u = t THEN retire ELSE proc[u] BY DEF OwnApart, OwnTyped, Taken
<1>3. OwnApart(mine, unused, {}, p) BY <1>1, <1>2 DEF OwnApart
<1>4. \A k \in HpNode : k \in Rest(mine, unused, {}, p) <=> k \in Rest(mine, unused, retire, proc)
  BY <1>2 DEF Rest
<1>5. Rest(mine, unused, {}, p) \subseteq HpNode /\ Rest(mine, unused, retire, proc) \subseteq HpNode BY DEF Rest
<1>6. Rest(mine, unused, {}, p) = Rest(mine, unused, retire, proc) BY <1>4, <1>5
<1> QED BY <1>3, <1>6

\* A scan frees what no hazard names and puts the rest back.
LEMMA OwnScanFree ==
  ASSUME NEW mine, NEW unused, NEW retire, NEW proc, OwnApart(mine, unused, retire, proc), NEW t \in HpThread, NEW h,
         NEW x, NEW r, NEW p, Sorted(x, r, p, unused, retire, proc, t, h)
  PROVE  OwnApart(mine, x, r, p) /\ Rest(mine, x, r, p) = Rest(mine, unused, retire, proc)
<1>1. OwnTyped(mine, x, r, p) BY DEF OwnApart, OwnTyped, Sorted
<1>2. \A u \in HpThread : p[u] = IF u = t THEN {} ELSE proc[u] BY DEF OwnApart, OwnTyped, Sorted
<1>a. \A k : (k \in x <=> k \in unused \/ (k \in proc[t] /\ k \notin h)) /\ (k \in r <=> k \in retire \/ (k \in proc[t] /\ k \in h))
  BY DEF Sorted
<1>b. \A k \in r : k \notin x /\ \A u \in HpThread : k \notin p[u] BY <1>2, <1>a DEF OwnApart
<1>c. \A u \in HpThread : \A k \in p[u] : k \notin x /\ \A v \in HpThread : k \in p[v] => v = u BY <1>2, <1>a DEF OwnApart
<1>d. \A u \in HpThread : mine[u] # NoNode =>
       /\ mine[u] \notin x /\ mine[u] \notin r
       /\ \A v \in HpThread : mine[u] \notin p[v] /\ (mine[v] = mine[u] => v = u)
  BY <1>2, <1>a DEF OwnApart
<1>3. OwnApart(mine, x, r, p) BY <1>1, <1>b, <1>c, <1>d DEF OwnApart
<1>4. \A k \in HpNode : k \in Rest(mine, x, r, p) <=> k \in Rest(mine, unused, retire, proc)
  BY <1>2, <1>a DEF Rest
<1>5. Rest(mine, x, r, p) \subseteq HpNode /\ Rest(mine, unused, retire, proc) \subseteq HpNode BY DEF Rest
<1>6. Rest(mine, x, r, p) = Rest(mine, unused, retire, proc) BY <1>4, <1>5
<1> QED BY <1>3, <1>6

-----------------------------------------------------------------------------
(* The domain.                                                             *)

\* The labels of the domain, of the stack and of the queue.
HpLabel ==
  {"idle", "scan", "scanSlot", "scanFree",
   "hsPush", "hsLoad", "hsProtect", "hsValidate", "hsNext", "hsPop", "hsRetire",
   "enqLoad", "enqProtect", "enqValidate", "enqNext", "enqRecheck", "enqLink", "enqSwing", "enqHelp",
   "deqLoad", "deqProtect", "deqValidate", "deqNext", "deqProtectNext", "deqValidateNext", "deqCheck",
   "deqTail", "deqHelp", "deqCopy", "deqCas", "deqRetire"}
\* What the variables of the domain hold.
HpTypeOK ==
  /\ hpRecords \in Seq(HpThread) /\ hpSlots \in [HpThread -> [HpSlot -> Pointer]]
  /\ hpRetire \subseteq HpNode /\ hpUnused \subseteq HpNode /\ hpPc \in [HpThread -> HpLabel]
  /\ hpToProcess \in [HpThread -> SUBSET HpNode] /\ hpHazards \in [HpThread -> SUBSET HpNode]
  /\ hpCursor \in [HpThread -> Nat \X HpSlot]
\* Only a scan has nodes in hand, and its cursor is at a record.
HpScans ==
  \A u \in HpThread :
    /\ hpToProcess[u] # {} => hpPc[u] \in {"scanSlot", "scanFree"}
    /\ hpPc[u] = "scanSlot" => hpCursor[u][1] \in 1..Len(hpRecords)
    /\ hpPc[u] = "scan" => HpRegistered(u)
\* What the domain keeps whatever the structure does.
HpInv == HpTypeOK /\ HpScans

\* The scan of u has still to read slot i of a record of t.
Ahead(u, t, i) ==
  /\ hpPc[u] = "scanSlot"
  /\ \E r \in 1..Len(hpRecords) :
       hpRecords[r] = t /\ (r < hpCursor[u][1] \/ (r = hpCursor[u][1] /\ hpCursor[u][2] <= i))
\* Slot i of t holds n, and every scan that may free n has seen or will see it.
Guards(t, i, n) ==
  /\ HpRegistered(t) /\ hpSlots[t][i] = n
  /\ \A u \in HpThread : n \in hpToProcess[u] => n \in hpHazards[u] \/ Ahead(u, t, i)

\* Registration and the steps of a scan but the last.
LEMMA HazardStepInv ==
  ASSUME HpInv, NEW t \in HpThread, HazardStep(t)
  PROVE  HpInv' /\ hpSlots' = hpSlots /\ hpUnused' = hpUnused
<1>1. hpRecords \in Seq(HpThread) /\ Len(hpRecords) \in Nat BY SMTT(30) DEF HpInv, HpTypeOK
<1>2. CASE HpRegister(t)
  <2>1. hpRecords' \in Seq(HpThread) /\ Len(hpRecords') = Len(hpRecords) + 1 /\ \A i \in 1..Len(hpRecords) : hpRecords'[i] = hpRecords[i]
    BY SMTT(30), <1>1, <1>2, AppendOf DEF HpRegister
  <2>2. HpTypeOK' BY <1>2, <2>1 DEF HpRegister, HpInv, HpTypeOK, hpScan
  <2>3. HpScans'
    <3>1. 1..Len(hpRecords) \subseteq 1..Len(hpRecords') BY SMTT(30), <1>1, <2>1
    <3>2. \A u \in HpThread : HpRegistered(u) => HpRegistered(u)' BY <2>1, <3>1 DEF HpRegistered
    <3> QED BY <1>2, <3>1, <3>2 DEF HpRegister, HpInv, HpScans, hpScan
  <2> QED BY <1>2, <2>2, <2>3 DEF HpRegister, HpInv
<1>3. CASE ScanTake(t)
  <2>1. hpPc[t] = "scan" /\ UNCHANGED <<hpRecords, hpSlots, hpHazards, hpUnused>> BY <1>3 DEF ScanTake
  <2>2. Len(hpRecords) \in 1..Len(hpRecords) BY SMTT(30), <1>1, <2>1 DEF HpInv, HpScans, HpRegistered
  <2>3. /\ hpToProcess' = [hpToProcess EXCEPT ![t] = hpRetire] /\ hpCursor' = [hpCursor EXCEPT ![t] = <<Len(hpRecords), 0>>]
        /\ hpRetire' = {} /\ hpPc' = [hpPc EXCEPT ![t] = IF hpRetire = {} THEN "idle" ELSE "scanSlot"]
    BY <1>3 DEF ScanTake, HpGoto
  <2>4. <<Len(hpRecords), 0>> \in Nat \X HpSlot BY <1>1 DEF HpSlot
  <2>a. hpCursor' \in [HpThread -> Nat \X HpSlot]
    <3>1. PICK c \in Nat \X HpSlot : c = <<Len(hpRecords), 0>> BY <2>4
    <3> QED BY <2>3, <3>1 DEF HpInv, HpTypeOK
  <2>b. hpPc' \in [HpThread -> HpLabel]
    <3>1. (IF hpRetire = {} THEN "idle" ELSE "scanSlot") \in HpLabel BY DEF HpLabel
    <3>2. PICK l \in HpLabel : l = IF hpRetire = {} THEN "idle" ELSE "scanSlot" BY <3>1
    <3> QED BY <2>3, <3>2 DEF HpInv, HpTypeOK
  <2>c. hpToProcess' \in [HpThread -> SUBSET HpNode] BY <2>3 DEF HpInv, HpTypeOK
  <2>5. HpTypeOK' BY <2>1, <2>3, <2>a, <2>b, <2>c DEF HpInv, HpTypeOK
  <2>6. \A u \in HpThread : u # t => hpPc'[u] = hpPc[u] /\ hpToProcess'[u] = hpToProcess[u] /\ hpCursor'[u] = hpCursor[u]
    BY <2>3 DEF HpInv, HpTypeOK
  <2>7. hpToProcess'[t] = hpRetire /\ hpCursor'[t] = <<Len(hpRecords), 0>> /\ hpPc'[t] = IF hpRetire = {} THEN "idle" ELSE "scanSlot"
    BY <2>3 DEF HpInv, HpTypeOK
  <2>8. \A u \in HpThread : HpRegistered(u)' = HpRegistered(u) BY <2>1 DEF HpRegistered
  <2>9. HpScans' BY SMTT(30), <2>1, <2>2, <2>6, <2>7, <2>8 DEF HpInv, HpScans
  <2> QED BY <2>1, <2>5, <2>9 DEF HpInv
<1>4. CASE ScanSlot(t)
  <2>1. PICK r \in 1..Len(hpRecords), i \in HpSlot : r = hpCursor[t][1] /\ i = hpCursor[t][2]
    BY <1>4 DEF ScanSlot, HpInv, HpTypeOK, HpScans
  <2>2. /\ hpHazards' = [hpHazards EXCEPT ![t] = @ \cup ({hpSlots[hpRecords[r]][i]} \ {NoNode})]
        /\ hpCursor' = [hpCursor EXCEPT ![t] = IF i + 1 \in HpSlot THEN <<r, i + 1>> ELSE <<r - 1, 0>>]
        /\ hpPc' = [hpPc EXCEPT ![t] = IF i + 1 \notin HpSlot /\ r = 1 THEN "scanFree" ELSE "scanSlot"]
        /\ UNCHANGED <<hpRecords, hpSlots, hpRetire, hpToProcess, hpUnused>> /\ hpPc[t] = "scanSlot"
    BY <1>4, <2>1 DEF ScanSlot, HpGoto
  <2>3. hpSlots[hpRecords[r]][i] \in Pointer BY SMTT(30), <1>1 DEF HpInv, HpTypeOK
  <2>4. hpHazards' \in [HpThread -> SUBSET HpNode] BY <2>2, <2>3 DEF HpInv, HpTypeOK, Pointer
  <2>5. r \in Nat /\ r - 1 \in Nat /\ (i + 1 \notin HpSlot /\ r # 1 => r - 1 \in 1..Len(hpRecords)) BY SMTT(30), <1>1
  <2>6. hpCursor' \in [HpThread -> Nat \X HpSlot]
    <3>1. (IF i + 1 \in HpSlot THEN <<r, i + 1>> ELSE <<r - 1, 0>>) \in Nat \X HpSlot BY <2>5 DEF HpSlot
    <3>2. PICK c \in Nat \X HpSlot : c = IF i + 1 \in HpSlot THEN <<r, i + 1>> ELSE <<r - 1, 0>> BY <3>1
    <3> QED BY <2>2, <3>2 DEF HpInv, HpTypeOK
  <2>b. hpPc' \in [HpThread -> HpLabel]
    <3>1. (IF i + 1 \notin HpSlot /\ r = 1 THEN "scanFree" ELSE "scanSlot") \in HpLabel BY DEF HpLabel
    <3>2. PICK l \in HpLabel : l = IF i + 1 \notin HpSlot /\ r = 1 THEN "scanFree" ELSE "scanSlot" BY <3>1
    <3> QED BY <2>2, <3>2 DEF HpInv, HpTypeOK
  <2>7. HpTypeOK' BY <2>2, <2>4, <2>6, <2>b DEF HpInv, HpTypeOK
  <2>8. \A u \in HpThread : u # t => hpPc'[u] = hpPc[u] /\ hpCursor'[u] = hpCursor[u] BY <2>2 DEF HpInv, HpTypeOK
  <2>9. /\ hpPc'[t] \in {"scanSlot", "scanFree"} /\ (hpPc'[t] = "scanSlot" => ~(i + 1 \notin HpSlot /\ r = 1))
        /\ hpCursor'[t] = IF i + 1 \in HpSlot THEN <<r, i + 1>> ELSE <<r - 1, 0>>
    BY <2>2 DEF HpInv, HpTypeOK
  <2>10. \A u \in HpThread : HpRegistered(u)' = HpRegistered(u) BY <2>2 DEF HpRegistered
  <2>11. HpScans' BY SMTT(30), <2>2, <2>5, <2>8, <2>9, <2>10 DEF HpInv, HpScans
  <2> QED BY <2>2, <2>7, <2>11 DEF HpInv
<1> QED BY <1>2, <1>3, <1>4 DEF HazardStep

\* A published and validated slot keeps guarding its node through the domain's own steps.
LEMMA GuardHazardStep ==
  ASSUME HpInv, NEW t \in HpThread, HazardStep(t), NEW q \in HpThread, NEW i \in HpSlot, NEW n \in HpNode, Guards(q, i, n)
  PROVE  Guards(q, i, n)'
<1>1. hpRecords \in Seq(HpThread) /\ Len(hpRecords) \in Nat BY SMTT(30) DEF HpInv, HpTypeOK
<1>2. CASE HpRegister(t)
  <2>1. hpRecords' \in Seq(HpThread) /\ Len(hpRecords') = Len(hpRecords) + 1 /\ \A k \in 1..Len(hpRecords) : hpRecords'[k] = hpRecords[k]
    BY SMTT(30), <1>1, <1>2, AppendOf DEF HpRegister
  <2>2. 1..Len(hpRecords) \subseteq 1..Len(hpRecords') BY SMTT(30), <1>1, <2>1
  <2>3. HpRegistered(q)' BY <2>1, <2>2 DEF HpRegistered, Guards
  <2>4. UNCHANGED <<hpToProcess, hpHazards, hpCursor, hpPc, hpSlots>> BY <1>2 DEF HpRegister, hpScan
  <2>5. \A u \in HpThread : Ahead(u, q, i) => Ahead(u, q, i)' BY <2>1, <2>2, <2>4 DEF Ahead
  <2> QED BY <2>3, <2>4, <2>5 DEF Guards
<1>3. CASE ScanTake(t)
  <2>1. hpPc[t] = "scan" /\ UNCHANGED <<hpRecords, hpSlots, hpHazards, hpUnused>> BY <1>3 DEF ScanTake
  <2>2. /\ hpToProcess' = [hpToProcess EXCEPT ![t] = hpRetire] /\ hpCursor' = [hpCursor EXCEPT ![t] = <<Len(hpRecords), 0>>]
        /\ hpPc' = [hpPc EXCEPT ![t] = IF hpRetire = {} THEN "idle" ELSE "scanSlot"]
    BY <1>3 DEF ScanTake, HpGoto
  <2>3. \A u \in HpThread : u # t => hpPc'[u] = hpPc[u] /\ hpToProcess'[u] = hpToProcess[u] /\ hpCursor'[u] = hpCursor[u]
    BY <2>2 DEF HpInv, HpTypeOK
  <2>4. hpToProcess'[t] = hpRetire /\ hpCursor'[t] = <<Len(hpRecords), 0>> /\ hpPc'[t] = IF hpRetire = {} THEN "idle" ELSE "scanSlot"
    BY <2>2 DEF HpInv, HpTypeOK
  <2>5. HpRegistered(q)' BY <2>1 DEF HpRegistered, Guards
  <2>6. n \in hpRetire => Ahead(t, q, i)'
    <3>1. PICK r \in 1..Len(hpRecords) : hpRecords[r] = q BY DEF Guards, HpRegistered
    <3>2. r < Len(hpRecords) \/ (r = Len(hpRecords) /\ 0 <= i) BY SMTT(30), <1>1 DEF HpSlot
    <3> QED BY SMTT(30), <2>1, <2>4, <3>1, <3>2 DEF Ahead
  <2>7. \A u \in HpThread : u # t /\ Ahead(u, q, i) => Ahead(u, q, i)' BY <2>1, <2>3 DEF Ahead
  <2> QED BY <2>1, <2>3, <2>4, <2>5, <2>6, <2>7 DEF Guards
<1>4. CASE ScanSlot(t)
  <2>1. PICK r \in 1..Len(hpRecords), k \in HpSlot : r = hpCursor[t][1] /\ k = hpCursor[t][2]
    BY <1>4 DEF ScanSlot, HpInv, HpTypeOK, HpScans
  <2>2. /\ hpHazards' = [hpHazards EXCEPT ![t] = @ \cup ({hpSlots[hpRecords[r]][k]} \ {NoNode})]
        /\ hpCursor' = [hpCursor EXCEPT ![t] = IF k + 1 \in HpSlot THEN <<r, k + 1>> ELSE <<r - 1, 0>>]
        /\ hpPc' = [hpPc EXCEPT ![t] = IF k + 1 \notin HpSlot /\ r = 1 THEN "scanFree" ELSE "scanSlot"]
        /\ UNCHANGED <<hpRecords, hpSlots, hpRetire, hpToProcess, hpUnused>> /\ hpPc[t] = "scanSlot"
    BY <1>4, <2>1 DEF ScanSlot, HpGoto
  <2>3. \A u \in HpThread : u # t => hpPc'[u] = hpPc[u] /\ hpCursor'[u] = hpCursor[u] /\ hpHazards'[u] = hpHazards[u]
    BY <2>2 DEF HpInv, HpTypeOK
  <2>4. /\ hpPc'[t] = IF k + 1 \notin HpSlot /\ r = 1 THEN "scanFree" ELSE "scanSlot"
        /\ hpCursor'[t] = IF k + 1 \in HpSlot THEN <<r, k + 1>> ELSE <<r - 1, 0>>
        /\ hpHazards'[t] = hpHazards[t] \cup ({hpSlots[hpRecords[r]][k]} \ {NoNode})
    BY <2>2 DEF HpInv, HpTypeOK
  <2>5. HpRegistered(q)' BY <2>2 DEF HpRegistered, Guards
  <2>6. \A u \in HpThread : u # t /\ Ahead(u, q, i) => Ahead(u, q, i)' BY <2>2, <2>3 DEF Ahead
  <2>7. Ahead(t, q, i) => n \in hpHazards'[t] \/ Ahead(t, q, i)'
    <3> SUFFICES ASSUME Ahead(t, q, i) PROVE n \in hpHazards'[t] \/ Ahead(t, q, i)' OBVIOUS
    <3>1. PICK s \in 1..Len(hpRecords) : hpRecords[s] = q /\ (s < r \/ (s = r /\ k <= i)) BY <2>1 DEF Ahead
    <3>2. CASE s = r /\ k = i BY <2>4, <3>1, <3>2, HazardAssumption DEF Guards
    <3>3. CASE s = r /\ k < i
      <4>1. k = 0 /\ i = 1 BY SMTT(30), <3>3 DEF HpSlot
      <4>2. k + 1 = i BY SMTT(30), <4>1
      <4>3. hpPc'[t] = "scanSlot" /\ hpCursor'[t] = <<r, i>> BY <2>4, <4>2
      <4>4. i <= i BY SMTT(30) DEF HpSlot
      <4> QED BY SMTT(30), <2>2, <3>1, <3>3, <4>3, <4>4 DEF Ahead
    <3>4. CASE s < r
      <4>1. r # 1 /\ s \in Nat /\ (s < r - 1 \/ s = r - 1) /\ 0 <= i BY SMTT(30), <1>1, <3>4 DEF HpSlot
      <4>2. hpPc'[t] = "scanSlot" /\ (hpCursor'[t] = <<r, k + 1>> \/ hpCursor'[t] = <<r - 1, 0>>) BY <2>4, <4>1
      <4> QED BY SMTT(30), <2>2, <3>1, <3>4, <4>1, <4>2 DEF Ahead
    <3>5. s \in Nat /\ r \in Nat /\ (k <= i => k = i \/ k < i) BY SMTT(30), <1>1 DEF HpSlot
    <3> QED BY <3>1, <3>2, <3>3, <3>4, <3>5
  <2> QED BY <2>2, <2>3, <2>4, <2>5, <2>6, <2>7 DEF Guards
<1> QED BY <1>2, <1>3, <1>4 DEF HazardStep

\* ScanFree frees no guarded node, and leaves every guard standing.
LEMMA GuardScanFree ==
  ASSUME HpInv, NEW t \in HpThread, ScanFree(t), NEW q \in HpThread, NEW i \in HpSlot, NEW n \in HpNode, Guards(q, i, n)
  PROVE  Guards(q, i, n)' /\ (n \notin hpUnused => n \notin hpUnused')
<1>1. /\ hpPc[t] = "scanFree" /\ hpUnused' = hpUnused \cup (hpToProcess[t] \ hpHazards[t])
      /\ hpToProcess' = [hpToProcess EXCEPT ![t] = {}] /\ hpHazards' = [hpHazards EXCEPT ![t] = {}]
      /\ hpPc' = [hpPc EXCEPT ![t] = "idle"] /\ hpCursor' = [hpCursor EXCEPT ![t] = <<0, 0>>]
      /\ UNCHANGED <<hpRecords, hpSlots>>
  BY DEF ScanFree, HpGoto
<1>2. \A u \in HpThread : u # t => /\ hpPc'[u] = hpPc[u] /\ hpToProcess'[u] = hpToProcess[u]
                                         /\ hpHazards'[u] = hpHazards[u] /\ hpCursor'[u] = hpCursor[u]
  BY <1>1 DEF HpInv, HpTypeOK
<1>3. hpToProcess'[t] = {} BY <1>1 DEF HpInv, HpTypeOK
<1>4. \A u \in HpThread : u # t /\ Ahead(u, q, i) => Ahead(u, q, i)' BY <1>1, <1>2 DEF Ahead
<1>5. ~Ahead(t, q, i) BY <1>1 DEF Ahead
<1>6. HpRegistered(q)' BY <1>1 DEF HpRegistered, Guards
<1> QED BY <1>1, <1>2, <1>3, <1>4, <1>5, <1>6 DEF Guards

\* The last step of a scan.
LEMMA ScanFreeInv ==
  ASSUME HpInv, NEW t \in HpThread, ScanFree(t)
  PROVE  HpInv'
<1>1. /\ hpPc[t] = "scanFree" /\ hpUnused' = hpUnused \cup (hpToProcess[t] \ hpHazards[t])
      /\ hpRetire' = hpRetire \cup (hpToProcess[t] \cap hpHazards[t])
      /\ hpToProcess' = [hpToProcess EXCEPT ![t] = {}] /\ hpHazards' = [hpHazards EXCEPT ![t] = {}]
      /\ hpPc' = [hpPc EXCEPT ![t] = "idle"] /\ hpCursor' = [hpCursor EXCEPT ![t] = <<0, 0>>]
      /\ UNCHANGED <<hpRecords, hpSlots>>
  BY DEF ScanFree, HpGoto
<1>2. \A u \in HpThread : u # t => hpPc'[u] = hpPc[u] /\ hpToProcess'[u] = hpToProcess[u] /\ hpCursor'[u] = hpCursor[u]
  BY <1>1 DEF HpInv, HpTypeOK
<1>3. hpToProcess'[t] = {} /\ hpPc'[t] = "idle" BY <1>1 DEF HpInv, HpTypeOK
<1>4. HpTypeOK'
  <2>1. hpPc' \in [HpThread -> HpLabel]
    <3>1. PICK l \in HpLabel : l = "idle" BY DEF HpLabel
    <3> QED BY <1>1, <3>1 DEF HpInv, HpTypeOK
  <2>4. hpCursor' \in [HpThread -> Nat \X HpSlot]
    <3>1. PICK c \in Nat \X HpSlot : c = <<0, 0>> BY DEF HpSlot
    <3> QED BY <1>1, <3>1 DEF HpInv, HpTypeOK
  <2>2. hpUnused' \subseteq HpNode /\ hpRetire' \subseteq HpNode BY <1>1 DEF HpInv, HpTypeOK
  <2>3. hpToProcess' \in [HpThread -> SUBSET HpNode] /\ hpHazards' \in [HpThread -> SUBSET HpNode] BY <1>1 DEF HpInv, HpTypeOK
  <2> QED BY <1>1, <2>1, <2>2, <2>3, <2>4 DEF HpInv, HpTypeOK
<1>5. \A u \in HpThread : HpRegistered(u)' = HpRegistered(u) BY <1>1 DEF HpRegistered
<1>6. HpScans' BY <1>1, <1>2, <1>3, <1>5 DEF HpInv, HpScans
<1> QED BY <1>4, <1>6 DEF HpInv

\* A step of a structure's operation: no record, no scan and no slot of the guarding thread moves.
OpStep(t, l) ==
  /\ UNCHANGED <<hpRecords, hpToProcess, hpHazards, hpCursor>>
  /\ hpPc' = [hpPc EXCEPT ![t] = l] /\ hpPc[t] \notin {"scan", "scanSlot", "scanFree"}

\* A step of an operation leaves the guards of slots that keep their node.
LEMMA GuardOp ==
  ASSUME HpInv, NEW t \in HpThread, NEW l, OpStep(t, l),
         NEW q \in HpThread, NEW i \in HpSlot, NEW n \in HpNode, Guards(q, i, n), hpSlots'[q][i] = n
  PROVE  Guards(q, i, n)'
<1>1. \A u \in HpThread : hpPc[u] = "scanSlot" => hpPc'[u] = hpPc[u] BY DEF OpStep, HpInv, HpTypeOK
<1>2. \A u \in HpThread : Ahead(u, q, i) => Ahead(u, q, i)' BY <1>1 DEF Ahead, OpStep
<1>3. HpRegistered(q)' BY DEF HpRegistered, Guards, OpStep
<1> QED BY <1>2, <1>3 DEF Guards, OpStep

\* A step of an operation preserves HpInv.
LEMMA OpInv ==
  ASSUME HpInv, NEW t \in HpThread, NEW l \in HpLabel, OpStep(t, l), l \notin {"scanSlot", "scanFree"},
         l = "scan" => HpRegistered(t), hpRetire' \subseteq HpNode, hpUnused' \subseteq HpNode,
         hpSlots' \in [HpThread -> [HpSlot -> Pointer]]
  PROVE  HpInv'
<1>1. \A u \in HpThread : hpPc'[u] = IF u = t THEN l ELSE hpPc[u] BY DEF OpStep, HpInv, HpTypeOK
<1>2. HpTypeOK' BY DEF OpStep, HpInv, HpTypeOK
<1>3. \A u \in HpThread : HpRegistered(u)' = HpRegistered(u) BY DEF HpRegistered, OpStep
<1>4. hpToProcess[t] = {} BY DEF OpStep, HpInv, HpScans
<1>5. HpScans' BY <1>1, <1>3, <1>4 DEF OpStep, HpInv, HpScans
<1> QED BY <1>2, <1>5 DEF HpInv

\* A node that is in no scan's hands is guarded by the slot that holds it.
LEMMA GuardStarts ==
  ASSUME NEW q \in HpThread, NEW i \in HpSlot, NEW n \in HpNode, HpRegistered(q), hpSlots[q][i] = n,
         \A u \in HpThread : n \notin hpToProcess[u]
  PROVE  Guards(q, i, n)
BY DEF Guards

-----------------------------------------------------------------------------
(* HazardStack.                                                            *)

\* What head_ holds.
TaggedPtr == [ptr : Pointer, tag : Nat]
\* The node a thread has to itself: the one it pushes, the one it has popped.
hsMine == [t \in HpThread |-> IF hpPc[t] = "hsPush" THEN hsNode[t]
                              ELSE IF hpPc[t] = "hsRetire" THEN hsOld[t].ptr ELSE NoNode]
\* The nodes on the stack.
HsStacked == Rest(hsMine, hpUnused, hpRetire, hpToProcess)

\* What the variables hold.
HsTypeOK ==
  /\ HpInv /\ hsHead \in TaggedPtr /\ hsNext \in [HpNode -> Pointer]
  /\ hsNode \in [HpThread -> Pointer] /\ hsOld \in [HpThread -> TaggedPtr] /\ hsSucc \in [HpThread -> Pointer]
\* What a thread's locals hold at each label.
HsLocal(t) ==
  /\ IF hpPc[t] = "hsPush" THEN hsNode[t] \in HpNode ELSE hsNode[t] = NoNode
  /\ hpPc[t] \in {"hsNext", "hsPop", "hsRetire"} => hsOld[t].ptr \in HpNode
  /\ hpPc[t] \in {"hsLoad", "hsProtect", "hsValidate", "hsNext", "hsPop", "hsRetire"} => HpRegistered(t)
  /\ hpPc[t] = "hsValidate" => hpSlots[t][0] = hsOld[t].ptr
\* No node has two owners.
HsOwned == OwnApart(hsMine, hpUnused, hpRetire, hpToProcess)
\* The nodes on the stack are linked from head_, each once.
HsListed == \E c : IsList(c, HpNode, hsHead.ptr, hsNext, NoNode) /\ Members(c) = HsStacked
\* t dereferences the node it has read from head_.
HsUses(t) == hpPc[t] \in {"hsNext", "hsPop"}
\* That node is guarded, not free and not being pushed again; so its link is the
\* one that was read.
HsGuarded(t) ==
  HsUses(t) =>
    /\ Guards(t, 0, hsOld[t].ptr) /\ hsOld[t].ptr \notin hpUnused
    /\ \A u \in HpThread : hpPc[u] = "hsPush" => hsNode[u] # hsOld[t].ptr
    /\ hpPc[t] = "hsPop" => hsSucc[t] = hsNext[hsOld[t].ptr]
\* The inductive invariant.
HsInv ==
  /\ HsTypeOK /\ HsOwned /\ HsListed
  /\ \A t \in HpThread : HsLocal(t) /\ HsGuarded(t)

\* hsMine is well typed.
LEMMA HsMineTyped == HsTypeOK' => hsMine' \in [HpThread -> Pointer]
BY DEF HsTypeOK, TaggedPtr, hsMine, Pointer

\* What one thread's step does to hsMine.
LEMMA HsMineNow ==
  ASSUME HsTypeOK', NEW t \in HpThread, NEW p,
         \A u \in HpThread \ {t} : hpPc'[u] = hpPc[u] /\ hsNode'[u] = hsNode[u] /\ hsOld'[u] = hsOld[u],
         p = IF hpPc'[t] = "hsPush" THEN hsNode'[t] ELSE IF hpPc'[t] = "hsRetire" THEN hsOld'[t].ptr ELSE NoNode
  PROVE  NowHolds(hsMine', hsMine, t, p)
<1>1. \A u \in HpThread : hsMine'[u] = IF u = t THEN p ELSE hsMine[u] BY DEF hsMine
<1> QED BY <1>1, HsMineTyped DEF NowHolds

\* At first the stack is empty and every node is unused.
LEMMA HsInvInit == StackInit => HsInv
<1> SUFFICES ASSUME StackInit PROVE HsInv OBVIOUS
<1> USE DEF StackInit, HazardInit, HazardStackInit
<1>1. HpInv
  <2>1. hpRecords \in Seq(HpThread) BY SMTT(30)
  <2>2. <<0, 0>> \in Nat \X HpSlot BY DEF HpSlot
  <2>3. hpCursor \in [HpThread -> Nat \X HpSlot]
    <3>1. PICK c \in Nat \X HpSlot : c = <<0, 0>> BY <2>2
    <3> QED BY <3>1
  <2> QED BY <2>1, <2>3 DEF HpInv, HpTypeOK, HpScans, HpLabel, Pointer
<1>2. NoHead \in TaggedPtr BY DEF NoHead, TaggedPtr, Pointer
<1>3. HsTypeOK
  <2>1. PICK h \in TaggedPtr : h = NoHead BY <1>2
  <2> QED BY <1>1, <2>1 DEF HsTypeOK, Pointer
<1>4. hsMine = [t \in HpThread |-> NoNode] BY DEF hsMine
<1>5. HsOwned BY <1>4 DEF HsOwned, OwnApart, OwnTyped, Pointer
<1>6. HsListed
  <2>1. HsStacked = {} BY DEF HsStacked, Rest
  <2>2. hsHead.ptr = NoNode BY DEF NoHead
  <2>3. IsList(<<>>, HpNode, hsHead.ptr, hsNext, NoNode) /\ Members(<<>>) = {} BY SMTT(30), <2>2 DEF IsList, Members
  <2> QED BY <2>1, <2>3 DEF HsListed
<1>7. \A t \in HpThread : HsLocal(t) /\ HsGuarded(t) BY DEF HsLocal, HsGuarded, HsUses
<1> QED BY <1>3, <1>5, <1>6, <1>7 DEF HsInv

\* The node head_ names is on the stack.
LEMMA HsHeadStacked ==
  ASSUME HsInv, hsHead.ptr # NoNode
  PROVE  hsHead.ptr \in HsStacked /\ hsHead.ptr \in HpNode
<1>1. PICK c : IsList(c, HpNode, hsHead.ptr, hsNext, NoNode) /\ Members(c) = HsStacked BY DEF HsInv, HsListed
<1>2. PICK p : p = hsHead.ptr OBVIOUS
<1> QED BY <1>1, <1>2, ListPop, HazardAssumption

\* A step of pop that leaves every node where it is.
LEMMA HsQuiet ==
  ASSUME HsInv, NEW t \in HpThread, NEW l \in HpLabel, OpStep(t, l),
         l \notin {"hsPush", "hsRetire", "scan", "scanSlot", "scanFree"}, hpPc[t] \notin {"hsPush", "hsRetire"},
         UNCHANGED <<hpRetire, hpUnused, hsHead, hsNext>>, hsNode' = [hsNode EXCEPT ![t] = NoNode],
         hpSlots' \in [HpThread -> [HpSlot -> Pointer]], hsOld' \in [HpThread -> TaggedPtr], hsSucc' \in [HpThread -> Pointer],
         \A u \in HpThread \ {t} : hpSlots'[u] = hpSlots[u] /\ hsOld'[u] = hsOld[u] /\ hsSucc'[u] = hsSucc[u],
         l # "idle" => HpRegistered(t),
         l = "hsValidate" => hpSlots'[t][0] = hsOld'[t].ptr,
         l \in {"hsNext", "hsPop"} => /\ hpSlots'[t] = hpSlots[t] /\ hsOld'[t] = hsOld[t]
                                      /\ HsUses(t) \/ (hsOld[t].ptr \in HsStacked /\ hpSlots[t][0] = hsOld[t].ptr),
         l = "hsPop" => hsSucc'[t] = hsNext[hsOld[t].ptr]
  PROVE  HsInv'
<1>1. HpInv'
  <2>1. HpInv /\ hpRetire' \subseteq HpNode /\ hpUnused' \subseteq HpNode BY DEF HsInv, HsTypeOK, HpInv, HpTypeOK
  <2> QED BY <2>1, OpInv
<1>2. \A u \in HpThread : hpPc'[u] = IF u = t THEN l ELSE hpPc[u] BY DEF OpStep, HsInv, HsTypeOK, HpInv, HpTypeOK
<1>3. \A u \in HpThread : hsNode'[u] = IF u = t THEN NoNode ELSE hsNode[u] BY DEF HsInv, HsTypeOK
<1>4. hsNode[t] = NoNode /\ hsNode' = hsNode BY DEF HsInv, HsLocal, HsTypeOK
<1>5. HsTypeOK' BY <1>1, <1>4 DEF HsInv, HsTypeOK
<1>6. hsMine' = hsMine BY SMTT(30), <1>2, <1>3, <1>4 DEF hsMine
<1>7. hpToProcess' = hpToProcess /\ hpRecords' = hpRecords BY DEF OpStep
<1>8. HsOwned' BY <1>6, <1>7 DEF HsInv, HsOwned
<1>9. HsStacked' = HsStacked BY <1>6, <1>7 DEF HsStacked
<1>10. HsListed' BY <1>9 DEF HsInv, HsListed
<1>11. \A u \in HpThread : HpRegistered(u)' = HpRegistered(u) BY <1>7 DEF HpRegistered
<1>a. \A n \in HsStacked : /\ n \in HpNode /\ n \notin hpUnused
                          /\ \A u \in HpThread : n \notin hpToProcess[u] /\ (hpPc[u] = "hsPush" => hsNode[u] # n)
  BY DEF HsStacked, Rest, hsMine
<1>12. ASSUME NEW u \in HpThread, u # t PROVE HsLocal(u)' /\ HsGuarded(u)'
  <2>1. HsLocal(u)' BY SMTT(30), <1>2, <1>3, <1>11, <1>12 DEF HsInv, HsLocal
  <2>2. HsGuarded(u)'
    <3> SUFFICES ASSUME HsUses(u)'
                 PROVE  /\ Guards(u, 0, hsOld[u].ptr)' /\ hsOld[u].ptr \notin hpUnused
                        /\ \A v \in HpThread : hpPc'[v] = "hsPush" => hsNode[v] # hsOld[u].ptr
                        /\ hpPc'[u] = "hsPop" => hsSucc[u] = hsNext[hsOld[u].ptr]
      BY <1>4, <1>12 DEF HsGuarded, Guards
    <3>1. HsUses(u) BY <1>2, <1>12 DEF HsUses
    <3>2. PICK n \in HpNode : n = hsOld[u].ptr /\ Guards(u, 0, n) BY <3>1 DEF HsInv, HsGuarded, HsLocal, HsUses
    <3>3. hpSlots'[u][0] = n /\ 0 \in HpSlot BY <3>2, <1>12 DEF Guards, HpSlot
    <3>4. Guards(u, 0, n)' BY <3>2, <3>3, GuardOp DEF HsInv, HsTypeOK
    <3>5. hsOld'[u] = hsOld[u] /\ hsSucc'[u] = hsSucc[u] BY <1>12
    <3>6. Guards(u, 0, hsOld[u].ptr)' BY <3>2, <3>4, <3>5
    <3>7. \A v \in HpThread : hpPc'[v] = "hsPush" => hpPc[v] = "hsPush" BY <1>2
    <3> QED BY SMTT(30), <1>2, <1>12, <3>1, <3>6, <3>7 DEF HsInv, HsGuarded
  <2> QED BY <2>1, <2>2
<1>13. HsLocal(t)'
  <2>1. l \in {"hsNext", "hsPop"} => hsOld[t].ptr \in HpNode BY <1>a DEF HsInv, HsLocal, HsUses
  <2> QED BY <1>2, <1>3, <1>11, <2>1 DEF HsLocal
<1>14. HsGuarded(t)'
  <2> SUFFICES ASSUME l \in {"hsNext", "hsPop"}
               PROVE  /\ Guards(t, 0, hsOld[t].ptr)' /\ hsOld[t].ptr \notin hpUnused
                      /\ \A v \in HpThread : hpPc'[v] = "hsPush" => hsNode[v] # hsOld[t].ptr
    BY <1>2, <1>4 DEF HsGuarded, Guards, HsUses
  <2>1. hpSlots'[t] = hpSlots[t] /\ hsOld'[t] = hsOld[t] OBVIOUS
  <2>2. PICK n \in HpNode : n = hsOld[t].ptr /\ Guards(t, 0, n) /\ n \notin hpUnused
                            /\ \A v \in HpThread : hpPc[v] = "hsPush" => hsNode[v] # n
    BY SMTT(30), <1>a, GuardStarts DEF HsInv, HsGuarded, HsLocal, HsUses, HpSlot
  <2>3. hpSlots'[t][0] = n /\ 0 \in HpSlot BY <2>1, <2>2 DEF Guards, HpSlot
  <2>4. Guards(t, 0, n)' BY <2>2, <2>3, GuardOp DEF HsInv, HsTypeOK
  <2> QED BY SMTT(30), <1>2, <2>1, <2>2, <2>4 DEF Guards
<1> QED BY <1>5, <1>8, <1>10, <1>12, <1>13, <1>14 DEF HsInv

\* The steps of pop up to the compare-exchange.
LEMMA HsPopSteps ==
  ASSUME HsInv, NEW t \in HpThread, HsPopLoad(t) \/ HsProtect(t) \/ HsValidate(t) \/ HsEmpty(t) \/ HsNext(t)
  PROVE  HsInv'
<1>ty. /\ hpSlots \in [HpThread -> [HpSlot -> Pointer]] /\ hsOld \in [HpThread -> TaggedPtr] /\ hsSucc \in [HpThread -> Pointer]
       /\ hsHead \in TaggedPtr /\ hsNode \in [HpThread -> Pointer] /\ hsNext \in [HpNode -> Pointer]
       /\ hpPc \in [HpThread -> HpLabel] /\ NoNode \in Pointer /\ 0 \in HpSlot
  BY DEF HsInv, HsTypeOK, HpInv, HpTypeOK, Pointer, HpSlot
<1>no. hpPc[t] # "hsPush" => hsNode = [hsNode EXCEPT ![t] = NoNode] BY <1>ty DEF HsInv, HsLocal
<1>1. CASE HsPopLoad(t)
  <2>1. /\ OpStep(t, "hsProtect") /\ hpPc[t] \in {"idle", "hsLoad"} /\ hsOld' = [hsOld EXCEPT ![t] = hsHead] /\ HpRegistered(t)
        /\ UNCHANGED <<hpSlots, hpRetire, hpUnused, hsHead, hsNext, hsNode, hsSucc>>
    BY <1>1 DEF HsPopLoad, HpGoto, OpStep, hpDomain, hpScan, hsMemory, HsInv, HsLocal
  <2>2. hsOld' \in [HpThread -> TaggedPtr] /\ \A u \in HpThread \ {t} : hsOld'[u] = hsOld[u] BY <1>ty, <2>1
  <2> QED BY <1>ty, <1>no, <2>1, <2>2, HsQuiet DEF HpLabel
<1>2. CASE HsProtect(t)
  <2>1. /\ OpStep(t, "hsValidate") /\ hpPc[t] = "hsProtect" /\ HpRegistered(t)
        /\ hpSlots' = [hpSlots EXCEPT ![t][0] = hsOld[t].ptr]
        /\ UNCHANGED <<hpRetire, hpUnused, hsHead, hsNext, hsNode, hsOld, hsSucc>>
    BY <1>2 DEF HsProtect, SetSlot, HpGoto, OpStep, hpDomain, hpScan, hsMemory, hsLocals, HsInv, HsLocal
  <2>2. hsOld[t].ptr \in Pointer BY <1>ty DEF TaggedPtr
  <2>3. PICK p \in Pointer : p = hsOld[t].ptr BY <2>2
  <2>4. hpSlots' \in [HpThread -> [HpSlot -> Pointer]] /\ hpSlots'[t][0] = p /\ \A u \in HpThread \ {t} : hpSlots'[u] = hpSlots[u]
    BY <1>ty, <2>1, <2>3
  <2> QED BY <1>ty, <1>no, <2>1, <2>3, <2>4, HsQuiet DEF HpLabel
<1>3. CASE HsValidate(t)
  <2>1. /\ hpPc[t] = "hsValidate" /\ HpRegistered(t) /\ hpSlots[t][0] = hsOld[t].ptr
        /\ UNCHANGED <<hpSlots, hpRetire, hpUnused, hsHead, hsNext, hsNode, hsOld, hsSucc>>
    BY <1>3 DEF HsValidate, hpDomain, hpScan, hsMemory, hsLocals, HsInv, HsLocal
  <2>2. CASE hsHead.ptr = hsOld[t].ptr
    <3>1. hsOld[t].ptr \in HsStacked BY <1>3, <2>2, HsHeadStacked DEF HsValidate
    <3>2. OpStep(t, "hsNext") BY <1>3, <2>1, <2>2 DEF HsValidate, HpGoto, OpStep, hpDomain, hpScan
    <3> QED BY <1>ty, <1>no, <2>1, <3>1, <3>2, HsQuiet DEF HpLabel
  <2>3. CASE hsHead.ptr # hsOld[t].ptr
    <3>2. OpStep(t, "hsLoad") BY <1>3, <2>1, <2>3 DEF HsValidate, HpGoto, OpStep, hpDomain, hpScan
    <3> QED BY <1>ty, <1>no, <2>1, <3>2, HsQuiet DEF HpLabel
  <2> QED BY <2>2, <2>3
<1>4. CASE HsEmpty(t)
  <2>1. /\ OpStep(t, "idle") /\ hpPc[t] = "hsValidate"
        /\ hpSlots' = [hpSlots EXCEPT ![t] = [i \in HpSlot |-> NoNode]]
        /\ hsNode' = [hsNode EXCEPT ![t] = NoNode] /\ hsOld' = [hsOld EXCEPT ![t] = NoHead] /\ hsSucc' = [hsSucc EXCEPT ![t] = NoNode]
        /\ UNCHANGED <<hpRetire, hpUnused, hsHead, hsNext>>
    BY <1>4 DEF HsEmpty, ResetSlots, Returned, HpGoto, OpStep, hpDomain, hpScan, hsMemory, hsLocals
  <2>2. hpSlots' \in [HpThread -> [HpSlot -> Pointer]] /\ \A u \in HpThread \ {t} : hpSlots'[u] = hpSlots[u] BY <1>ty, <2>1
  <2>3. NoHead \in TaggedPtr BY DEF NoHead, TaggedPtr, Pointer
  <2>4. hsOld' \in [HpThread -> TaggedPtr] /\ \A u \in HpThread \ {t} : hsOld'[u] = hsOld[u] BY <1>ty, <2>1, <2>3
  <2>5. hsSucc' \in [HpThread -> Pointer] /\ \A u \in HpThread \ {t} : hsSucc'[u] = hsSucc[u] BY <1>ty, <2>1
  <2> QED BY <2>1, <2>2, <2>4, <2>5, HsQuiet DEF HpLabel
<1>5. CASE HsNext(t)
  <2>1. /\ OpStep(t, "hsPop") /\ hpPc[t] = "hsNext" /\ HpRegistered(t) /\ hsOld[t].ptr \in HpNode
        /\ hsSucc' = [hsSucc EXCEPT ![t] = hsNext[hsOld[t].ptr]]
        /\ UNCHANGED <<hpSlots, hpRetire, hpUnused, hsHead, hsNext, hsNode, hsOld>>
    BY <1>5 DEF HsNext, HpGoto, OpStep, hpDomain, hpScan, hsMemory, hsLocals, HsInv, HsLocal
  <2>2. PICK p \in Pointer : p = hsNext[hsOld[t].ptr] BY <1>ty, <2>1
  <2>3. hsSucc' \in [HpThread -> Pointer] /\ hsSucc'[t] = p /\ \A u \in HpThread \ {t} : hsSucc'[u] = hsSucc[u] BY <1>ty, <2>1, <2>2
  <2>4. HsUses(t) BY <2>1 DEF HsUses
  <2> QED BY <1>ty, <1>no, <2>1, <2>2, <2>3, <2>4, HsQuiet DEF HpLabel
<1> QED BY <1>1, <1>2, <1>3, <1>4, <1>5

\* What a step of t leaves to the other threads.
LEMMA HsOthers ==
  ASSUME HsInv, NEW t \in HpThread,
         \A u \in HpThread \ {t} : /\ hpPc'[u] = hpPc[u] /\ hsOld'[u] = hsOld[u] /\ hsSucc'[u] = hsSucc[u]
                                   /\ hsNode'[u] = hsNode[u] /\ hpSlots'[u] = hpSlots[u]
                                   /\ HpRegistered(u) => HpRegistered(u)',
         \A u \in HpThread \ {t} : \A n \in HpNode : Guards(u, 0, n) => Guards(u, 0, n)',
         \A u \in HpThread \ {t} : HsUses(u) =>
           /\ hsOld[u].ptr \notin hpUnused' /\ hsNext'[hsOld[u].ptr] = hsNext[hsOld[u].ptr]
           /\ hpPc'[t] = "hsPush" => hsNode'[t] # hsOld[u].ptr
  PROVE  \A u \in HpThread \ {t} : HsLocal(u)' /\ HsGuarded(u)'
<1> TAKE u \in HpThread \ {t}
<1>1. HsLocal(u)' BY SMTT(30) DEF HsInv, HsLocal
<1>2. HsGuarded(u)'
  <2> SUFFICES ASSUME HsUses(u)'
               PROVE  /\ Guards(u, 0, hsOld[u].ptr)' /\ hsOld[u].ptr \notin hpUnused'
                      /\ \A v \in HpThread : hpPc'[v] = "hsPush" => hsNode'[v] # hsOld[u].ptr
                      /\ hpPc'[u] = "hsPop" => hsSucc[u] = hsNext'[hsOld[u].ptr]
    BY DEF HsGuarded
  <2>1. HsUses(u) BY DEF HsUses
  <2>2. PICK n \in HpNode : n = hsOld[u].ptr /\ Guards(u, 0, n) BY <2>1 DEF HsInv, HsGuarded, HsLocal, HsUses
  <2>3. hsOld'[u].ptr = n BY <2>2
  <2>4. Guards(u, 0, hsOld[u].ptr)' BY <2>2, <2>3
  <2> QED BY SMTT(30), <2>1, <2>4 DEF HsInv, HsGuarded
<1> QED BY <1>1, <1>2

\* The compare-exchange of pop takes the first node off.
LEMMA HsPopCasStep ==
  ASSUME HsInv, NEW t \in HpThread, HsPopCas(t)
  PROVE  HsInv'
<1>ty. /\ hpSlots \in [HpThread -> [HpSlot -> Pointer]] /\ hsOld \in [HpThread -> TaggedPtr] /\ hsSucc \in [HpThread -> Pointer]
       /\ hsHead \in TaggedPtr /\ hsNode \in [HpThread -> Pointer] /\ hsNext \in [HpNode -> Pointer] /\ HpInv
       /\ hpPc \in [HpThread -> HpLabel] /\ NoNode \in Pointer /\ 0 \in HpSlot /\ hpRetire \subseteq HpNode /\ hpUnused \subseteq HpNode
  BY DEF HsInv, HsTypeOK, HpInv, HpTypeOK, Pointer, HpSlot
<1>1. /\ hpPc[t] = "hsPop" /\ HpRegistered(t) /\ hsOld[t].ptr \in HpNode /\ hsNode[t] = NoNode
      /\ hsSucc[t] = hsNext[hsOld[t].ptr] /\ hsSucc' = [hsSucc EXCEPT ![t] = NoNode]
      /\ UNCHANGED <<hpRecords, hpSlots, hpRetire, hpToProcess, hpHazards, hpCursor, hpUnused, hsNext, hsNode, hsOld>>
  BY DEF HsPopCas, hpDomain, hpScan, HsInv, HsLocal, HsGuarded, HsUses
<1>2. hsNode = [hsNode EXCEPT ![t] = NoNode] BY <1>ty, <1>1
<1>3. hsSucc' \in [HpThread -> Pointer] /\ \A u \in HpThread \ {t} : hsSucc'[u] = hsSucc[u] BY <1>ty, <1>1
<1>4. CASE HpGoto(t, "hsLoad") /\ UNCHANGED hsHead
  <2>1. OpStep(t, "hsLoad") BY <1>1, <1>4 DEF OpStep, HpGoto
  <2> QED BY <1>ty, <1>1, <1>2, <1>3, <1>4, <2>1, HsQuiet DEF HpLabel
<1>5. CASE hsHead = hsOld[t] /\ hsHead' = Retagged(hsSucc[t], hsOld[t]) /\ HpGoto(t, "hsRetire")
  <2>1. OpStep(t, "hsRetire") BY <1>1, <1>5 DEF OpStep, HpGoto
  <2>2. PICK n \in HpNode : n = hsOld[t].ptr /\ n = hsHead.ptr /\ n # NoNode BY <1>1, <1>5, HazardAssumption
  <2>3. n \in HsStacked BY <2>2, HsHeadStacked
  <2>4. hsHead' = [ptr |-> hsNext[n], tag |-> hsHead.tag + 1] BY <1>1, <1>5, <2>2 DEF Retagged
  <2>5. HpInv' BY <1>ty, <1>1, <2>1, OpInv DEF HpLabel
  <2>6. hsHead' \in TaggedPtr /\ hsHead'.ptr = hsNext[n] BY SMTT(30), <1>ty, <2>4 DEF TaggedPtr
  <2>7. HsTypeOK' BY <1>ty, <1>1, <1>3, <2>5, <2>6 DEF HsTypeOK
  <2>8. \A u \in HpThread : hpPc'[u] = IF u = t THEN "hsRetire" ELSE hpPc[u] BY <1>ty, <2>1 DEF OpStep
  <2>9. PICK own : own = hsMine' /\ NowHolds(own, hsMine, t, n) /\ hsMine[t] = NoNode
    <3>1. NowHolds(hsMine', hsMine, t, n) BY <1>1, <2>2, <2>7, <2>8, HsMineNow
    <3>2. hsMine[t] = NoNode BY <1>1 DEF hsMine
    <3> QED BY <3>1, <3>2
  <2>10. HsOwned' /\ HsStacked' = HsStacked \ {n}
    <3>1. OwnApart(hsMine, hpUnused, hpRetire, hpToProcess) /\ n \in Rest(hsMine, hpUnused, hpRetire, hpToProcess)
      BY <2>3 DEF HsInv, HsOwned, HsStacked
    <3>2. /\ OwnApart(own, hpUnused, hpRetire, hpToProcess)
          /\ Rest(own, hpUnused, hpRetire, hpToProcess) = Rest(hsMine, hpUnused, hpRetire, hpToProcess) \ {n}
      BY SMTT(30), <2>9, <3>1, OwnTake
    <3> QED BY <1>1, <2>9, <3>2 DEF HsOwned, HsStacked
  <2>11. HsListed'
    <3>1. PICK c : IsList(c, HpNode, n, hsNext, NoNode) /\ Members(c) = HsStacked BY <2>2 DEF HsInv, HsListed
    <3>2. IsList(Tail(c), HpNode, hsNext[n], hsNext, NoNode) /\ Members(Tail(c)) = Members(c) \ {n}
      BY <2>2, <3>1, HazardAssumption, ListPop
    <3> QED BY <1>1, <2>6, <2>10, <3>1, <3>2 DEF HsListed
  <2>12. \A u \in HpThread \ {t} : \A m \in HpNode : Guards(u, 0, m) => Guards(u, 0, m)'
    BY <1>ty, <1>1, <2>1, GuardOp DEF Guards
  <2>13. \A u \in HpThread \ {t} : HsLocal(u)' /\ HsGuarded(u)'
    <3>1. \A u \in HpThread : HpRegistered(u)' = HpRegistered(u) BY <1>1 DEF HpRegistered
    <3>2. \A u \in HpThread \ {t} : HsUses(u) => hsOld[u].ptr \notin hpUnused BY DEF HsInv, HsGuarded
    <3> QED BY <1>1, <1>3, <2>8, <2>12, <3>1, <3>2, HsOthers
  <2>14. HsLocal(t)' /\ HsGuarded(t)'
    <3>1. HpRegistered(t)' BY <1>1 DEF HpRegistered
    <3> QED BY <1>1, <2>8, <3>1 DEF HsLocal, HsGuarded, HsUses
  <2> QED BY <2>7, <2>10, <2>11, <2>13, <2>14 DEF HsInv
<1> QED BY <1>4, <1>5 DEF HsPopCas

\* push allocates a node and links it to the head it has read.
LEMMA HsPushLoadStep ==
  ASSUME HsInv, NEW t \in HpThread, HsPushLoad(t)
  PROVE  HsInv'
<1>ty. /\ hpSlots \in [HpThread -> [HpSlot -> Pointer]] /\ hsOld \in [HpThread -> TaggedPtr] /\ hsSucc \in [HpThread -> Pointer]
       /\ hsHead \in TaggedPtr /\ hsNode \in [HpThread -> Pointer] /\ hsNext \in [HpNode -> Pointer] /\ HpInv
       /\ hpPc \in [HpThread -> HpLabel] /\ NoNode \in Pointer /\ 0 \in HpSlot /\ hpRetire \subseteq HpNode /\ hpUnused \subseteq HpNode
  BY DEF HsInv, HsTypeOK, HpInv, HpTypeOK, Pointer, HpSlot
<1>1. PICK n \in hpUnused : hpUnused' = hpUnused \ {n} /\ hsNode' = [hsNode EXCEPT ![t] = n] BY DEF HsPushLoad
<1>2. /\ OpStep(t, "hsPush") /\ hpPc[t] = "idle" /\ hsOld' = [hsOld EXCEPT ![t] = hsHead]
      /\ UNCHANGED <<hpRecords, hpSlots, hpRetire, hpToProcess, hpHazards, hpCursor, hsHead, hsNext, hsSucc>>
  BY DEF HsPushLoad, HpGoto, OpStep, hpDomain, hpScan, hsMemory
<1>3. HpInv' BY <1>ty, <1>1, <1>2, OpInv DEF HpLabel
<1>4. n \in HpNode /\ n \in Pointer /\ n # NoNode BY <1>ty, HazardAssumption DEF Pointer
<1>5. HsTypeOK' BY <1>ty, <1>1, <1>2, <1>3, <1>4 DEF HsTypeOK
<1>6. \A u \in HpThread : hpPc'[u] = IF u = t THEN "hsPush" ELSE hpPc[u] BY <1>ty, <1>2 DEF OpStep
<1>7. \A u \in HpThread : hsNode'[u] = IF u = t THEN n ELSE hsNode[u] BY <1>ty, <1>1
<1>8. \A u \in HpThread \ {t} : hsOld'[u] = hsOld[u] BY <1>ty, <1>2
<1>9. PICK own : own = hsMine' /\ NowHolds(own, hsMine, t, n) /\ hsMine[t] = NoNode
  <2>1. \A u \in HpThread \ {t} : hpPc'[u] = hpPc[u] /\ hsNode'[u] = hsNode[u] /\ hsOld'[u] = hsOld[u] BY <1>6, <1>7, <1>8
  <2>2. hpPc'[t] = "hsPush" /\ hsNode'[t] = n BY <1>6, <1>7
  <2>3. NowHolds(hsMine', hsMine, t, n) BY <1>5, <2>1, <2>2, HsMineNow
  <2>4. hsMine[t] = NoNode BY <1>2 DEF hsMine
  <2> QED BY <2>3, <2>4
<1>10. HsOwned' /\ HsStacked' = HsStacked
  <2>1. OwnApart(hsMine, hpUnused, hpRetire, hpToProcess) BY DEF HsInv, HsOwned
  <2>2. /\ OwnApart(own, hpUnused \ {n}, hpRetire, hpToProcess)
        /\ Rest(own, hpUnused \ {n}, hpRetire, hpToProcess) = Rest(hsMine, hpUnused, hpRetire, hpToProcess)
    BY SMTT(30), <1>9, <2>1, OwnAlloc
  <2> QED BY <1>1, <1>2, <1>9, <2>2 DEF HsOwned, HsStacked
<1>11. HsListed' BY <1>2, <1>10 DEF HsInv, HsListed
<1>12. \A u \in HpThread \ {t} : \A m \in HpNode : Guards(u, 0, m) => Guards(u, 0, m)'
  BY <1>ty, <1>2, GuardOp DEF Guards
<1>13. \A u \in HpThread : HpRegistered(u)' = HpRegistered(u) BY <1>2 DEF HpRegistered
<1>14. \A u \in HpThread \ {t} : HsLocal(u)' /\ HsGuarded(u)'
  <2>1. \A u \in HpThread \ {t} : HsUses(u) => hsOld[u].ptr \notin hpUnused BY DEF HsInv, HsGuarded
  <2> QED BY SMTT(30), <1>1, <1>2, <1>6, <1>7, <1>8, <1>12, <1>13, <2>1, HsOthers
<1>15. HsLocal(t)' /\ HsGuarded(t)' BY <1>4, <1>6, <1>7 DEF HsLocal, HsGuarded, HsUses
<1> QED BY <1>5, <1>10, <1>11, <1>14, <1>15 DEF HsInv

\* The compare-exchange of push publishes the node.
LEMMA HsPushCasStep ==
  ASSUME HsInv, NEW t \in HpThread, HsPushCas(t)
  PROVE  HsInv'
<1>ty. /\ hpSlots \in [HpThread -> [HpSlot -> Pointer]] /\ hsOld \in [HpThread -> TaggedPtr] /\ hsSucc \in [HpThread -> Pointer]
       /\ hsHead \in TaggedPtr /\ hsNode \in [HpThread -> Pointer] /\ hsNext \in [HpNode -> Pointer] /\ HpInv
       /\ hpPc \in [HpThread -> HpLabel] /\ NoNode \in Pointer /\ 0 \in HpSlot /\ hpRetire \subseteq HpNode /\ hpUnused \subseteq HpNode
  BY DEF HsInv, HsTypeOK, HpInv, HpTypeOK, Pointer, HpSlot
<1>1. /\ hpPc[t] = "hsPush" /\ hsNext' = [hsNext EXCEPT ![hsNode[t]] = hsOld[t].ptr]
      /\ UNCHANGED <<hpRecords, hpSlots, hpRetire, hpToProcess, hpHazards, hpCursor, hpUnused>>
  BY DEF HsPushCas, hpDomain, hpScan
<1>2. PICK n \in HpNode : n = hsNode[t] /\ n # NoNode BY <1>1, HazardAssumption DEF HsInv, HsLocal
<1>3. PICK p \in Pointer : p = hsOld[t].ptr BY <1>ty DEF TaggedPtr
<1>4. hsNext' \in [HpNode -> Pointer] /\ \A m \in HpNode : hsNext'[m] = IF m = n THEN p ELSE hsNext[m] BY <1>ty, <1>1, <1>2, <1>3
<1>5. hsMine[t] = n BY <1>1, <1>2 DEF hsMine
<1>6. n \notin HsStacked BY <1>5 DEF HsStacked, Rest
<1>7. PICK c : IsList(c, HpNode, hsHead.ptr, hsNext, NoNode) /\ Members(c) = HsStacked BY DEF HsInv, HsListed
<1>8. PICK f \in [HpNode -> Pointer] : f = hsNext' BY <1>4
<1>9. PICK h \in Pointer : h = hsHead.ptr BY <1>ty DEF TaggedPtr
<1>10. IsList(c, HpNode, h, f, NoNode)
  <2>1. \A m \in Members(c) : f[m] = hsNext[m] BY <1>4, <1>6, <1>7, <1>8 DEF HsStacked, Rest
  <2> QED BY <1>7, <1>9, <2>1, ListKept
<1>11. \A u \in HpThread : HpRegistered(u)' = HpRegistered(u) BY <1>1 DEF HpRegistered
<1>12. \A u \in HpThread \ {t} : HsUses(u) => /\ hsOld[u].ptr \notin hpUnused /\ hsOld[u].ptr # n
                                              /\ hsNext'[hsOld[u].ptr] = hsNext[hsOld[u].ptr]
  BY SMTT(30), <1>1, <1>2, <1>4 DEF HsInv, HsGuarded, HsLocal, HsUses
<1>13. CASE hsHead = hsOld[t] /\ hsHead' = Retagged(hsNode[t], hsOld[t]) /\ HpGoto(t, "idle") /\ Returned(t)
  <2>1. OpStep(t, "idle") /\ hsNode' = [hsNode EXCEPT ![t] = NoNode] /\ hsOld' = [hsOld EXCEPT ![t] = NoHead] /\ hsSucc' = [hsSucc EXCEPT ![t] = NoNode]
    BY <1>1, <1>13 DEF OpStep, HpGoto, Returned
  <2>2. HpInv' BY <1>ty, <1>1, <2>1, OpInv DEF HpLabel
  <2>3. hsHead' = [ptr |-> n, tag |-> hsHead.tag + 1] /\ h = p BY <1>2, <1>3, <1>9, <1>13 DEF Retagged
  <2>4. hsHead' \in TaggedPtr /\ hsHead'.ptr = n BY SMTT(30), <1>ty, <2>3 DEF TaggedPtr, Pointer
  <2>5. NoHead \in TaggedPtr BY DEF NoHead, TaggedPtr, Pointer
  <2>6. HsTypeOK' BY <1>ty, <1>4, <2>1, <2>2, <2>4, <2>5 DEF HsTypeOK
  <2>7. \A u \in HpThread : hpPc'[u] = IF u = t THEN "idle" ELSE hpPc[u] BY <1>ty, <2>1 DEF OpStep
  <2>8. /\ \A u \in HpThread \ {t} : hsNode'[u] = hsNode[u] /\ hsOld'[u] = hsOld[u] /\ hsSucc'[u] = hsSucc[u]
        /\ hsNode'[t] = NoNode
    BY <1>ty, <2>1
  <2>9. PICK own : own = hsMine' /\ NowHolds(own, hsMine, t, NoNode)
    <3>1. NowHolds(hsMine', hsMine, t, NoNode) BY <2>6, <2>7, <2>8, HsMineNow
    <3> QED BY <3>1
  <2>10. HsOwned' /\ HsStacked' = HsStacked \cup {n}
    <3>1. OwnApart(hsMine, hpUnused, hpRetire, hpToProcess) BY DEF HsInv, HsOwned
    <3>2. /\ OwnApart(own, hpUnused, hpRetire, hpToProcess)
          /\ Rest(own, hpUnused, hpRetire, hpToProcess) = Rest(hsMine, hpUnused, hpRetire, hpToProcess) \cup {hsMine[t]}
      BY SMTT(30), <1>2, <1>5, <2>9, <3>1, OwnPublish
    <3> QED BY <1>1, <1>5, <2>9, <3>2 DEF HsOwned, HsStacked
  <2>11. HsListed'
    <3>1. f[n] = h /\ n \notin Members(c) BY <1>4, <1>6, <1>7, <1>8, <2>3
    <3>2. IsList(<<n>> \o c, HpNode, n, f, NoNode) /\ Members(<<n>> \o c) = Members(c) \cup {n}
      BY SMTT(30), <1>10, <3>1, ListPush, HazardAssumption DEF Pointer
    <3> QED BY <1>7, <1>8, <2>4, <2>10, <3>2 DEF HsListed
  <2>12. \A u \in HpThread \ {t} : \A m \in HpNode : Guards(u, 0, m) => Guards(u, 0, m)'
    BY <1>ty, <1>1, <2>1, GuardOp DEF Guards
  <2>13. \A u \in HpThread \ {t} : HsLocal(u)' /\ HsGuarded(u)'
    BY <1>1, <1>11, <1>12, <2>7, <2>8, <2>12, HsOthers
  <2>14. HsLocal(t)' /\ HsGuarded(t)' BY <2>7, <2>8 DEF HsLocal, HsGuarded, HsUses
  <2> QED BY <2>6, <2>10, <2>11, <2>13, <2>14 DEF HsInv
<1>14. CASE hsOld' = [hsOld EXCEPT ![t] = hsHead] /\ UNCHANGED <<hsHead, hsNode, hsSucc, hpPc>>
  <2>1. OpStep(t, "hsPush") BY <1>ty, <1>1, <1>14 DEF OpStep
  <2>2. HpInv' BY <1>ty, <1>1, <2>1, OpInv DEF HpLabel
  <2>3. hsOld' \in [HpThread -> TaggedPtr] /\ \A u \in HpThread \ {t} : hsOld'[u] = hsOld[u] BY <1>ty, <1>14
  <2>4. HsTypeOK' BY <1>ty, <1>4, <1>14, <2>2, <2>3 DEF HsTypeOK
  <2>5. hsMine' = hsMine BY <1>1, <1>14, <2>3 DEF hsMine
  <2>6. HsOwned' /\ HsStacked' = HsStacked BY <1>1, <2>5 DEF HsInv, HsOwned, HsStacked
  <2>7. HsListed' BY <1>7, <1>8, <1>9, <1>10, <1>14, <2>6 DEF HsListed
  <2>8. \A u \in HpThread \ {t} : \A m \in HpNode : Guards(u, 0, m) => Guards(u, 0, m)'
    BY <1>ty, <1>1, <2>1, GuardOp DEF Guards
  <2>9. \A u \in HpThread \ {t} : HsLocal(u)' /\ HsGuarded(u)'
    BY <1>1, <1>2, <1>11, <1>12, <1>14, <2>3, <2>8, HsOthers
  <2>10. HsLocal(t)' /\ HsGuarded(t)' BY <1>1, <1>2, <1>14 DEF HsLocal, HsGuarded, HsUses
  <2> QED BY <2>4, <2>6, <2>7, <2>9, <2>10 DEF HsInv
<1> QED BY <1>13, <1>14 DEF HsPushCas

\* pop retires the node it has taken.
LEMMA HsRetireStep ==
  ASSUME HsInv, NEW t \in HpThread, HsRetire(t)
  PROVE  HsInv'
<1>ty. /\ hpSlots \in [HpThread -> [HpSlot -> Pointer]] /\ hsOld \in [HpThread -> TaggedPtr] /\ hsSucc \in [HpThread -> Pointer]
       /\ hsHead \in TaggedPtr /\ hsNode \in [HpThread -> Pointer] /\ hsNext \in [HpNode -> Pointer] /\ HpInv
       /\ hpPc \in [HpThread -> HpLabel] /\ NoNode \in Pointer /\ 0 \in HpSlot /\ hpRetire \subseteq HpNode /\ hpUnused \subseteq HpNode
  BY DEF HsInv, HsTypeOK, HpInv, HpTypeOK, Pointer, HpSlot
<1>1. PICK l \in {"idle", "scan"} : HpGoto(t, l) BY DEF HsRetire, Retire
<1>2. PICK n \in HpNode : n = hsOld[t].ptr /\ n # NoNode BY HazardAssumption DEF HsRetire, HsInv, HsLocal
<1>3. /\ hpPc[t] = "hsRetire" /\ OpStep(t, l) /\ HpRegistered(t) /\ hpRetire' = hpRetire \cup {n}
      /\ hpSlots' = [hpSlots EXCEPT ![t] = [i \in HpSlot |-> NoNode]]
      /\ hsNode' = [hsNode EXCEPT ![t] = NoNode] /\ hsOld' = [hsOld EXCEPT ![t] = NoHead] /\ hsSucc' = [hsSucc EXCEPT ![t] = NoNode]
      /\ UNCHANGED <<hpRecords, hpToProcess, hpHazards, hpCursor, hpUnused, hsHead, hsNext>>
  BY <1>1, <1>2 DEF HsRetire, Retire, ResetSlots, Returned, OpStep, HpGoto, hpScan, hsMemory, HsInv, HsLocal
<1>4. hpSlots' \in [HpThread -> [HpSlot -> Pointer]] /\ \A u \in HpThread \ {t} : hpSlots'[u] = hpSlots[u] BY <1>ty, <1>3
<1>5. HpInv'
  <2>1. hpRetire' \subseteq HpNode BY <1>ty, <1>3
  <2> QED BY <1>ty, <1>1, <1>3, <1>4, <2>1, OpInv DEF HpLabel
<1>6. NoHead \in TaggedPtr BY DEF NoHead, TaggedPtr, Pointer
<1>7. HsTypeOK' BY <1>ty, <1>3, <1>5, <1>6 DEF HsTypeOK
<1>8. \A u \in HpThread : hpPc'[u] = IF u = t THEN l ELSE hpPc[u] BY <1>ty, <1>3 DEF OpStep
<1>9. /\ \A u \in HpThread \ {t} : hsNode'[u] = hsNode[u] /\ hsOld'[u] = hsOld[u] /\ hsSucc'[u] = hsSucc[u]
      /\ hsNode'[t] = NoNode
  BY <1>ty, <1>3
<1>10. PICK own : own = hsMine' /\ NowHolds(own, hsMine, t, NoNode) /\ hsMine[t] = n
  <2>1. \A u \in HpThread \ {t} : hpPc'[u] = hpPc[u] BY <1>8
  <2>2. hpPc'[t] \in {"idle", "scan"} BY <1>8
  <2>3. NowHolds(hsMine', hsMine, t, NoNode) BY <1>7, <1>9, <2>1, <2>2, HsMineNow
  <2>4. hsMine[t] = n BY <1>2, <1>3 DEF hsMine
  <2> QED BY <2>3, <2>4
<1>11. HsOwned' /\ HsStacked' = HsStacked
  <2>1. OwnApart(hsMine, hpUnused, hpRetire, hpToProcess) BY DEF HsInv, HsOwned
  <2>2. /\ OwnApart(own, hpUnused, hpRetire \cup {hsMine[t]}, hpToProcess)
        /\ Rest(own, hpUnused, hpRetire \cup {hsMine[t]}, hpToProcess) = Rest(hsMine, hpUnused, hpRetire, hpToProcess)
    BY SMTT(30), <1>2, <1>10, <2>1, OwnRetire
  <2> QED BY <1>3, <1>10, <2>2 DEF HsOwned, HsStacked
<1>12. HsListed' BY <1>3, <1>11 DEF HsInv, HsListed
<1>13. \A u \in HpThread \ {t} : \A m \in HpNode : Guards(u, 0, m) => Guards(u, 0, m)'
  <2> TAKE u \in HpThread \ {t}
  <2> TAKE m \in HpNode
  <2> HAVE Guards(u, 0, m)
  <2>1. hpSlots'[u][0] = m BY <1>4 DEF Guards
  <2> QED BY <1>ty, <1>3, <2>1, GuardOp
<1>14. \A u \in HpThread : HpRegistered(u)' = HpRegistered(u) BY <1>3 DEF HpRegistered
<1>15. \A u \in HpThread \ {t} : HsLocal(u)' /\ HsGuarded(u)'
  <2>1. \A u \in HpThread \ {t} : HsUses(u) => hsOld[u].ptr \notin hpUnused BY DEF HsInv, HsGuarded
  <2>2. hpPc'[t] # "hsPush" BY <1>8
  <2> QED BY <1>3, <1>4, <1>8, <1>9, <1>13, <1>14, <2>1, <2>2, HsOthers
<1>16. HsLocal(t)' /\ HsGuarded(t)' BY <1>8, <1>9 DEF HsLocal, HsGuarded, HsUses
<1> QED BY <1>7, <1>11, <1>12, <1>15, <1>16 DEF HsInv

\* The last step of a scan frees only what nobody dereferences.
LEMMA HsScanFreeStep ==
  ASSUME HsInv, NEW t \in HpThread, HsScanFree(t)
  PROVE  HsInv'
<1>ty. /\ hsOld \in [HpThread -> TaggedPtr] /\ hsSucc \in [HpThread -> Pointer] /\ hpToProcess \in [HpThread -> SUBSET HpNode]
       /\ hsHead \in TaggedPtr /\ hsNode \in [HpThread -> Pointer] /\ hsNext \in [HpNode -> Pointer] /\ HpInv
       /\ hpPc \in [HpThread -> HpLabel] /\ NoNode \in Pointer /\ 0 \in HpSlot
  BY DEF HsInv, HsTypeOK, HpInv, HpTypeOK, Pointer, HpSlot
<1>0. ScanFree(t) BY DEF HsScanFree
<1>1. /\ hpPc[t] = "scanFree" /\ hpPc' = [hpPc EXCEPT ![t] = "idle"]
      /\ hpUnused' = hpUnused \cup (hpToProcess[t] \ hpHazards[t])
      /\ hpRetire' = hpRetire \cup (hpToProcess[t] \cap hpHazards[t])
      /\ hpToProcess' = [hpToProcess EXCEPT ![t] = {}]
      /\ hsNext' = [n \in HpNode |-> IF n \in hpUnused' THEN NoNode ELSE hsNext[n]]
      /\ UNCHANGED <<hpRecords, hpSlots, hsHead, hsNode, hsOld, hsSucc>>
  BY DEF HsScanFree, ScanFree, HpGoto, hsLocals
<1>2. HpInv' BY <1>ty, <1>0, ScanFreeInv
<1>3. HsTypeOK' BY <1>ty, <1>1, <1>2 DEF HsTypeOK
<1>4. \A u \in HpThread : hpPc'[u] = IF u = t THEN "idle" ELSE hpPc[u] BY <1>ty, <1>1
<1>5. hsMine' = hsMine BY SMTT(30), <1>1, <1>4 DEF hsMine
<1>6. HsOwned' /\ HsStacked' = HsStacked
  <2>1. OwnApart(hsMine, hpUnused, hpRetire, hpToProcess) BY DEF HsInv, HsOwned
  <2>2. PICK h, x, r, p : h = hpHazards[t] /\ x = hpUnused' /\ r = hpRetire' /\ p = hpToProcess' OBVIOUS
  <2>3. Sorted(x, r, p, hpUnused, hpRetire, hpToProcess, t, h) BY <1>1, <2>2 DEF Sorted
  <2>4. OwnApart(hsMine, x, r, p) /\ Rest(hsMine, x, r, p) = Rest(hsMine, hpUnused, hpRetire, hpToProcess) BY SMTT(30), <2>1, <2>3, OwnScanFree
  <2> QED BY <1>5, <2>2, <2>4 DEF HsOwned, HsStacked
<1>7. HsListed'
  <2>1. PICK c : IsList(c, HpNode, hsHead.ptr, hsNext, NoNode) /\ Members(c) = HsStacked BY DEF HsInv, HsListed
  <2>2. \A n \in HsStacked : n \in HpNode /\ n \notin hpUnused' BY <1>6 DEF HsStacked, Rest
  <2>3. PICK f, h : f = hsNext' /\ h = hsHead.ptr OBVIOUS
  <2>4. \A n \in Members(c) : f[n] = hsNext[n] BY <1>1, <2>1, <2>2, <2>3
  <2>5. IsList(c, HpNode, h, f, NoNode) BY <2>1, <2>3, <2>4, ListKept
  <2> QED BY <1>1, <1>6, <2>1, <2>3, <2>5 DEF HsListed
<1>8. \A u \in HpThread : \A m \in HpNode : Guards(u, 0, m) => Guards(u, 0, m)' /\ (m \notin hpUnused => m \notin hpUnused')
  BY <1>ty, <1>0, GuardScanFree
<1>9. \A u \in HpThread : HpRegistered(u)' = HpRegistered(u) BY <1>1 DEF HpRegistered
<1>10. \A u \in HpThread \ {t} : HsLocal(u)' /\ HsGuarded(u)'
  <2>1. \A u \in HpThread \ {t} : HsUses(u) => hsOld[u].ptr \notin hpUnused' /\ hsNext'[hsOld[u].ptr] = hsNext[hsOld[u].ptr]
    BY <1>1, <1>8 DEF HsInv, HsGuarded, HsLocal, HsUses
  <2> QED BY SMTT(30), <1>1, <1>4, <1>8, <1>9, <2>1, HsOthers
<1>11. HsLocal(t)' /\ HsGuarded(t)' BY SMTT(30), <1>1, <1>4 DEF HsInv, HsLocal, HsGuarded, HsUses
<1> QED BY <1>3, <1>6, <1>7, <1>10, <1>11 DEF HsInv

\* The other steps of the domain.
LEMMA HsHazardStep ==
  ASSUME HsInv, NEW t \in HpThread, HazardStep(t), UNCHANGED <<hsMemory, hsLocals>>
  PROVE  HsInv'
<1>ty. /\ hpToProcess \in [HpThread -> SUBSET HpNode] /\ HpInv
       /\ hpPc \in [HpThread -> HpLabel] /\ 0 \in HpSlot /\ hpRecords \in Seq(HpThread)
  BY DEF HsInv, HsTypeOK, HpInv, HpTypeOK, HpSlot
<1>1. UNCHANGED <<hsHead, hsNext, hsNode, hsOld, hsSucc>> BY DEF hsMemory, hsLocals
<1>2. HpInv' /\ UNCHANGED <<hpSlots, hpUnused>> BY <1>ty, HazardStepInv
<1>3. HsTypeOK' BY <1>1, <1>2 DEF HsInv, HsTypeOK
<1>4. /\ \A u \in HpThread \ {t} : hpPc'[u] = hpPc[u]
      /\ hpPc[t] \in {"idle", "scan", "scanSlot"} /\ hpPc'[t] \in {"idle", "scan", "scanSlot", "scanFree"}
  BY <1>ty DEF HazardStep, HpRegister, ScanTake, ScanSlot, HpGoto
<1>5. hsMine' = hsMine BY <1>1, <1>4 DEF hsMine
<1>6. HsOwned' /\ HsStacked' = HsStacked
  <2>1. OwnApart(hsMine, hpUnused, hpRetire, hpToProcess) BY DEF HsInv, HsOwned
  <2>2. CASE ScanTake(t)
    <3>1. hpToProcess[t] = {} BY <1>ty, <2>2 DEF ScanTake, HpInv, HpScans
    <3>2. PICK p : p = hpToProcess' OBVIOUS
    <3>3. Taken(p, hpToProcess, t, hpRetire) /\ hpRetire' = {} BY <2>2, <3>2 DEF ScanTake, Taken
    <3>4. OwnApart(hsMine, hpUnused, {}, p) /\ Rest(hsMine, hpUnused, {}, p) = Rest(hsMine, hpUnused, hpRetire, hpToProcess)
      BY SMTT(30), <2>1, <3>1, <3>3, OwnScanTake
    <3> QED BY <1>2, <1>5, <3>2, <3>3, <3>4 DEF HsOwned, HsStacked
  <2>3. CASE HpRegister(t) \/ ScanSlot(t)
    BY <1>2, <1>5, <2>1, <2>3 DEF HsOwned, HsStacked, HpRegister, ScanSlot, hpScan
  <2> QED BY <2>2, <2>3 DEF HazardStep
<1>7. HsListed' BY <1>1, <1>6 DEF HsInv, HsListed
<1>8. \A u \in HpThread : \A m \in HpNode : Guards(u, 0, m) => Guards(u, 0, m)' BY <1>ty, GuardHazardStep
<1>9. \A u \in HpThread : HpRegistered(u) => HpRegistered(u)'
  <2>1. CASE HpRegister(t)
    <3>1. Len(hpRecords') = Len(hpRecords) + 1 /\ (\A i \in 1..Len(hpRecords) : hpRecords'[i] = hpRecords[i]) /\ Len(hpRecords) \in Nat
      BY SMTT(30), <1>ty, <2>1, AppendOf DEF HpRegister
    <3>2. 1..Len(hpRecords) \subseteq 1..Len(hpRecords') BY SMTT(30), <3>1
    <3> QED BY <3>1, <3>2 DEF HpRegistered
  <2>2. CASE ScanTake(t) \/ ScanSlot(t) BY <2>2 DEF ScanTake, ScanSlot, HpRegistered
  <2> QED BY <2>1, <2>2 DEF HazardStep
<1>10. \A u \in HpThread \ {t} : HsLocal(u)' /\ HsGuarded(u)'
  <2>1. \A u \in HpThread \ {t} : HsUses(u) => hsOld[u].ptr \notin hpUnused BY DEF HsInv, HsGuarded
  <2> QED BY <1>1, <1>2, <1>4, <1>8, <1>9, <2>1, HsOthers
<1>11. HsLocal(t)' /\ HsGuarded(t)' BY <1>1, <1>4 DEF HsInv, HsLocal, HsGuarded, HsUses
<1> QED BY <1>3, <1>6, <1>7, <1>10, <1>11 DEF HsInv

\* Every step preserves HsInv.
LEMMA HsInductive == HsInv /\ [StackNext]_hsVars => HsInv'
<1> SUFFICES ASSUME HsInv, [StackNext]_hsVars PROVE HsInv' OBVIOUS
<1>1. CASE UNCHANGED hsVars
  <2>1. UNCHANGED <<hpRecords, hpSlots, hpRetire, hpToProcess, hpHazards, hpCursor, hpUnused, hpPc, hsHead, hsNext, hsNode, hsOld, hsSucc>>
    BY <1>1 DEF hsVars, hpVars, hpDomain, hpScan, hsMemory, hsLocals
  <2>2. HsTypeOK' BY <2>1 DEF HsInv, HsTypeOK, HpInv, HpTypeOK, HpScans, HpRegistered
  <2>3. hsMine' = hsMine BY <2>1 DEF hsMine
  <2>4. HsOwned' /\ HsStacked' = HsStacked BY <2>1, <2>3 DEF HsInv, HsOwned, HsStacked
  <2>5. HsListed' BY <2>1, <2>4 DEF HsInv, HsListed
  <2>6. ASSUME NEW t \in HpThread PROVE HsLocal(t)' /\ HsGuarded(t)'
    BY SMTT(30), <2>1 DEF HsInv, HsLocal, HsGuarded, HsUses, Guards, Ahead, HpRegistered
  <2> QED BY <2>2, <2>4, <2>5, <2>6 DEF HsInv
<1>2. CASE StackNext
  <2>1. PICK t \in HpThread : StackStep(t) \/ HsScanFree(t) \/ (HazardStep(t) /\ UNCHANGED <<hsMemory, hsLocals>>) BY <1>2 DEF StackNext
  <2> QED BY <2>1, HsPopSteps, HsPopCasStep, HsPushLoadStep, HsPushCasStep, HsRetireStep, HsScanFreeStep, HsHazardStep DEF StackStep
<1> QED BY <1>1, <1>2

\* What HsGuarded says of a pop that is about to read a next pointer.
LEMMA HsUsesNoFreed == HsInv => StackNoUseAfterFree
BY DEF HsInv, HsGuarded, HsUses, StackNoUseAfterFree

\* For any threads and nodes: the node that a pop of HazardStack dereferences is
\* never free, wherever the scans of the other threads stand.
THEOREM StackNeverUsesFreed == StackSpec => []StackNoUseAfterFree
BY HsInvInit, HsInductive, HsUsesNoFreed, PTL DEF StackSpec

-----------------------------------------------------------------------------
(* MsQueue.                                                                *)

-----------------------------------------------------------------------------
(* Where a thread is in enqueue and dequeue.                               *)

\* It has a node that it has not linked yet.
Building == {"enqLoad", "enqProtect", "enqValidate", "enqNext", "enqRecheck", "enqLink", "enqHelp"}
\* It has read head_ and found it unchanged.
Dequeuing == {"deqNext", "deqProtectNext", "deqValidateNext", "deqCheck", "deqTail", "deqHelp", "deqCopy", "deqCas"}
\* Its slot 0 guards at, its slot 1 guards next.
AtGuarded == Dequeuing \cup {"enqNext", "enqRecheck", "enqLink", "enqSwing", "enqHelp"}
NextGuarded == {"deqTail", "deqHelp", "deqCopy", "deqCas"}
\* It has read next.
NextRead == {"enqRecheck", "enqLink", "enqHelp"} \cup (Dequeuing \ {"deqNext"})
\* It is in an operation.
Working == Building \cup Dequeuing \cup {"enqSwing", "deqLoad", "deqProtect", "deqValidate", "deqRetire"}

\* What the locals of an operation hold.
MsLocals == [node : Pointer, at : Pointer, next : Pointer, tmp : Payload \cup {NoPayload}]

\* The node a thread has to itself: the one it will link, the one it has taken.
msMine == [t \in HpThread |-> IF hpPc[t] \in Building THEN ms[t].node
                              ELSE IF hpPc[t] = "deqRetire" THEN ms[t].at ELSE NoNode]
\* The nodes in the queue, the dummy included.
MsQueued == Rest(msMine, hpUnused, hpRetire, hpToProcess)

\* What the variables hold.
MsTypeOK ==
  /\ HpInv /\ msHead \in HpNode /\ msTail \in HpNode /\ msNext \in [HpNode -> Pointer]
  /\ msData \in [HpNode -> Payload \cup {NoPayload}] /\ ms \in [HpThread -> MsLocals]
\* No node has two owners.
MsOwned == OwnApart(msMine, hpUnused, hpRetire, hpToProcess)
\* The nodes in the queue are linked from head_, each once, and tail_ is at one.
MsListed ==
  /\ \E c : IsList(c, HpNode, msHead, msNext, NoNode) /\ Members(c) = MsQueued
  /\ msTail \in MsQueued
\* Only a node with a successor is dequeued.
MsLeft ==
  \A n \in HpNode :
    \/ n \in hpRetire
    \/ \E t \in HpThread : n \in hpToProcess[t] \/ (hpPc[t] = "deqRetire" /\ ms[t].at = n)
    => msNext[n] # NoNode
\* n is guarded by slot i of t, is not free and is not being enqueued again.
MsSafe(t, i, n) ==
  /\ n \in HpNode /\ n \notin hpUnused /\ Guards(t, i, n)
  /\ \A u \in HpThread : hpPc[u] \in Building => ms[u].node # n
\* What an enqueue knows of its own node.
MsEnq(t) ==
  /\ hpPc[t] \in Building => ms[t].node \in HpNode /\ msNext[ms[t].node] = NoNode /\ msData[ms[t].node] \in Payload
  /\ hpPc[t] = "enqHelp" => ms[t].next \in HpNode
  /\ hpPc[t] = "enqSwing" => ms[t].node \in HpNode /\ msNext[ms[t].at] = ms[t].node
\* What is in the slots of a thread, and from which label on it guards.
MsSlots(t) ==
  /\ hpPc[t] \in Working => HpRegistered(t)
  /\ hpPc[t] \in {"enqValidate", "deqValidate"} => hpSlots[t][0] = ms[t].at
  /\ hpPc[t] \in {"deqValidateNext", "deqCheck"} => hpSlots[t][1] = ms[t].next
  /\ hpPc[t] \in AtGuarded => MsSafe(t, 0, ms[t].at)
  /\ hpPc[t] \in NextGuarded => MsSafe(t, 1, ms[t].next)
\* What a dequeue knows of the nodes it has read.
MsDeq(t) ==
  /\ hpPc[t] \in NextRead /\ ms[t].next # NoNode => msNext[ms[t].at] = ms[t].next
  /\ hpPc[t] \in Dequeuing => ms[t].at = msHead \/ ms[t].at \notin MsQueued
  /\ hpPc[t] \in {"deqCopy", "deqCas"} /\ msHead = ms[t].at => msTail # ms[t].at
  /\ hpPc[t] = "deqCas" => ms[t].tmp = msData[ms[t].next]
  /\ hpPc[t] = "deqRetire" => ms[t].at \in HpNode
\* What thread t knows.
MsLocal(t) == MsEnq(t) /\ MsSlots(t) /\ MsDeq(t)
\* The inductive invariant.
MsInv == MsTypeOK /\ MsOwned /\ MsListed /\ MsLeft /\ \A t \in HpThread : MsLocal(t)

\* What a step of t leaves to another thread.
LEMMA MsOthers ==
  ASSUME MsInv, NEW t \in HpThread, NEW u \in HpThread, u # t,
         \A v \in HpThread \ {t} : hpPc'[v] = hpPc[v] /\ ms'[v] = ms[v],
         hpSlots'[u] = hpSlots[u], HpRegistered(u) => HpRegistered(u)',
         \A i \in HpSlot : \A n \in HpNode : Guards(u, i, n) => Guards(u, i, n)',
         \A i \in HpSlot : \A n \in HpNode : MsSafe(u, i, n) =>
           /\ n \notin hpUnused' /\ (msNext[n] # NoNode => msNext'[n] = msNext[n]) /\ msData'[n] = msData[n]
           /\ hpPc'[t] \in Building => ms'[t].node # n,
         hpPc[u] \in Building => /\ msNext'[ms[u].node] = NoNode
                                 /\ msData'[ms[u].node] = msData[ms[u].node],
         \A n \in HpNode : MsSafe(u, 0, n) /\ (n = msHead \/ n \notin MsQueued) =>
           /\ n = msHead' \/ n \notin MsQueued'
           /\ (msHead = n => msTail # n) => (msHead' = n => msTail' # n)
  PROVE  MsLocal(u)'
<1>1. \A i \in HpSlot : \A n \in HpNode : MsSafe(u, i, n) => MsSafe(u, i, n)'
  <2> TAKE i \in HpSlot
  <2> TAKE n \in HpNode
  <2> HAVE MsSafe(u, i, n)
  <2>1. \A v \in HpThread : hpPc'[v] \in Building => ms'[v].node # n BY DEF MsSafe
  <2> QED BY <2>1 DEF MsSafe
<1>2. MsLocal(u) /\ hpPc'[u] = hpPc[u] /\ ms'[u] = ms[u] /\ 0 \in HpSlot /\ 1 \in HpSlot BY DEF MsInv, HpSlot
<1>3. hpPc[u] \in AtGuarded => ms[u].at \in HpNode /\ MsSafe(u, 0, ms[u].at) BY <1>2 DEF MsLocal, MsSlots, MsSafe
<1>4. hpPc[u] \in NextGuarded => ms[u].next \in HpNode /\ MsSafe(u, 1, ms[u].next) BY <1>2 DEF MsLocal, MsSlots, MsSafe
<1>5. hpPc[u] \in AtGuarded => MsSafe(u, 0, ms[u].at)'
  <2> SUFFICES ASSUME hpPc[u] \in AtGuarded PROVE MsSafe(u, 0, ms[u].at)' OBVIOUS
  <2>1. PICK n \in HpNode : n = ms[u].at BY <1>3
  <2>2. MsSafe(u, 0, n)' BY <1>1, <1>2, <1>3, <2>1
  <2>3. ms'[u].at = n BY <1>2, <2>1
  <2> QED BY <2>2, <2>3
<1>6. hpPc[u] \in NextGuarded => MsSafe(u, 1, ms[u].next)'
  <2> SUFFICES ASSUME hpPc[u] \in NextGuarded PROVE MsSafe(u, 1, ms[u].next)' OBVIOUS
  <2>1. PICK n \in HpNode : n = ms[u].next BY <1>4
  <2>2. MsSafe(u, 1, n)' BY <1>1, <1>2, <1>4, <2>1
  <2>3. ms'[u].next = n BY <1>2, <2>1
  <2> QED BY <2>2, <2>3
<1>7. MsSlots(u)' BY <1>2, <1>5, <1>6 DEF MsLocal, MsSlots
<1>8. MsEnq(u)'
  <2>1. hpPc[u] = "enqSwing" => hpPc[u] \in AtGuarded BY DEF AtGuarded
  <2>2. hpPc[u] = "enqSwing" => msNext[ms[u].at] # NoNode BY SMTT(30), <1>2, HazardAssumption DEF MsLocal, MsEnq
  <2>3. hpPc[u] = "enqSwing" => msNext'[ms[u].at] = msNext[ms[u].at] BY <1>2, <1>3, <2>1, <2>2
  <2> QED BY <1>2, <2>3 DEF MsLocal, MsEnq
<1>9. MsDeq(u)'
  <2>1. (hpPc[u] \in Dequeuing => hpPc[u] \in AtGuarded) /\ (hpPc[u] \in NextRead => hpPc[u] \in AtGuarded)
        /\ (hpPc[u] = "deqCas" => hpPc[u] \in NextGuarded) /\ (hpPc[u] \in {"deqCopy", "deqCas"} => hpPc[u] \in Dequeuing)
    BY DEF AtGuarded, NextGuarded, NextRead, Dequeuing
  <2>2. hpPc[u] \in NextRead /\ ms[u].next # NoNode => msNext'[ms[u].at] = ms[u].next
    BY <1>2, <1>3, <2>1 DEF MsLocal, MsDeq
  <2>3. hpPc[u] \in Dequeuing => ms[u].at = msHead' \/ ms[u].at \notin MsQueued'
    BY <1>2, <1>3, <2>1 DEF MsLocal, MsDeq
  <2>4. hpPc[u] \in {"deqCopy", "deqCas"} /\ msHead' = ms[u].at => msTail' # ms[u].at
    BY <1>2, <1>3, <2>1 DEF MsLocal, MsDeq
  <2>5. hpPc[u] = "deqCas" => ms[u].tmp = msData'[ms[u].next]
    BY <1>2, <1>4, <2>1 DEF MsLocal, MsDeq
  <2> QED BY <1>2, <2>2, <2>3, <2>4, <2>5 DEF MsLocal, MsDeq
<1> QED BY <1>7, <1>8, <1>9 DEF MsLocal

\* A node that is in the queue once the slot holds it is guarded.
LEMMA MsQueuedSafe ==
  ASSUME NEW t \in HpThread, NEW i \in HpSlot, NEW n \in MsQueued, HpRegistered(t), hpSlots[t][i] = n
  PROVE  MsSafe(t, i, n)
<1>1. /\ n \in HpNode /\ n \notin hpUnused /\ \A u \in HpThread : n \notin hpToProcess[u]
      /\ \A u \in HpThread : hpPc[u] \in Building => ms[u].node # n
  BY DEF MsQueued, Rest, msMine
<1>2. Guards(t, i, n) BY <1>1, GuardStarts
<1> QED BY <1>1, <1>2 DEF MsSafe

\* The dummy node is in the queue.
LEMMA MsHeadQueued == MsInv => msHead \in MsQueued
<1> SUFFICES ASSUME MsInv PROVE msHead \in MsQueued OBVIOUS
<1>1. PICK c : IsList(c, HpNode, msHead, msNext, NoNode) /\ Members(c) = MsQueued BY DEF MsInv, MsListed
<1>2. msHead # NoNode BY HazardAssumption DEF MsInv, MsTypeOK
<1> QED BY <1>1, <1>2, ListPop, HazardAssumption

\* A step that leaves the queue and every node alone.
LEMMA MsQuiet ==
  ASSUME MsInv, NEW t \in HpThread, NEW l \in HpLabel, OpStep(t, l), l \notin {"scan", "scanSlot", "scanFree", "enqSwing", "deqRetire"},
         hpPc[t] # "deqRetire", UNCHANGED <<hpRetire, hpUnused, msHead, msTail, msNext, msData>>,
         ms' \in [HpThread -> MsLocals], hpSlots' \in [HpThread -> [HpSlot -> Pointer]],
         \A u \in HpThread \ {t} : ms'[u] = ms[u] /\ hpSlots'[u] = hpSlots[u],
         l \in Building <=> hpPc[t] \in Building,
         l \in Building => ms'[t].node = ms[t].node,
         l = "enqHelp" => ms'[t].next \in HpNode,
         l \in Working => HpRegistered(t),
         l \in {"enqValidate", "deqValidate"} => hpSlots'[t][0] = ms'[t].at,
         l \in {"deqValidateNext", "deqCheck"} => hpSlots'[t][1] = ms'[t].next,
         l \in AtGuarded => MsSafe(t, 0, ms'[t].at) /\ hpSlots'[t][0] = hpSlots[t][0],
         l \in NextGuarded => MsSafe(t, 1, ms'[t].next) /\ hpSlots'[t][1] = hpSlots[t][1],
         l \in NextRead /\ ms'[t].next # NoNode => msNext[ms'[t].at] = ms'[t].next,
         l \in Dequeuing => ms'[t].at = msHead \/ ms'[t].at \notin MsQueued,
         l \in {"deqCopy", "deqCas"} /\ msHead = ms'[t].at => msTail # ms'[t].at,
         l = "deqCas" => ms'[t].tmp = msData[ms'[t].next]
  PROVE  MsInv'
<1>1. HpInv'
  <2>1. HpInv /\ hpRetire' \subseteq HpNode /\ hpUnused' \subseteq HpNode BY DEF MsInv, MsTypeOK, HpInv, HpTypeOK
  <2> QED BY <2>1, OpInv
<1>2. \A u \in HpThread : hpPc'[u] = IF u = t THEN l ELSE hpPc[u] BY DEF OpStep, MsInv, MsTypeOK, HpInv, HpTypeOK
<1>3. MsTypeOK' BY <1>1 DEF MsInv, MsTypeOK
<1>4. msMine' = msMine
  <2>1. \A u \in HpThread : msMine'[u] = msMine[u] BY <1>2 DEF msMine
  <2> QED BY <2>1 DEF msMine
<1>5. hpToProcess' = hpToProcess /\ hpRecords' = hpRecords BY DEF OpStep
<1>6. MsOwned' /\ MsQueued' = MsQueued BY <1>4, <1>5 DEF MsInv, MsOwned, MsQueued
<1>7. MsListed' BY <1>6 DEF MsInv, MsListed
<1>8. MsLeft' BY SMTT(30), <1>2, <1>5 DEF MsInv, MsLeft
<1>9. \A u \in HpThread : HpRegistered(u)' = HpRegistered(u) BY <1>5 DEF HpRegistered
<1>10. HpInv BY DEF MsInv, MsTypeOK
<1>11. ASSUME NEW u \in HpThread, u # t PROVE MsLocal(u)'
  <2>1. \A i \in HpSlot : \A n \in HpNode : Guards(u, i, n) => Guards(u, i, n)'
    <3> TAKE i \in HpSlot
    <3> TAKE n \in HpNode
    <3> HAVE Guards(u, i, n)
    <3>1. hpSlots'[u][i] = n BY <1>11 DEF Guards
    <3> QED BY <1>10, <3>1, GuardOp
  <2>2. \A i \in HpSlot : \A n \in HpNode : MsSafe(u, i, n) => n \notin hpUnused' /\ (hpPc'[t] \in Building => ms'[t].node # n)
    BY <1>2 DEF MsSafe
  <2>3. hpPc[u] \in Building => msNext[ms[u].node] = NoNode BY DEF MsInv, MsLocal, MsEnq
  <2>4. \A v \in HpThread \ {t} : hpPc'[v] = hpPc[v] /\ ms'[v] = ms[v] BY <1>2
  <2>5. hpSlots'[u] = hpSlots[u] BY <1>11
  <2> QED BY <1>6, <1>9, <1>11, <2>1, <2>2, <2>3, <2>4, <2>5, MsOthers
<1>12. ASSUME NEW i \in HpSlot, NEW n, MsSafe(t, i, n), hpSlots'[t][i] = hpSlots[t][i] PROVE MsSafe(t, i, n)'
  <2>1. n \in HpNode /\ Guards(t, i, n) /\ hpSlots'[t][i] = n BY <1>12 DEF MsSafe, Guards
  <2>2. Guards(t, i, n)' BY <1>10, <2>1, GuardOp
  <2>3. \A v \in HpThread : hpPc'[v] \in Building => hpPc[v] \in Building /\ ms'[v].node = ms[v].node BY <1>2
  <2> QED BY <1>12, <2>2, <2>3 DEF MsSafe
<1>13. MsLocal(t)'
  <2>1. hpPc'[t] = l /\ 0 \in HpSlot /\ 1 \in HpSlot BY <1>2 DEF HpSlot
  <2>2. l \in AtGuarded => MsSafe(t, 0, ms[t].at)'
    <3>1. PICK n : n = ms'[t].at OBVIOUS
    <3>2. l \in AtGuarded => MsSafe(t, 0, n)' BY <1>12, <2>1, <3>1
    <3> QED BY <3>1, <3>2
  <2>3. l \in NextGuarded => MsSafe(t, 1, ms[t].next)'
    <3>1. PICK n : n = ms'[t].next OBVIOUS
    <3>2. l \in NextGuarded => MsSafe(t, 1, n)' BY <1>12, <2>1, <3>1
    <3> QED BY <3>1, <3>2
  <2>4. MsSlots(t)' BY <1>9, <2>1, <2>2, <2>3 DEF MsSlots
  <2>5. MsEnq(t)' BY <2>1 DEF MsInv, MsLocal, MsEnq
  <2>6. MsDeq(t)' BY <1>6, <2>1 DEF MsDeq
  <2> QED BY <2>4, <2>5, <2>6 DEF MsLocal
<1> QED BY <1>3, <1>6, <1>7, <1>8, <1>11, <1>13 DEF MsInv

\* The locals are forgotten; the operation returns.
LEMMA MsForgets ==
  ASSUME NEW t \in HpThread, ms \in [HpThread -> MsLocals], NEW l, MsAgain(t, l)
  PROVE  /\ ms' \in [HpThread -> MsLocals] /\ (\A u \in HpThread \ {t} : ms'[u] = ms[u])
         /\ ms'[t].node = ms[t].node /\ ms'[t].next = NoNode
<1>1. ms[t].node \in Pointer BY DEF MsLocals
<1>2. PICK q : q = [NoLocals EXCEPT !.node = ms[t].node] OBVIOUS
<1>3. q \in MsLocals /\ q.node = ms[t].node /\ q.next = NoNode BY <1>1, <1>2 DEF MsLocals, NoLocals, Pointer
<1>4. ms' = [ms EXCEPT ![t] = q] BY <1>2 DEF MsAgain
<1> QED BY <1>3, <1>4

\* The locals are forgotten when the operation returns.
LEMMA MsReturns ==
  ASSUME NEW t \in HpThread, ms \in [HpThread -> MsLocals], MsReturn(t)
  PROVE  ms' \in [HpThread -> MsLocals] /\ \A u \in HpThread \ {t} : ms'[u] = ms[u]
<1>1. NoLocals \in MsLocals BY DEF NoLocals, MsLocals, Pointer
<1> QED BY <1>1 DEF MsReturn

\* The steps of enqueue up to the compare-exchange of next.
LEMMA MsEnqSteps ==
  ASSUME MsInv, NEW t \in HpThread,
         \/ EnqLoad(t) \/ EnqProtect(t) \/ EnqValidate(t) \/ EnqNext(t) \/ EnqRecheck(t)
         \/ (EnqLink(t) /\ MsAgain(t, "enqLoad") /\ UNCHANGED msNext)
  PROVE  MsInv'
<1>ty. /\ HpInv /\ hpSlots \in [HpThread -> [HpSlot -> Pointer]] /\ ms \in [HpThread -> MsLocals] /\ msHead \in HpNode /\ msTail \in HpNode
       /\ msNext \in [HpNode -> Pointer] /\ hpPc \in [HpThread -> HpLabel] /\ NoNode \in Pointer /\ HpNode \subseteq Pointer
       /\ 0 \in HpSlot /\ 1 \in HpSlot /\ ms[t].at \in Pointer /\ ms[t].next \in Pointer
  BY DEF MsInv, MsTypeOK, HpInv, HpTypeOK, Pointer, HpSlot, MsLocals
<1>me. MsEnq(t) /\ MsSlots(t) /\ MsDeq(t) BY DEF MsInv, MsLocal
<1>1. CASE EnqLoad(t)
  <2>1. /\ OpStep(t, "enqProtect") /\ hpPc[t] = "enqLoad" /\ HpRegistered(t)
        /\ UNCHANGED <<hpSlots, hpRetire, hpUnused, msHead, msTail, msNext, msData>>
    BY <1>1, <1>me DEF EnqLoad, MsSet, MsSlots, Working, Building, Dequeuing, OpStep, HpGoto, MsLoad, MsPublish, hpDomain, hpScan, msQueue
  <2>2. PICK p \in Pointer : p = msTail /\ ms' = [ms EXCEPT ![t]["at"] = p] BY <1>ty, <1>1 DEF EnqLoad, MsSet
  <2>3. /\ ms' \in [HpThread -> MsLocals] /\ (\A u \in HpThread \ {t} : ms'[u] = ms[u]) /\ ms'[t].node = ms[t].node
        /\ ms'[t].at = p /\ ms'[t].next = ms[t].next
    BY <1>ty, <2>2 DEF MsLocals
  <2>0. /\ "enqProtect" \in HpLabel /\ "enqProtect" \in Building /\ "enqProtect" \in Working /\ "enqProtect" \notin Dequeuing
        /\ "enqProtect" \notin AtGuarded /\ "enqProtect" \notin NextGuarded /\ "enqProtect" \notin NextRead /\ hpPc[t] \in Building
    BY <2>1 DEF HpLabel, Building, Working, Dequeuing, AtGuarded, NextGuarded, NextRead
  <2> QED BY <1>ty, <2>0, <2>1, <2>2, <2>3, MsQuiet
<1>2. CASE EnqProtect(t)
  <2>1. /\ OpStep(t, "enqValidate") /\ hpPc[t] = "enqProtect" /\ HpRegistered(t) /\ ms' = ms
        /\ UNCHANGED <<hpRetire, hpUnused, msHead, msTail, msNext, msData>>
    BY <1>2, <1>me DEF EnqProtect, MsOn, MsSlots, Working, Building, Dequeuing, OpStep, HpGoto, MsLoad, MsPublish, hpDomain, hpScan, msQueue
  <2>2. PICK p \in Pointer : p = ms[t].at /\ hpSlots' = [hpSlots EXCEPT ![t][0] = p] BY <1>ty, <1>2 DEF EnqProtect, SetSlot
  <2>3. /\ hpSlots' \in [HpThread -> [HpSlot -> Pointer]] /\ (\A u \in HpThread \ {t} : hpSlots'[u] = hpSlots[u])
        /\ hpSlots'[t][0] = p /\ hpSlots'[t][1] = hpSlots[t][1]
    BY SMTT(30), <1>ty, <2>2 DEF HpSlot
  <2>0. /\ "enqValidate" \in HpLabel /\ "enqValidate" \in Building /\ "enqValidate" \in Working /\ "enqValidate" \notin Dequeuing
        /\ "enqValidate" \notin AtGuarded /\ "enqValidate" \notin NextGuarded /\ "enqValidate" \notin NextRead /\ hpPc[t] \in Building
    BY <2>1 DEF HpLabel, Building, Working, Dequeuing, AtGuarded, NextGuarded, NextRead
  <2> QED BY <1>ty, <2>0, <2>1, <2>2, <2>3, MsQuiet
<1>3. CASE EnqValidate(t) /\ msTail = ms[t].at
  <2>1. /\ OpStep(t, "enqNext") /\ hpPc[t] = "enqValidate" /\ HpRegistered(t) /\ ms' = ms
        /\ UNCHANGED <<hpSlots, hpRetire, hpUnused, msHead, msTail, msNext, msData>>
    BY <1>3, <1>me DEF EnqValidate, MsOn, MsSlots, Working, Building, Dequeuing, OpStep, HpGoto, MsLoad, MsPublish, hpDomain, hpScan, msQueue
  <2>2. MsSafe(t, 0, ms[t].at)
    <3>1. ms[t].at \in MsQueued /\ hpSlots[t][0] = ms[t].at BY <1>3, <1>me, <2>1 DEF MsInv, MsListed, MsSlots
    <3> QED BY <1>ty, <2>1, <3>1, MsQueuedSafe
  <2>0. /\ "enqNext" \in HpLabel /\ "enqNext" \in Building /\ "enqNext" \in Working /\ "enqNext" \notin Dequeuing
        /\ "enqNext" \in AtGuarded /\ "enqNext" \notin NextGuarded /\ "enqNext" \notin NextRead /\ hpPc[t] \in Building
    BY <2>1 DEF HpLabel, Building, Working, Dequeuing, AtGuarded, NextGuarded, NextRead
  <2> QED BY <1>ty, <2>0, <2>1, <2>2, MsQuiet
<1>4. CASE EnqValidate(t) /\ msTail # ms[t].at
  <2>1. /\ OpStep(t, "enqLoad") /\ hpPc[t] = "enqValidate" /\ HpRegistered(t) /\ MsAgain(t, "enqLoad")
        /\ UNCHANGED <<hpSlots, hpRetire, hpUnused, msHead, msTail, msNext, msData>>
    BY <1>4, <1>me DEF EnqValidate, MsAgain, MsSlots, Working, Building, Dequeuing, OpStep, HpGoto, MsLoad, MsPublish, hpDomain, hpScan, msQueue
  <2>2. ms' \in [HpThread -> MsLocals] /\ (\A u \in HpThread \ {t} : ms'[u] = ms[u]) /\ ms'[t].node = ms[t].node
    BY <1>ty, <2>1, MsForgets
  <2>0. /\ "enqLoad" \in HpLabel /\ "enqLoad" \in Building /\ "enqLoad" \in Working /\ "enqLoad" \notin Dequeuing
        /\ "enqLoad" \notin AtGuarded /\ "enqLoad" \notin NextGuarded /\ "enqLoad" \notin NextRead /\ hpPc[t] \in Building
    BY <2>1 DEF HpLabel, Building, Working, Dequeuing, AtGuarded, NextGuarded, NextRead
  <2> QED BY <1>ty, <2>0, <2>1, <2>2, MsQuiet
<1>5. CASE EnqNext(t)
  <2>1. /\ OpStep(t, "enqRecheck") /\ hpPc[t] = "enqNext" /\ HpRegistered(t)
        /\ UNCHANGED <<hpSlots, hpRetire, hpUnused, msHead, msTail, msNext, msData>>
    BY <1>5, <1>me DEF EnqNext, MsSet, MsSlots, Working, Building, Dequeuing, OpStep, HpGoto, MsLoad, MsPublish, hpDomain, hpScan, msQueue
  <2>5. ms[t].at \in HpNode /\ MsSafe(t, 0, ms[t].at) BY <1>me, <2>1 DEF MsSlots, AtGuarded, Dequeuing, MsSafe
  <2>2. PICK p \in Pointer : p = msNext[ms[t].at] /\ ms' = [ms EXCEPT ![t]["next"] = p] BY <1>ty, <1>5, <2>5 DEF EnqNext, MsSet
  <2>3. /\ ms' \in [HpThread -> MsLocals] /\ (\A u \in HpThread \ {t} : ms'[u] = ms[u]) /\ ms'[t].node = ms[t].node
        /\ ms'[t].at = ms[t].at /\ ms'[t].next = p
    BY <1>ty, <2>2 DEF MsLocals
  <2>0. /\ "enqRecheck" \in HpLabel /\ "enqRecheck" \in Building /\ "enqRecheck" \in Working /\ "enqRecheck" \notin Dequeuing
        /\ "enqRecheck" \in AtGuarded /\ "enqRecheck" \notin NextGuarded /\ "enqRecheck" \in NextRead /\ hpPc[t] \in Building
    BY <2>1 DEF HpLabel, Building, Working, Dequeuing, AtGuarded, NextGuarded, NextRead
  <2> QED BY <1>ty, <2>0, <2>1, <2>2, <2>3, <2>5, MsQuiet
<1>6. CASE EnqRecheck(t) /\ msTail # ms[t].at
  <2>1. /\ OpStep(t, "enqLoad") /\ hpPc[t] = "enqRecheck" /\ HpRegistered(t) /\ MsAgain(t, "enqLoad")
        /\ UNCHANGED <<hpSlots, hpRetire, hpUnused, msHead, msTail, msNext, msData>>
    BY <1>6, <1>me DEF EnqRecheck, MsAgain, MsSlots, Working, Building, Dequeuing, OpStep, HpGoto, MsLoad, MsPublish, hpDomain, hpScan, msQueue
  <2>2. ms' \in [HpThread -> MsLocals] /\ (\A u \in HpThread \ {t} : ms'[u] = ms[u]) /\ ms'[t].node = ms[t].node
    BY <1>ty, <2>1, MsForgets
  <2>0. /\ "enqLoad" \in HpLabel /\ "enqLoad" \in Building /\ "enqLoad" \in Working /\ "enqLoad" \notin Dequeuing
        /\ "enqLoad" \notin AtGuarded /\ "enqLoad" \notin NextGuarded /\ "enqLoad" \notin NextRead /\ hpPc[t] \in Building
    BY <2>1 DEF HpLabel, Building, Working, Dequeuing, AtGuarded, NextGuarded, NextRead
  <2> QED BY <1>ty, <2>0, <2>1, <2>2, MsQuiet
<1>7. CASE EnqRecheck(t) /\ msTail = ms[t].at /\ ms[t].next = NoNode
  <2>1. /\ OpStep(t, "enqLink") /\ hpPc[t] = "enqRecheck" /\ HpRegistered(t) /\ ms' = ms
        /\ UNCHANGED <<hpSlots, hpRetire, hpUnused, msHead, msTail, msNext, msData>>
    BY <1>7, <1>me DEF EnqRecheck, MsOn, MsSlots, Working, Building, Dequeuing, OpStep, HpGoto, MsLoad, MsPublish, hpDomain, hpScan, msQueue
  <2>5. MsSafe(t, 0, ms[t].at) BY <1>me, <2>1 DEF MsSlots, AtGuarded, Dequeuing
  <2>0. /\ "enqLink" \in HpLabel /\ "enqLink" \in Building /\ "enqLink" \in Working /\ "enqLink" \notin Dequeuing
        /\ "enqLink" \in AtGuarded /\ "enqLink" \notin NextGuarded /\ "enqLink" \in NextRead /\ hpPc[t] \in Building
    BY <2>1 DEF HpLabel, Building, Working, Dequeuing, AtGuarded, NextGuarded, NextRead
  <2> QED BY <1>ty, <2>0, <2>1, <1>7, <2>5, MsQuiet
<1>8. CASE EnqRecheck(t) /\ msTail = ms[t].at /\ ms[t].next # NoNode
  <2>1. /\ OpStep(t, "enqHelp") /\ hpPc[t] = "enqRecheck" /\ HpRegistered(t) /\ ms' = ms
        /\ UNCHANGED <<hpSlots, hpRetire, hpUnused, msHead, msTail, msNext, msData>>
    BY <1>8, <1>me DEF EnqRecheck, MsOn, MsSlots, Working, Building, Dequeuing, OpStep, HpGoto, MsLoad, MsPublish, hpDomain, hpScan, msQueue
  <2>5. MsSafe(t, 0, ms[t].at) BY <1>me, <2>1 DEF MsSlots, AtGuarded, Dequeuing
  <2>6. ms[t].next \in HpNode /\ msNext[ms[t].at] = ms[t].next BY <1>ty, <1>me, <1>8, <2>1 DEF MsDeq, NextRead, Pointer
  <2>0. /\ "enqHelp" \in HpLabel /\ "enqHelp" \in Building /\ "enqHelp" \in Working /\ "enqHelp" \notin Dequeuing
        /\ "enqHelp" \in AtGuarded /\ "enqHelp" \notin NextGuarded /\ "enqHelp" \in NextRead /\ hpPc[t] \in Building
    BY <2>1 DEF HpLabel, Building, Working, Dequeuing, AtGuarded, NextGuarded, NextRead
  <2> QED BY <1>ty, <2>0, <2>1, <1>8, <2>5, <2>6, MsQuiet
<1>9. CASE EnqLink(t) /\ MsAgain(t, "enqLoad") /\ UNCHANGED msNext
  <2>1. /\ OpStep(t, "enqLoad") /\ hpPc[t] = "enqLink" /\ HpRegistered(t) /\ MsAgain(t, "enqLoad")
        /\ UNCHANGED <<hpSlots, hpRetire, hpUnused, msHead, msTail, msNext, msData>>
    BY <1>9, <1>me DEF EnqLink, MsAgain, MsSlots, Working, Building, Dequeuing, OpStep, HpGoto, MsLoad, MsPublish, hpDomain, hpScan, msQueue
  <2>2. ms' \in [HpThread -> MsLocals] /\ (\A u \in HpThread \ {t} : ms'[u] = ms[u]) /\ ms'[t].node = ms[t].node
    BY <1>ty, <2>1, MsForgets
  <2>0. /\ "enqLoad" \in HpLabel /\ "enqLoad" \in Building /\ "enqLoad" \in Working /\ "enqLoad" \notin Dequeuing
        /\ "enqLoad" \notin AtGuarded /\ "enqLoad" \notin NextGuarded /\ "enqLoad" \notin NextRead /\ hpPc[t] \in Building
    BY <2>1 DEF HpLabel, Building, Working, Dequeuing, AtGuarded, NextGuarded, NextRead
  <2> QED BY <1>ty, <2>0, <2>1, <2>2, MsQuiet
<1> QED BY <1>1, <1>2, <1>3, <1>4, <1>5, <1>6, <1>7, <1>8, <1>9

\* The steps of dequeue up to the compare-exchange of head_.
LEMMA MsDeqSteps ==
  ASSUME MsInv, NEW t \in HpThread,
         \/ DeqLoad(t) \/ DeqProtect(t) \/ DeqValidate(t) \/ DeqNext(t) \/ DeqProtectNext(t)
         \/ DeqValidateNext(t) \/ DeqCheck(t) \/ DeqEmpty(t) \/ DeqTail(t) \/ DeqCopy(t)
         \/ (DeqCas(t) /\ MsAgain(t, "deqLoad") /\ UNCHANGED msHead)
  PROVE  MsInv'
<1>ty. /\ HpInv /\ hpSlots \in [HpThread -> [HpSlot -> Pointer]] /\ ms \in [HpThread -> MsLocals] /\ msHead \in HpNode /\ msTail \in HpNode
       /\ msNext \in [HpNode -> Pointer] /\ hpPc \in [HpThread -> HpLabel] /\ NoNode \in Pointer /\ HpNode \subseteq Pointer
       /\ 0 \in HpSlot /\ 1 \in HpSlot /\ ms[t].at \in Pointer /\ ms[t].next \in Pointer
  BY DEF MsInv, MsTypeOK, HpInv, HpTypeOK, Pointer, HpSlot, MsLocals
<1>me. MsEnq(t) /\ MsSlots(t) /\ MsDeq(t) BY DEF MsInv, MsLocal
<1>1. CASE DeqLoad(t)
  <2>1. /\ OpStep(t, "deqProtect") /\ hpPc[t] \in {"idle", "deqLoad"} /\ HpRegistered(t)
        /\ UNCHANGED <<hpSlots, hpRetire, hpUnused, msHead, msTail, msNext, msData>>
    BY <1>1, <1>me DEF DeqLoad, MsSet, MsSlots, Working, Building, Dequeuing, OpStep, HpGoto, MsLoad, MsPublish, hpDomain, hpScan, msQueue
  <2>2. PICK p \in Pointer : p = msHead /\ ms' = [ms EXCEPT ![t]["at"] = p] BY <1>ty, <1>1 DEF DeqLoad, MsSet
  <2>3. /\ ms' \in [HpThread -> MsLocals] /\ (\A u \in HpThread \ {t} : ms'[u] = ms[u]) /\ ms'[t].node = ms[t].node
        /\ ms'[t].at = p /\ ms'[t].next = ms[t].next
    BY <1>ty, <2>2 DEF MsLocals
  <2>0. /\ "deqProtect" \in HpLabel /\ "deqProtect" \notin Building /\ "deqProtect" \in Working /\ "deqProtect" \notin Dequeuing
        /\ "deqProtect" \notin AtGuarded /\ "deqProtect" \notin NextGuarded /\ "deqProtect" \notin NextRead /\ hpPc[t] \notin Building
    BY <2>1 DEF HpLabel, Building, Working, Dequeuing, AtGuarded, NextGuarded, NextRead
  <2> QED BY <1>ty, <2>0, <2>1, <2>2, <2>3, MsQuiet
<1>2. CASE DeqProtect(t)
  <2>1. /\ OpStep(t, "deqValidate") /\ hpPc[t] = "deqProtect" /\ HpRegistered(t) /\ ms' = ms
        /\ UNCHANGED <<hpRetire, hpUnused, msHead, msTail, msNext, msData>>
    BY <1>2, <1>me DEF DeqProtect, MsOn, MsSlots, Working, Building, Dequeuing, OpStep, HpGoto, MsLoad, MsPublish, hpDomain, hpScan, msQueue
  <2>2. PICK p \in Pointer : p = ms[t].at /\ hpSlots' = [hpSlots EXCEPT ![t][0] = p] BY <1>ty, <1>2 DEF DeqProtect, SetSlot
  <2>3. /\ hpSlots' \in [HpThread -> [HpSlot -> Pointer]] /\ (\A u \in HpThread \ {t} : hpSlots'[u] = hpSlots[u])
        /\ hpSlots'[t][0] = p /\ hpSlots'[t][1] = hpSlots[t][1]
    BY SMTT(30), <1>ty, <2>2 DEF HpSlot
  <2>0. /\ "deqValidate" \in HpLabel /\ "deqValidate" \notin Building /\ "deqValidate" \in Working /\ "deqValidate" \notin Dequeuing
        /\ "deqValidate" \notin AtGuarded /\ "deqValidate" \notin NextGuarded /\ "deqValidate" \notin NextRead /\ hpPc[t] \notin Building
    BY <2>1 DEF HpLabel, Building, Working, Dequeuing, AtGuarded, NextGuarded, NextRead
  <2> QED BY <1>ty, <2>0, <2>1, <2>2, <2>3, MsQuiet
<1>3. CASE DeqValidate(t) /\ msHead = ms[t].at
  <2>1. /\ OpStep(t, "deqNext") /\ hpPc[t] = "deqValidate" /\ HpRegistered(t) /\ ms' = ms
        /\ UNCHANGED <<hpSlots, hpRetire, hpUnused, msHead, msTail, msNext, msData>>
    BY <1>3, <1>me DEF DeqValidate, MsOn, MsSlots, Working, Building, Dequeuing, OpStep, HpGoto, MsLoad, MsPublish, hpDomain, hpScan, msQueue
  <2>2. MsSafe(t, 0, ms[t].at)
    <3>1. ms[t].at \in MsQueued /\ hpSlots[t][0] = ms[t].at BY <1>3, <1>me, <2>1, MsHeadQueued DEF MsSlots
    <3> QED BY <1>ty, <2>1, <3>1, MsQueuedSafe
  <2>0. /\ "deqNext" \in HpLabel /\ "deqNext" \notin Building /\ "deqNext" \in Working /\ "deqNext" \in Dequeuing
        /\ "deqNext" \in AtGuarded /\ "deqNext" \notin NextGuarded /\ "deqNext" \notin NextRead /\ hpPc[t] \notin Building
    BY <2>1 DEF HpLabel, Building, Working, Dequeuing, AtGuarded, NextGuarded, NextRead
  <2> QED BY <1>ty, <2>0, <2>1, <1>3, <2>2, MsQuiet
<1>4. CASE DeqValidate(t) /\ msHead # ms[t].at
  <2>1. /\ OpStep(t, "deqLoad") /\ hpPc[t] = "deqValidate" /\ HpRegistered(t) /\ MsAgain(t, "deqLoad")
        /\ UNCHANGED <<hpSlots, hpRetire, hpUnused, msHead, msTail, msNext, msData>>
    BY <1>4, <1>me DEF DeqValidate, MsAgain, MsSlots, Working, Building, Dequeuing, OpStep, HpGoto, MsLoad, MsPublish, hpDomain, hpScan, msQueue
  <2>2. ms' \in [HpThread -> MsLocals] /\ (\A u \in HpThread \ {t} : ms'[u] = ms[u]) /\ ms'[t].node = ms[t].node
    BY <1>ty, <2>1, MsForgets
  <2>0. /\ "deqLoad" \in HpLabel /\ "deqLoad" \notin Building /\ "deqLoad" \in Working /\ "deqLoad" \notin Dequeuing
        /\ "deqLoad" \notin AtGuarded /\ "deqLoad" \notin NextGuarded /\ "deqLoad" \notin NextRead /\ hpPc[t] \notin Building
    BY <2>1 DEF HpLabel, Building, Working, Dequeuing, AtGuarded, NextGuarded, NextRead
  <2> QED BY <1>ty, <2>0, <2>1, <2>2, MsQuiet
<1>5. CASE DeqNext(t)
  <2>1. /\ OpStep(t, "deqProtectNext") /\ hpPc[t] = "deqNext" /\ HpRegistered(t)
        /\ UNCHANGED <<hpSlots, hpRetire, hpUnused, msHead, msTail, msNext, msData>>
    BY <1>5, <1>me DEF DeqNext, MsSet, MsSlots, Working, Building, Dequeuing, OpStep, HpGoto, MsLoad, MsPublish, hpDomain, hpScan, msQueue
  <2>5. ms[t].at \in HpNode /\ MsSafe(t, 0, ms[t].at) BY <1>me, <2>1 DEF MsSlots, AtGuarded, Dequeuing, MsSafe
  <2>2. PICK p \in Pointer : p = msNext[ms[t].at] /\ ms' = [ms EXCEPT ![t]["next"] = p] BY <1>ty, <1>5, <2>5 DEF DeqNext, MsSet
  <2>3. /\ ms' \in [HpThread -> MsLocals] /\ (\A u \in HpThread \ {t} : ms'[u] = ms[u]) /\ ms'[t].node = ms[t].node
        /\ ms'[t].at = ms[t].at /\ ms'[t].next = p
    BY <1>ty, <2>2 DEF MsLocals
  <2>6. ms[t].at = msHead \/ ms[t].at \notin MsQueued BY <1>me, <2>1 DEF MsDeq, Dequeuing
  <2>0. /\ "deqProtectNext" \in HpLabel /\ "deqProtectNext" \notin Building /\ "deqProtectNext" \in Working /\ "deqProtectNext" \in Dequeuing
        /\ "deqProtectNext" \in AtGuarded /\ "deqProtectNext" \notin NextGuarded /\ "deqProtectNext" \in NextRead /\ hpPc[t] \notin Building
    BY <2>1 DEF HpLabel, Building, Working, Dequeuing, AtGuarded, NextGuarded, NextRead
  <2> QED BY <1>ty, <2>0, <2>1, <2>2, <2>3, <2>5, <2>6, MsQuiet
<1>6. CASE DeqProtectNext(t)
  <2>1. /\ OpStep(t, "deqValidateNext") /\ hpPc[t] = "deqProtectNext" /\ HpRegistered(t) /\ ms' = ms
        /\ UNCHANGED <<hpRetire, hpUnused, msHead, msTail, msNext, msData>>
    BY <1>6, <1>me DEF DeqProtectNext, MsOn, MsSlots, Working, Building, Dequeuing, OpStep, HpGoto, MsLoad, MsPublish, hpDomain, hpScan, msQueue
  <2>2. PICK p \in Pointer : p = ms[t].next /\ hpSlots' = [hpSlots EXCEPT ![t][1] = p] BY <1>ty, <1>6 DEF DeqProtectNext, SetSlot
  <2>3. /\ hpSlots' \in [HpThread -> [HpSlot -> Pointer]] /\ (\A u \in HpThread \ {t} : hpSlots'[u] = hpSlots[u])
        /\ hpSlots'[t][1] = p /\ hpSlots'[t][0] = hpSlots[t][0]
    BY SMTT(30), <1>ty, <2>2 DEF HpSlot
  <2>5. ms[t].at \in HpNode /\ MsSafe(t, 0, ms[t].at) BY <1>me, <2>1 DEF MsSlots, AtGuarded, Dequeuing, MsSafe
  <2>6. ms[t].at = msHead \/ ms[t].at \notin MsQueued BY <1>me, <2>1 DEF MsDeq, Dequeuing
  <2>7. ms[t].next # NoNode => msNext[ms[t].at] = ms[t].next BY <1>me, <2>1 DEF MsDeq, NextRead, Dequeuing
  <2>0. /\ "deqValidateNext" \in HpLabel /\ "deqValidateNext" \notin Building /\ "deqValidateNext" \in Working /\ "deqValidateNext" \in Dequeuing
        /\ "deqValidateNext" \in AtGuarded /\ "deqValidateNext" \notin NextGuarded /\ "deqValidateNext" \in NextRead /\ hpPc[t] \notin Building
    BY <2>1 DEF HpLabel, Building, Working, Dequeuing, AtGuarded, NextGuarded, NextRead
  <2> QED BY <1>ty, <2>0, <2>1, <2>2, <2>3, <2>5, <2>6, <2>7, MsQuiet
<1>7. CASE DeqValidateNext(t) /\ msNext[ms[t].at] = ms[t].next
  <2>1. /\ OpStep(t, "deqCheck") /\ hpPc[t] = "deqValidateNext" /\ HpRegistered(t) /\ ms' = ms
        /\ UNCHANGED <<hpSlots, hpRetire, hpUnused, msHead, msTail, msNext, msData>>
    BY <1>7, <1>me DEF DeqValidateNext, MsOn, MsSlots, Working, Building, Dequeuing, OpStep, HpGoto, MsLoad, MsPublish, hpDomain, hpScan, msQueue
  <2>5. ms[t].at \in HpNode /\ MsSafe(t, 0, ms[t].at) BY <1>me, <2>1 DEF MsSlots, AtGuarded, Dequeuing, MsSafe
  <2>6. ms[t].at = msHead \/ ms[t].at \notin MsQueued BY <1>me, <2>1 DEF MsDeq, Dequeuing
  <2>7. hpSlots[t][1] = ms[t].next BY <1>me, <2>1 DEF MsSlots
  <2>0. /\ "deqCheck" \in HpLabel /\ "deqCheck" \notin Building /\ "deqCheck" \in Working /\ "deqCheck" \in Dequeuing
        /\ "deqCheck" \in AtGuarded /\ "deqCheck" \notin NextGuarded /\ "deqCheck" \in NextRead /\ hpPc[t] \notin Building
    BY <2>1 DEF HpLabel, Building, Working, Dequeuing, AtGuarded, NextGuarded, NextRead
  <2> QED BY <1>ty, <2>0, <2>1, <1>7, <2>5, <2>6, <2>7, MsQuiet
<1>8. CASE DeqValidateNext(t) /\ msNext[ms[t].at] # ms[t].next
  <2>1. /\ OpStep(t, "deqNext") /\ hpPc[t] = "deqValidateNext" /\ HpRegistered(t) /\ ms' = ms
        /\ UNCHANGED <<hpSlots, hpRetire, hpUnused, msHead, msTail, msNext, msData>>
    BY <1>8, <1>me DEF DeqValidateNext, MsOn, MsSlots, Working, Building, Dequeuing, OpStep, HpGoto, MsLoad, MsPublish, hpDomain, hpScan, msQueue
  <2>5. ms[t].at \in HpNode /\ MsSafe(t, 0, ms[t].at) BY <1>me, <2>1 DEF MsSlots, AtGuarded, Dequeuing, MsSafe
  <2>6. ms[t].at = msHead \/ ms[t].at \notin MsQueued BY <1>me, <2>1 DEF MsDeq, Dequeuing
  <2>0. /\ "deqNext" \in HpLabel /\ "deqNext" \notin Building /\ "deqNext" \in Working /\ "deqNext" \in Dequeuing
        /\ "deqNext" \in AtGuarded /\ "deqNext" \notin NextGuarded /\ "deqNext" \notin NextRead /\ hpPc[t] \notin Building
    BY <2>1 DEF HpLabel, Building, Working, Dequeuing, AtGuarded, NextGuarded, NextRead
  <2> QED BY <1>ty, <2>0, <2>1, <2>5, <2>6, MsQuiet
<1>9. CASE DeqCheck(t) /\ msHead = ms[t].at
  <2>1. /\ OpStep(t, "deqTail") /\ hpPc[t] = "deqCheck" /\ HpRegistered(t) /\ ms' = ms
        /\ UNCHANGED <<hpSlots, hpRetire, hpUnused, msHead, msTail, msNext, msData>>
    BY <1>9, <1>me DEF DeqCheck, MsOn, MsSlots, Working, Building, Dequeuing, OpStep, HpGoto, MsLoad, MsPublish, hpDomain, hpScan, msQueue
  <2>5. ms[t].at \in HpNode /\ MsSafe(t, 0, ms[t].at) BY <1>me, <2>1 DEF MsSlots, AtGuarded, Dequeuing, MsSafe
  <2>6. ms[t].at = msHead \/ ms[t].at \notin MsQueued BY <1>me, <2>1 DEF MsDeq, Dequeuing
  <2>7. ms[t].next # NoNode => msNext[ms[t].at] = ms[t].next BY <1>me, <2>1 DEF MsDeq, NextRead, Dequeuing
  <2>8. MsSafe(t, 1, ms[t].next)
    <3>1. ms[t].next # NoNode BY <1>9 DEF DeqCheck
    <3>2. PICK c : IsList(c, HpNode, msHead, msNext, NoNode) /\ Members(c) = MsQueued BY DEF MsInv, MsListed
    <3>3. ms[t].at \in Members(c) /\ msNext[ms[t].at] # NoNode BY <1>9, <2>7, <3>1, <3>2, MsHeadQueued
    <3>4. msNext[ms[t].at] \in Members(c) BY SMTT(30), <3>2, <3>3, ListNext, HazardAssumption
    <3>5. ms[t].next \in MsQueued /\ hpSlots[t][1] = ms[t].next BY <1>me, <2>1, <2>7, <3>1, <3>2, <3>4 DEF MsSlots
    <3> QED BY <1>ty, <2>1, <3>5, MsQueuedSafe
  <2>0. /\ "deqTail" \in HpLabel /\ "deqTail" \notin Building /\ "deqTail" \in Working /\ "deqTail" \in Dequeuing
        /\ "deqTail" \in AtGuarded /\ "deqTail" \in NextGuarded /\ "deqTail" \in NextRead /\ hpPc[t] \notin Building
    BY <2>1 DEF HpLabel, Building, Working, Dequeuing, AtGuarded, NextGuarded, NextRead
  <2> QED BY <1>ty, <2>0, <2>1, <2>5, <2>6, <2>7, <2>8, MsQuiet
<1>10. CASE DeqCheck(t) /\ msHead # ms[t].at
  <2>1. /\ OpStep(t, "deqLoad") /\ hpPc[t] = "deqCheck" /\ HpRegistered(t) /\ MsAgain(t, "deqLoad")
        /\ UNCHANGED <<hpSlots, hpRetire, hpUnused, msHead, msTail, msNext, msData>>
    BY <1>10, <1>me DEF DeqCheck, MsAgain, MsSlots, Working, Building, Dequeuing, OpStep, HpGoto, MsLoad, MsPublish, hpDomain, hpScan, msQueue
  <2>2. ms' \in [HpThread -> MsLocals] /\ (\A u \in HpThread \ {t} : ms'[u] = ms[u]) /\ ms'[t].node = ms[t].node
    BY <1>ty, <2>1, MsForgets
  <2>0. /\ "deqLoad" \in HpLabel /\ "deqLoad" \notin Building /\ "deqLoad" \in Working /\ "deqLoad" \notin Dequeuing
        /\ "deqLoad" \notin AtGuarded /\ "deqLoad" \notin NextGuarded /\ "deqLoad" \notin NextRead /\ hpPc[t] \notin Building
    BY <2>1 DEF HpLabel, Building, Working, Dequeuing, AtGuarded, NextGuarded, NextRead
  <2> QED BY <1>ty, <2>0, <2>1, <2>2, MsQuiet
<1>11. CASE DeqEmpty(t)
  <2>1. /\ OpStep(t, "idle") /\ hpPc[t] = "deqCheck" /\ MsReturn(t) /\ hpSlots' = [hpSlots EXCEPT ![t] = [i \in HpSlot |-> NoNode]]
        /\ UNCHANGED <<hpRetire, hpUnused, msHead, msTail, msNext, msData>>
    BY <1>11 DEF DeqEmpty, ResetSlots, OpStep, HpGoto, MsLoad, MsPublish, hpDomain, hpScan, msQueue
  <2>2. ms' \in [HpThread -> MsLocals] /\ \A u \in HpThread \ {t} : ms'[u] = ms[u] BY <1>ty, <2>1, MsReturns
  <2>3. hpSlots' \in [HpThread -> [HpSlot -> Pointer]] /\ \A u \in HpThread \ {t} : hpSlots'[u] = hpSlots[u] BY <1>ty, <2>1
  <2>0. /\ "idle" \in HpLabel /\ "idle" \notin Building /\ "idle" \notin Working /\ "idle" \notin Dequeuing
        /\ "idle" \notin AtGuarded /\ "idle" \notin NextGuarded /\ "idle" \notin NextRead /\ hpPc[t] \notin Building
    BY <2>1 DEF HpLabel, Building, Working, Dequeuing, AtGuarded, NextGuarded, NextRead
  <2> QED BY <1>ty, <2>0, <2>1, <2>2, <2>3, MsQuiet
<1>12. CASE DeqTail(t) /\ msTail = ms[t].at
  <2>1. /\ OpStep(t, "deqHelp") /\ hpPc[t] = "deqTail" /\ HpRegistered(t) /\ ms' = ms
        /\ UNCHANGED <<hpSlots, hpRetire, hpUnused, msHead, msTail, msNext, msData>>
    BY <1>12, <1>me DEF DeqTail, MsOn, MsSlots, Working, Building, Dequeuing, OpStep, HpGoto, MsLoad, MsPublish, hpDomain, hpScan, msQueue
  <2>5. ms[t].at \in HpNode /\ MsSafe(t, 0, ms[t].at) BY <1>me, <2>1 DEF MsSlots, AtGuarded, Dequeuing, MsSafe
  <2>6. ms[t].at = msHead \/ ms[t].at \notin MsQueued BY <1>me, <2>1 DEF MsDeq, Dequeuing
  <2>7. ms[t].next # NoNode => msNext[ms[t].at] = ms[t].next BY <1>me, <2>1 DEF MsDeq, NextRead, Dequeuing
  <2>8. ms[t].next \in HpNode /\ MsSafe(t, 1, ms[t].next) BY <1>me, <2>1 DEF MsSlots, NextGuarded, MsSafe
  <2>0. /\ "deqHelp" \in HpLabel /\ "deqHelp" \notin Building /\ "deqHelp" \in Working /\ "deqHelp" \in Dequeuing
        /\ "deqHelp" \in AtGuarded /\ "deqHelp" \in NextGuarded /\ "deqHelp" \in NextRead /\ hpPc[t] \notin Building
    BY <2>1 DEF HpLabel, Building, Working, Dequeuing, AtGuarded, NextGuarded, NextRead
  <2> QED BY <1>ty, <2>0, <2>1, <2>5, <2>6, <2>7, <2>8, MsQuiet
<1>13. CASE DeqTail(t) /\ msTail # ms[t].at
  <2>1. /\ OpStep(t, "deqCopy") /\ hpPc[t] = "deqTail" /\ HpRegistered(t) /\ ms' = ms
        /\ UNCHANGED <<hpSlots, hpRetire, hpUnused, msHead, msTail, msNext, msData>>
    BY <1>13, <1>me DEF DeqTail, MsOn, MsSlots, Working, Building, Dequeuing, OpStep, HpGoto, MsLoad, MsPublish, hpDomain, hpScan, msQueue
  <2>5. ms[t].at \in HpNode /\ MsSafe(t, 0, ms[t].at) BY <1>me, <2>1 DEF MsSlots, AtGuarded, Dequeuing, MsSafe
  <2>6. ms[t].at = msHead \/ ms[t].at \notin MsQueued BY <1>me, <2>1 DEF MsDeq, Dequeuing
  <2>7. ms[t].next # NoNode => msNext[ms[t].at] = ms[t].next BY <1>me, <2>1 DEF MsDeq, NextRead, Dequeuing
  <2>8. ms[t].next \in HpNode /\ MsSafe(t, 1, ms[t].next) BY <1>me, <2>1 DEF MsSlots, NextGuarded, MsSafe
  <2>0. /\ "deqCopy" \in HpLabel /\ "deqCopy" \notin Building /\ "deqCopy" \in Working /\ "deqCopy" \in Dequeuing
        /\ "deqCopy" \in AtGuarded /\ "deqCopy" \in NextGuarded /\ "deqCopy" \in NextRead /\ hpPc[t] \notin Building
    BY <2>1 DEF HpLabel, Building, Working, Dequeuing, AtGuarded, NextGuarded, NextRead
  <2> QED BY <1>ty, <2>0, <2>1, <1>13, <2>5, <2>6, <2>7, <2>8, MsQuiet
<1>14. CASE DeqCopy(t)
  <2>1. /\ OpStep(t, "deqCas") /\ hpPc[t] = "deqCopy" /\ HpRegistered(t)
        /\ UNCHANGED <<hpSlots, hpRetire, hpUnused, msHead, msTail, msNext, msData>>
    BY <1>14, <1>me DEF DeqCopy, MsSet, MsSlots, Working, Building, Dequeuing, OpStep, HpGoto, MsLoad, MsPublish, hpDomain, hpScan, msQueue
  <2>5. ms[t].at \in HpNode /\ MsSafe(t, 0, ms[t].at) BY <1>me, <2>1 DEF MsSlots, AtGuarded, Dequeuing, MsSafe
  <2>6. ms[t].at = msHead \/ ms[t].at \notin MsQueued BY <1>me, <2>1 DEF MsDeq, Dequeuing
  <2>7. ms[t].next # NoNode => msNext[ms[t].at] = ms[t].next BY <1>me, <2>1 DEF MsDeq, NextRead, Dequeuing
  <2>8. ms[t].next \in HpNode /\ MsSafe(t, 1, ms[t].next) BY <1>me, <2>1 DEF MsSlots, NextGuarded, MsSafe
  <2>9. msHead = ms[t].at => msTail # ms[t].at BY <1>me, <2>1 DEF MsDeq
  <2>2. PICK p \in Payload \cup {NoPayload} : p = msData[ms[t].next] /\ ms' = [ms EXCEPT ![t]["tmp"] = p]
    BY <1>14, <2>8 DEF DeqCopy, MsSet, MsInv, MsTypeOK
  <2>3. /\ ms' \in [HpThread -> MsLocals] /\ (\A u \in HpThread \ {t} : ms'[u] = ms[u]) /\ ms'[t].node = ms[t].node
        /\ ms'[t].at = ms[t].at /\ ms'[t].next = ms[t].next /\ ms'[t].tmp = p
    BY <1>ty, <2>2 DEF MsLocals
  <2>0. /\ "deqCas" \in HpLabel /\ "deqCas" \notin Building /\ "deqCas" \in Working /\ "deqCas" \in Dequeuing
        /\ "deqCas" \in AtGuarded /\ "deqCas" \in NextGuarded /\ "deqCas" \in NextRead /\ hpPc[t] \notin Building
    BY <2>1 DEF HpLabel, Building, Working, Dequeuing, AtGuarded, NextGuarded, NextRead
  <2> QED BY <1>ty, <2>0, <2>1, <2>2, <2>3, <2>5, <2>6, <2>7, <2>8, <2>9, MsQuiet
<1>15. CASE DeqCas(t) /\ MsAgain(t, "deqLoad") /\ UNCHANGED msHead
  <2>1. /\ OpStep(t, "deqLoad") /\ hpPc[t] = "deqCas" /\ HpRegistered(t) /\ MsAgain(t, "deqLoad")
        /\ UNCHANGED <<hpSlots, hpRetire, hpUnused, msHead, msTail, msNext, msData>>
    BY <1>15, <1>me DEF DeqCas, MsAgain, MsSlots, Working, Building, Dequeuing, OpStep, HpGoto, MsLoad, MsPublish, hpDomain, hpScan, msQueue
  <2>2. ms' \in [HpThread -> MsLocals] /\ (\A u \in HpThread \ {t} : ms'[u] = ms[u]) /\ ms'[t].node = ms[t].node
    BY <1>ty, <2>1, MsForgets
  <2>0. /\ "deqLoad" \in HpLabel /\ "deqLoad" \notin Building /\ "deqLoad" \in Working /\ "deqLoad" \notin Dequeuing
        /\ "deqLoad" \notin AtGuarded /\ "deqLoad" \notin NextGuarded /\ "deqLoad" \notin NextRead /\ hpPc[t] \notin Building
    BY <2>1 DEF HpLabel, Building, Working, Dequeuing, AtGuarded, NextGuarded, NextRead
  <2> QED BY <1>ty, <2>0, <2>1, <2>2, MsQuiet
<1> QED BY <1>1, <1>2, <1>3, <1>4, <1>5, <1>6, <1>7, <1>8, <1>9, <1>10, <1>11, <1>12, <1>13, <1>14, <1>15

\* What one thread's step does to msMine.
LEMMA MsMineNow ==
  ASSUME MsTypeOK', NEW t \in HpThread, NEW p,
         \A u \in HpThread \ {t} : hpPc'[u] = hpPc[u] /\ ms'[u] = ms[u],
         p = IF hpPc'[t] \in Building THEN ms'[t].node ELSE IF hpPc'[t] = "deqRetire" THEN ms'[t].at ELSE NoNode
  PROVE  NowHolds(msMine', msMine, t, p)
<1>1. \A u \in HpThread : msMine'[u] = IF u = t THEN p ELSE msMine[u] BY DEF msMine
<1>2. msMine' \in [HpThread -> Pointer] BY DEF MsTypeOK, MsLocals, msMine, Pointer
<1> QED BY <1>1, <1>2 DEF NowHolds

\* The guards of the other threads, through a step of t.
LEMMA MsGuardsKept ==
  ASSUME MsInv, NEW t \in HpThread, NEW l, OpStep(t, l), \A u \in HpThread \ {t} : hpSlots'[u] = hpSlots[u]
  PROVE  \A u \in HpThread \ {t} : \A i \in HpSlot : \A n \in HpNode : Guards(u, i, n) => Guards(u, i, n)'
<1> TAKE u \in HpThread \ {t}
<1> TAKE i \in HpSlot
<1> TAKE n \in HpNode
<1> HAVE Guards(u, i, n)
<1>1. hpSlots'[u][i] = n /\ HpInv BY DEF Guards, MsInv, MsTypeOK
<1> QED BY <1>1, GuardOp

\* enqueue allocates a node.
LEMMA MsAllocStep ==
  ASSUME MsInv, NEW t \in HpThread, EnqAlloc(t)
  PROVE  MsInv'
<1>ty. /\ HpInv /\ hpSlots \in [HpThread -> [HpSlot -> Pointer]] /\ ms \in [HpThread -> MsLocals] /\ msHead \in HpNode /\ msTail \in HpNode
       /\ msNext \in [HpNode -> Pointer] /\ hpPc \in [HpThread -> HpLabel] /\ NoNode \in Pointer /\ HpNode \subseteq Pointer
       /\ 0 \in HpSlot /\ 1 \in HpSlot /\ ms[t].at \in Pointer /\ ms[t].next \in Pointer
       /\ msData \in [HpNode -> Payload \cup {NoPayload}] /\ hpRetire \subseteq HpNode /\ hpUnused \subseteq HpNode /\ NoNode \notin HpNode
       /\ hpToProcess \in [HpThread -> SUBSET HpNode]
  BY HazardAssumption DEF MsInv, MsTypeOK, HpInv, HpTypeOK, Pointer, HpSlot, MsLocals
<1>me. MsEnq(t) /\ MsSlots(t) /\ MsDeq(t) BY DEF MsInv, MsLocal
<1>1. PICK n \in hpUnused, v \in Payload :
        /\ hpUnused' = hpUnused \ {n} /\ msNext' = [msNext EXCEPT ![n] = NoNode] /\ msData' = [msData EXCEPT ![n] = v]
        /\ MsSet(t, "node", n, "enqLoad")
  BY DEF EnqAlloc
<1>2. /\ OpStep(t, "enqLoad") /\ hpPc[t] = "idle" /\ HpRegistered(t) /\ ms' = [ms EXCEPT ![t]["node"] = n]
      /\ UNCHANGED <<hpRecords, hpSlots, hpRetire, hpToProcess, msHead, msTail>>
  BY <1>1 DEF EnqAlloc, MsSet, OpStep, HpGoto, MsLoad, MsPublish, hpDomain, hpScan, msQueue
<1>3. n \in HpNode /\ n \in Pointer /\ n # NoNode BY <1>ty
<1>4. ms' \in [HpThread -> MsLocals] /\ (\A u \in HpThread \ {t} : ms'[u] = ms[u]) /\ ms'[t].node = n
  <2>1. PICK p \in Pointer : p = n BY <1>3
  <2>2. ms' = [ms EXCEPT ![t]["node"] = p] BY <1>2, <2>1
  <2>3. ms' \in [HpThread -> MsLocals] /\ (\A u \in HpThread \ {t} : ms'[u] = ms[u]) /\ ms'[t].node = p BY SMTT(30), <1>ty, <2>2 DEF MsLocals
  <2> QED BY <2>1, <2>3
<1>5. /\ \A m \in HpNode : msNext'[m] = IF m = n THEN NoNode ELSE msNext[m]
      /\ \A m \in HpNode : msData'[m] = IF m = n THEN v ELSE msData[m]
      /\ msNext' \in [HpNode -> Pointer] /\ msData' \in [HpNode -> Payload \cup {NoPayload}]
  BY <1>ty, <1>1, <1>3
<1>6. HpInv' BY <1>ty, <1>1, <1>2, OpInv DEF HpLabel
<1>7. MsTypeOK' BY <1>ty, <1>2, <1>4, <1>5, <1>6 DEF MsTypeOK
<1>8. \A u \in HpThread : hpPc'[u] = IF u = t THEN "enqLoad" ELSE hpPc[u] BY <1>ty, <1>2 DEF OpStep
<1>9. PICK own : own = msMine' /\ NowHolds(own, msMine, t, n) /\ msMine[t] = NoNode
  <2>1. hpPc'[t] \in Building /\ \A u \in HpThread \ {t} : hpPc'[u] = hpPc[u] /\ ms'[u] = ms[u] BY <1>4, <1>8 DEF Building
  <2>2. NowHolds(msMine', msMine, t, n) BY <1>4, <1>7, <2>1, MsMineNow
  <2>3. msMine[t] = NoNode BY <1>2 DEF msMine, Building
  <2> QED BY <2>2, <2>3
<1>10. MsOwned' /\ MsQueued' = MsQueued
  <2>1. OwnApart(msMine, hpUnused, hpRetire, hpToProcess) BY DEF MsInv, MsOwned
  <2>2. /\ OwnApart(own, hpUnused \ {n}, hpRetire, hpToProcess)
        /\ Rest(own, hpUnused \ {n}, hpRetire, hpToProcess) = Rest(msMine, hpUnused, hpRetire, hpToProcess)
    BY SMTT(30), <1>9, <2>1, OwnAlloc
  <2> QED BY <1>1, <1>2, <1>9, <2>2 DEF MsOwned, MsQueued
<1>11. MsListed'
  <2>1. PICK c : IsList(c, HpNode, msHead, msNext, NoNode) /\ Members(c) = MsQueued BY DEF MsInv, MsListed
  <2>2. PICK f : f = msNext' OBVIOUS
  <2>3. \A m \in Members(c) : f[m] = msNext[m] BY <1>5, <2>1, <2>2 DEF MsQueued, Rest
  <2>4. IsList(c, HpNode, msHead, f, NoNode) BY <2>1, <2>3, ListKept
  <2> QED BY <1>2, <1>10, <2>1, <2>2, <2>4 DEF MsInv, MsListed
<1>12. MsLeft'
  <2>1. n \notin hpRetire /\ \A u \in HpThread : n \notin hpToProcess[u] /\ (hpPc[u] = "deqRetire" => ms[u].at # n)
    <3>1. \A u \in HpThread : hpPc[u] = "deqRetire" => msMine[u] = ms[u].at BY DEF msMine, Building
    <3> QED BY <1>3, <3>1 DEF MsInv, MsOwned, OwnApart
  <2>2. \A u \in HpThread : hpPc'[u] = "deqRetire" => hpPc[u] = "deqRetire" /\ ms'[u] = ms[u] BY <1>4, <1>8
  <2> QED BY SMTT(30), <1>2, <1>5, <2>1, <2>2 DEF MsInv, MsLeft
<1>13. \A u \in HpThread : HpRegistered(u)' = HpRegistered(u) BY <1>2 DEF HpRegistered
<1>14. ASSUME NEW u \in HpThread, u # t PROVE MsLocal(u)'
  <2>1. \A i \in HpSlot : \A m \in HpNode : Guards(u, i, m) => Guards(u, i, m)' BY <1>2, <1>14, MsGuardsKept
  <2>2. \A i \in HpSlot : \A m \in HpNode : MsSafe(u, i, m) => m \notin hpUnused' /\ m # n BY <1>1 DEF MsSafe
  <2>3. hpPc[u] \in Building => ms[u].node \in HpNode /\ ms[u].node # n /\ msNext[ms[u].node] = NoNode
    <3>1. hpPc[u] \in Building => msMine[u] = ms[u].node BY DEF msMine
    <3> QED BY <1>3, <3>1 DEF MsInv, MsLocal, MsEnq, MsOwned, OwnApart
  <2>4. \A w \in HpThread \ {t} : hpPc'[w] = hpPc[w] /\ ms'[w] = ms[w] BY <1>4, <1>8
  <2> QED BY SMTT(30), <1>2, <1>4, <1>5, <1>10, <1>13, <1>14, <2>1, <2>2, <2>3, <2>4, MsOthers
<1>15. MsLocal(t)'
  <2>1. hpPc'[t] = "enqLoad" /\ HpRegistered(t)' BY <1>2, <1>8, <1>13
  <2> QED BY <1>3, <1>4, <1>5, <2>1 DEF MsLocal, MsEnq, MsSlots, MsDeq, Building, Dequeuing, AtGuarded, NextGuarded, NextRead, Working
<1> QED BY <1>7, <1>10, <1>11, <1>12, <1>14, <1>15 DEF MsInv

\* The compare-exchange of next puts the node behind the last one.
LEMMA MsLinkStep ==
  ASSUME MsInv, NEW t \in HpThread, EnqLink(t), msNext[ms[t].at] = NoNode,
         msNext' = [msNext EXCEPT ![ms[t].at] = ms[t].node], MsOn(t, "enqSwing")
  PROVE  MsInv'
<1>ty. /\ HpInv /\ hpSlots \in [HpThread -> [HpSlot -> Pointer]] /\ ms \in [HpThread -> MsLocals] /\ msHead \in HpNode /\ msTail \in HpNode
       /\ msNext \in [HpNode -> Pointer] /\ hpPc \in [HpThread -> HpLabel] /\ NoNode \in Pointer /\ HpNode \subseteq Pointer
       /\ 0 \in HpSlot /\ 1 \in HpSlot /\ ms[t].at \in Pointer /\ ms[t].next \in Pointer
       /\ msData \in [HpNode -> Payload \cup {NoPayload}] /\ hpRetire \subseteq HpNode /\ hpUnused \subseteq HpNode /\ NoNode \notin HpNode
       /\ hpToProcess \in [HpThread -> SUBSET HpNode]
  BY HazardAssumption DEF MsInv, MsTypeOK, HpInv, HpTypeOK, Pointer, HpSlot, MsLocals
<1>me. MsEnq(t) /\ MsSlots(t) /\ MsDeq(t) BY DEF MsInv, MsLocal
<1>1. /\ OpStep(t, "enqSwing") /\ hpPc[t] = "enqLink" /\ HpRegistered(t) /\ ms' = ms
      /\ UNCHANGED <<hpRecords, hpSlots, hpRetire, hpToProcess, hpUnused, msHead, msTail, msData>>
  BY <1>me DEF EnqLink, MsOn, MsSlots, Working, Building, OpStep, HpGoto, MsLoad, MsPublish, hpDomain, hpScan, msQueue
<1>2. PICK a \in HpNode : a = ms[t].at /\ MsSafe(t, 0, a) BY <1>me, <1>1 DEF MsSlots, AtGuarded, MsSafe
<1>3. PICK n \in HpNode : n = ms[t].node /\ n # NoNode /\ msNext[n] = NoNode /\ msData[n] \in Payload
  BY <1>ty, <1>me, <1>1 DEF MsEnq, Building
<1>4. /\ msNext' \in [HpNode -> Pointer] /\ msNext[a] = NoNode /\ a # n
      /\ \A m \in HpNode : msNext'[m] = IF m = a THEN n ELSE msNext[m]
  <2>1. a # n BY <1>1, <1>2, <1>3 DEF MsSafe, Building
  <2> QED BY <1>ty, <1>2, <1>3, <2>1
<1>5. HpInv' BY <1>ty, <1>1, OpInv DEF HpLabel
<1>6. MsTypeOK' BY <1>ty, <1>1, <1>4, <1>5 DEF MsTypeOK
<1>7. \A u \in HpThread : hpPc'[u] = IF u = t THEN "enqSwing" ELSE hpPc[u] BY <1>ty, <1>1 DEF OpStep
<1>8. PICK own : own = msMine' /\ NowHolds(own, msMine, t, NoNode) /\ msMine[t] = n
  <2>1. hpPc'[t] = "enqSwing" /\ \A u \in HpThread \ {t} : hpPc'[u] = hpPc[u] /\ ms'[u] = ms[u] BY <1>1, <1>7
  <2>2. NowHolds(msMine', msMine, t, NoNode) BY <1>6, <2>1, MsMineNow DEF Building
  <2>3. msMine[t] = n BY <1>1, <1>3 DEF msMine, Building
  <2> QED BY <2>2, <2>3
<1>9. MsOwned' /\ MsQueued' = MsQueued \cup {n}
  <2>1. OwnApart(msMine, hpUnused, hpRetire, hpToProcess) BY DEF MsInv, MsOwned
  <2>2. /\ OwnApart(own, hpUnused, hpRetire, hpToProcess)
        /\ Rest(own, hpUnused, hpRetire, hpToProcess) = Rest(msMine, hpUnused, hpRetire, hpToProcess) \cup {msMine[t]}
    BY SMTT(30), <1>3, <1>8, <2>1, OwnPublish
  <2> QED BY <1>1, <1>8, <2>2 DEF MsOwned, MsQueued
<1>10. n \notin MsQueued BY <1>8 DEF MsQueued, Rest
\* A node without a successor that is neither free nor new is in the queue.
<1>11. a \in MsQueued
  <2>1. a \notin hpUnused /\ \A u \in HpThread : hpPc[u] \in Building => ms[u].node # a BY <1>2 DEF MsSafe
  <2>2. a \notin hpRetire /\ \A u \in HpThread : a \notin hpToProcess[u] /\ ~(hpPc[u] = "deqRetire" /\ ms[u].at = a)
    BY <1>4 DEF MsInv, MsLeft
  <2>3. \A u \in HpThread : msMine[u] # a BY <1>ty, <2>1, <2>2 DEF msMine
  <2> QED BY <2>1, <2>2, <2>3 DEF MsQueued, Rest
<1>12. MsListed'
  <2>1. PICK c : IsList(c, HpNode, msHead, msNext, NoNode) /\ Members(c) = MsQueued BY DEF MsInv, MsListed
  <2>2. PICK f : f = msNext' OBVIOUS
  <2>3. f[a] = n /\ f[n] = NoNode /\ \A m \in Members(c) : m # a => f[m] = msNext[m]
    BY <1>3, <1>4, <2>1, <2>2 DEF MsQueued, Rest
  <2>4. IsList(Append(c, n), HpNode, msHead, f, NoNode) /\ Members(Append(c, n)) = Members(c) \cup {n}
    BY SMTT(30), <1>ty, <1>4, <1>10, <1>11, <2>1, <2>3, ListAppend
  <2> QED BY <1>1, <1>9, <2>1, <2>2, <2>4 DEF MsInv, MsListed
<1>13. MsLeft'
  <2>1. \A m \in HpNode : msNext[m] # NoNode => msNext'[m] # NoNode BY <1>3, <1>4
  <2>2. \A u \in HpThread : hpPc'[u] = "deqRetire" => hpPc[u] = "deqRetire" BY <1>7
  <2> QED BY <1>1, <2>1, <2>2 DEF MsInv, MsLeft
<1>14. \A u \in HpThread : HpRegistered(u)' = HpRegistered(u) BY <1>1 DEF HpRegistered
<1>15. ASSUME NEW u \in HpThread, u # t PROVE MsLocal(u)'
  <2>1. \A i \in HpSlot : \A m \in HpNode : Guards(u, i, m) => Guards(u, i, m)' BY <1>1, <1>15, MsGuardsKept
  <2>2. \A i \in HpSlot : \A m \in HpNode : MsSafe(u, i, m) => m \notin hpUnused /\ m # n BY <1>1, <1>3 DEF MsSafe, Building
  <2>3. hpPc[u] \in Building => ms[u].node \in HpNode /\ ms[u].node # a /\ msNext[ms[u].node] = NoNode
    BY <1>2 DEF MsInv, MsLocal, MsEnq, MsSafe
  <2>4. \A w \in HpThread \ {t} : hpPc'[w] = hpPc[w] /\ ms'[w] = ms[w] BY <1>1, <1>7
  <2>5. hpPc'[t] \notin Building BY <1>7 DEF Building
  <2>6. \A m \in HpNode : MsSafe(u, 0, m) /\ (m = msHead \/ m \notin MsQueued) => m = msHead \/ m \notin MsQueued' BY <1>ty, <1>9, <2>2
  <2>7. \A m \in HpNode : msNext[m] # NoNode => msNext'[m] = msNext[m] BY <1>4
  <2>8. hpPc[u] \in Building => msNext'[ms[u].node] = NoNode BY <1>4, <2>3
  <2> QED BY <1>1, <1>14, <1>15, <2>1, <2>2, <2>4, <2>5, <2>6, <2>7, <2>8, MsOthers
<1>16. MsLocal(t)'
  <2>1. hpPc'[t] = "enqSwing" /\ HpRegistered(t)' BY <1>1, <1>7, <1>14
  <2>2. MsSafe(t, 0, a)'
    <3>1. Guards(t, 0, a)' BY <1>ty, <1>1, <1>2, GuardOp DEF MsSafe, Guards
    <3>2. \A u \in HpThread : hpPc'[u] \in Building => hpPc[u] \in Building BY <1>7, <2>1 DEF Building
    <3> QED BY <1>1, <1>2, <3>1, <3>2 DEF MsSafe
  <2>3. MsSafe(t, 0, ms[t].at)' BY <1>1, <1>2, <2>2
  <2>4. msNext'[ms[t].at] = ms[t].node BY <1>2, <1>3, <1>4
  <2> QED BY <1>1, <1>3, <2>1, <2>3, <2>4 DEF MsLocal, MsEnq, MsSlots, MsDeq, Building, Dequeuing, AtGuarded, NextGuarded, NextRead, Working
<1> QED BY <1>6, <1>9, <1>12, <1>13, <1>15, <1>16 DEF MsInv

\* tail_ moves on to the successor of the node it was at.
LEMMA MsSwing ==
  ASSUME MsInv, NEW t \in HpThread, NEW l \in {"idle", "enqLoad", "deqLoad"}, OpStep(t, l), l \in Building <=> hpPc[t] \in Building,
         l \in Building => ms'[t].node = ms[t].node, hpPc[t] # "deqRetire", l # "idle" => HpRegistered(t),
         NEW a \in HpNode, NEW b \in HpNode, msNext[a] = b, msTail' = IF msTail = a THEN b ELSE msTail,
         UNCHANGED <<hpRecords, hpRetire, hpToProcess, hpUnused, msHead, msNext, msData>>,
         ms' \in [HpThread -> MsLocals], hpSlots' \in [HpThread -> [HpSlot -> Pointer]],
         \A u \in HpThread \ {t} : ms'[u] = ms[u] /\ hpSlots'[u] = hpSlots[u]
  PROVE  MsInv'
<1>ty. /\ HpInv /\ hpSlots \in [HpThread -> [HpSlot -> Pointer]] /\ ms \in [HpThread -> MsLocals] /\ msHead \in HpNode /\ msTail \in HpNode
       /\ msNext \in [HpNode -> Pointer] /\ hpPc \in [HpThread -> HpLabel] /\ NoNode \in Pointer /\ HpNode \subseteq Pointer
       /\ 0 \in HpSlot /\ 1 \in HpSlot /\ ms[t].at \in Pointer /\ ms[t].next \in Pointer
       /\ msData \in [HpNode -> Payload \cup {NoPayload}] /\ hpRetire \subseteq HpNode /\ hpUnused \subseteq HpNode /\ NoNode \notin HpNode
       /\ hpToProcess \in [HpThread -> SUBSET HpNode]
  BY HazardAssumption DEF MsInv, MsTypeOK, HpInv, HpTypeOK, Pointer, HpSlot, MsLocals
<1>me. MsEnq(t) /\ MsSlots(t) /\ MsDeq(t) BY DEF MsInv, MsLocal
<1>1. HpInv'
  <2>1. l \in HpLabel /\ l \notin {"scan", "scanSlot", "scanFree"} BY DEF HpLabel
  <2>2. hpRetire' \subseteq HpNode /\ hpUnused' \subseteq HpNode BY <1>ty
  <2>3. HpInv /\ OpStep(t, l) /\ hpSlots' \in [HpThread -> [HpSlot -> Pointer]] BY <1>ty
  <2> QED BY ONLY <2>1, <2>2, <2>3, t \in HpThread, OpInv
<1>2. MsTypeOK' BY <1>ty, <1>1 DEF MsTypeOK
<1>3. \A u \in HpThread : hpPc'[u] = IF u = t THEN l ELSE hpPc[u] BY <1>ty DEF OpStep
<1>4. msMine' = msMine
  <2>1. \A u \in HpThread : msMine'[u] = msMine[u] BY <1>3 DEF msMine
  <2> QED BY <2>1 DEF msMine
<1>5. MsOwned' /\ MsQueued' = MsQueued BY <1>4 DEF MsInv, MsOwned, MsQueued
<1>6. PICK c : IsList(c, HpNode, msHead, msNext, NoNode) /\ Members(c) = MsQueued BY DEF MsInv, MsListed
<1>7. a \in MsQueued => b \in MsQueued /\ b # msHead BY SMTT(30), <1>ty, <1>6, ListNext
<1>8. msTail' \in MsQueued /\ (msTail' # msTail => msTail' # msHead) BY <1>7 DEF MsInv, MsListed
<1>9. MsListed' BY <1>5, <1>6, <1>8 DEF MsListed
<1>10. MsLeft'
  <2>1. \A u \in HpThread : hpPc'[u] = "deqRetire" => hpPc[u] = "deqRetire" /\ ms'[u] = ms[u] BY <1>3
  <2> QED BY <2>1 DEF MsInv, MsLeft
<1>11. \A u \in HpThread : HpRegistered(u)' = HpRegistered(u) BY DEF HpRegistered
<1>12. ASSUME NEW u \in HpThread, u # t PROVE MsLocal(u)'
  <2>1. \A i \in HpSlot : \A m \in HpNode : Guards(u, i, m) => Guards(u, i, m)' BY <1>12, MsGuardsKept
  <2>2. \A i \in HpSlot : \A m \in HpNode : MsSafe(u, i, m) => m \notin hpUnused /\ (hpPc'[t] \in Building => ms'[t].node # m)
    BY <1>3 DEF MsSafe
  <2>3. hpPc[u] \in Building => msNext[ms[u].node] = NoNode BY DEF MsInv, MsLocal, MsEnq
  <2>4. \A w \in HpThread \ {t} : hpPc'[w] = hpPc[w] /\ ms'[w] = ms[w] BY <1>3
  <2> QED BY <1>5, <1>8, <1>11, <1>12, <2>1, <2>2, <2>3, <2>4, MsOthers
<1>13. MsLocal(t)'
  <2>1. hpPc'[t] = l /\ HpRegistered(t)' = HpRegistered(t) BY <1>3, <1>11
  <2> QED BY <1>me, <2>1 DEF MsLocal, MsEnq, MsSlots, MsDeq, Building, Dequeuing, AtGuarded, NextGuarded, NextRead, Working
<1> QED BY <1>2, <1>5, <1>9, <1>10, <1>12, <1>13 DEF MsInv

\* The three places where tail_ is swung.
LEMMA MsSwingSteps ==
  ASSUME MsInv, NEW t \in HpThread, EnqSwing(t) \/ EnqHelp(t) \/ DeqHelp(t)
  PROVE  MsInv'
<1>ty. /\ HpInv /\ hpSlots \in [HpThread -> [HpSlot -> Pointer]] /\ ms \in [HpThread -> MsLocals] /\ msHead \in HpNode /\ msTail \in HpNode
       /\ msNext \in [HpNode -> Pointer] /\ hpPc \in [HpThread -> HpLabel] /\ NoNode \in Pointer /\ HpNode \subseteq Pointer
       /\ 0 \in HpSlot /\ 1 \in HpSlot /\ ms[t].at \in Pointer /\ ms[t].next \in Pointer
       /\ msData \in [HpNode -> Payload \cup {NoPayload}] /\ hpRetire \subseteq HpNode /\ hpUnused \subseteq HpNode /\ NoNode \notin HpNode
       /\ hpToProcess \in [HpThread -> SUBSET HpNode]
  BY HazardAssumption DEF MsInv, MsTypeOK, HpInv, HpTypeOK, Pointer, HpSlot, MsLocals
<1>me. MsEnq(t) /\ MsSlots(t) /\ MsDeq(t) BY DEF MsInv, MsLocal
<1>un. UNCHANGED <<hpRecords, hpRetire, hpToProcess, hpHazards, hpCursor, hpUnused, msHead, msNext, msData>>
  BY DEF EnqSwing, EnqHelp, DeqHelp, SwingTail, hpScan
<1>1. CASE EnqSwing(t)
  <2>1. /\ hpPc[t] = "enqSwing" /\ hpPc' = [hpPc EXCEPT ![t] = "idle"] /\ MsReturn(t)
        /\ hpSlots' = [hpSlots EXCEPT ![t] = [i \in HpSlot |-> NoNode]] /\ msTail' = IF msTail = ms[t].at THEN ms[t].node ELSE msTail
    BY <1>1 DEF EnqSwing, SwingTail, ResetSlots, HpGoto
  <2>2. OpStep(t, "idle") BY <1>un, <2>1 DEF OpStep
  <2>3. PICK a \in HpNode, b \in HpNode : a = ms[t].at /\ b = ms[t].node /\ msNext[a] = b
    BY <1>me, <2>1 DEF MsEnq, MsSlots, AtGuarded, MsSafe
  <2>4. ms' \in [HpThread -> MsLocals] /\ \A u \in HpThread \ {t} : ms'[u] = ms[u] BY <1>ty, <2>1, MsReturns
  <2>5. hpSlots' \in [HpThread -> [HpSlot -> Pointer]] /\ \A u \in HpThread \ {t} : hpSlots'[u] = hpSlots[u] BY <1>ty, <2>1
  <2>6. "idle" \notin Building /\ hpPc[t] \notin Building BY <2>1 DEF Building
  <2> QED BY SMTT(30), <1>un, <2>1, <2>2, <2>3, <2>4, <2>5, <2>6, MsSwing
<1>2. CASE EnqHelp(t)
  <2>1. /\ hpPc[t] = "enqHelp" /\ hpPc' = [hpPc EXCEPT ![t] = "enqLoad"] /\ MsAgain(t, "enqLoad") /\ UNCHANGED hpSlots
        /\ msTail' = IF msTail = ms[t].at THEN ms[t].next ELSE msTail
    BY <1>2 DEF EnqHelp, SwingTail, MsAgain, HpGoto
  <2>2. OpStep(t, "enqLoad") BY <1>un, <2>1 DEF OpStep
  <2>3. PICK a \in HpNode, b \in HpNode : a = ms[t].at /\ b = ms[t].next /\ msNext[a] = b
    BY <1>ty, <1>me, <2>1 DEF MsEnq, MsDeq, MsSlots, AtGuarded, NextRead, MsSafe
  <2>4. ms' \in [HpThread -> MsLocals] /\ (\A u \in HpThread \ {t} : ms'[u] = ms[u]) /\ ms'[t].node = ms[t].node
    BY <1>ty, <2>1, MsForgets
  <2>6. "enqLoad" \in Building /\ hpPc[t] \in Building /\ HpRegistered(t) BY <1>me, <2>1 DEF Building, MsSlots, Working
  <2>7. hpSlots' \in [HpThread -> [HpSlot -> Pointer]] /\ \A u \in HpThread \ {t} : ms'[u] = ms[u] /\ hpSlots'[u] = hpSlots[u]
    BY <1>ty, <2>1, <2>4
  <2>8. hpPc[t] # "deqRetire" /\ msTail' = IF msTail = a THEN b ELSE msTail BY <2>1, <2>3
  <2> QED BY <1>un, <2>2, <2>3, <2>4, <2>6, <2>7, <2>8, MsSwing
<1>3. CASE DeqHelp(t)
  <2>1. /\ hpPc[t] = "deqHelp" /\ hpPc' = [hpPc EXCEPT ![t] = "deqLoad"] /\ MsAgain(t, "deqLoad") /\ UNCHANGED hpSlots
        /\ msTail' = IF msTail = ms[t].at THEN ms[t].next ELSE msTail
    BY <1>3 DEF DeqHelp, SwingTail, MsAgain, HpGoto
  <2>2. OpStep(t, "deqLoad") BY <1>un, <2>1 DEF OpStep
  <2>3. PICK a \in HpNode, b \in HpNode : a = ms[t].at /\ b = ms[t].next /\ msNext[a] = b
    BY <1>ty, <1>me, <2>1 DEF MsDeq, MsSlots, AtGuarded, NextGuarded, NextRead, Dequeuing, MsSafe
  <2>4. ms' \in [HpThread -> MsLocals] /\ (\A u \in HpThread \ {t} : ms'[u] = ms[u]) BY <1>ty, <2>1, MsForgets
  <2>6. "deqLoad" \notin Building /\ hpPc[t] \notin Building /\ HpRegistered(t) BY <1>me, <2>1 DEF Building, MsSlots, Working, Dequeuing
  <2>7. hpSlots' \in [HpThread -> [HpSlot -> Pointer]] /\ \A u \in HpThread \ {t} : ms'[u] = ms[u] /\ hpSlots'[u] = hpSlots[u]
    BY <1>ty, <2>1, <2>4
  <2>8. hpPc[t] # "deqRetire" /\ msTail' = IF msTail = a THEN b ELSE msTail BY <2>1, <2>3
  <2> QED BY <1>un, <2>2, <2>3, <2>4, <2>6, <2>7, <2>8, MsSwing
<1> QED BY <1>1, <1>2, <1>3

\* The compare-exchange of head_ takes the first node off.
LEMMA MsTakeStep ==
  ASSUME MsInv, NEW t \in HpThread, DeqCas(t), msHead = ms[t].at, msHead' = ms[t].next, MsOn(t, "deqRetire")
  PROVE  MsInv'
<1>ty. /\ HpInv /\ hpSlots \in [HpThread -> [HpSlot -> Pointer]] /\ ms \in [HpThread -> MsLocals] /\ msHead \in HpNode /\ msTail \in HpNode
       /\ msNext \in [HpNode -> Pointer] /\ hpPc \in [HpThread -> HpLabel] /\ NoNode \in Pointer /\ HpNode \subseteq Pointer
       /\ 0 \in HpSlot /\ 1 \in HpSlot /\ ms[t].at \in Pointer /\ ms[t].next \in Pointer
       /\ msData \in [HpNode -> Payload \cup {NoPayload}] /\ hpRetire \subseteq HpNode /\ hpUnused \subseteq HpNode /\ NoNode \notin HpNode
       /\ hpToProcess \in [HpThread -> SUBSET HpNode]
  BY HazardAssumption DEF MsInv, MsTypeOK, HpInv, HpTypeOK, Pointer, HpSlot, MsLocals
<1>me. MsEnq(t) /\ MsSlots(t) /\ MsDeq(t) BY DEF MsInv, MsLocal
<1>1. /\ hpPc[t] = "deqCas" /\ hpPc' = [hpPc EXCEPT ![t] = "deqRetire"] /\ ms' = ms
      /\ UNCHANGED <<hpRecords, hpSlots, hpRetire, hpToProcess, hpHazards, hpCursor, hpUnused, msTail, msNext, msData>>
  BY DEF DeqCas, MsOn, HpGoto, hpDomain, hpScan
<1>2. OpStep(t, "deqRetire") /\ HpRegistered(t) BY <1>me, <1>1 DEF OpStep, MsSlots, Working, Dequeuing
<1>3. PICK a \in HpNode, b \in HpNode : a = ms[t].at /\ b = ms[t].next /\ msNext[a] = b /\ a = msHead /\ b = msHead'
  BY <1>ty, <1>me, <1>1 DEF MsDeq, MsSlots, AtGuarded, NextGuarded, NextRead, Dequeuing, MsSafe
<1>4. msTail # a /\ a # NoNode /\ b # NoNode BY <1>ty, <1>me, <1>1, <1>3 DEF MsDeq
<1>5. HpInv' BY <1>ty, <1>1, <1>2, OpInv DEF HpLabel
<1>6. MsTypeOK' BY <1>ty, <1>1, <1>3, <1>5 DEF MsTypeOK
<1>7. \A u \in HpThread : hpPc'[u] = IF u = t THEN "deqRetire" ELSE hpPc[u] BY <1>ty, <1>1
<1>8. PICK own : own = msMine' /\ NowHolds(own, msMine, t, a) /\ msMine[t] = NoNode
  <2>1. hpPc'[t] = "deqRetire" /\ "deqRetire" \notin Building /\ \A u \in HpThread \ {t} : hpPc'[u] = hpPc[u] /\ ms'[u] = ms[u]
    BY <1>1, <1>7 DEF Building
  <2>2. NowHolds(msMine', msMine, t, a) BY <1>1, <1>3, <1>6, <2>1, MsMineNow
  <2>3. msMine[t] = NoNode BY <1>1 DEF msMine, Building
  <2> QED BY <2>2, <2>3
<1>9. a \in MsQueued BY <1>3, MsHeadQueued
<1>10. MsOwned' /\ MsQueued' = MsQueued \ {a}
  <2>1. OwnApart(msMine, hpUnused, hpRetire, hpToProcess) /\ a \in Rest(msMine, hpUnused, hpRetire, hpToProcess)
    BY <1>9 DEF MsInv, MsOwned, MsQueued
  <2>2. /\ OwnApart(own, hpUnused, hpRetire, hpToProcess)
        /\ Rest(own, hpUnused, hpRetire, hpToProcess) = Rest(msMine, hpUnused, hpRetire, hpToProcess) \ {a}
    BY SMTT(30), <1>8, <2>1, OwnTake
  <2> QED BY <1>1, <1>8, <2>2 DEF MsOwned, MsQueued
<1>11. PICK c : IsList(c, HpNode, a, msNext, NoNode) /\ Members(c) = MsQueued BY <1>3 DEF MsInv, MsListed
<1>12. b \in MsQueued /\ b # a BY SMTT(30), <1>ty, <1>3, <1>4, <1>9, <1>11, ListNext
<1>13. MsListed'
  <2>1. IsList(Tail(c), HpNode, b, msNext, NoNode) /\ Members(Tail(c)) = Members(c) \ {a} BY SMTT(30), <1>ty, <1>3, <1>4, <1>11, ListPop
  <2> QED BY <1>1, <1>3, <1>4, <1>10, <1>11, <2>1 DEF MsInv, MsListed
<1>14. MsLeft'
  <2>1. \A u \in HpThread : hpPc'[u] = "deqRetire" => hpPc[u] = "deqRetire" \/ ms[u].at = a BY <1>3, <1>7
  <2> QED BY <1>1, <1>3, <1>4, <2>1 DEF MsInv, MsLeft
<1>15. \A u \in HpThread : HpRegistered(u)' = HpRegistered(u) BY <1>1 DEF HpRegistered
<1>16. ASSUME NEW u \in HpThread, u # t PROVE MsLocal(u)'
  <2>1. \A i \in HpSlot : \A m \in HpNode : Guards(u, i, m) => Guards(u, i, m)' BY <1>1, <1>2, <1>16, MsGuardsKept
  <2>2. \A i \in HpSlot : \A m \in HpNode : MsSafe(u, i, m) => m \notin hpUnused BY DEF MsSafe
  <2>3. hpPc[u] \in Building => msNext[ms[u].node] = NoNode BY DEF MsInv, MsLocal, MsEnq
  <2>4. \A w \in HpThread \ {t} : hpPc'[w] = hpPc[w] /\ ms'[w] = ms[w] BY <1>1, <1>7
  <2>5. hpPc'[t] \notin Building BY <1>7 DEF Building
  <2>6. \A m \in HpNode : m = msHead \/ m \notin MsQueued => m \notin MsQueued' /\ msHead' # m BY <1>3, <1>10, <1>12
  <2> QED BY <1>1, <1>15, <1>16, <2>1, <2>2, <2>3, <2>4, <2>5, <2>6, MsOthers
<1>17. MsLocal(t)'
  <2>1. hpPc'[t] = "deqRetire" /\ HpRegistered(t)' BY <1>2, <1>7, <1>15
  <2> QED BY <1>1, <1>3, <2>1 DEF MsLocal, MsEnq, MsSlots, MsDeq, Building, Dequeuing, AtGuarded, NextGuarded, NextRead, Working
<1> QED BY <1>6, <1>10, <1>13, <1>14, <1>16, <1>17 DEF MsInv

\* dequeue retires the node it has taken off.
LEMMA MsRetireStep ==
  ASSUME MsInv, NEW t \in HpThread, DeqRetire(t)
  PROVE  MsInv'
<1>ty. /\ HpInv /\ hpSlots \in [HpThread -> [HpSlot -> Pointer]] /\ ms \in [HpThread -> MsLocals] /\ msHead \in HpNode /\ msTail \in HpNode
       /\ msNext \in [HpNode -> Pointer] /\ hpPc \in [HpThread -> HpLabel] /\ NoNode \in Pointer /\ HpNode \subseteq Pointer
       /\ 0 \in HpSlot /\ 1 \in HpSlot /\ ms[t].at \in Pointer /\ ms[t].next \in Pointer
       /\ msData \in [HpNode -> Payload \cup {NoPayload}] /\ hpRetire \subseteq HpNode /\ hpUnused \subseteq HpNode /\ NoNode \notin HpNode
       /\ hpToProcess \in [HpThread -> SUBSET HpNode]
  BY HazardAssumption DEF MsInv, MsTypeOK, HpInv, HpTypeOK, Pointer, HpSlot, MsLocals
<1>me. MsEnq(t) /\ MsSlots(t) /\ MsDeq(t) BY DEF MsInv, MsLocal
<1>1. PICK l \in {"idle", "scan"} : HpGoto(t, l) BY DEF DeqRetire, Retire
<1>2. PICK n \in HpNode : n = ms[t].at /\ n # NoNode BY <1>ty, <1>me DEF DeqRetire, MsDeq
<1>3. /\ hpPc[t] = "deqRetire" /\ HpRegistered(t) /\ hpRetire' = hpRetire \cup {n} /\ MsReturn(t)
      /\ hpSlots' = [hpSlots EXCEPT ![t] = [i \in HpSlot |-> NoNode]] /\ hpPc' = [hpPc EXCEPT ![t] = l]
      /\ UNCHANGED <<hpRecords, hpToProcess, hpHazards, hpCursor, hpUnused, msHead, msTail, msNext, msData>>
  BY <1>1, <1>2, <1>me DEF DeqRetire, Retire, ResetSlots, HpGoto, hpScan, msQueue, MsSlots, Working
<1>a. OpStep(t, l) BY <1>3 DEF OpStep
<1>u. UNCHANGED <<hpRecords, hpToProcess, hpUnused, msHead, msTail, msNext, msData>> BY <1>3
<1>4. hpSlots' \in [HpThread -> [HpSlot -> Pointer]] /\ \A u \in HpThread \ {t} : hpSlots'[u] = hpSlots[u] BY <1>ty, <1>3
<1>5. ms' \in [HpThread -> MsLocals] /\ \A u \in HpThread \ {t} : ms'[u] = ms[u] BY <1>ty, <1>3, MsReturns
<1>6. HpInv'
  <2>1. hpRetire' \subseteq HpNode BY <1>ty, <1>3
  <2> QED BY SMTT(30), <1>ty, <1>a, <1>3, <1>4, <2>1, OpInv DEF HpLabel
<1>7. MsTypeOK' BY <1>ty, <1>u, <1>5, <1>6 DEF MsTypeOK
<1>8. \A u \in HpThread : hpPc'[u] = IF u = t THEN l ELSE hpPc[u] BY <1>ty, <1>3
<1>9. PICK own : own = msMine' /\ NowHolds(own, msMine, t, NoNode) /\ msMine[t] = n
  <2>1. hpPc'[t] # "deqRetire" /\ hpPc'[t] \notin Building /\ \A u \in HpThread \ {t} : hpPc'[u] = hpPc[u] /\ ms'[u] = ms[u]
    BY <1>5, <1>8 DEF Building
  <2>2. NowHolds(msMine', msMine, t, NoNode) BY <1>7, <2>1, MsMineNow
  <2>3. msMine[t] = n BY <1>2, <1>3 DEF msMine, Building
  <2> QED BY <2>2, <2>3
<1>10. MsOwned' /\ MsQueued' = MsQueued
  <2>1. OwnApart(msMine, hpUnused, hpRetire, hpToProcess) BY DEF MsInv, MsOwned
  <2>2. /\ OwnApart(own, hpUnused, hpRetire \cup {msMine[t]}, hpToProcess)
        /\ Rest(own, hpUnused, hpRetire \cup {msMine[t]}, hpToProcess) = Rest(msMine, hpUnused, hpRetire, hpToProcess)
    BY SMTT(30), <1>2, <1>9, <2>1, OwnRetire
  <2> QED BY <1>3, <1>9, <2>2 DEF MsOwned, MsQueued
<1>11. MsListed' BY <1>3, <1>10 DEF MsInv, MsListed
<1>12. MsLeft'
  <2>1. \A u \in HpThread : hpPc'[u] = "deqRetire" => hpPc[u] = "deqRetire" /\ ms'[u] = ms[u] BY <1>5, <1>8
  <2>2. \A m \in hpRetire' : m \in hpRetire \/ (hpPc[t] = "deqRetire" /\ ms[t].at = m) BY <1>2, <1>3
  <2> QED BY <1>3, <2>1, <2>2 DEF MsInv, MsLeft
<1>13. \A u \in HpThread : HpRegistered(u)' = HpRegistered(u) BY <1>3 DEF HpRegistered
<1>14. ASSUME NEW u \in HpThread, u # t PROVE MsLocal(u)'
  <2>1. \A i \in HpSlot : \A m \in HpNode : Guards(u, i, m) => Guards(u, i, m)' BY <1>a, <1>4, <1>14, MsGuardsKept
  <2>2. \A i \in HpSlot : \A m \in HpNode : MsSafe(u, i, m) => m \notin hpUnused BY DEF MsSafe
  <2>3. hpPc[u] \in Building => msNext[ms[u].node] = NoNode BY DEF MsInv, MsLocal, MsEnq
  <2>4. \A w \in HpThread \ {t} : hpPc'[w] = hpPc[w] /\ ms'[w] = ms[w] BY <1>5, <1>8
  <2>5. hpPc'[t] \notin Building /\ hpSlots'[u] = hpSlots[u] BY <1>4, <1>8, <1>14 DEF Building
  <2> QED BY <1>u, <1>10, <1>13, <1>14, <2>1, <2>2, <2>3, <2>4, <2>5, MsOthers
<1>15. MsLocal(t)'
  <2>1. hpPc'[t] \in {"idle", "scan"} BY <1>8
  <2> QED BY <2>1 DEF MsLocal, MsEnq, MsSlots, MsDeq, Building, Dequeuing, AtGuarded, NextGuarded, NextRead, Working
<1> QED BY <1>7, <1>10, <1>11, <1>12, <1>14, <1>15 DEF MsInv

\* The last step of a scan frees only what nobody dereferences.
LEMMA MsScanFreeStep ==
  ASSUME MsInv, NEW t \in HpThread, MsScanFree(t)
  PROVE  MsInv'
<1>ty. /\ HpInv /\ hpToProcess \in [HpThread -> SUBSET HpNode] /\ hpPc \in [HpThread -> HpLabel] /\ msHead \in HpNode /\ msTail \in HpNode
       /\ msNext \in [HpNode -> Pointer] /\ msData \in [HpNode -> Payload \cup {NoPayload}] /\ ms \in [HpThread -> MsLocals]
       /\ NoNode \in Pointer
  BY DEF MsInv, MsTypeOK, HpInv, HpTypeOK, Pointer
<1>0. ScanFree(t) BY DEF MsScanFree
<1>1. /\ hpPc[t] = "scanFree" /\ hpPc' = [hpPc EXCEPT ![t] = "idle"]
      /\ hpUnused' = hpUnused \cup (hpToProcess[t] \ hpHazards[t])
      /\ hpRetire' = hpRetire \cup (hpToProcess[t] \cap hpHazards[t])
      /\ hpToProcess' = [hpToProcess EXCEPT ![t] = {}]
  BY <1>0 DEF ScanFree, HpGoto
<1>u. UNCHANGED <<hpRecords, hpSlots, msHead, msTail, ms>> BY <1>0 DEF MsScanFree, ScanFree
<1>n. /\ msNext' = [n \in HpNode |-> IF n \in hpUnused' THEN NoNode ELSE msNext[n]]
      /\ msData' = [n \in HpNode |-> IF n \in hpUnused' THEN NoPayload ELSE msData[n]]
  BY DEF MsScanFree
<1>2. HpInv' BY <1>ty, <1>0, ScanFreeInv
<1>3. MsTypeOK'
  <2>1. msNext' \in [HpNode -> Pointer] /\ msData' \in [HpNode -> Payload \cup {NoPayload}] BY <1>ty, <1>n
  <2> QED BY <1>ty, <1>u, <1>2, <2>1 DEF MsTypeOK
<1>4. \A u \in HpThread : hpPc'[u] = IF u = t THEN "idle" ELSE hpPc[u] BY <1>ty, <1>1
<1>5. msMine' = msMine
  <2>1. \A u \in HpThread : msMine'[u] = msMine[u] BY SMTT(30), <1>u, <1>1, <1>4 DEF msMine, Building
  <2> QED BY <2>1 DEF msMine
<1>6. MsOwned' /\ MsQueued' = MsQueued
  <2>1. OwnApart(msMine, hpUnused, hpRetire, hpToProcess) BY DEF MsInv, MsOwned
  <2>2. PICK h, x, r, p : h = hpHazards[t] /\ x = hpUnused' /\ r = hpRetire' /\ p = hpToProcess' OBVIOUS
  <2>3. Sorted(x, r, p, hpUnused, hpRetire, hpToProcess, t, h) BY <1>1, <2>2 DEF Sorted
  <2>4. OwnApart(msMine, x, r, p) /\ Rest(msMine, x, r, p) = Rest(msMine, hpUnused, hpRetire, hpToProcess) BY SMTT(30), <2>1, <2>3, OwnScanFree
  <2> QED BY <1>5, <2>2, <2>4 DEF MsOwned, MsQueued
<1>7. \A n \in HpNode : n \notin hpUnused' => msNext'[n] = msNext[n] /\ msData'[n] = msData[n] BY <1>n
<1>8. MsListed'
  <2>1. PICK c : IsList(c, HpNode, msHead, msNext, NoNode) /\ Members(c) = MsQueued BY DEF MsInv, MsListed
  <2>2. \A n \in MsQueued : n \in HpNode /\ n \notin hpUnused' BY <1>6 DEF MsQueued, Rest
  <2>3. PICK f, h : f = msNext' /\ h = msHead OBVIOUS
  <2>4. \A n \in Members(c) : f[n] = msNext[n] BY <1>7, <2>1, <2>2, <2>3
  <2>5. IsList(c, HpNode, h, f, NoNode) BY <2>1, <2>3, <2>4, ListKept
  <2> QED BY <1>u, <1>6, <2>1, <2>3, <2>5 DEF MsInv, MsListed
<1>9. MsLeft'
  <2> SUFFICES ASSUME NEW n \in HpNode,
                      \/ n \in hpRetire'
                      \/ \E u \in HpThread : n \in hpToProcess'[u] \/ (hpPc'[u] = "deqRetire" /\ ms'[u].at = n)
               PROVE  msNext'[n] # NoNode
    BY DEF MsLeft
  <2>1. n \notin hpUnused'
    <3>1. ASSUME NEW u \in HpThread, hpPc'[u] = "deqRetire", ms'[u].at = n PROVE msMine'[u] = n BY <3>1 DEF msMine, Building
    <3>2. n # NoNode /\ OwnApart(msMine', hpUnused', hpRetire', hpToProcess') BY <1>6, HazardAssumption DEF MsOwned
    <3>3. \A m \in hpRetire' : m \notin hpUnused' BY <3>2 DEF OwnApart
    <3>4. \A u \in HpThread : \A m \in hpToProcess'[u] : m \notin hpUnused' BY <3>2 DEF OwnApart
    <3>5. \A u \in HpThread : msMine'[u] # NoNode => msMine'[u] \notin hpUnused' BY <3>2 DEF OwnApart
    <3> QED BY <3>1, <3>2, <3>3, <3>4, <3>5
  <2>2. \/ n \in hpRetire
        \/ \E u \in HpThread : n \in hpToProcess[u] \/ (hpPc[u] = "deqRetire" /\ ms[u].at = n)
    BY <1>ty, <1>u, <1>1, <1>4
  <2>3. msNext[n] # NoNode BY <2>2 DEF MsInv, MsLeft
  <2> QED BY <1>7, <2>1, <2>3
<1>10. \A u \in HpThread : \A i \in HpSlot : \A m \in HpNode : Guards(u, i, m) => Guards(u, i, m)' /\ (m \notin hpUnused => m \notin hpUnused')
  BY <1>ty, <1>0, GuardScanFree
<1>11. \A u \in HpThread : HpRegistered(u)' = HpRegistered(u) BY <1>u DEF HpRegistered
<1>12. ASSUME NEW u \in HpThread, u # t PROVE MsLocal(u)'
  <2>1. \A i \in HpSlot : \A m \in HpNode : Guards(u, i, m) => Guards(u, i, m)' BY <1>10
  <2>2. \A i \in HpSlot : \A m \in HpNode : MsSafe(u, i, m) => m \notin hpUnused' /\ msNext'[m] = msNext[m] /\ msData'[m] = msData[m]
    BY <1>7, <1>10 DEF MsSafe
  <2>3. hpPc[u] \in Building => msNext'[ms[u].node] = NoNode /\ msData'[ms[u].node] = msData[ms[u].node]
    <3> SUFFICES ASSUME hpPc[u] \in Building
                 PROVE  msNext'[ms[u].node] = NoNode /\ msData'[ms[u].node] = msData[ms[u].node]
      OBVIOUS
    <3>1. ms[u].node \in HpNode /\ msNext[ms[u].node] = NoNode BY DEF MsInv, MsLocal, MsEnq
    <3>2. msMine'[u] = ms[u].node BY <1>5 DEF msMine
    <3>3. ms[u].node \notin hpUnused' BY <1>6, <3>1, <3>2, HazardAssumption DEF MsOwned, OwnApart
    <3> QED BY <1>7, <3>1, <3>3
  <2>4. \A w \in HpThread \ {t} : hpPc'[w] = hpPc[w] /\ ms'[w] = ms[w] BY <1>u, <1>4
  <2>5. hpPc'[t] \notin Building /\ hpSlots'[u] = hpSlots[u] BY <1>u, <1>4 DEF Building
  <2> QED BY SMTT(30), <1>u, <1>6, <1>11, <1>12, <2>1, <2>2, <2>3, <2>4, <2>5, MsOthers
<1>13. MsLocal(t)'
  <2>1. hpPc'[t] = "idle" BY <1>4
  <2> QED BY <2>1 DEF MsLocal, MsEnq, MsSlots, MsDeq, Building, Dequeuing, AtGuarded, NextGuarded, NextRead, Working
<1> QED BY <1>3, <1>6, <1>8, <1>9, <1>12, <1>13 DEF MsInv

\* The other steps of the domain.
LEMMA MsHazardStep ==
  ASSUME MsInv, NEW t \in HpThread, HazardStep(t), UNCHANGED <<msQueue, ms>>
  PROVE  MsInv'
<1>ty. /\ hpToProcess \in [HpThread -> SUBSET HpNode] /\ HpInv /\ hpRecords \in Seq(HpThread) /\ hpPc \in [HpThread -> HpLabel]
  BY DEF MsInv, MsTypeOK, HpInv, HpTypeOK
<1>1. UNCHANGED <<msHead, msTail, msNext, msData, ms>> BY DEF msQueue
<1>2. HpInv' /\ UNCHANGED <<hpSlots, hpUnused>> BY <1>ty, HazardStepInv
<1>3. MsTypeOK' BY <1>1, <1>2 DEF MsInv, MsTypeOK
<1>4. /\ \A u \in HpThread \ {t} : hpPc'[u] = hpPc[u]
      /\ hpPc[t] \in {"idle", "scan", "scanSlot"} /\ hpPc'[t] \in {"idle", "scan", "scanSlot", "scanFree"}
  BY <1>ty DEF HazardStep, HpRegister, ScanTake, ScanSlot, HpGoto
<1>5. msMine' = msMine
  <2>1. msMine'[t] = NoNode /\ msMine[t] = NoNode BY <1>4 DEF msMine, Building
  <2>2. \A u \in HpThread \ {t} : msMine'[u] = msMine[u] BY <1>1, <1>4 DEF msMine
  <2> QED BY <2>1, <2>2 DEF msMine
<1>6. \/ ScanTake(t) /\ hpRetire' = {} /\ hpToProcess' = [hpToProcess EXCEPT ![t] = hpRetire]
      \/ (HpRegister(t) \/ ScanSlot(t)) /\ UNCHANGED <<hpRetire, hpToProcess>>
  BY DEF HazardStep, ScanTake, HpRegister, ScanSlot, hpScan
<1>7. MsOwned' /\ MsQueued' = MsQueued
  <2>1. OwnApart(msMine, hpUnused, hpRetire, hpToProcess) BY DEF MsInv, MsOwned
  <2>2. CASE ScanTake(t) /\ hpRetire' = {} /\ hpToProcess' = [hpToProcess EXCEPT ![t] = hpRetire]
    <3>1. hpToProcess[t] = {} BY <1>ty, <2>2 DEF ScanTake, HpInv, HpScans
    <3>2. PICK p : p = hpToProcess' OBVIOUS
    <3>3. Taken(p, hpToProcess, t, hpRetire) /\ hpRetire' = {} BY <2>2, <3>2 DEF ScanTake, Taken
    <3>4. OwnApart(msMine, hpUnused, {}, p) /\ Rest(msMine, hpUnused, {}, p) = Rest(msMine, hpUnused, hpRetire, hpToProcess)
      BY SMTT(30), <2>1, <3>1, <3>3, OwnScanTake
    <3> QED BY <1>2, <1>5, <3>2, <3>3, <3>4 DEF MsOwned, MsQueued
  <2>3. CASE UNCHANGED <<hpRetire, hpToProcess>> BY <1>2, <1>5, <2>1, <2>3 DEF MsOwned, MsQueued
  <2> QED BY <1>6, <2>2, <2>3
<1>8. MsListed' BY <1>1, <1>7 DEF MsInv, MsListed
<1>9. MsLeft'
  <2>1. \A u \in HpThread : hpPc'[u] = "deqRetire" => hpPc[u] = "deqRetire" BY <1>4
  <2>2. \A n \in HpNode : n \in hpRetire' \/ (\E u \in HpThread : n \in hpToProcess'[u])
                          => n \in hpRetire \/ \E u \in HpThread : n \in hpToProcess[u]
    BY <1>ty, <1>6
  <2> QED BY <1>1, <2>1, <2>2 DEF MsInv, MsLeft
<1>10. \A u \in HpThread : \A i \in HpSlot : \A m \in HpNode : Guards(u, i, m) => Guards(u, i, m)' BY <1>ty, GuardHazardStep
<1>11. \A u \in HpThread : HpRegistered(u) => HpRegistered(u)'
  <2>1. CASE HpRegister(t)
    <3>1. Len(hpRecords') = Len(hpRecords) + 1 /\ (\A i \in 1..Len(hpRecords) : hpRecords'[i] = hpRecords[i]) /\ Len(hpRecords) \in Nat
      BY SMTT(30), <1>ty, <2>1, AppendOf DEF HpRegister
    <3>2. 1..Len(hpRecords) \subseteq 1..Len(hpRecords') BY SMTT(30), <3>1
    <3> QED BY <3>1, <3>2 DEF HpRegistered
  <2>2. CASE ScanTake(t) \/ ScanSlot(t) BY <2>2 DEF ScanTake, ScanSlot, HpRegistered
  <2> QED BY <2>1, <2>2 DEF HazardStep
<1>12. ASSUME NEW u \in HpThread, u # t PROVE MsLocal(u)'
  <2>1. \A i \in HpSlot : \A m \in HpNode : MsSafe(u, i, m) => m \notin hpUnused BY DEF MsSafe
  <2>2. hpPc[u] \in Building => msNext[ms[u].node] = NoNode BY DEF MsInv, MsLocal, MsEnq
  <2>3. \A w \in HpThread \ {t} : hpPc'[w] = hpPc[w] /\ ms'[w] = ms[w] BY <1>1, <1>4
  <2>4. hpPc'[t] \notin Building /\ hpSlots'[u] = hpSlots[u] BY <1>2, <1>4 DEF Building
  <2> QED BY <1>1, <1>2, <1>7, <1>10, <1>11, <1>12, <2>1, <2>2, <2>3, <2>4, MsOthers
<1>13. MsLocal(t)'
  <2>1. hpPc'[t] \in {"idle", "scan", "scanSlot", "scanFree"} BY <1>4
  <2> QED BY <2>1 DEF MsLocal, MsEnq, MsSlots, MsDeq, Building, Dequeuing, AtGuarded, NextGuarded, NextRead, Working
<1> QED BY <1>3, <1>7, <1>8, <1>9, <1>12, <1>13 DEF MsInv

\* At first the dummy is the only node in the queue.
LEMMA MsInvInit == MsInit => MsInv
<1> SUFFICES ASSUME MsInit PROVE MsInv OBVIOUS
<1>1. HpInv
  <2>1. hpRecords \in Seq(HpThread) BY SMTT(30) DEF MsInit, HazardInit
  <2>2. <<0, 0>> \in Nat \X HpSlot BY DEF HpSlot
  <2>3. hpCursor \in [HpThread -> Nat \X HpSlot]
    <3>1. PICK c \in Nat \X HpSlot : c = <<0, 0>> BY <2>2
    <3> QED BY <3>1 DEF MsInit, HazardInit
  <2> QED BY <2>1, <2>3 DEF MsInit, HazardInit, HpInv, HpTypeOK, HpScans, HpLabel, Pointer
<1>2. PICK s \in HpNode : msHead = s /\ msTail = s BY DEF MsInit, MsQueueInit
<1>3. msNext = [n \in HpNode |-> NoNode] /\ hpUnused = HpNode \ {s} /\ hpRetire = {} /\ hpToProcess = [t \in HpThread |-> {}]
  BY <1>2 DEF MsInit, MsQueueInit, HazardInit
<1>4. \A t \in HpThread : hpPc[t] = "idle" BY DEF MsInit, HazardInit
<1>5. MsTypeOK
  <2>1. NoLocals \in MsLocals BY DEF NoLocals, MsLocals, Pointer
  <2>2. PICK q \in MsLocals : q = NoLocals BY <2>1
  <2>3. ms \in [HpThread -> MsLocals] BY <2>2 DEF MsInit, MsQueueInit
  <2>4. msData \in [HpNode -> Payload \cup {NoPayload}] BY DEF MsInit, MsQueueInit
  <2> QED BY <1>1, <1>2, <1>3, <2>3, <2>4 DEF MsTypeOK, Pointer
<1>6. msMine = [t \in HpThread |-> NoNode] BY <1>4 DEF msMine, Building
<1>7. MsOwned BY <1>3, <1>6 DEF MsOwned, OwnApart, OwnTyped, Pointer
<1>8. MsQueued = {s} BY <1>2, <1>3, <1>6, HazardAssumption DEF MsQueued, Rest
<1>9. MsListed
  <2>1. IsList(<<s>>, HpNode, s, msNext, NoNode) /\ Members(<<s>>) = {s}
    BY SMTT(30), <1>2, <1>3, HazardAssumption DEF IsList, Members
  <2> QED BY <1>2, <1>8, <2>1 DEF MsListed
<1>10. MsLeft BY <1>3, <1>4 DEF MsLeft
<1>11. \A t \in HpThread : MsLocal(t)
  BY <1>4 DEF MsLocal, MsEnq, MsSlots, MsDeq, Building, Dequeuing, AtGuarded, NextGuarded, NextRead, Working
<1> QED BY <1>5, <1>7, <1>9, <1>10, <1>11 DEF MsInv

\* Every step preserves MsInv.
LEMMA MsInductive == MsInv /\ [MsNext]_msVars => MsInv'
<1> SUFFICES ASSUME MsInv, [MsNext]_msVars PROVE MsInv' OBVIOUS
<1>1. CASE UNCHANGED msVars
  <2>1. UNCHANGED <<hpRecords, hpSlots, hpRetire, hpToProcess, hpHazards, hpCursor, hpUnused, hpPc, msHead, msTail, msNext, msData, ms>>
    BY <1>1 DEF msVars, hpVars, hpDomain, hpScan, msQueue
  <2>2. HpInv' /\ \A t \in HpThread : HpRegistered(t)' = HpRegistered(t)
    BY <2>1 DEF MsInv, MsTypeOK, HpInv, HpTypeOK, HpScans, HpRegistered
  <2>3. MsTypeOK' BY <2>1, <2>2 DEF MsInv, MsTypeOK
  <2>4. msMine' = msMine BY <2>1 DEF msMine
  <2>5. MsOwned' /\ MsQueued' = MsQueued BY <2>1, <2>4 DEF MsInv, MsOwned, MsQueued
  <2>6. MsListed' /\ MsLeft' BY <2>1, <2>5 DEF MsInv, MsListed, MsLeft
  <2>7. ASSUME NEW t \in HpThread PROVE MsLocal(t)'
    <3>1. \A i, u : Ahead(u, t, i) => Ahead(u, t, i)' BY <2>1 DEF Ahead
    <3>2. HpRegistered(t) => HpRegistered(t)' BY <2>1 DEF HpRegistered
    <3>3. \A i, n : Guards(t, i, n) => Guards(t, i, n)' BY <2>1, <3>1, <3>2 DEF Guards
    <3>4. \A i, n : MsSafe(t, i, n) => MsSafe(t, i, n)' BY <2>1, <3>3 DEF MsSafe
    <3>5. MsEnq(t) /\ MsSlots(t) /\ MsDeq(t) BY DEF MsInv, MsLocal
    <3>6. MsEnq(t)' BY <2>1, <3>5 DEF MsEnq
    <3>7. MsSlots(t)' BY <2>1, <3>2, <3>4, <3>5 DEF MsSlots
    <3>8. MsDeq(t)' BY <2>1, <2>5, <3>5 DEF MsDeq
    <3> QED BY <3>6, <3>7, <3>8 DEF MsLocal
  <2> QED BY <2>3, <2>5, <2>6, <2>7 DEF MsInv
<1>2. CASE MsNext
  <2>1. PICK t \in HpThread : Enqueue(t) \/ Dequeue(t) \/ MsScanFree(t) \/ (HazardStep(t) /\ UNCHANGED <<msQueue, ms>>) BY <1>2 DEF MsNext
  <2>2. CASE EnqAlloc(t) BY <2>2, MsAllocStep
  <2>3. CASE EnqLink(t)
    <3>1. \/ msNext[ms[t].at] = NoNode /\ msNext' = [msNext EXCEPT ![ms[t].at] = ms[t].node] /\ MsOn(t, "enqSwing")
          \/ MsAgain(t, "enqLoad") /\ UNCHANGED msNext
      BY <2>3 DEF EnqLink
    <3> QED BY <2>3, <3>1, MsLinkStep, MsEnqSteps
  <2>4. CASE EnqLoad(t) \/ EnqProtect(t) \/ EnqValidate(t) \/ EnqNext(t) \/ EnqRecheck(t) BY <2>4, MsEnqSteps
  <2>5. CASE EnqSwing(t) \/ EnqHelp(t) \/ DeqHelp(t) BY <2>5, MsSwingSteps
  <2>6. CASE DeqCas(t)
    <3>1. \/ msHead = ms[t].at /\ msHead' = ms[t].next /\ MsOn(t, "deqRetire")
          \/ MsAgain(t, "deqLoad") /\ UNCHANGED msHead
      BY <2>6 DEF DeqCas
    <3> QED BY <2>6, <3>1, MsTakeStep, MsDeqSteps
  <2>7. CASE \/ DeqLoad(t) \/ DeqProtect(t) \/ DeqValidate(t) \/ DeqNext(t) \/ DeqProtectNext(t)
             \/ DeqValidateNext(t) \/ DeqCheck(t) \/ DeqEmpty(t) \/ DeqTail(t) \/ DeqCopy(t)
    BY <2>7, MsDeqSteps
  <2>8. CASE DeqRetire(t) BY <2>8, MsRetireStep
  <2>9. CASE MsScanFree(t) BY <2>9, MsScanFreeStep
  <2>10. CASE HazardStep(t) /\ UNCHANGED <<msQueue, ms>> BY <2>10, MsHazardStep
  <2> QED BY <2>1, <2>2, <2>3, <2>4, <2>5, <2>6, <2>7, <2>8, <2>9, <2>10 DEF Enqueue, Dequeue
<1> QED BY <1>1, <1>2

\* The node a thread is about to dereference is one it guards.
LEMMA MsUsesNoFreed == MsInv => MsNoUseAfterFree
<1> SUFFICES ASSUME MsInv, NEW t \in HpThread PROVE MsDereferences(t) \cap hpUnused = {} BY DEF MsNoUseAfterFree
<1>1. MsSlots(t) BY DEF MsInv, MsLocal
<1>2. hpPc[t] \in AtGuarded => ms[t].at \notin hpUnused BY <1>1 DEF MsSlots, MsSafe
<1>3. hpPc[t] \in NextGuarded => ms[t].next \notin hpUnused BY <1>1 DEF MsSlots, MsSafe
<1>4. hpPc[t] \in {"enqNext", "enqLink", "deqNext", "deqValidateNext"} => hpPc[t] \in AtGuarded BY DEF AtGuarded, Dequeuing
<1>5. hpPc[t] = "deqCopy" => hpPc[t] \in NextGuarded BY DEF NextGuarded
<1> QED BY <1>2, <1>3, <1>4, <1>5 DEF MsDereferences

\* For any threads and nodes: no node that an enqueue or a dequeue of the
\* Michael-Scott queue dereferences is free, wherever the scans of the other
\* threads stand.
THEOREM QueueNeverUsesFreed == MsSpec => []MsNoUseAfterFree
BY MsInvInit, MsInductive, MsUsesNoFreed, PTL DEF MsSpec
=============================================================================
