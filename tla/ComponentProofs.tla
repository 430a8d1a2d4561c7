-------------------------- MODULE ComponentProofs ---------------------------
(* Theorems about single components that keep lists, tables and counts,    *)
(* for every value of their constants.                                     *)
EXTENDS KvCache, FreeList, GuardPool, Checkpoint, SpecDecode, Backpressure, WalkProofs

\* Leaves are proved by Zenon; the others cite the prover that finds them.
USE ZenonT(30)

-----------------------------------------------------------------------------
(* The paged key-value cache.                                              *)

\* What the fields hold.
KvTypeOK ==
  /\ free_list \in Seq(Block)
  /\ tables \in [SeqId -> Seq(Block)]
  /\ seq_len \in [SeqId -> Nat]

-----------------------------------------------------------------------------
(* Arithmetic: a number between two neighbouring multiples.                *)

\* Different multiples of B are B apart.
LEMMA MultiplesApart ==
  ASSUME NEW B \in Nat \ {0}, NEW p \in Int, NEW q \in Int, p < q
  PROVE  p * B + B <= q * B
<1>1. q - p >= 1 /\ q - p \in Nat BY SMTT(30)
<1>2. (q - p) * B >= B BY SMTT(30), <1>1
<1> QED BY SMTT(30), <1>2

\* seq_len % block_size is 0 when every block is full.
LEMMA MultipleLeavesNothing ==
  ASSUME NEW B \in Nat \ {0}, NEW q \in Nat
  PROVE  (q * B) % B = 0
BY SMTT(30)

\* seq_len % block_size = 0 says that the last block is full.
LEMMA LastMultiple ==
  ASSUME NEW B \in Nat \ {0}, NEW q \in Nat, NEW x \in Nat,
         (q - 1) * B < x, x <= q * B, x % B = 0
  PROVE  x = q * B
<1> DEFINE d == x \div B
<1>1. d \in Nat /\ x = d * B BY SMTT(30)
<1>2. ~(d < q - 1 \/ d = q - 1) 
  <2>1. CASE d = q - 1 BY SMTT(30), <2>1, <1>1
  <2>2. CASE d < q - 1 BY SMTT(30), <2>2, <1>1, MultiplesApart
  <2> QED BY <2>1, <2>2, <1>1
<1>3. ~(q < d) BY SMTT(30), <1>1, MultiplesApart
<1> QED BY SMTT(30), <1>1, <1>2, <1>3
-----------------------------------------------------------------------------
\* The inductive invariant: whether the next block is due is read from seq_len,
\* so the two properties and the types of the fields hold together.
KvIInv == KvTypeOK /\ BlocksExclusive /\ BlocksFitTokens

\* A fresh allocator holds every block once.
LEMMA KvInitHolds == KvInit => KvIInv
<1> SUFFICES ASSUME KvInit PROVE KvIInv OBVIOUS
<1> USE KvAssumption
<1>1. KvTypeOK
  <2>1. \A i \in 1..MaxBlocks : MaxBlocks - i \in Block BY SMTT(30) DEF Block
  <2>2. free_list \in Seq(Block) BY SMTT(30), <2>1 DEF KvInit
  <2> QED BY SMTT(30), <2>2 DEF KvInit, KvTypeOK
<1>2. BlocksExclusive BY SMTT(30) DEF KvInit, BlocksExclusive, Distinct
<1>3. BlocksFitTokens
  <2>1. \A s \in SeqId : Len(tables[s]) = 0 /\ seq_len[s] = 0 BY DEF KvInit
  <2>2. (0 - 1) * BlockSize < 0 /\ 0 <= 0 * BlockSize BY SMTT(30)
  <2> QED BY <2>1, <2>2 DEF BlocksFitTokens
<1> QED BY <1>1, <1>2, <1>3 DEF KvIInv

\* A token in the last block: that block has room for it.
LEMMA AppendInBlockPreserves ==
  ASSUME KvIInv, NEW s \in SeqId, AppendInBlock(s)
  PROVE  KvIInv'
<1> USE KvAssumption
<1>1. KvTypeOK' BY SMTT(30) DEF KvIInv, KvTypeOK, AppendInBlock
<1>2. BlocksExclusive' BY SMTT(30) DEF KvIInv, BlocksExclusive, Distinct, AppendInBlock
<1>3. BlocksFitTokens'
  <2> SUFFICES ASSUME NEW u \in SeqId
               PROVE  /\ (Len(tables[u]) - 1) * BlockSize < seq_len'[u]
                      /\ seq_len'[u] <= Len(tables[u]) * BlockSize
    BY DEF BlocksFitTokens, AppendInBlock
  <2> DEFINE q == Len(tables[u])
             x == seq_len[u]
  <2>1. q \in Nat /\ x \in Nat /\ (q - 1) * BlockSize < x /\ x <= q * BlockSize
    BY SMTT(30) DEF KvIInv, KvTypeOK, BlocksFitTokens
  <2>2. CASE u # s BY <2>1, <2>2 DEF AppendInBlock, KvIInv, KvTypeOK
  <2>3. CASE u = s
    <3>1. seq_len'[u] = x + 1 BY <2>3 DEF AppendInBlock, KvIInv, KvTypeOK
    <3>2. x % BlockSize # 0 BY <2>3 DEF AppendInBlock, NeedsBlock
    <3>3. x # q * BlockSize BY <2>1, <3>2, MultipleLeavesNothing
    <3> HIDE DEF q, x
    <3>4. q * BlockSize \in Int /\ (q - 1) * BlockSize \in Int BY SMTT(30), <2>1
    <3>5. (q - 1) * BlockSize < x + 1 /\ x + 1 <= q * BlockSize BY SMTT(30), <2>1, <3>3, <3>4
    <3> QED BY <3>1, <3>5 DEF q, x
  <2> QED BY <2>2, <2>3
<1> QED BY <1>1, <1>2, <1>3 DEF KvIInv

\* A token in a new block, the last of the free list.
LEMMA AppendNewBlockPreserves ==
  ASSUME KvIInv, NEW s \in SeqId, AppendNewBlock(s)
  PROVE  KvIInv'
<1> USE KvAssumption
<1>1. free_list \in Seq(Block) /\ tables \in [SeqId -> Seq(Block)] /\ seq_len \in [SeqId -> Nat]
  BY DEF KvIInv, KvTypeOK
<1> DEFINE n == Len(free_list)
           b == free_list[n]
           len(u) == Len(tables[u])
<1>2. /\ n \in Nat \ {0} /\ DOMAIN free_list = 1..n
      /\ \A i \in 1..n : free_list[i] \in Block
  BY SMTT(30), <1>1, EmptySeq, LenProperties DEF AppendNewBlock
<1>3. /\ free_list' \in Seq(Block) /\ DOMAIN free_list' = 1..n - 1
      /\ \A i \in 1..n - 1 : free_list'[i] = free_list[i]
  <2>1. \A i \in 1..n - 1 : free_list[i] \in Block BY SMTT(30), <1>2
  <2>2. /\ free_list' \in Seq(Block) /\ Len(free_list') = n - 1
        /\ \A i \in 1..n - 1 : free_list'[i] = free_list[i]
    <3>1. free_list' = SubSeq(free_list, 1, n - 1) BY DEF AppendNewBlock
    <3> HIDE DEF n
    <3> QED BY SMTT(30), <1>2, <2>1, <3>1, SubSeqProperties
  <2> QED BY <2>2, LenProperties
<1>4. b \in Block BY SMTT(30), <1>2
<1>5. \A u \in SeqId : len(u) \in Nat /\ DOMAIN tables[u] = 1..len(u) BY <1>1, LenProperties
<1>6. /\ \A u \in SeqId : u # s => tables'[u] = tables[u]
      /\ tables'[s] = Append(tables[s], b)
      /\ tables' \in [SeqId -> Seq(Block)]
  <2>1. Append(tables[s], b) \in Seq(Block) BY <1>1, <1>4, AppendProperties
  <2>2. tables' = [tables EXCEPT ![s] = Append(tables[s], b)] BY <1>1 DEF AppendNewBlock
  <2> HIDE DEF b
  <2> QED BY <1>1, <2>1, <2>2
<1>7. /\ DOMAIN tables'[s] = 1..len(s) + 1 /\ Len(tables'[s]) = len(s) + 1
      /\ tables'[s][len(s) + 1] = b
      /\ \A i \in 1..len(s) : tables'[s][i] = tables[s][i]
  BY SMTT(30), <1>1, <1>4, <1>6, AppendProperties, LenProperties
<1>8. /\ seq_len' \in [SeqId -> Nat]
      /\ \A u \in SeqId : seq_len'[u] = IF u = s THEN seq_len[s] + 1 ELSE seq_len[u]
  BY SMTT(30), <1>1 DEF AppendNewBlock
<1> HIDE DEF n, b, len
<1>9. BlocksExclusive'
  <2>0. BlocksExclusive BY DEF KvIInv
  <2>1. Distinct(free_list)' BY SMTT(30), <1>2, <1>3, <2>0 DEF BlocksExclusive, Distinct
  <2>2. \A u \in SeqId : \A i \in DOMAIN tables[u] : tables[u][i] # b
    BY SMTT(30), <1>2, <2>0 DEF BlocksExclusive, b
  <2>3. \A j \in 1..n - 1 : free_list'[j] # b
    BY SMTT(30), <1>2, <1>3, <2>0 DEF BlocksExclusive, Distinct, b
  <2>4. ASSUME NEW u \in SeqId, NEW i \in DOMAIN tables'[u]
        PROVE  \/ i \in DOMAIN tables[u] /\ tables'[u][i] = tables[u][i]
               \/ u = s /\ i = len(s) + 1 /\ tables'[u][i] = b
    <3>1. CASE u # s BY <1>6, <2>4, <3>1
    <3>2. CASE u = s
      <4>1. i \in 1..len(s) + 1 BY <1>7, <2>4, <3>2
      <4>2. i \in 1..len(s) \/ i = len(s) + 1 BY SMTT(30), <1>5, <4>1
      <4> QED BY <1>5, <1>7, <3>2, <4>2
    <3> QED BY <3>1, <3>2
  <2>5. ASSUME NEW u \in SeqId PROVE Distinct(tables'[u])
    <3> SUFFICES ASSUME NEW i \in DOMAIN tables'[u], NEW j \in DOMAIN tables'[u], tables'[u][i] = tables'[u][j]
                 PROVE  i = j
      BY DEF Distinct
    <3>1. Distinct(tables[u]) BY <2>0 DEF BlocksExclusive
    <3> QED BY SMTT(30), <2>2, <2>4, <3>1 DEF Distinct
  <2>6. ASSUME NEW u \in SeqId, NEW i \in DOMAIN tables'[u], NEW j \in DOMAIN free_list'
        PROVE  tables'[u][i] # free_list'[j]
    <3>1. j \in DOMAIN free_list /\ free_list'[j] = free_list[j] BY SMTT(30), <1>2, <1>3
    <3>2. free_list'[j] # b BY <1>3, <2>3
    <3> QED BY SMTT(30), <3>1, <3>2, <2>0, <2>4 DEF BlocksExclusive
  <2>7. ASSUME NEW u \in SeqId, NEW w \in SeqId, u # w,
               NEW i \in DOMAIN tables'[u], NEW j \in DOMAIN tables'[w]
        PROVE  tables'[u][i] # tables'[w][j]
    <3>1. i \in DOMAIN tables[u] /\ j \in DOMAIN tables[w] => tables[u][i] # tables[w][j]
      BY <2>0, <2>7 DEF BlocksExclusive
    <3> QED BY <2>2, <2>4, <2>7, <3>1
  <2> QED BY <2>1, <2>5, <2>6, <2>7 DEF BlocksExclusive
<1>10. BlocksFitTokens'
  <2> SUFFICES ASSUME NEW u \in SeqId
               PROVE  /\ (Len(tables'[u]) - 1) * BlockSize < seq_len'[u]
                      /\ seq_len'[u] <= Len(tables'[u]) * BlockSize
    BY DEF BlocksFitTokens
  <2> DEFINE q == Len(tables[u])
             x == seq_len[u]
  <2>1. q \in Nat /\ x \in Nat /\ (q - 1) * BlockSize < x /\ x <= q * BlockSize
    BY SMTT(30), <1>1 DEF KvIInv, BlocksFitTokens
  <2>2. CASE u # s BY <1>6, <1>8, <2>1, <2>2
  <2>3. CASE u = s
    <3>1. seq_len'[u] = x + 1 /\ Len(tables'[u]) = q + 1 BY <1>7, <1>8, <2>3 DEF len
    <3>2. q = 0 \/ x % BlockSize = 0 BY <1>1, <2>3 DEF AppendNewBlock, NeedsBlock
    <3> HIDE DEF q, x
    <3>3. x = q * BlockSize
      <4>1. CASE q = 0 BY SMTT(30), <4>1, <2>1
      <4>2. CASE x % BlockSize = 0 BY <4>2, <2>1, LastMultiple
      <4> QED BY <3>2, <4>1, <4>2
    <3>4. (q + 1) * BlockSize = q * BlockSize + BlockSize /\ (q + 1) - 1 = q BY SMTT(30), <2>1
    <3> QED BY SMTT(30), <3>1, <3>3, <3>4, <2>1
  <2> QED BY <2>2, <2>3
<1>11. KvTypeOK' BY <1>3, <1>6, <1>8 DEF KvTypeOK
<1> QED BY <1>9, <1>10, <1>11 DEF KvIInv

\* The blocks of a sequence go back behind the free ones.
LEMMA FreeSequencePreserves ==
  ASSUME KvIInv, NEW s \in SeqId, FreeSequence(s)
  PROVE  KvIInv'
<1> USE KvAssumption
<1>1. free_list \in Seq(Block) /\ tables \in [SeqId -> Seq(Block)] /\ seq_len \in [SeqId -> Nat]
  BY DEF KvIInv, KvTypeOK
<1> DEFINE n == Len(free_list)
           m == Len(tables[s])
<1>2. n \in Nat /\ m \in Nat /\ DOMAIN free_list = 1..n /\ DOMAIN tables[s] = 1..m
  BY <1>1, LenProperties
<1>3. /\ free_list' \in Seq(Block) /\ DOMAIN free_list' = 1..n + m
      /\ \A i \in 1..n + m : free_list'[i] = IF i <= n THEN free_list[i] ELSE tables[s][i - n]
  <2>1. free_list' = free_list \o tables[s] BY DEF FreeSequence
  <2>2. /\ free_list' \in Seq(Block) /\ Len(free_list') = n + m
        /\ \A i \in 1..n + m : free_list'[i] = IF i <= n THEN free_list[i] ELSE tables[s][i - n]
    BY SMTT(30), <1>1, <2>1, ConcatProperties
  <2> QED BY <2>2, LenProperties
<1>4. /\ tables' \in [SeqId -> Seq(Block)] /\ tables'[s] = <<>>
      /\ \A u \in SeqId : u # s => tables'[u] = tables[u]
  BY <1>1, EmptySeq DEF FreeSequence
<1>5. /\ seq_len' \in [SeqId -> Nat] /\ seq_len'[s] = 0
      /\ \A u \in SeqId : u # s => seq_len'[u] = seq_len[u]
  BY <1>1 DEF FreeSequence
<1> HIDE DEF n, m
<1>6. BlocksExclusive'
  <2>0. BlocksExclusive BY DEF KvIInv
  <2>1. ASSUME NEW j \in DOMAIN free_list'
        PROVE  \/ j \in DOMAIN free_list /\ free_list'[j] = free_list[j]
               \/ j - n \in DOMAIN tables[s] /\ j > n /\ free_list'[j] = tables[s][j - n]
    BY SMTT(30), <1>2, <1>3, <2>1
  <2>2. Distinct(free_list)'
    <3> SUFFICES ASSUME NEW i \in DOMAIN free_list', NEW j \in DOMAIN free_list', free_list'[i] = free_list'[j]
                 PROVE  i = j
      BY DEF Distinct
    <3>1. Distinct(free_list) /\ Distinct(tables[s]) BY <2>0 DEF BlocksExclusive
    <3>2. \A k \in DOMAIN tables[s], l \in DOMAIN free_list : tables[s][k] # free_list[l]
      BY <2>0 DEF BlocksExclusive
    <3>3. i \in Int /\ j \in Int BY SMTT(30), <1>2, <1>3
    <3>4. i - n = j - n => i = j BY SMTT(30), <1>2, <3>3
    <3> QED BY SMTT(30), <2>1, <3>1, <3>2, <3>4 DEF Distinct
  <2>3. ASSUME NEW u \in SeqId, u # s, NEW i \in DOMAIN tables[u], NEW j \in DOMAIN free_list'
        PROVE  tables[u][i] # free_list'[j]
    BY SMTT(30), <2>0, <2>1, <2>3 DEF BlocksExclusive
  <2>4. DOMAIN tables'[s] = {} BY SMTT(30), <1>4
  <2>5. \A u \in SeqId : Distinct(tables'[u]) BY <1>4, <2>0, <2>4 DEF BlocksExclusive, Distinct
  <2>6. ASSUME NEW u \in SeqId, NEW i \in DOMAIN tables'[u], NEW j \in DOMAIN free_list'
        PROVE  tables'[u][i] # free_list'[j]
    BY SMTT(30), <1>4, <2>3, <2>4, <2>6
  <2>7. ASSUME NEW u \in SeqId, NEW w \in SeqId, u # w,
               NEW i \in DOMAIN tables'[u], NEW j \in DOMAIN tables'[w]
        PROVE  tables'[u][i] # tables'[w][j]
    BY SMTT(30), <1>4, <2>0, <2>4, <2>7 DEF BlocksExclusive
  <2> QED BY <2>2, <2>5, <2>6, <2>7 DEF BlocksExclusive
<1>7. BlocksFitTokens'
  <2> SUFFICES ASSUME NEW u \in SeqId
               PROVE  /\ (Len(tables'[u]) - 1) * BlockSize < seq_len'[u]
                      /\ seq_len'[u] <= Len(tables'[u]) * BlockSize
    BY DEF BlocksFitTokens
  <2>1. CASE u # s BY <1>4, <1>5, <2>1 DEF KvIInv, BlocksFitTokens
  <2>2. CASE u = s
    <3>1. Len(tables'[u]) = 0 /\ seq_len'[u] = 0 BY <1>4, <1>5, <2>2, EmptySeq
    <3>2. (0 - 1) * BlockSize < 0 /\ 0 <= 0 * BlockSize BY SMTT(30)
    <3> QED BY <3>1, <3>2
  <2> QED BY <2>1, <2>2
<1> QED BY <1>3, <1>4, <1>5, <1>6, <1>7 DEF KvIInv, KvTypeOK

\* Every append_token and free_sequence keeps the inductive invariant.
THEOREM KvInductive == KvSpec => []KvIInv
<1>1. KvIInv /\ [KvNext]_kvVars => KvIInv'
  <2> SUFFICES ASSUME KvIInv, [KvNext]_kvVars PROVE KvIInv' OBVIOUS
  <2>1. CASE KvNext
    BY <2>1, AppendInBlockPreserves, AppendNewBlockPreserves, FreeSequencePreserves DEF KvNext
  <2>2. CASE UNCHANGED kvVars
    BY SMTT(30), <2>2 DEF kvVars, KvIInv, KvTypeOK, BlocksExclusive, BlocksFitTokens, Distinct
  <2> QED BY <2>1, <2>2
<1> QED BY <1>1, KvInitHolds, PTL DEF KvSpec

\* For any number of sequences, blocks and tokens: append_token and
\* free_sequence never give a physical block to two owners.
LEMMA KvBlocksExclusive == KvSpec => []BlocksExclusive
<1>1. KvIInv => BlocksExclusive BY DEF KvIInv
<1> QED BY <1>1, KvInductive, PTL

\* For any block size: a sequence has the blocks its tokens need and no more.
LEMMA KvBlocksFitTokens == KvSpec => []BlocksFitTokens
<1>1. KvIInv => BlocksFitTokens BY DEF KvIInv
<1> QED BY <1>1, KvInductive, PTL

\* For any number of blocks: append_token and free_sequence lose none of them.
LEMMA KvBlocksAccounted == KvSpec => []BlocksAccounted
<1> USE KvAssumption
<1>1. KvInit => BlocksAccounted
  <2> SUFFICES ASSUME KvInit, NEW b \in Block PROVE \E j \in DOMAIN free_list : free_list[j] = b
    BY DEF BlocksAccounted
  <2>1. MaxBlocks - b \in 1..MaxBlocks BY SMTT(30) DEF Block
  <2>2. free_list[MaxBlocks - b] = b BY SMTT(30), <2>1 DEF KvInit, Block
  <2> QED BY <2>1, <2>2 DEF KvInit
<1>2. ASSUME KvIInv, BlocksAccounted, NEW s \in SeqId, AppendNewBlock(s)
      PROVE  BlocksAccounted'
  <2>1. free_list \in Seq(Block) /\ tables \in [SeqId -> Seq(Block)] BY <1>2 DEF KvIInv, KvTypeOK
  <2> DEFINE n == Len(free_list)
             m == Len(tables[s])
  <2>2. n \in Nat \ {0} /\ m \in Nat /\ DOMAIN free_list = 1..n /\ DOMAIN tables[s] = 1..m
    BY <1>2, <2>1, LenProperties, EmptySeq DEF AppendNewBlock
  <2>3. DOMAIN free_list' = 1..n - 1 /\ \A i \in 1..n - 1 : free_list'[i] = free_list[i]
    BY SMTT(30), <1>2, <2>1, <2>2, SubSeqProperties, LenProperties DEF AppendNewBlock
  <2>4. free_list[n] \in Block BY SMTT(30), <2>1, <2>2, ElementOfSeq
  <2>5. tables'[s] = Append(tables[s], free_list[n]) /\ \A u \in SeqId : u # s => tables'[u] = tables[u]
    BY <1>2, <2>1 DEF AppendNewBlock
  <2>6. /\ DOMAIN tables'[s] = 1..m + 1 /\ tables'[s][m + 1] = free_list[n]
        /\ \A i \in 1..m : tables'[s][i] = tables[s][i]
    BY SMTT(30), <2>1, <2>2, <2>4, <2>5, AppendProperties, LenProperties
  <2> HIDE DEF n, m
  <2> SUFFICES ASSUME NEW b \in Block
               PROVE  \/ \E j \in DOMAIN free_list' : free_list'[j] = b
                      \/ \E u \in SeqId : \E i \in DOMAIN tables'[u] : tables'[u][i] = b
    BY DEF BlocksAccounted
  <2>7. CASE \E j \in DOMAIN free_list : free_list[j] = b
    <3> PICK j \in 1..n : free_list[j] = b BY <2>2, <2>7
    <3>1. CASE j = n
      <4>1. m + 1 \in DOMAIN tables'[s] BY SMTT(30), <2>2, <2>6
      <4> QED BY <2>6, <3>1, <4>1
    <3>2. CASE j # n
      <4>1. j \in 1..n - 1 BY SMTT(30), <2>2, <3>2
      <4> QED BY <2>3, <4>1
    <3> QED BY <3>1, <3>2
  <2>8. CASE \E u \in SeqId : \E i \in DOMAIN tables[u] : tables[u][i] = b
    <3> PICK u \in SeqId : \E i \in DOMAIN tables[u] : tables[u][i] = b BY <2>8
    <3>1. CASE u # s BY <2>5, <3>1
    <3>2. CASE u = s
      <4> PICK i \in 1..m : tables[s][i] = b BY <2>2, <3>2
      <4>1. i \in DOMAIN tables'[s] BY SMTT(30), <2>2, <2>6
      <4> QED BY <2>6, <4>1
    <3> QED BY <3>1, <3>2
  <2> QED BY <1>2, <2>7, <2>8 DEF BlocksAccounted
<1>3. ASSUME KvIInv, BlocksAccounted, NEW s \in SeqId, FreeSequence(s)
      PROVE  BlocksAccounted'
  <2>1. free_list \in Seq(Block) /\ tables \in [SeqId -> Seq(Block)] BY <1>3 DEF KvIInv, KvTypeOK
  <2> DEFINE n == Len(free_list)
             m == Len(tables[s])
  <2>2. n \in Nat /\ m \in Nat /\ DOMAIN free_list = 1..n /\ DOMAIN tables[s] = 1..m
    BY <2>1, LenProperties
  <2>3. /\ DOMAIN free_list' = 1..n + m
        /\ \A i \in 1..n + m : free_list'[i] = IF i <= n THEN free_list[i] ELSE tables[s][i - n]
    BY SMTT(30), <1>3, <2>1, ConcatProperties, LenProperties DEF FreeSequence
  <2>4. \A u \in SeqId : u # s => tables'[u] = tables[u] BY <1>3, <2>1 DEF FreeSequence
  <2> HIDE DEF n, m
  <2> SUFFICES ASSUME NEW b \in Block
               PROVE  \/ \E j \in DOMAIN free_list' : free_list'[j] = b
                      \/ \E u \in SeqId : \E i \in DOMAIN tables'[u] : tables'[u][i] = b
    BY DEF BlocksAccounted
  <2>5. CASE \E j \in DOMAIN free_list : free_list[j] = b
    <3> PICK j \in 1..n : free_list[j] = b BY <2>2, <2>5
    <3>1. j \in 1..n + m /\ j <= n BY SMTT(30), <2>2
    <3> QED BY <2>3, <3>1
  <2>6. CASE \E u \in SeqId : \E i \in DOMAIN tables[u] : tables[u][i] = b
    <3> PICK u \in SeqId : \E i \in DOMAIN tables[u] : tables[u][i] = b BY <2>6
    <3>1. CASE u # s BY <2>4, <3>1
    <3>2. CASE u = s
      <4> PICK i \in 1..m : tables[s][i] = b BY <2>2, <3>2
      <4>1. n + i \in 1..n + m /\ ~(n + i <= n) /\ (n + i) - n = i BY SMTT(30), <2>2
      <4> QED BY <2>3, <4>1
    <3> QED BY <3>1, <3>2
  <2> QED BY <1>3, <2>5, <2>6 DEF BlocksAccounted
<1>4. KvIInv /\ BlocksAccounted /\ [KvNext]_kvVars => BlocksAccounted'
  <2> SUFFICES ASSUME KvIInv, BlocksAccounted, [KvNext]_kvVars PROVE BlocksAccounted' OBVIOUS
  <2>1. ASSUME NEW s \in SeqId, AppendInBlock(s) PROVE BlocksAccounted'
    BY <2>1 DEF AppendInBlock, BlocksAccounted
  <2>2. CASE UNCHANGED kvVars BY <2>2 DEF kvVars, BlocksAccounted
  <2> QED BY <1>2, <1>3, <2>1, <2>2 DEF KvNext
<1> QED BY <1>1, <1>4, KvInductive, PTL DEF KvSpec

\* For any pool, block size and sequences the block tables are right after
\* any calls of append_token and free_sequence.
THEOREM KvBlocksConserved == KvSpec => []BlocksConserved
<1>1. BlocksExclusive /\ BlocksAccounted /\ BlocksFitTokens => BlocksConserved BY DEF BlocksConserved
<1> QED BY <1>1, KvBlocksExclusive, KvBlocksAccounted, KvBlocksFitTokens, PTL

-----------------------------------------------------------------------------
(* The lock-free slot pool.                                                *)

\* What head_ holds: an index and a tag.
FlHead == [idx : 0..FlCapacity, tag : Nat]

\* The slots a thread has acquired, the one it is releasing included.
FlHolds(t) == flOwned[t] \cup ({flIdx[t]} \ {kNone})

\* What the fields hold.
FlTypeOK ==
  /\ flHead \in FlHead
  /\ flNext \in [FlSlot -> 0..FlCapacity]
  /\ flPc \in [FlThread -> {"idle", "next", "acquire", "link", "release"}]
  /\ flOld \in [FlThread -> FlHead]
  /\ flNxt \in [FlThread -> 0..FlCapacity]
  /\ flOwned \in [FlThread -> SUBSET FlSlot]
  /\ flIdx \in [FlThread -> 0..FlCapacity]

\* No slot is held twice.
FlHeldApart ==
  /\ \A t \in FlThread : flIdx[t] \notin flOwned[t]
  /\ \A t, u \in FlThread : t # u => FlHolds(t) \cap FlHolds(u) = {}

\* What a thread inside acquire or release has seen.  No head has the tag of
\* an earlier one, so a head that is still the one read has still its next.
FlReadings(t) ==
  /\ flOld[t].tag <= flHead.tag
  /\ flPc[t] \in {"next", "acquire"} => flOld[t].idx # kNone
  /\ flPc[t] = "acquire" /\ flOld[t] = flHead => flNxt[t] = flNext[flHead.idx]
  /\ flPc[t] \in {"link", "release"} <=> flIdx[t] # kNone
  /\ flPc[t] = "release" => flNext[flIdx[t]] = flOld[t].idx

\* c lists the free slots: those no thread holds.
FlFree(c) ==
  /\ IsList(c, FlSlot, flHead.idx, flNext, kNone)
  /\ \A i \in FlSlot : i \in Members(c) <=> \A t \in FlThread : i \notin FlHolds(t)

\* The inductive invariant.
FlInv ==
  /\ FlTypeOK
  /\ FlHeldApart
  /\ \A t \in FlThread : FlReadings(t)
  /\ \E c : FlFree(c)

\* The list holds slots.
LEMMA FlMembers ==
  ASSUME NEW c, IsList(c, FlSlot, flHead.idx, flNext, kNone)
  PROVE  Members(c) \subseteq FlSlot
BY SMTT(30) DEF IsList, Members

\* The constructor links every slot.
LEMMA FlInvInit == FreeListInit => FlInv
<1> SUFFICES ASSUME FreeListInit PROVE FlInv OBVIOUS
<1> USE FreeListAssumption
<1>1. FlTypeOK BY SMTT(30) DEF FreeListInit, FlTypeOK, FlHead, FlSlot, kNone, NoFlHead
<1>2. \A t \in FlThread : FlHolds(t) = {} BY DEF FreeListInit, FlHolds
<1>3. FlHeldApart BY <1>2 DEF FlHeldApart, FreeListInit
<1>4. \A t \in FlThread : FlReadings(t) BY SMTT(30) DEF FlReadings, FreeListInit, NoFlHead
<1>5. \E c : FlFree(c)
  <2> DEFINE c == [i \in 1..FlCapacity |-> i - 1]
  <2>1. c \in Seq(FlSlot) /\ Len(c) = FlCapacity BY SMTT(30) DEF FlSlot
  <2>2. c # <<>> /\ c[1] = 0 BY SMTT(30), <2>1
  <2>3. \A i \in 1..FlCapacity : c[i] \in FlSlot /\ c[i] = i - 1 BY SMTT(30) DEF FlSlot
  <2>4. \A i \in FlSlot : i + 1 \in 1..FlCapacity /\ c[i + 1] = i BY SMTT(30) DEF FlSlot
  <2> HIDE DEF c
  <2>5. \A i \in 1..FlCapacity : i # FlCapacity => i + 1 \in 1..FlCapacity BY SMTT(30)
  <2>6. IsList(c, FlSlot, flHead.idx, flNext, kNone)
    <3>1. \A i, j \in 1..Len(c) : c[i] = c[j] => i = j BY SMTT(30), <2>1, <2>3
    <3>2. flHead.idx = c[1] BY <2>2 DEF FreeListInit
    <3>3. \A i \in 1..Len(c) : flNext[c[i]] = i BY SMTT(30), <2>1, <2>3 DEF FreeListInit
    <3>4. \A i \in 1..Len(c) : flNext[c[i]] = IF i = Len(c) THEN kNone ELSE c[i + 1]
      BY SMTT(30), <2>1, <2>3, <2>5, <3>3 DEF kNone
    <3> QED BY <2>1, <2>2, <3>1, <3>2, <3>4 DEF IsList
  <2>7. \A i \in FlSlot : i \in Members(c) BY <2>1, <2>4 DEF Members
  <2> QED BY <2>6, <2>7, <1>2 DEF FlFree
<1> QED BY <1>1, <1>3, <1>4, <1>5 DEF FlInv

\* Every step preserves FlInv.
LEMMA FlInvStep == FlInv /\ [FreeListNext]_flVars => FlInv'
<1> SUFFICES ASSUME FlInv, [FreeListNext]_flVars PROVE FlInv' OBVIOUS
<1> USE FreeListAssumption
<1>1. PICK c : FlFree(c) BY DEF FlInv
<1>2. FlTypeOK /\ FlHeldApart /\ \A t \in FlThread : FlReadings(t) BY DEF FlInv
<1>3. CASE UNCHANGED flVars
  BY <1>1, <1>2, <1>3 DEF FlInv, FlTypeOK, FlHeldApart, FlReadings, FlFree, FlHolds, flVars
<1>4. ASSUME NEW t \in FlThread, AcquireLoad(t) PROVE FlInv'
  <2>1. FlTypeOK' BY <1>2, <1>4 DEF FlTypeOK, AcquireLoad, FlGoto
  <2>2. \A u \in FlThread : FlHolds(u)' = FlHolds(u) BY <1>4 DEF AcquireLoad, FlHolds
  <2>3. FlHeldApart' BY <1>2, <1>4, <2>2 DEF FlHeldApart, AcquireLoad
  <2>4. \A u \in FlThread : FlReadings(u)' BY SMTT(30), <1>2, <1>4 DEF FlReadings, AcquireLoad, FlGoto, FlIdle, FlTypeOK, FlHead
  <2>5. FlFree(c)' BY <1>1, <1>4, <2>2 DEF FlFree, AcquireLoad
  <2> QED BY <2>1, <2>3, <2>4, <2>5 DEF FlInv
<1>5. ASSUME NEW t \in FlThread, AcquireNext(t) PROVE FlInv'
  <2>1. FlTypeOK'
    <3>1. flOld[t].idx \in FlSlot BY SMTT(30), <1>2, <1>5 DEF FlTypeOK, FlReadings, AcquireNext, FlHead, FlSlot, kNone
    <3> QED BY <1>2, <1>5, <3>1 DEF FlTypeOK, AcquireNext, FlGoto
  <2>2. \A u \in FlThread : FlHolds(u)' = FlHolds(u) BY <1>5 DEF AcquireNext, FlHolds
  <2>3. FlHeldApart' BY <1>2, <1>5, <2>2 DEF FlHeldApart, AcquireNext
  <2>4. \A u \in FlThread : FlReadings(u)' BY <1>2, <1>5 DEF FlReadings, AcquireNext, FlGoto, FlTypeOK, FlHead
  <2>5. FlFree(c)' BY <1>1, <1>5, <2>2 DEF FlFree, AcquireNext
  <2> QED BY <2>1, <2>3, <2>4, <2>5 DEF FlInv
<1>6. ASSUME NEW t \in FlThread, AcquireCas(t) PROVE FlInv'
  <2> DEFINE i == flHead.idx
  <2>1. flOld[t] = flHead /\ i # kNone /\ flNxt[t] = flNext[i] /\ flIdx[t] = kNone
    BY <1>2, <1>6 DEF AcquireCas, FlReadings
  <2>2. /\ i \in FlSlot /\ i \in Members(c)
        /\ IsList(Tail(c), FlSlot, flNext[i], flNext, kNone) /\ Members(Tail(c)) = Members(c) \ {i}
    <3>1. kNone \notin FlSlot BY SMTT(30) DEF FlSlot, kNone
    <3>2. IsList(c, FlSlot, i, flNext, kNone) BY <1>1 DEF FlFree
    <3> HIDE DEF i
    <3> QED BY <2>1, <3>1, <3>2, ListPop
  <2>3. FlTypeOK' BY SMTT(30), <1>2, <1>6, <2>1, <2>2 DEF FlTypeOK, AcquireCas, FlGoto, Tagged, FlHead, NoFlHead, kNone
  <2>4. FlHolds(t)' = FlHolds(t) \cup {i} /\ \A u \in FlThread : u # t => FlHolds(u)' = FlHolds(u)
    BY <1>2, <1>6, <2>1 DEF AcquireCas, FlHolds, FlTypeOK
  <2>5. \A u \in FlThread : i \notin FlHolds(u) BY <1>1, <2>2 DEF FlFree
  <2>6. FlHeldApart'
    <3>1. \A u \in FlThread : (flIdx[u] \notin flOwned[u])' BY <1>2, <1>6, <2>1, <2>2 DEF FlHeldApart, AcquireCas, FlTypeOK
    <3>2. \A u, v \in FlThread : u # v => (FlHolds(u) \cap FlHolds(v) = {})' BY SMTT(30), <1>2, <2>4, <2>5 DEF FlHeldApart
    <3> QED BY <3>1, <3>2 DEF FlHeldApart
  <2>7. \A u \in FlThread : FlReadings(u)' BY SMTT(30), <1>2, <1>6, <2>1 DEF FlReadings, AcquireCas, FlGoto, FlTypeOK, FlHead, Tagged, NoFlHead
  <2>8. FlFree(Tail(c))'
    <3>1. flHead'.idx = flNext[i] /\ flNext' = flNext BY <1>6, <2>1 DEF AcquireCas, Tagged
    <3>2. \A j \in FlSlot : j \in Members(Tail(c)) <=> \A u \in FlThread : j \notin FlHolds(u)'
      BY SMTT(30), <1>1, <2>2, <2>4, <2>5 DEF FlFree
    <3> HIDE DEF i
    <3> QED BY <3>1, <3>2, <2>2 DEF FlFree
  <2> QED BY <2>3, <2>6, <2>7, <2>8 DEF FlInv
<1>7. ASSUME NEW t \in FlThread, AcquireRetry(t) PROVE FlInv'
  <2>1. FlTypeOK' BY SMTT(30), <1>2, <1>7 DEF FlTypeOK, AcquireRetry, FlGoto, NoFlHead, FlHead, kNone
  <2>2. \A u \in FlThread : FlHolds(u)' = FlHolds(u) BY <1>7 DEF AcquireRetry, FlHolds
  <2>3. FlHeldApart' BY <1>2, <1>7, <2>2 DEF FlHeldApart, AcquireRetry
  <2>4. \A u \in FlThread : FlReadings(u)' BY SMTT(30), <1>2, <1>7 DEF FlReadings, AcquireRetry, FlGoto, FlTypeOK, FlHead, NoFlHead
  <2>5. FlFree(c)' BY <1>1, <1>7, <2>2 DEF FlFree, AcquireRetry
  <2> QED BY <2>1, <2>3, <2>4, <2>5 DEF FlInv
<1>8. ASSUME NEW t \in FlThread, ReleaseLoad(t) PROVE FlInv'
  <2>1. PICK i \in flOwned[t] : flIdx' = [flIdx EXCEPT ![t] = i] /\ flOwned' = [flOwned EXCEPT ![t] = @ \ {i}]
    BY <1>8 DEF ReleaseLoad
  <2>2. i \in FlSlot /\ i # kNone /\ flIdx[t] = kNone
    <3>1. i \in FlSlot BY <1>2 DEF FlTypeOK
    <3>2. flIdx[t] = kNone BY <1>2, <1>8 DEF FlReadings, ReleaseLoad, FlIdle
    <3> QED BY SMTT(30), <3>1, <3>2 DEF FlSlot, kNone
  <2>3. FlTypeOK' BY SMTT(30), <1>2, <1>8, <2>1, <2>2 DEF FlTypeOK, ReleaseLoad, FlGoto, FlSlot
  <2>4. \A u \in FlThread : FlHolds(u)' = FlHolds(u)
    BY <1>2, <2>1, <2>2 DEF FlHolds, FlTypeOK
  <2>5. FlHeldApart' BY <1>2, <2>1, <2>4 DEF FlHeldApart, FlTypeOK
  <2>6. \A u \in FlThread : FlReadings(u)' BY SMTT(30), <1>2, <1>8, <2>1, <2>2 DEF FlReadings, ReleaseLoad, FlIdle, FlGoto, FlTypeOK, FlHead
  <2>7. FlFree(c)' BY SMTT(30), <1>1, <1>8, <2>4 DEF FlFree, ReleaseLoad
  <2> QED BY <2>3, <2>5, <2>6, <2>7 DEF FlInv
<1>9. ASSUME NEW t \in FlThread, ReleaseLink(t) PROVE FlInv'
  <2> DEFINE i == flIdx[t]
  <2>1. i # kNone /\ i \in FlSlot BY SMTT(30), <1>2, <1>9 DEF FlReadings, ReleaseLink, FlTypeOK, FlSlot, kNone
  <2>2. FlTypeOK' BY <1>2, <1>9, <2>1 DEF FlTypeOK, ReleaseLink, FlGoto, FlHead
  <2>3. \A u \in FlThread : FlHolds(u)' = FlHolds(u) BY <1>9 DEF ReleaseLink, FlHolds
  <2>4. FlHeldApart' BY <1>2, <1>9, <2>3 DEF FlHeldApart, ReleaseLink
  <2>5. i \in FlHolds(t) BY <2>1 DEF FlHolds
  <2>6. i \notin Members(c) BY <1>1, <2>1, <2>5 DEF FlFree
  <2>7. \A j \in FlSlot : j # i => flNext'[j] = flNext[j] BY <1>2, <1>9 DEF ReleaseLink, FlTypeOK
  <2>8. flNext'[i] = flOld[t].idx BY <1>2, <1>9, <2>1 DEF ReleaseLink, FlTypeOK
  <2>9. flHead.idx # kNone => flHead.idx \in Members(c) /\ flHead.idx # i
    <3>1. kNone \notin FlSlot BY SMTT(30) DEF FlSlot, kNone
    <3>2. IsList(c, FlSlot, flHead.idx, flNext, kNone) BY <1>1 DEF FlFree
    <3>3. flHead.idx # kNone => flHead.idx \in Members(c) BY <3>1, <3>2, ListPop
    <3> QED BY <3>3, <2>6
  <2>10. \A u \in FlThread : FlReadings(u)'
    <3> SUFFICES ASSUME NEW u \in FlThread PROVE FlReadings(u)' OBVIOUS
    <3>1. flHead' = flHead /\ flOld' = flOld /\ flNxt' = flNxt /\ flIdx' = flIdx BY <1>9 DEF ReleaseLink
    <3>2. flPc'[t] = "release" /\ flPc[t] = "link" /\ (u # t => flPc'[u] = flPc[u]) BY <1>2, <1>9 DEF ReleaseLink, FlGoto, FlTypeOK
    <3>3. flHead.idx # kNone => flNext'[flHead.idx] = flNext[flHead.idx]
      BY SMTT(30), <1>2, <2>7, <2>9 DEF FlTypeOK, FlHead, FlSlot, kNone
    <3>4. u # t /\ flPc[u] = "release" => flIdx[u] # i /\ flNext'[flIdx[u]] = flNext[flIdx[u]]
      <4> SUFFICES ASSUME u # t, flPc[u] = "release" PROVE flIdx[u] # i /\ flNext'[flIdx[u]] = flNext[flIdx[u]] OBVIOUS
      <4>1. flIdx[u] # kNone /\ flIdx[u] \in FlSlot BY SMTT(30), <1>2 DEF FlReadings, FlTypeOK, FlSlot, kNone
      <4>2. flIdx[u] \in FlHolds(u) BY <4>1 DEF FlHolds
      <4>3. flIdx[u] # i BY <4>2, <2>5, <1>2 DEF FlHeldApart
      <4> QED BY <4>1, <4>3, <2>7
    <3>5. FlReadings(u) BY <1>2
    <3> QED BY <3>1, <3>2, <3>3, <3>4, <3>5, <2>1, <2>8 DEF FlReadings
  <2>11. FlFree(c)'
    <3>1. IsList(c, FlSlot, flHead.idx, flNext, kNone) BY <1>1 DEF FlFree
    <3>2. \A j \in Members(c) : flNext'[j] = flNext[j] BY <2>6, <2>7, <3>1, FlMembers
    <3>3. IsList(c, FlSlot, flHead.idx, flNext', kNone) BY <3>1, <3>2, ListKept
    <3> QED BY <1>1, <1>9, <2>3, <3>3 DEF FlFree, ReleaseLink
  <2> QED BY <2>2, <2>4, <2>10, <2>11 DEF FlInv
<1>10. ASSUME NEW t \in FlThread, ReleaseCas(t) PROVE FlInv'
  <2>1. PICK i \in FlSlot : i = flIdx[t] /\ i # kNone /\ flOld[t] = flHead /\ flNext[i] = flHead.idx
    BY SMTT(30), <1>2, <1>10 DEF FlReadings, ReleaseCas, FlTypeOK, FlSlot, kNone
  <2>2. FlTypeOK' BY SMTT(30), <1>2, <1>10, <2>1 DEF FlTypeOK, ReleaseCas, FlGoto, FlHead, Tagged, NoFlHead, kNone
  <2>3. /\ FlHolds(t)' = FlHolds(t) \ {i} /\ i \in FlHolds(t)
        /\ \A u \in FlThread : u # t => FlHolds(u)' = FlHolds(u)
    BY SMTT(30), <1>2, <1>10, <2>1 DEF ReleaseCas, FlHolds, FlTypeOK, FlHeldApart
  <2>4. FlHeldApart'
    <3>1. \A u \in FlThread : (flIdx[u] \notin flOwned[u])' BY SMTT(30), <1>2, <1>10 DEF FlHeldApart, ReleaseCas, FlTypeOK, FlSlot, kNone
    <3>2. \A u, v \in FlThread : u # v => (FlHolds(u) \cap FlHolds(v) = {})' BY SMTT(30), <1>2, <2>3 DEF FlHeldApart
    <3> QED BY <3>1, <3>2 DEF FlHeldApart
  <2>5. \A u \in FlThread : FlReadings(u)' BY SMTT(30), <1>2, <1>10, <2>1 DEF FlReadings, ReleaseCas, FlGoto, FlTypeOK, FlHead, Tagged, NoFlHead
  <2>6. i \notin Members(c) BY <1>1, <2>1, <2>3 DEF FlFree
  <2>7. IsList(<<i>> \o c, FlSlot, i, flNext, kNone) /\ Members(<<i>> \o c) = Members(c) \cup {i}
    <3>1. kNone \notin FlSlot /\ flNext \in [FlSlot -> FlSlot \cup {kNone}] BY SMTT(30), <1>2 DEF FlSlot, kNone, FlTypeOK
    <3>2. IsList(c, FlSlot, flHead.idx, flNext, kNone) BY <1>1 DEF FlFree
    <3> QED BY SMTT(30), <2>1, <2>6, <3>1, <3>2, ListPush
  <2>8. FlFree(<<i>> \o c)'
    <3>1. flHead'.idx = i /\ flNext' = flNext BY <1>10, <2>1 DEF ReleaseCas, Tagged
    <3>2. \A j \in FlSlot : j \in Members(<<i>> \o c) <=> \A u \in FlThread : j \notin FlHolds(u)'
      <4>1. \A u \in FlThread : i \notin FlHolds(u)' BY SMTT(30), <1>2, <2>3 DEF FlHeldApart
      <4> QED BY SMTT(30), <1>1, <2>3, <2>7, <4>1 DEF FlFree
    <3> QED BY <3>1, <3>2, <2>7 DEF FlFree
  <2> QED BY <2>2, <2>4, <2>5, <2>8 DEF FlInv
<1>11. ASSUME NEW t \in FlThread, ReleaseRetry(t) PROVE FlInv'
  <2>1. FlTypeOK' BY <1>2, <1>11 DEF FlTypeOK, ReleaseRetry, FlGoto
  <2>2. \A u \in FlThread : FlHolds(u)' = FlHolds(u) BY <1>11 DEF ReleaseRetry, FlHolds
  <2>3. FlHeldApart' BY <1>2, <1>11, <2>2 DEF FlHeldApart, ReleaseRetry
  <2>4. \A u \in FlThread : FlReadings(u)' BY SMTT(30), <1>2, <1>11 DEF FlReadings, ReleaseRetry, FlGoto, FlTypeOK, FlHead
  <2>5. FlFree(c)' BY <1>1, <1>11, <2>2 DEF FlFree, ReleaseRetry
  <2> QED BY <2>1, <2>3, <2>4, <2>5 DEF FlInv
<1> QED BY <1>3, <1>4, <1>5, <1>6, <1>7, <1>8, <1>9, <1>10, <1>11 DEF FreeListNext

\* What FlInv says, in numbers.
LEMMA FlInvPartitions == FlInv => SlotsPartitioned
<1> SUFFICES ASSUME FlInv, NEW i \in FlSlot
             PROVE  Cardinality({t \in FlThread : i \in flOwned[t]}) + Cardinality({t \in FlThread : i = flIdx[t]})
                      + (IF i \in FreeSlots THEN 1 ELSE 0) = 1
  BY DEF SlotsPartitioned
<1> USE FreeListAssumption
<1> DEFINE Owners == {t \in FlThread : i \in flOwned[t]}
           Releasers == {t \in FlThread : i = flIdx[t]}
<1>1. PICK c : FlFree(c) BY DEF FlInv
<1>2. FreeSlots = Members(c)
  <2>1. IsList(c, FlSlot, flHead.idx, flNext, kNone) BY <1>1 DEF FlFree
  <2>2. IsFiniteSet(FlSlot) /\ Cardinality(FlSlot) = FlCapacity BY SMTT(30), FS_Interval DEF FlSlot
  <2>3. Len(c) <= FlCapacity BY <2>1, <2>2, ListLength
  <2>4. kNone \notin FlSlot /\ FlCapacity \in Nat BY SMTT(30) DEF kNone, FlSlot
  <2> QED BY SMTT(30), <2>1, <2>3, <2>4, ReachedIsList DEF FreeSlots
<1>3. i # kNone BY SMTT(30) DEF FlSlot, kNone
<1>4. \A t \in FlThread : i \in FlHolds(t) <=> t \in Owners \/ t \in Releasers BY <1>3 DEF FlHolds
<1>5. Cardinality({}) = 0 /\ \A t : Cardinality({t}) = 1 BY FS_EmptySet, FS_Singleton
<1> SUFFICES Cardinality(Owners) + Cardinality(Releasers) + (IF i \in FreeSlots THEN 1 ELSE 0) = 1 OBVIOUS
<1>6. CASE i \in Members(c)
  <2>1. Owners = {} /\ Releasers = {} BY <1>1, <1>4, <1>6 DEF FlFree
  <2> QED BY SMTT(30), <2>1, <1>2, <1>5, <1>6
<1>7. CASE i \notin Members(c)
  <2>1. PICK t \in FlThread : i \in FlHolds(t) BY <1>1, <1>7 DEF FlFree
  <2>2. \A u \in FlThread : u # t => i \notin FlHolds(u) BY <2>1 DEF FlInv, FlHeldApart
  <2>3. ~(t \in Owners /\ t \in Releasers) BY DEF FlInv, FlHeldApart
  <2>4. (Owners = {t} /\ Releasers = {}) \/ (Owners = {} /\ Releasers = {t}) BY <1>4, <2>1, <2>2, <2>3
  <2> HIDE DEF Owners, Releasers
  <2>5. \/ Cardinality(Owners) = 1 /\ Cardinality(Releasers) = 0
        \/ Cardinality(Owners) = 0 /\ Cardinality(Releasers) = 1
    BY <2>4, <1>5
  <2> QED BY SMTT(30), <2>5, <1>2, <1>7
<1> QED BY <1>6, <1>7

\* For any capacity and any threads: every slot is free, or acquired by one
\* thread, or being released by one; no slot is handed out twice and none leaks,
\* whichever threads the compare-exchange of the tagged head overtakes.
THEOREM PoolPartitioned == FreeListSpec => []SlotsPartitioned
BY FlInvInit, FlInvStep, FlInvPartitions, PTL DEF FreeListSpec

-----------------------------------------------------------------------------
(* The pool of guards.                                                     *)

\* What the fields hold.
GpTypeOK ==
  gp \in [free : Seq(Nat), pc : [GpThread -> {"out", "awake", "asleep", "holding", "notify"}],
          held : [GpThread -> Nat], taken : [GpThread -> Nat]]

\* Those who will look for a free handle or wake one who does.
Coming == {t \in GpThread : gp.pc[t] \in {"awake", "notify"}}

\* The inductive invariant.
GpInv == GpTypeOK /\ WakeUpsSuffice

\* Every step preserves GpInv: a handle that comes back brings a wake-up.
LEMMA GpStep == GpInv /\ [GuardPoolNext]_gp => GpInv'
<1> SUFFICES ASSUME GpInv, [GuardPoolNext]_gp PROVE GpInv' OBVIOUS
<1> USE GuardPoolAssumption
<1>1. GpTypeOK /\ (Asleep # {} => Cardinality(Coming) >= Len(gp.free)) BY DEF GpInv, WakeUpsSuffice, Coming
<1>2. IsFiniteSet(Coming) /\ Cardinality(Coming) \in Nat BY FS_Subset, FS_CardinalityType DEF Coming
<1>3. Len(gp.free) \in Nat /\ gp.free \in Seq(Nat) BY SMTT(30), <1>1 DEF GpTypeOK
<1>4. ASSUME GpTypeOK', Asleep' # {} => Cardinality(Coming') >= Len(gp'.free) PROVE GpInv'
  BY <1>4 DEF GpInv, WakeUpsSuffice, Coming
<1>5. CASE UNCHANGED gp BY <1>5 DEF GpInv, GpTypeOK, WakeUpsSuffice, Asleep
<1>6. ASSUME NEW t \in GpThread, GpAcquire(t), gp.free = <<>> PROVE GpInv'
  <2>1. gp' = [gp EXCEPT !.pc[t] = "asleep"] BY <1>6 DEF GpAcquire
  <2>2. GpTypeOK' /\ gp'.free = <<>> BY <1>1, <1>6, <2>1 DEF GpTypeOK
  <2>3. Coming' \subseteq GpThread /\ IsFiniteSet(Coming') BY FS_Subset DEF Coming
  <2>4. Cardinality(Coming') \in Nat BY <2>3, FS_CardinalityType
  <2> QED BY SMTT(30), <1>4, <2>2, <2>4
<1>7. ASSUME NEW t \in GpThread, GpAcquire(t), gp.free # <<>> PROVE GpInv'
  <2>1. gp' = Take(t) /\ gp.pc[t] \in {"out", "awake"} BY <1>7 DEF GpAcquire
  <2>2. gp' = [free |-> SubSeq(gp.free, 1, Len(gp.free) - 1), pc |-> [gp.pc EXCEPT ![t] = "holding"],
               held |-> [gp.held EXCEPT ![t] = gp.free[Len(gp.free)]], taken |-> [gp.taken EXCEPT ![t] = @ + 1]]
    BY <1>1, <2>1 DEF Take, GpTypeOK
  <2>3. Len(gp.free) \in 1..Len(gp.free) /\ gp.free[Len(gp.free)] \in Nat BY SMTT(30), <1>3, <1>7
  <2>4. SubSeq(gp.free, 1, Len(gp.free) - 1) \in Seq(Nat) /\ Len(SubSeq(gp.free, 1, Len(gp.free) - 1)) = Len(gp.free) - 1
    <3>1. 1 \in 1..Len(gp.free) + 1 /\ Len(gp.free) - 1 \in 1 - 1..Len(gp.free) BY SMTT(30), <1>3, <2>3
    <3> QED BY SMTT(30), <1>3, <2>3, <3>1, SubSeqProperties
  <2>5. [gp.taken EXCEPT ![t] = @ + 1] \in [GpThread -> Nat] BY SMTT(30), <1>1 DEF GpTypeOK
  <2>6. GpTypeOK' BY <1>1, <2>2, <2>3, <2>4, <2>5 DEF GpTypeOK
  <2>7. Len(gp'.free) = Len(gp.free) - 1 BY <2>2, <2>4
  <2>8. \A u \in GpThread : gp'.pc[u] = IF u = t THEN "holding" ELSE gp.pc[u] BY <1>1, <2>2 DEF GpTypeOK
  <2>9. Asleep' = Asleep BY <2>1, <2>8 DEF Asleep
  <2>10. Coming' = Coming \ {t} BY <2>8 DEF Coming
  <2>11. Cardinality(Coming') = IF t \in Coming THEN Cardinality(Coming) - 1 ELSE Cardinality(Coming)
    BY <1>2, <2>10, FS_RemoveElement
  <2>12. Cardinality(Coming') \in Nat BY <1>2, <2>10, FS_RemoveElement, FS_CardinalityType
  <2> QED BY SMTT(30), <1>1, <1>2, <1>3, <1>4, <2>6, <2>7, <2>9, <2>11, <2>12
<1>8. ASSUME NEW t \in GpThread, GpRelease(t) PROVE GpInv'
  <2>1. gp.pc[t] = "holding" /\ gp' = [gp EXCEPT !.free = Append(@, gp.held[t]), !.held[t] = NoHandle, !.pc[t] = "notify"]
    BY <1>8 DEF GpRelease
  <2>2. gp' = [free |-> Append(gp.free, gp.held[t]), pc |-> [gp.pc EXCEPT ![t] = "notify"],
               held |-> [gp.held EXCEPT ![t] = 0], taken |-> gp.taken]
    BY <1>1, <2>1 DEF GpTypeOK, NoHandle
  <2>3. gp.held[t] \in Nat BY <1>1 DEF GpTypeOK
  <2>4. Append(gp.free, gp.held[t]) \in Seq(Nat) /\ Len(Append(gp.free, gp.held[t])) = Len(gp.free) + 1
    BY SMTT(30), <1>3, <2>3, AppendProperties
  <2>5. GpTypeOK' BY <1>1, <2>2, <2>4 DEF GpTypeOK
  <2>6. Len(gp'.free) = Len(gp.free) + 1 BY <2>2, <2>4
  <2>7. \A u \in GpThread : gp'.pc[u] = IF u = t THEN "notify" ELSE gp.pc[u] BY <1>1, <2>2 DEF GpTypeOK
  <2>8. Asleep' = Asleep BY SMTT(30), <2>1, <2>7 DEF Asleep
  <2>9. t \notin Coming /\ Coming' = Coming \cup {t} BY <2>1, <2>7 DEF Coming
  <2>10. Cardinality(Coming') = Cardinality(Coming) + 1 BY <1>2, <2>9, FS_AddElement
  <2> QED BY SMTT(30), <1>1, <1>2, <1>3, <1>4, <2>5, <2>6, <2>8, <2>10
<1>9. ASSUME NEW t \in GpThread, GpNotifyOne(t), Asleep = {} PROVE GpInv'
  <2>1. gp.pc[t] = "notify" /\ gp' = [gp EXCEPT !.pc[t] = "out"] BY <1>9 DEF GpNotifyOne
  <2>2. GpTypeOK' /\ gp'.pc = [gp.pc EXCEPT ![t] = "out"] BY <1>1, <2>1 DEF GpTypeOK
  <2>3. Asleep' = {} BY <1>1, <1>9, <2>2 DEF Asleep, GpTypeOK
  <2> QED BY <1>4, <2>2, <2>3
<1>10. ASSUME NEW t \in GpThread, GpNotifyOne(t), NEW u \in Asleep, gp' = [gp EXCEPT !.pc[t] = "out", !.pc[u] = "awake"]
       PROVE  GpInv'
  <2>1. gp.pc[t] = "notify" /\ u \in GpThread /\ gp.pc[u] = "asleep" /\ u # t BY <1>10 DEF GpNotifyOne, Asleep
  <2>2. GpTypeOK' /\ gp'.free = gp.free /\ gp'.pc = [gp.pc EXCEPT ![t] = "out", ![u] = "awake"]
    BY <1>1, <1>10, <2>1 DEF GpTypeOK
  <2>3. \A v \in GpThread : gp'.pc[v] = IF v = u THEN "awake" ELSE IF v = t THEN "out" ELSE gp.pc[v]
    BY <1>1, <2>1, <2>2 DEF GpTypeOK
  <2>4. t \in Coming /\ u \notin Coming /\ Coming' = (Coming \ {t}) \cup {u} BY <2>1, <2>3 DEF Coming
  <2>5. IsFiniteSet(Coming \ {t}) /\ Cardinality(Coming \ {t}) = Cardinality(Coming) - 1 BY <1>2, <2>4, FS_RemoveElement
  <2>6. Cardinality(Coming') = Cardinality(Coming) - 1 + 1 BY <2>4, <2>5, FS_AddElement
  <2>7. Asleep # {} OBVIOUS
  <2> QED BY SMTT(30), <1>1, <1>2, <1>3, <1>4, <2>2, <2>6, <2>7
<1> QED BY <1>5, <1>6, <1>7, <1>8, <1>9, <1>10 DEF GuardPoolNext, GpNotifyOne

\* For any pool and any threads: while a thread sleeps in acquire(), each free
\* handle has a thread on its way to it, so no wake-up is lost between the
\* unlock and notify_one of release().
THEOREM WakeUpsNotLost == GuardPoolSpec => []WakeUpsSuffice
<1>1. GuardPoolInit => GpInv
  <2> SUFFICES ASSUME GuardPoolInit PROVE GpInv OBVIOUS
  <2> USE GuardPoolAssumption
  <2>1. [i \in 1..GpCapacity |-> i] \in Seq(Nat) BY SMTT(30)
  <2>2. GpTypeOK BY <2>1 DEF GuardPoolInit, GpTypeOK, NoHandle
  <2>3. Asleep = {} BY DEF GuardPoolInit, Asleep
  <2> QED BY <2>2, <2>3 DEF GpInv, WakeUpsSuffice
<1>2. GpInv => WakeUpsSuffice BY DEF GpInv
<1> QED BY <1>1, <1>2, GpStep, PTL DEF GuardPoolSpec

-----------------------------------------------------------------------------
(* Checkpoint files.                                                       *)

\* What the fields hold.
CkTypeOK ==
  ck \in [file : Seq(Nat), shards : Seq(Seq(Nat)), writer : {"none", "open", "count", "data"}, at : Nat,
          restart : {"no", "read", "done"}, restored : Seq(Int)]

\* The file holds the count of shard s and floats of s from the first on.
BeginsAs(file, s) ==
  /\ Len(file) \in 1..Len(s) + 1
  /\ file[1] = Len(s)
  /\ \A j \in 1..Len(file) - 1 : file[j + 1] = s[j]

\* What is in the file: nothing, or the beginning of a shard that was written.
\* A writer that has begun continues with the shard it was given.
CkFile ==
  /\ ck.file = <<>> \/ \E i \in 1..Len(ck.shards) : BeginsAs(ck.file, ck.shards[i])
  /\ ck.writer \in {"count", "data"} => Len(ck.shards) > 0
  /\ ck.writer = "count" => ck.file = <<>>
  /\ ck.writer = "data" => ck.at = Len(ck.file) + 1 /\ BeginsAs(ck.file, Latest)
  /\ ck.writer # "none" => Len(ck.shards) > 0

\* The inductive invariant.
CkInv == CkTypeOK /\ CkFile /\ RestoredWhole

\* CheckpointWriter starts on a new shard.
LEMMA CkStartWrite ==
  ASSUME CkInv, NEW n \in ShardSizes, StartWrite(n)
  PROVE  CkInv'
<1> DEFINE s == [i \in 1..n |-> Len(ck.shards) + 1]
<1>1. CkTypeOK /\ CkFile /\ RestoredWhole /\ n \in Nat BY CheckpointAssumption DEF CkInv
<1>2. ck.shards \in Seq(Seq(Nat)) /\ Len(ck.shards) \in Nat BY SMTT(30), <1>1 DEF CkTypeOK
<1>3. s \in Seq(Nat) BY SMTT(30), <1>1, <1>2
<1>4. ck' = [ck EXCEPT !.shards = Append(@, s), !.writer = "open"] /\ ck.writer = "none" BY DEF StartWrite
<1> HIDE DEF s
<1>5. /\ Append(ck.shards, s) \in Seq(Seq(Nat)) /\ Len(Append(ck.shards, s)) = Len(ck.shards) + 1
      /\ \A i \in 1..Len(ck.shards) : Append(ck.shards, s)[i] = ck.shards[i]
  BY SMTT(30), <1>2, <1>3, AppendProperties
<1>6. /\ CkTypeOK' /\ ck'.file = ck.file /\ ck'.writer = "open" /\ ck'.restored = ck.restored
      /\ ck'.shards = Append(ck.shards, s)
  BY <1>1, <1>4, <1>5 DEF CkTypeOK
<1>7. Len(ck'.shards) = Len(ck.shards) + 1 /\ \A i \in 1..Len(ck.shards) : ck'.shards[i] = ck.shards[i]
  BY <1>5, <1>6
<1>8. \A i \in 1..Len(ck.shards) : i \in 1..Len(ck'.shards) BY SMTT(30), <1>2, <1>7
<1>9. CkFile'
  <2>1. ck.file = <<>> \/ \E i \in 1..Len(ck'.shards) : BeginsAs(ck.file, ck'.shards[i]) BY <1>1, <1>7, <1>8 DEF CkFile
  <2>2. Len(ck'.shards) > 0 BY SMTT(30), <1>2, <1>7
  <2> QED BY <1>6, <2>1, <2>2 DEF CkFile
<1>10. RestoredWhole'
  <2>1. DOMAIN ck.shards = 1..Len(ck.shards) /\ DOMAIN ck'.shards = 1..Len(ck'.shards) BY SMTT(30), <1>2, <1>5, <1>6
  <2> QED BY <1>1, <1>6, <1>7, <1>8, <2>1 DEF RestoredWhole
<1> QED BY <1>6, <1>9, <1>10 DEF CkInv

\* A file that begins as s and is not whole, and the next float of s.
LEMMA CkGrows ==
  ASSUME NEW f \in Seq(Nat), NEW s \in Seq(Nat), BeginsAs(f, s), Len(f) <= Len(s)
  PROVE  /\ WriteAt(f, Len(f) + 1, s[Len(f)]) \in Seq(Nat)
         /\ BeginsAs(WriteAt(f, Len(f) + 1, s[Len(f)]), s)
         /\ Len(WriteAt(f, Len(f) + 1, s[Len(f)])) = Len(f) + 1
<1> DEFINE x == s[Len(f)]
           g == Append(f, x)
<1>1. Len(f) \in Nat /\ Len(s) \in Nat /\ Len(f) >= 1 BY SMTT(30) DEF BeginsAs
<1>2. x \in Nat BY SMTT(30), <1>1
<1>3. WriteAt(f, Len(f) + 1, x) = g BY SMTT(30), <1>1 DEF WriteAt
<1>4. g \in Seq(Nat) /\ Len(g) = Len(f) + 1 /\ g[Len(f) + 1] = x /\ \A j \in 1..Len(f) : g[j] = f[j]
  BY SMTT(30), <1>2, AppendProperties
<1>5. BeginsAs(g, s)
  <2> HIDE DEF g
  <2>1. Len(g) \in 1..Len(s) + 1 BY SMTT(30), <1>1, <1>4
  <2>2. g[1] = Len(s)
    <3>1. 1 \in 1..Len(f) /\ f[1] = Len(s) BY SMTT(30), <1>1 DEF BeginsAs
    <3> QED BY <1>4, <3>1
  <2>3. ASSUME NEW j \in 1..Len(g) - 1 PROVE g[j + 1] = s[j]
    <3>1. CASE j = Len(f) BY <1>4, <3>1
    <3>2. CASE j # Len(f)
      <4>1. j \in 1..Len(f) - 1 /\ j + 1 \in 1..Len(f) BY SMTT(30), <1>1, <1>4, <3>2
      <4> QED BY <1>4, <4>1 DEF BeginsAs
    <3> QED BY <3>1, <3>2
  <2> QED BY <2>1, <2>2, <2>3 DEF BeginsAs
<1> QED BY <1>3, <1>4, <1>5

\* The writer opens the file, writes the count, then the floats, and may crash
\* between any two of them.
LEMMA CkWrite ==
  ASSUME CkInv, OpenFile \/ WriteCount \/ WriteFloat \/ Crash
  PROVE  CkInv'
<1>1. CkTypeOK /\ CkFile /\ RestoredWhole BY DEF CkInv
<1>2. ck.shards \in Seq(Seq(Nat)) /\ Len(ck.shards) \in Nat /\ ck.file \in Seq(Nat) /\ Len(ck.file) \in Nat BY SMTT(30), <1>1 DEF CkTypeOK
<1>3. ASSUME ck.writer # "none"
      PROVE  Latest \in Seq(Nat) /\ Len(Latest) \in Nat /\ Len(ck.shards) \in 1..Len(ck.shards)
  <2>1. Len(ck.shards) \in 1..Len(ck.shards) BY SMTT(30), <1>1, <1>2, <1>3 DEF CkFile
  <2> QED BY SMTT(30), <1>2, <2>1 DEF Latest
<1>4. ASSUME ck'.shards = ck.shards, ck'.restored = ck.restored PROVE RestoredWhole'
  BY <1>1, <1>4 DEF RestoredWhole
<1>5. CASE OpenFile
  <2>1. ck.writer = "open" /\ ck' = [ck EXCEPT !.file = <<>>, !.writer = "count", !.at = 1] BY <1>5 DEF OpenFile
  <2>4. PICK e \in Seq(Nat) : e = <<>> BY EmptySeq
  <2>2. /\ CkTypeOK' /\ ck'.file = <<>> /\ ck'.writer = "count" /\ ck'.shards = ck.shards /\ ck'.restored = ck.restored
    <3>1. ck' = [ck EXCEPT !.file = e, !.writer = "count", !.at = 1] BY <2>1, <2>4
    <3>2. /\ CkTypeOK' /\ ck'.file = e /\ ck'.writer = "count" /\ ck'.shards = ck.shards /\ ck'.restored = ck.restored
      BY <1>1, <3>1 DEF CkTypeOK
    <3> QED BY <2>4, <3>2
  <2>3. CkFile' BY <1>1, <2>1, <2>2 DEF CkFile
  <2> QED BY <1>4, <2>2, <2>3 DEF CkInv
<1>6. CASE WriteCount
  <2> DEFINE f == WriteAt(ck.file, 1, Len(Latest))
  <2>1. ck.writer = "count" /\ ck' = [ck EXCEPT !.file = f, !.writer = "data", !.at = 2] /\ ck.file = <<>>
    BY <1>1, <1>6 DEF WriteCount, CkFile
  <2>2. Latest \in Seq(Nat) /\ Len(Latest) \in Nat /\ Len(ck.shards) \in 1..Len(ck.shards) BY <1>3, <2>1
  <2>3. f = <<Len(Latest)>> BY SMTT(30), <2>1 DEF WriteAt
  <2>4. f \in Seq(Nat) /\ Len(f) = 1 /\ f[1] = Len(Latest)
    <3>1. PICK n \in Nat : n = Len(Latest) BY <2>2
    <3>2. f = <<n>> BY <2>3, <3>1
    <3> HIDE DEF f
    <3> QED BY SMTT(30), <3>1, <3>2
  <2> HIDE DEF f
  <2>5. /\ CkTypeOK' /\ ck'.file = f /\ ck'.writer = "data" /\ ck'.at = 2 /\ ck'.shards = ck.shards
        /\ ck'.restored = ck.restored
    BY <1>1, <2>1, <2>4 DEF CkTypeOK
  <2>6. BeginsAs(f, Latest) BY SMTT(30), <2>2, <2>4 DEF BeginsAs
  <2>7. CkFile'
    <3>1. Latest' = Latest /\ Latest = ck.shards[Len(ck.shards)] BY <2>5 DEF Latest
    <3>2. \E i \in 1..Len(ck.shards) : BeginsAs(f, ck.shards[i]) BY <2>2, <2>6, <3>1
    <3>3. Len(ck.shards) > 0 BY SMTT(30), <1>2, <2>2
    <3>4. ck'.at = Len(ck'.file) + 1
      <4>1. Len(ck'.file) = 1 BY <2>4, <2>5
      <4>2. ck'.at = 2 BY <2>5
      <4> QED BY SMTT(30), <4>1, <4>2
    <3> QED BY <2>5, <2>6, <3>1, <3>2, <3>3, <3>4 DEF CkFile
  <2> QED BY <1>4, <2>5, <2>7 DEF CkInv
<1>7. CASE WriteFloat /\ ck.at > Len(Latest) + 1
  <2>1. ck' = [ck EXCEPT !.writer = "none", !.at = 0] BY <1>7 DEF WriteFloat
  <2>2. CkTypeOK' /\ ck'.file = ck.file /\ ck'.writer = "none" /\ ck'.shards = ck.shards /\ ck'.restored = ck.restored
    BY <1>1, <2>1 DEF CkTypeOK
  <2>3. CkFile' BY <1>1, <2>2 DEF CkFile
  <2> QED BY <1>4, <2>2, <2>3 DEF CkInv
<1>8. CASE WriteFloat /\ ~(ck.at > Len(Latest) + 1)
  <2>1. ck.writer = "data" BY <1>8 DEF WriteFloat
  <2>2. Latest \in Seq(Nat) /\ Len(Latest) \in Nat /\ Len(ck.shards) \in 1..Len(ck.shards) BY <1>3, <2>1
  <2>3. ck.at = Len(ck.file) + 1 /\ BeginsAs(ck.file, Latest) /\ Len(ck.file) <= Len(Latest) /\ ck.at - 1 = Len(ck.file)
    BY SMTT(30), <1>1, <1>2, <1>8, <2>1, <2>2 DEF CkFile
  <2> DEFINE f == WriteAt(ck.file, Len(ck.file) + 1, Latest[Len(ck.file)])
  <2>4. f \in Seq(Nat) /\ BeginsAs(f, Latest) /\ Len(f) = Len(ck.file) + 1 BY <1>2, <2>2, <2>3, CkGrows
  <2>5. ck' = [ck EXCEPT !.file = f, !.at = @ + 1] BY <1>8, <2>3 DEF WriteFloat
  <2> HIDE DEF f
  <2>6. /\ CkTypeOK' /\ ck'.file = f /\ ck'.writer = "data" /\ ck'.at = ck.at + 1 /\ ck'.shards = ck.shards
        /\ ck'.restored = ck.restored
    <3>1. PICK a \in Nat : a = ck.at + 1 BY SMTT(30), <1>1 DEF CkTypeOK
    <3>2. ck' = [ck EXCEPT !.file = f, !.at = a] BY <2>5, <3>1
    <3>3. /\ CkTypeOK' /\ ck'.file = f /\ ck'.writer = ck.writer /\ ck'.at = a /\ ck'.shards = ck.shards
          /\ ck'.restored = ck.restored
      BY <1>1, <2>4, <3>2 DEF CkTypeOK
    <3> QED BY <2>1, <3>1, <3>3
  <2>7. CkFile'
    <3>1. Latest' = Latest /\ Latest = ck.shards[Len(ck.shards)] BY <2>6 DEF Latest
    <3>2. \E i \in 1..Len(ck.shards) : BeginsAs(f, ck.shards[i]) BY <2>2, <2>4, <3>1
    <3>3. Len(ck.shards) > 0 BY SMTT(30), <1>2, <2>2
    <3>4. ck'.at = Len(ck'.file) + 1 BY <2>3, <2>4, <2>6
    <3> QED BY <2>4, <2>6, <3>1, <3>2, <3>3, <3>4 DEF CkFile
  <2> QED BY <1>4, <2>6, <2>7 DEF CkInv
<1>9. CASE Crash
  <2>1. ck' = [ck EXCEPT !.restart = "read", !.writer = "none", !.at = 0] BY <1>9 DEF Crash
  <2>2. CkTypeOK' /\ ck'.file = ck.file /\ ck'.writer = "none" /\ ck'.shards = ck.shards /\ ck'.restored = ck.restored
    BY <1>1, <2>1 DEF CkTypeOK
  <2>3. CkFile' BY <1>1, <2>2 DEF CkFile
  <2> QED BY <1>4, <2>2, <2>3 DEF CkInv
<1> QED BY <1>5, <1>6, <1>7, <1>8, <1>9

\* A file that is long enough for its count is a whole shard.
LEMMA CkRead ==
  ASSUME CkInv, ReadShard
  PROVE  CkInv'
<1>1. CkTypeOK /\ CkFile BY DEF CkInv
<1>2. ck.shards \in Seq(Seq(Nat)) /\ Len(ck.shards) \in Nat /\ ck.file \in Seq(Nat) /\ Len(ck.file) \in Nat BY SMTT(30), <1>1 DEF CkTypeOK
<1> DEFINE f == ck.file
           r == IF f = <<>> \/ Len(f) - 1 < f[1] THEN Threw ELSE SubSeq(f, 2, f[1] + 1)
<1>3. ck' = [ck EXCEPT !.restart = "done", !.restored = r] BY DEF ReadShard
<1>4. r = Threw \/ \E i \in 1..Len(ck.shards) : r = ck.shards[i]
  <2> SUFFICES ASSUME f # <<>>, ~(Len(f) - 1 < f[1]) PROVE \E i \in 1..Len(ck.shards) : SubSeq(f, 2, f[1] + 1) = ck.shards[i]
    OBVIOUS
  <2>1. PICK i \in 1..Len(ck.shards) : BeginsAs(f, ck.shards[i]) BY <1>1 DEF CkFile
  <2> DEFINE s == ck.shards[i]
             g == SubSeq(f, 2, Len(s) + 1)
  <2>2. s \in Seq(Nat) /\ Len(s) \in Nat BY SMTT(30), <1>2
  <2>3. f[1] = Len(s) /\ Len(f) = Len(s) + 1 /\ \A j \in 1..Len(s) : f[j + 1] = s[j]
    <3>1. BeginsAs(f, s) BY <2>1
    <3> HIDE DEF f, s
    <3>2. f[1] = Len(s) /\ Len(f) \in 1..Len(s) + 1 BY <3>1 DEF BeginsAs
    <3>3. Len(f) = Len(s) + 1 BY SMTT(30), <2>2, <3>2
    <3> QED BY SMTT(30), <2>2, <3>1, <3>2, <3>3 DEF BeginsAs
  <2> HIDE DEF s
  <2>5. /\ g \in Seq(Nat) /\ Len(g) = IF 2 <= Len(s) + 1 THEN Len(s) + 1 - 2 + 1 ELSE 0
        /\ \A j \in 1..Len(s) + 1 - 2 + 1 : g[j] = f[2 + j - 1]
    <3>1. 2 \in Int /\ Len(s) + 1 \in Int /\ \A j \in 2..Len(s) + 1 : f[j] \in Nat BY SMTT(30), <1>2, <2>2, <2>3
    <3> HIDE DEF f
    <3> QED BY SMTT(30), <3>1, SubSeqProperties
  <2>6. Len(g) = Len(s) /\ Len(s) + 1 - 2 + 1 = Len(s) BY SMTT(30), <2>2, <2>5
  <2>7. \A j \in 1..Len(s) : g[j] = s[j]
    <3> SUFFICES ASSUME NEW j \in 1..Len(s) PROVE g[j] = s[j] OBVIOUS
    <3>1. 2 + j - 1 = j + 1 BY SMTT(30), <2>2
    <3> QED BY <2>3, <2>5, <2>6, <3>1
  <2> HIDE DEF g
  <2>8. g = s BY <2>2, <2>5, <2>6, <2>7, SeqEqual
  <2> QED BY <2>3, <2>8 DEF g, s
<1>5. r \in Seq(Int)
  <2>1. Threw \in Seq(Int) BY SMTT(30) DEF Threw
  <2>2. \A i \in 1..Len(ck.shards) : ck.shards[i] \in Seq(Int) BY SMTT(30), <1>2
  <2> HIDE DEF r
  <2> QED BY <1>4, <2>1, <2>2
<1> HIDE DEF r
<1>6. /\ CkTypeOK' /\ ck'.file = ck.file /\ ck'.writer = ck.writer /\ ck'.at = ck.at /\ ck'.shards = ck.shards
      /\ ck'.restored = r
  BY <1>1, <1>3, <1>5 DEF CkTypeOK
<1>7. CkFile' BY <1>1, <1>6 DEF CkFile, Latest
<1>8. RestoredWhole' BY SMTT(30), <1>2, <1>4, <1>6 DEF RestoredWhole
<1> QED BY <1>6, <1>7, <1>8 DEF CkInv

\* For any shards and any crash of the writer: what a restart reads back is a
\* whole shard that was written, or the restore throws; a file cut short is not
\* taken for a shorter shard.
THEOREM CheckpointsWhole == CheckpointSpec => []RestoredWhole
<1>1. CheckpointInit => CkInv
  <2> SUFFICES ASSUME CheckpointInit PROVE CkInv OBVIOUS
  <2>1. Threw \in Seq(Int) BY SMTT(30) DEF Threw
  <2>2. CkTypeOK BY SMTT(30), <2>1 DEF CheckpointInit, CkTypeOK
  <2> QED BY <2>2 DEF CheckpointInit, CkInv, CkFile, RestoredWhole
<1>2. CkInv /\ [CheckpointNext]_ck => CkInv'
  <2>1. CkInv /\ UNCHANGED ck => CkInv' BY DEF CkInv, CkTypeOK, CkFile, RestoredWhole, Latest
  <2> QED BY <2>1, CkStartWrite, CkWrite, CkRead DEF CheckpointNext
<1>3. CkInv => RestoredWhole BY DEF CkInv
<1> QED BY <1>1, <1>2, <1>3, PTL DEF CheckpointSpec

-----------------------------------------------------------------------------
(* Speculative decoding.                                                   *)

\* What the fields hold; the prompt is not empty.
SdTypeOK ==
  sd \in [draft : [Vocab -> Vocab], verifier : [Vocab -> Vocab], len : Nat, context : Seq(Vocab)] /\ sd.context # <<>>

\* A function with a value for every position, each from the one before.
IsDraft(f, V, d, c, len) == f \in [1..len -> V] /\ \A i \in 1..len : f[i] = d[IF i = 1 THEN c ELSE f[i - 1]]

\* There is one draft of any length: induction on the length.
LEMMA DraftExists ==
  ASSUME NEW V, NEW d \in [V -> V], NEW c \in V, NEW len \in Nat
  PROVE  \E f : IsDraft(f, V, d, c, len)
<1> DEFINE Drafts(m, f) == IsDraft(f, V, d, c, m)
           T == {m \in Nat : ~\E f : Drafts(m, f)}
<1> SUFFICES ASSUME T # {} PROVE FALSE OBVIOUS
<1>1. PICK m \in T : \A k \in T : m <= k
  <2>1. T \in SUBSET Nat OBVIOUS
  <2> HIDE DEF T
  <2> QED BY <2>1, LeastNatural
<1>2. m # 0
  <2>1. Drafts(0, [i \in 1..0 |-> c]) BY SMTT(30) DEF IsDraft
  <2> HIDE DEF Drafts
  <2> QED BY <2>1
<1>3. m \in Nat /\ m - 1 \in Nat /\ m - 1 \notin T
  <2>1. m \in Nat /\ m - 1 \in Nat /\ ~(m <= m - 1) BY SMTT(30), <1>2
  <2> HIDE DEF T
  <2> QED BY <1>1, <2>1
<1>4. PICK f : Drafts(m - 1, f) BY <1>3
<1> DEFINE x == d[IF m = 1 THEN c ELSE f[m - 1]]
           g == [i \in 1..m |-> IF i = m THEN x ELSE f[i]]
<1>5. x \in V BY SMTT(30), <1>3, <1>4 DEF IsDraft
<1>6. \A i \in 1..m : i # m => i \in 1..m - 1 /\ g[i] = f[i] /\ f[i] \in V BY SMTT(30), <1>3, <1>4 DEF IsDraft
<1>7. g \in [1..m -> V] BY <1>5, <1>6
<1>8. ASSUME NEW i \in 1..m PROVE g[i] = d[IF i = 1 THEN c ELSE g[i - 1]]
  <2>1. i # 1 => i - 1 \in 1..m /\ i - 1 # m BY SMTT(30), <1>3
  <2>2. i # 1 => g[i - 1] = f[i - 1] BY <1>6, <2>1
  <2>3. CASE i = m BY <2>2, <2>3
  <2>4. CASE i # m BY <1>4, <1>6, <2>2, <2>4 DEF IsDraft
  <2> QED BY <2>3, <2>4
<1>9. Drafts(m, g) BY <1>7, <1>8 DEF IsDraft
<1> HIDE DEF Drafts, g
<1> QED BY <1>1, <1>9

\* propose() gives draft_len tokens.
LEMMA ProposeType ==
  ASSUME SdTypeOK
  PROVE  Propose \in Seq(Vocab) /\ Len(Propose) = sd.len
<1>1. sd.draft \in [Vocab -> Vocab] /\ sd.len \in Nat /\ sd.context \in Seq(Vocab) /\ sd.context # <<>> BY DEF SdTypeOK
<1> DEFINE c == sd.context[Len(sd.context)]
<1>2. c \in Vocab BY SMTT(30), <1>1
<1> DEFINE
           Step(f) == [i \in 1..sd.len |-> sd.draft[IF i = 1 THEN c ELSE f[i - 1]]]
           tokens == CHOOSE f : f = Step(f)
<1>3. PICK f \in [1..sd.len -> Vocab] : \A i \in 1..sd.len : f[i] = sd.draft[IF i = 1 THEN c ELSE f[i - 1]]
  <2>1. PICK d \in [Vocab -> Vocab], len \in Nat, t \in Vocab : d = sd.draft /\ len = sd.len /\ t = c BY <1>1, <1>2
  <2>2. \E f : IsDraft(f, Vocab, d, t, len) BY DraftExists
  <2> QED BY <2>1, <2>2 DEF IsDraft
<1>4. f = Step(f) BY <1>3
<1>5. tokens = Step(tokens)
  <2> HIDE DEF Step
  <2> QED BY <1>4
<1>6. Propose = tokens BY DEF Propose
<1>7. ASSUME NEW g, g = Step(g) PROVE g \in [1..sd.len -> Vocab]
  <2> DEFINE T == {i \in 1..sd.len : g[i] # f[i]}
  <2>1. DOMAIN g = 1..sd.len /\ g = [i \in 1..sd.len |-> g[i]] BY <1>7
  <2>2. ASSUME T # {} PROVE FALSE
    <3>1. PICK i \in T : \A j \in T : i <= j
      <4>1. T \in SUBSET Nat BY SMTT(30), <1>1
      <4> HIDE DEF T
      <4> QED BY <4>1, <2>2, LeastNatural
    <3>2. i # 1 => i - 1 \in 1..sd.len /\ g[i - 1] = f[i - 1] BY SMTT(30), <1>1, <3>1
    <3>3. g[i] = Step(g)[i] BY <1>7
    <3>4. g[i] = sd.draft[IF i = 1 THEN c ELSE g[i - 1]] BY <3>3
    <3> HIDE DEF c
    <3> QED BY <1>3, <3>2, <3>4
  <2>3. \A i \in 1..sd.len : g[i] \in Vocab BY <1>3, <2>2
  <2> QED BY <2>1, <2>3
<1>8. Propose \in [1..sd.len -> Vocab]
  <2> HIDE DEF Step
  <2> QED BY <1>5, <1>6, <1>7
<1> QED BY SMTT(30), <1>1, <1>8

\* The tokens accepted are the verifier's choices.
LEMMA AcceptedAgrees ==
  ASSUME NEW p, sd.len \in Nat
  PROVE  Accepted(p) \in 0..sd.len /\ \A i \in 1..Accepted(p) : Choice(p, i) = p[i]
<1> DEFINE T == {n \in 0..sd.len : n < sd.len => Choice(p, n + 1) # p[n + 1]}
<1>1. T \in SUBSET Nat /\ sd.len \in T BY SMTT(30)
<1>2. PICK n \in T : \A k \in T : n <= k
  <2> HIDE DEF T
  <2> QED BY <1>1, LeastNatural
<1>3. ASSUME NEW i \in 1..n PROVE Choice(p, i) = p[i]
  <2>1. i - 1 \in 0..sd.len /\ i - 1 < n /\ i - 1 < sd.len /\ i - 1 + 1 = i BY SMTT(30)
  <2>2. i - 1 \notin T BY SMTT(30), <1>2, <2>1
  <2> QED BY <2>1, <2>2
<1>4. \E m \in 0..sd.len : (\A i \in 1..m : Choice(p, i) = p[i]) /\ (m < sd.len => Choice(p, m + 1) # p[m + 1])
  BY <1>3
<1> QED BY <1>4 DEF Accepted

\* A text that follows f, then proposed tokens that follow f, then one more.
Follows(c, f) == \A i \in 1..Len(c) - 1 : c[i + 1] = f[c[i]]
\* The text with n proposed tokens and one more; the verifier's token after n
\* proposed ones; the verifier agrees with the first n.
Extended(c, p, n, x) == Append(c \o SubSeq(p, 1, n), x)
Bonus(c, p, n, f) == f[(c \o p)[Len(c) + n]]
Agrees(c, p, n, f) == \A i \in 1..n : f[(c \o p)[Len(c) + i - 1]] = p[i]

\* Such a text still follows f.
LEMMA GreedyExtends ==
  ASSUME NEW V, NEW f, NEW c \in Seq(V), c # <<>>, NEW p \in Seq(V), NEW n \in 0..Len(p), NEW x \in V,
         Follows(c, f), Agrees(c, p, n, f), x = Bonus(c, p, n, f)
  PROVE  \E new \in Seq(V) : new = Extended(c, p, n, x) /\ new # <<>> /\ Follows(new, f)
<1>1. PICK L \in Nat, N \in Nat : L = Len(c) /\ N = Len(p) /\ L > 0 /\ n \in Nat /\ n <= N BY SMTT(30)
<1>2. c \o p \in Seq(V) /\ \A i \in 1..Len(c) + Len(p) : (c \o p)[i] = IF i <= Len(c) THEN c[i] ELSE p[i - Len(c)]
  BY ConcatProperties
<1>3. PICK w \in Seq(V) : w = c \o p /\ \A i \in 1..L + N : w[i] = IF i <= L THEN c[i] ELSE p[i - L] BY <1>1, <1>2
<1>4. PICK q \in Seq(V) : q = SubSeq(p, 1, n) /\ Len(q) = n /\ \A i \in 1..n : q[i] = p[i]
  <2>1. 1 \in Int /\ n \in Int /\ \A i \in 1..n : p[i] \in V BY SMTT(30), <1>1
  <2> DEFINE r == SubSeq(p, 1, n)
  <2>2. r \in Seq(V) /\ (Len(r) = IF 1 <= n THEN n - 1 + 1 ELSE 0) /\ \A i \in 1..n - 1 + 1 : r[i] = p[1 + i - 1]
    BY SMTT(30), <2>1, SubSeqProperties
  <2> HIDE DEF r
  <2>3. Len(r) = n /\ \A i \in 1..n : r[i] = p[i] BY SMTT(30), <1>1, <2>2
  <2> QED BY <2>2, <2>3 DEF r
<1>5. c \o q \in Seq(V) /\ Len(c \o q) = Len(c) + Len(q)
      /\ \A i \in 1..Len(c) + Len(q) : (c \o q)[i] = IF i <= Len(c) THEN c[i] ELSE q[i - Len(c)]
  BY ConcatProperties
<1>a. Len(c \o q) = L + n /\ \A i \in 1..L + n : (c \o q)[i] = IF i <= L THEN c[i] ELSE q[i - L] BY <1>1, <1>4, <1>5
<1>6. PICK s \in Seq(V) : s = c \o q /\ Len(s) = L + n /\ \A i \in 1..L + n : s[i] = IF i <= L THEN c[i] ELSE q[i - L]
  BY <1>5, <1>a
<1>7. /\ Append(s, x) \in Seq(V) /\ Append(s, x) # <<>> /\ Len(Append(s, x)) = Len(s) + 1
      /\ Append(s, x)[Len(s) + 1] = x /\ \A i \in 1..Len(s) : Append(s, x)[i] = s[i]
  BY SMTT(30), AppendProperties
<1>8. PICK new \in Seq(V) : /\ new = Append(s, x) /\ new # <<>> /\ Len(new) = L + n + 1 /\ new[L + n + 1] = x
                            /\ \A i \in 1..L + n : new[i] = s[i]
  BY <1>6, <1>7
<1>9. \A i \in 1..L + n : new[i] = w[i] /\ i \in 1..L + N
  <2> SUFFICES ASSUME NEW i \in 1..L + n PROVE new[i] = w[i] /\ i \in 1..L + N OBVIOUS
  <2>1. i \in 1..L + N /\ (~(i <= L) => i - L \in 1..n) BY SMTT(30), <1>1
  <2>2. new[i] = s[i] BY <1>8
  <2>3. CASE i <= L BY <1>3, <1>6, <2>1, <2>2, <2>3
  <2>4. CASE ~(i <= L) BY <1>3, <1>4, <1>6, <2>1, <2>2, <2>4
  <2> QED BY <2>1, <2>3, <2>4
<1>10. ASSUME NEW i \in 1..L + n PROVE new[i + 1] = f[new[i]]
  <2>1. CASE i < L
    <3>1. i \in 1..Len(c) - 1 /\ i <= L /\ i + 1 <= L /\ i + 1 \in 1..L + n BY SMTT(30), <1>1, <2>1
    <3>2. new[i] = c[i] BY <1>3, <1>9, <3>1
    <3>3. new[i + 1] = c[i + 1] BY <1>3, <1>9, <3>1
    <3> QED BY <3>1, <3>2, <3>3 DEF Follows
  <2>2. CASE ~(i < L) /\ i # L + n
    <3>0. i + 1 - L \in 1..n
      <4>1. n \in Nat /\ L \in Nat /\ i \in Int /\ 1 <= i /\ i <= L + n BY SMTT(30), <1>1
      <4> QED BY SMTT(30), <2>2, <4>1
    <3>1. PICK k \in 1..n : k = i + 1 - L BY <3>0
    <3>2. i + 1 \in 1..L + n /\ ~(i + 1 <= L) /\ Len(c) + k - 1 = i BY SMTT(30), <1>1, <2>2, <3>1
    <3>3. new[i + 1] = w[i + 1] /\ i + 1 \in 1..L + N /\ new[i] = w[i] BY <1>9, <3>2
    <3>4. w[i + 1] = p[k]
      <4>1. PICK m \in 1..L + N : m = i + 1 BY <3>3
      <4>2. w[m] = IF m <= L THEN c[m] ELSE p[m - L] BY <1>3
      <4>3. ~(m <= L) /\ m - L = k BY SMTT(30), <3>1, <3>2, <4>1
      <4> QED BY <4>1, <4>2, <4>3
    <3>5. f[w[i]] = p[k] BY <1>3, <3>2 DEF Agrees
    <3> QED BY <3>3, <3>4, <3>5
  <2>3. CASE i = L + n BY <1>1, <1>3, <1>8, <1>9, <2>3 DEF Bonus
  <2> QED BY <2>1, <2>2, <2>3
<1>11. Len(new) - 1 = L + n BY SMTT(30), <1>1, <1>8
<1>12. new = Extended(c, p, n, x) BY <1>4, <1>6, <1>8 DEF Extended
<1>13. Follows(new, f) BY <1>10, <1>11 DEF Follows
<1> QED BY <1>8, <1>12, <1>13

\* A round of generate() preserves GreedyExact.
LEMMA RoundExact ==
  ASSUME SdTypeOK, GreedyExact, GenerateRound
  PROVE  SdTypeOK' /\ GreedyExact'
<1>1. PICK f \in [Vocab -> Vocab], c \in Seq(Vocab), p \in Seq(Vocab) :
        f = sd.verifier /\ c = sd.context /\ p = Propose /\ Len(p) = sd.len /\ c # <<>> /\ sd.len \in Nat
  BY ProposeType DEF SdTypeOK
<1>2. PICK n \in 0..Len(p) : n = Accepted(p) /\ \A i \in 1..n : Choice(p, i) = p[i] BY <1>1, AcceptedAgrees
<1>3. \A i : Choice(p, i) = f[(c \o p)[Len(c) + i - 1]] BY <1>1 DEF Choice
<1>4. PICK x \in Vocab : x = Choice(p, n + 1) /\ x = f[(c \o p)[Len(c) + n]]
  <2>1. Len(c) + (n + 1) - 1 = Len(c) + n /\ Len(c) + n \in 1..Len(c) + Len(p) BY SMTT(30), <1>1
  <2>2. (c \o p)[Len(c) + n] \in Vocab BY SMTT(30), <2>1, ConcatProperties
  <2> QED BY <1>1, <1>3, <2>1, <2>2
<1>5. sd' = [sd EXCEPT !.context = Append(c \o SubSeq(p, 1, n), x)] BY <1>1, <1>2, <1>4 DEF GenerateRound
<1>6. PICK new \in Seq(Vocab) : new = Extended(c, p, n, x) /\ new # <<>> /\ Follows(new, f)
  <2>1. Follows(c, f) BY <1>1 DEF GreedyExact, Follows
  <2>2. Agrees(c, p, n, f) BY <1>2, <1>3 DEF Agrees
  <2>3. c # <<>> /\ x = Bonus(c, p, n, f) BY <1>1, <1>4 DEF Bonus
  <2> QED BY SMTT(30), <2>1, <2>2, <2>3, GreedyExtends
<1>7. sd' = [sd EXCEPT !.context = new] BY <1>5, <1>6 DEF Extended
<1>8. SdTypeOK' /\ sd'.context = new /\ sd'.verifier = f BY <1>1, <1>6, <1>7 DEF SdTypeOK
<1> QED BY <1>6, <1>8 DEF GreedyExact, Follows

\* For any vocabulary, draft model, verifier and draft length: the text is, token
\* by token, what the verifier alone would have generated greedily.
THEOREM SpecDecodeExact == SpecDecodeSpec => []GreedyExact
<1> DEFINE SdInv == SdTypeOK /\ GreedyExact
<1>1. SpecInit => SdInv
  <2> SUFFICES ASSUME SpecInit PROVE SdInv OBVIOUS
  <2>1. PICK d, v \in [Vocab -> Vocab], len \in DraftLens, t \in Vocab : sd = Session(d, v, len, t) BY DEF SpecInit
  <2>2. <<t>> \in Seq(Vocab) /\ Len(<<t>>) = 1 /\ <<t>> # <<>> BY SMTT(30)
  <2>3. SdTypeOK /\ sd.context = <<t>> BY <2>1, <2>2, SpecDecodeAssumption DEF Session, SdTypeOK
  <2> QED BY SMTT(30), <2>2, <2>3 DEF GreedyExact
<1>2. SdInv /\ [SpecNext]_sd => SdInv'
  <2>1. SdInv /\ UNCHANGED sd => SdInv' BY DEF SdTypeOK, GreedyExact
  <2> QED BY <2>1, RoundExact DEF SpecNext
<1> QED BY <1>1, <1>2, PTL DEF SpecDecodeSpec

-----------------------------------------------------------------------------
(* Credit-based flow control.                                              *)

\* The threads that have a credit and have not sent the unit.
Holding == {t \in BpThread : bp.pc[t] = "send"}

\* What the fields of bp hold.
BpTypeOK ==
  /\ DOMAIN bp = {"credits", "data", "grants", "queue", "pc", "cur", "sent", "listener", "stop"}
  /\ bp.credits \in Nat /\ bp.data \in Nat /\ bp.grants \in Nat /\ bp.queue \in Nat
  /\ bp.pc \in [BpThread -> {"load", "cas", "send"}]
  /\ bp.cur \in [BpThread -> Nat] /\ bp.sent \in [BpThread -> Nat]

\* The inductive invariant: a thread about to compare-exchange saw a credit,
\* so credits_ does not go below 0.
BpIInv ==
  /\ BpTypeOK
  /\ \A t \in BpThread : bp.pc[t] = "cas" => bp.cur[t] > 0
  /\ WindowRespected

\* The threads that hold a credit can be counted.
LEMMA HoldingFinite == IsFiniteSet(Holding) /\ Cardinality(Holding) \in Nat
<1>1. Holding \subseteq BpThread BY DEF Holding
<1> QED BY <1>1, BackpressureAssumption, FS_Subset, FS_CardinalityType

\* acquireCredit: a successful compare-exchange moves one credit to the thread.
LEMMA CreditCasPreserves ==
  ASSUME BpIInv, NEW t \in BpThread, CreditCas(t)
  PROVE  BpIInv'
<1>0. BpTypeOK BY DEF BpIInv
<1>1. CASE bp.credits = bp.cur[t]
  <2>1. bp' = [bp EXCEPT !.credits = @ - 1, !.pc[t] = "send", !.cur[t] = 0] BY <1>1 DEF CreditCas
  <2>2. bp.credits > 0 /\ bp.credits \in Nat BY <1>1 DEF BpIInv, BpTypeOK, CreditCas
  <2>3. BpTypeOK'
    <3>1. bp.credits - 1 \in Nat /\ 0 \in Nat BY SMTT(30), <2>2
    <3>2. /\ [bp.pc EXCEPT ![t] = "send"] \in [BpThread -> {"load", "cas", "send"}]
          /\ [bp.cur EXCEPT ![t] = 0] \in [BpThread -> Nat]
      BY <1>0, <3>1 DEF BpTypeOK
    <3> QED BY <1>0, <2>1, <3>1, <3>2 DEF BpTypeOK
  <2>4. Holding' = Holding \cup {t} BY <1>0, <2>1 DEF Holding, BpTypeOK
  <2>5. t \notin Holding BY DEF Holding, CreditCas
  <2>6. Cardinality(Holding') = Cardinality(Holding) + 1 BY <2>4, <2>5, HoldingFinite, FS_AddElement
  <2>7. WindowRespected' BY SMTT(30), <1>0, <2>1, <2>6, HoldingFinite DEF BpIInv, BpTypeOK, WindowRespected, Holding
  <2>8. \A u \in BpThread : bp'.pc[u] = "cas" => bp'.cur[u] > 0 BY <1>0, <2>1 DEF BpIInv, BpTypeOK
  <2> QED BY <2>3, <2>7, <2>8 DEF BpIInv
<1>2. CASE bp.credits # bp.cur[t]
  <2>1. bp' = [bp EXCEPT !.pc[t] = "load", !.cur[t] = 0] BY <1>2 DEF CreditCas
  <2>2. BpTypeOK' BY <1>0, <2>1 DEF BpTypeOK
  <2>3. Holding' = Holding
    <3>1. \A u \in BpThread : u # t => bp'.pc[u] = bp.pc[u] BY <1>0, <2>1 DEF BpTypeOK
    <3>2. bp'.pc[t] = "load" BY <1>0, <2>1 DEF BpTypeOK
    <3>3. bp.pc[t] = "cas" BY DEF CreditCas
    <3> QED BY <3>1, <3>2, <3>3 DEF Holding
  <2>4. WindowRespected' BY SMTT(30), <2>1, <2>3 DEF BpIInv, WindowRespected, Holding
  <2>5. \A u \in BpThread : bp'.pc[u] = "cas" => bp'.cur[u] > 0 BY <1>0, <2>1 DEF BpIInv, BpTypeOK
  <2> QED BY <2>2, <2>4, <2>5 DEF BpIInv
<1> QED BY <1>1, <1>2

\* send: the thread's credit is now that of a unit on the wire.
LEMMA SendUnitPreserves ==
  ASSUME BpIInv, NEW t \in BpThread, SendUnit(t)
  PROVE  BpIInv'
<1>0. BpTypeOK BY DEF BpIInv
<1>1. bp' = [bp EXCEPT !.pc[t] = "load", !.data = @ + 1, !.sent[t] = @ + 1] BY DEF SendUnit
<1>2. BpTypeOK'
  <2>1. bp.data + 1 \in Nat /\ bp.sent[t] + 1 \in Nat BY SMTT(30), <1>0 DEF BpTypeOK
  <2>2. /\ [bp.pc EXCEPT ![t] = "load"] \in [BpThread -> {"load", "cas", "send"}]
        /\ [bp.sent EXCEPT ![t] = bp.sent[t] + 1] \in [BpThread -> Nat]
    BY <1>0, <2>1 DEF BpTypeOK
  <2> QED BY <1>0, <1>1, <2>1, <2>2 DEF BpTypeOK
<1>3. Holding' = Holding \ {t} BY <1>0, <1>1 DEF Holding, BpTypeOK
<1>4. t \in Holding BY DEF Holding, SendUnit
<1>5. Cardinality(Holding') = Cardinality(Holding) - 1 BY <1>3, <1>4, HoldingFinite, FS_RemoveElement
<1>6. WindowRespected' BY SMTT(30), <1>0, <1>1, <1>5, HoldingFinite DEF BpIInv, BpTypeOK, WindowRespected, Holding
<1>7. \A u \in BpThread : bp'.pc[u] = "cas" => bp'.cur[u] > 0 BY <1>0, <1>1 DEF BpIInv, BpTypeOK
<1> QED BY <1>2, <1>6, <1>7 DEF BpIInv

\* A step that leaves the threads' operations alone moves a credit between the
\* counters, or none.
LEMMA CountersPreserve ==
  ASSUME BpIInv, ReceiverStep \/ ListenerStep \/ StopFlag \/ StopShutdown \/ StopJoin \/ UNCHANGED bp
  PROVE  BpIInv'
<1>0. BpTypeOK BY DEF BpIInv
<1> DEFINE rest == bp.credits + bp.data + bp.queue + bp.grants + (IF bp.listener = "add" THEN 1 ELSE 0)
           Moved == bp'.pc = bp.pc /\ bp'.cur = bp.cur /\ BpTypeOK' /\ rest' = rest
<1>1. ASSUME ReceiveUnit PROVE Moved
  <2>1. bp' = [bp EXCEPT !.data = @ - 1, !.queue = @ + 1] /\ bp.data > 0 BY <1>1 DEF ReceiveUnit
  <2> QED BY SMTT(30), <1>0, <2>1 DEF BpTypeOK
<1>2. ASSUME GrantCredit PROVE Moved
  <2>1. bp' = [bp EXCEPT !.queue = @ - 1, !.grants = @ + 1] /\ bp.queue > 0 BY <1>2 DEF GrantCredit
  <2> QED BY SMTT(30), <1>0, <2>1 DEF BpTypeOK
<1>3. ASSUME ListenRecv PROVE Moved
  <2>1. /\ bp' = [bp EXCEPT !.grants = @ - 1, !.listener = "add"]
        /\ bp.grants > 0 /\ bp.listener = "recv"
    BY <1>3 DEF ListenRecv
  <2> QED BY SMTT(30), <1>0, <2>1 DEF BpTypeOK
<1>4. ASSUME ListenFail PROVE Moved
  <2>1. bp' = [bp EXCEPT !.listener = "ended"] /\ bp.listener = "recv" BY <1>4 DEF ListenFail
  <2> QED BY <1>0, <2>1 DEF BpTypeOK
<1>5. ASSUME ListenAdd PROVE Moved
  <2>1. PICK l \in {"recv", "ended"} : bp' = [bp EXCEPT !.credits = @ + 1, !.listener = l]
    BY <1>5 DEF ListenAdd
  <2>2. bp.listener = "add" BY <1>5 DEF ListenAdd
  <2> QED BY SMTT(30), <1>0, <2>1, <2>2 DEF BpTypeOK
<1>6. ASSUME StopFlag \/ StopShutdown \/ StopJoin PROVE Moved
  <2>1. PICK l : bp' = [bp EXCEPT !.stop = l] BY <1>6 DEF StopFlag, StopShutdown, StopJoin
  <2> QED BY <1>0, <2>1 DEF BpTypeOK
<1>7. ASSUME UNCHANGED bp PROVE Moved BY <1>0, <1>7 DEF BpTypeOK
<1>8. Moved BY <1>1, <1>2, <1>3, <1>4, <1>5, <1>6, <1>7 DEF ReceiverStep, ListenerStep
<1>9. Holding' = Holding BY <1>8 DEF Holding
<1>10. WindowRespected <=> rest + Cardinality(Holding) = WindowSize
  BY SMTT(30), <1>0, HoldingFinite DEF WindowRespected, Holding, BpTypeOK
<1>11. Cardinality(Holding') \in Nat BY <1>9, HoldingFinite
<1>12. WindowRespected' <=> rest' + Cardinality(Holding') = WindowSize
  BY SMTT(30), <1>8, <1>11 DEF WindowRespected, Holding, BpTypeOK
<1> QED BY <1>8, <1>9, <1>10, <1>12 DEF BpIInv

\* For any window, any number of threads and whenever stop() is called: no
\* credit is lost or made up, so the receiver never holds more than WindowSize
\* units.
THEOREM BpWindowRespected == BpSpec => []WindowRespected
<1>1. BpInit => BpIInv
  <2> SUFFICES ASSUME BpInit PROVE BpIInv OBVIOUS
  <2>1. BpTypeOK BY BackpressureAssumption DEF BpInit, BpTypeOK
  <2>2. Holding = {} BY DEF BpInit, Holding
  <2>3. WindowRespected BY SMTT(30), <2>2, FS_EmptySet, BackpressureAssumption DEF BpInit, WindowRespected, Holding
  <2> QED BY <2>1, <2>3 DEF BpIInv, BpInit
<1>2. BpIInv /\ [BpNext]_bp => BpIInv'
  <2> SUFFICES ASSUME BpIInv, [BpNext]_bp PROVE BpIInv' OBVIOUS
  <2>1. ASSUME NEW t \in BpThread, CreditLoad(t) PROVE BpIInv'
    <3>0. BpTypeOK BY DEF BpIInv
    <3>1. bp' = [bp EXCEPT !.pc[t] = "cas", !.cur[t] = bp.credits] /\ bp.credits > 0 BY <2>1 DEF CreditLoad
    <3>2. BpTypeOK' BY <3>0, <3>1 DEF BpTypeOK
    <3>3. Holding' = Holding BY SMTT(30), <2>1, <3>0, <3>1 DEF Holding, BpTypeOK, CreditLoad
    <3>4. WindowRespected' BY SMTT(30), <3>1, <3>3 DEF BpIInv, WindowRespected, Holding
    <3>5. \A u \in BpThread : bp'.pc[u] = "cas" => bp'.cur[u] > 0 BY <3>0, <3>1 DEF BpIInv, BpTypeOK
    <3> QED BY <3>2, <3>4, <3>5 DEF BpIInv
  <2> QED BY <2>1, CreditCasPreserves, SendUnitPreserves, CountersPreserve DEF BpNext, SenderStep
<1>3. BpIInv => WindowRespected BY DEF BpIInv
<1> QED BY <1>1, <1>2, <1>3, PTL DEF BpSpec
=============================================================================
