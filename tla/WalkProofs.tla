----------------------------- MODULE WalkProofs -----------------------------
(* Lemmas about walks along linked lists in a finite set.                  *)
EXTENDS ListProofs, FiniteSetTheorems, SequenceTheorems

\* Leaves are proved by Zenon; the others cite the prover that finds them.
USE ZenonT(30)

\* A set of naturals has a least element: induction, for the provers at hand.
LEMMA LeastNatural ==
  ASSUME NEW T \in SUBSET Nat, T # {}
  PROVE  \E x \in T : \A y \in T : x <= y
<1> DEFINE Below == {0..k : k \in T}
<1>1. Below \subseteq FiniteSubsetsOf(Nat) /\ Below # {}
  <2>1. \A k \in T : IsFiniteSet(0..k) /\ 0..k \subseteq Nat BY SMTT(30), FS_Interval
  <2> QED BY <2>1 DEF FiniteSubsetsOf
<1>2. IsWellFoundedOn(StrictSubsetOrdering(Nat), FiniteSubsetsOf(Nat)) BY FS_StrictSubsetOrderingWellFounded
<1>3. PICK S \in Below : \A R \in Below : <<R, S>> \notin StrictSubsetOrdering(Nat)
  <2> HIDE DEF Below
  <2> QED BY <1>1, <1>2, WFMin
<1>4. PICK x \in T : S = 0..x OBVIOUS
<1>5. ASSUME NEW y \in T PROVE x <= y
  <2>1. 0..y \in Below /\ 0..y \in SUBSET Nat /\ S \in SUBSET Nat BY SMTT(30), <1>4
  <2>2. ~(0..y \subseteq S /\ 0..y # S) BY <1>3, <2>1 DEF StrictSubsetOrdering
  <2>3. y < x => 0..y \subseteq S /\ x \in S /\ x \notin 0..y BY SMTT(30), <1>4
  <2> QED BY SMTT(30), <2>2, <2>3
<1> QED BY <1>5

-----------------------------------------------------------------------------

\* A list without repetitions is no longer than the set its nodes are from.
LEMMA ListLength ==
  ASSUME NEW S, IsFiniteSet(S), NEW nil, NEW c, NEW first, NEW next, IsList(c, S, first, next, nil)
  PROVE  Len(c) <= Cardinality(S)
<1>1. c \in Seq(S) /\ Len(c) \in Nat /\ c \in [1..Len(c) -> S] BY SMTT(30) DEF IsList
<1>2. IsFiniteSet(1..Len(c)) /\ Cardinality(1..Len(c)) = Len(c) BY SMTT(30), <1>1, FS_Interval
<1>3. c \in Injection(1..Len(c), S) BY <1>1 DEF IsList, Injection, IsInjective
<1>4. Cardinality(1..Len(c)) <= Cardinality(S) BY <1>2, <1>3, FS_Injection
<1> QED BY <1>2, <1>4

\* The nodes a list's first one leads to are the nodes of the list.
LEMMA ReachedIsList ==
  ASSUME NEW S, NEW nil, nil \notin S, NEW c, NEW first, NEW next, IsList(c, S, first, next, nil),
         NEW bound \in Nat, Len(c) <= bound
  PROVE  Reached(first, next, nil, bound) = Members(c)
<1> DEFINE Step(g) == [k \in 0..bound |-> IF k = 0 THEN {first} \ {nil}
                                           ELSE g[k - 1] \cup ({next[n] : n \in g[k - 1]} \ {nil})]
           Upto(k) == {c[i] : i \in {j \in 1..Len(c) : j <= k + 1}}
           G == [k \in 0..bound |-> Upto(k)]
           reach == CHOOSE g : g = Step(g)
<1>1. Reached(first, next, nil, bound) = reach[bound] BY DEF Reached
<1>2. c \in Seq(S) /\ Len(c) \in Nat /\ \A i \in 1..Len(c) : c[i] \in S /\ c[i] # nil BY SMTT(30) DEF IsList
<1>3. Upto(0) = {first} \ {nil}
  <2>1. CASE c = <<>> BY SMTT(30), <2>1 DEF IsList
  <2>2. CASE c # <<>>
    <3>1. first = c[1] /\ 1 \in 1..Len(c) BY SMTT(30), <2>2, <1>2 DEF IsList
    <3>2. {j \in 1..Len(c) : j <= 0 + 1} = {1} BY SMTT(30), <3>1, <1>2
    <3> QED BY <3>1, <3>2, <1>2
  <2> QED BY <2>1, <2>2
<1>4. ASSUME NEW k \in 1..bound
      PROVE  Upto(k) = Upto(k - 1) \cup ({next[n] : n \in Upto(k - 1)} \ {nil})
  <2>1. ASSUME NEW i \in 1..Len(c), i <= k + 1
        PROVE  c[i] \in Upto(k - 1) \cup ({next[n] : n \in Upto(k - 1)} \ {nil})
    <3>1. CASE i <= k BY SMTT(30), <3>1
    <3>2. CASE i = k + 1
      <4>1. k \in 1..Len(c) /\ k # Len(c) BY SMTT(30), <3>2, <1>2
      <4>2. next[c[k]] = c[k + 1] BY <4>1 DEF IsList
      <4>3. c[k] \in Upto(k - 1) BY SMTT(30), <4>1
      <4> HIDE DEF Upto
      <4> QED BY <4>2, <4>3, <3>2, <1>2
    <3> QED BY SMTT(30), <2>1, <3>1, <3>2, <1>2
  <2>2. \A n \in Upto(k - 1) : n \in Upto(k) BY SMTT(30)
  <2>3. ASSUME NEW n \in Upto(k - 1), next[n] # nil PROVE next[n] \in Upto(k)
    <3>1. PICK i \in 1..Len(c) : i <= k - 1 + 1 /\ n = c[i] OBVIOUS
    <3>2. next[c[i]] = IF i = Len(c) THEN nil ELSE c[i + 1] BY DEF IsList
    <3>3. i # Len(c) /\ next[n] = c[i + 1] BY <2>3, <3>1, <3>2
    <3>4. i + 1 \in 1..Len(c) /\ i + 1 <= k + 1 BY SMTT(30), <3>1, <3>3, <1>2
    <3> QED BY <3>3, <3>4
  <2>4. \A x \in Upto(k) : x \in Upto(k - 1) \cup ({next[n] : n \in Upto(k - 1)} \ {nil}) BY <2>1
  <2> HIDE DEF Upto
  <2> QED BY <2>2, <2>3, <2>4
<1>5. Upto(bound) = Members(c)
  <2>1. {j \in 1..Len(c) : j <= bound + 1} = 1..Len(c) BY SMTT(30), <1>2
  <2> QED BY <2>1 DEF Members
<1> HIDE DEF Upto
<1>6. G = Step(G)
  <2>1. \A k \in 0..bound : k # 0 => k \in 1..bound /\ k - 1 \in 0..bound BY SMTT(30)
  <2>2. \A k \in 0..bound : k # 0 => G[k - 1] = Upto(k - 1) BY <2>1
  <2>3. ASSUME NEW k \in 0..bound PROVE G[k] = Step(G)[k]
    <3>1. CASE k = 0 BY <3>1, <1>3
    <3>2. CASE k # 0 BY <3>2, <1>4, <2>1, <2>2
    <3> QED BY <3>1, <3>2
  <2> QED BY <2>3
<1>7. reach = Step(reach)
  <2> HIDE DEF G, Step
  <2> QED BY <1>6
<1>8. ASSUME NEW k \in 0..bound PROVE reach[k] = G[k]
  <2> DEFINE T == {i \in 0..bound : reach[i] # G[i]}
  <2> SUFFICES ASSUME T # {} PROVE FALSE OBVIOUS
  <2>1. PICK i \in T : \A j \in T : i <= j
    <3>1. T \in SUBSET Nat BY SMTT(30)
    <3> HIDE DEF T
    <3> QED BY <3>1, LeastNatural
  <2> HIDE DEF G, reach
  <2>2. i # 0 => i - 1 \in 0..bound /\ reach[i - 1] = G[i - 1] BY SMTT(30), <2>1
  <2>3. Step(reach)[i] = Step(G)[i] BY <2>2
  <2>4. reach[i] = G[i]
    <3> HIDE DEF Step
    <3> QED BY <2>3, <1>6, <1>7
  <2> QED BY <2>4
<1> QED BY SMTT(30), <1>1, <1>5, <1>8

\* Following next from the first node yields the list.
LEMMA WalkedIsList ==
  ASSUME NEW S, NEW nil, nil \notin S, NEW c, NEW first, NEW next, IsList(c, S, first, next, nil), first # nil,
         NEW bound \in Nat, Len(c) <= bound
  PROVE  Walked(first, next, nil, bound) = c
<1> DEFINE Longer(w) == IF next[w[Len(w)]] = nil THEN w ELSE Append(w, next[w[Len(w)]])
           Step(g) == [k \in 0..bound |-> IF k = 0 THEN <<first>> ELSE Longer(g[k - 1])]
           Upto(k) == SubSeq(c, 1, IF k + 1 <= Len(c) THEN k + 1 ELSE Len(c))
           G == [k \in 0..bound |-> Upto(k)]
           walk == CHOOSE g : g = Step(g)
<1>1. Walked(first, next, nil, bound) = walk[bound] BY DEF Walked
<1>2. c \in Seq(S) /\ Len(c) \in Nat /\ (\A i \in 1..Len(c) : c[i] \in S /\ c[i] # nil) /\ c # <<>> /\ Len(c) >= 1 /\ first = c[1]
  BY SMTT(30) DEF IsList
<1>u. ASSUME NEW k \in Nat
      PROVE  /\ Upto(k) \in Seq(S) /\ Len(Upto(k)) = IF k + 1 <= Len(c) THEN k + 1 ELSE Len(c)
             /\ \A i \in 1..Len(Upto(k)) : Upto(k)[i] = c[i]
  <2>1. PICK e \in 1..Len(c) : e = IF k + 1 <= Len(c) THEN k + 1 ELSE Len(c) BY SMTT(30), <1>2
  <2>2. /\ SubSeq(c, 1, e) \in Seq(S) /\ Len(SubSeq(c, 1, e)) = e
        /\ \A i \in 1..e : SubSeq(c, 1, e)[i] = c[i]
    BY SMTT(30), <1>2, <2>1
  <2> QED BY <2>1, <2>2
<1>3. Upto(0) = <<first>>
  <2>1. Upto(0) \in Seq(S) /\ Len(Upto(0)) = 1 /\ Upto(0)[1] = first BY SMTT(30), <1>2, <1>u
  <2>2. <<first>> \in Seq(S) /\ Len(<<first>>) = 1 /\ <<first>>[1] = first BY SMTT(30), <1>2
  <2> HIDE DEF Upto
  <2> QED BY SMTT(30), <2>1, <2>2, SeqEqual
<1>4. ASSUME NEW k \in 1..bound
      PROVE  Upto(k) = Longer(Upto(k - 1))
  <2>1. k - 1 \in Nat /\ k \in Nat BY SMTT(30)
  <2>2. PICK w : w = Upto(k - 1) OBVIOUS
  <2>3. PICK x : x = Upto(k) OBVIOUS
  <2>4. w \in Seq(S) /\ Len(w) = (IF k <= Len(c) THEN k ELSE Len(c)) /\ \A i \in 1..Len(w) : w[i] = c[i]
    BY SMTT(30), <1>u, <2>1, <2>2
  <2>5. x \in Seq(S) /\ Len(x) = (IF k + 1 <= Len(c) THEN k + 1 ELSE Len(c)) /\ \A i \in 1..Len(x) : x[i] = c[i]
    BY <1>u, <2>1, <2>3
  <2>6. Len(w) \in 1..Len(c) /\ w[Len(w)] = c[Len(w)] BY SMTT(30), <1>2, <2>1, <2>4
  <2>7. next[w[Len(w)]] = IF Len(w) = Len(c) THEN nil ELSE c[Len(w) + 1] BY <2>6 DEF IsList
  <2>8. CASE Len(w) = Len(c)
    <3>1. Len(x) = Len(w) BY SMTT(30), <1>2, <2>1, <2>4, <2>5, <2>8
    <3>2. x = w BY <2>4, <2>5, <3>1, SeqEqual
    <3> QED BY <2>2, <2>3, <2>7, <2>8, <3>2
  <2>9. CASE Len(w) # Len(c)
    <3>1. Len(w) = k /\ Len(x) = k + 1 /\ k + 1 \in 1..Len(c) BY SMTT(30), <1>2, <2>1, <2>4, <2>5, <2>6, <2>9
    <3>2. PICK y \in S : y = c[k + 1] BY <1>2, <3>1
    <3>3. /\ Append(w, y) \in Seq(S) /\ Len(Append(w, y)) = k + 1 /\ Append(w, y)[k + 1] = y
          /\ \A i \in 1..k : Append(w, y)[i] = w[i]
      BY SMTT(30), <2>4, <3>1, AppendProperties
    <3>4. \A i \in 1..k + 1 : Append(w, y)[i] = x[i] BY SMTT(30), <2>1, <2>4, <2>5, <3>1, <3>2, <3>3
    <3>5. x = Append(w, y) BY <2>5, <3>1, <3>3, <3>4, SeqEqual
    <3>6. next[w[Len(w)]] = y /\ y # nil BY <1>2, <2>7, <2>9, <3>1, <3>2
    <3> QED BY <2>2, <2>3, <3>5, <3>6
  <2> QED BY <2>8, <2>9
<1>5. Upto(bound) = c
  <2>1. Upto(bound) \in Seq(S) /\ Len(Upto(bound)) = Len(c) /\ \A i \in 1..Len(c) : Upto(bound)[i] = c[i] BY SMTT(30), <1>2, <1>u
  <2> HIDE DEF Upto
  <2> QED BY <1>2, <2>1, SeqEqual
<1> HIDE DEF Upto, Longer
<1>6. G = Step(G)
  <2>1. \A k \in 0..bound : k # 0 => k \in 1..bound /\ k - 1 \in 0..bound BY SMTT(30)
  <2>2. \A k \in 0..bound : k # 0 => G[k - 1] = Upto(k - 1) BY <2>1
  <2>3. ASSUME NEW k \in 0..bound PROVE G[k] = Step(G)[k]
    <3>1. CASE k = 0 BY <3>1, <1>3
    <3>2. CASE k # 0 BY <3>2, <1>4, <2>1, <2>2
    <3> QED BY <3>1, <3>2
  <2> QED BY <2>3
<1>7. walk = Step(walk)
  <2> HIDE DEF G, Step
  <2> QED BY <1>6
<1>8. ASSUME NEW k \in 0..bound PROVE walk[k] = G[k]
  <2> DEFINE T == {i \in 0..bound : walk[i] # G[i]}
  <2> SUFFICES ASSUME T # {} PROVE FALSE OBVIOUS
  <2>1. PICK i \in T : \A j \in T : i <= j
    <3>1. T \in SUBSET Nat BY SMTT(30)
    <3> HIDE DEF T
    <3> QED BY <3>1, LeastNatural
  <2> HIDE DEF G, walk
  <2>2. i # 0 => i - 1 \in 0..bound /\ walk[i - 1] = G[i - 1] BY SMTT(30), <2>1
  <2>3. Step(walk)[i] = Step(G)[i] BY <2>2
  <2>4. walk[i] = G[i]
    <3> HIDE DEF Step
    <3> QED BY <2>3, <1>6, <1>7
  <2> QED BY <2>4
<1> QED BY SMTT(30), <1>1, <1>5, <1>8
=============================================================================
