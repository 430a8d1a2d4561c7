----------------------------- MODULE ListProofs -----------------------------
(* Lemmas about linked lists.                                              *)
EXTENDS LinkedList, TLAPS

\* Leaves are proved by Zenon; the others cite the prover that finds them.
USE ZenonT(30)

\* What the provers know of sequences, as facts to cite.
LEMMA TailOf ==
  ASSUME NEW S, NEW s \in Seq(S), s # <<>>
  PROVE  Tail(s) \in Seq(S) /\ Len(Tail(s)) = Len(s) - 1 /\ \A i \in 1..Len(s) - 1 : Tail(s)[i] = s[i + 1]
BY SMTT(30)

LEMMA AppendOf ==
  ASSUME NEW S, NEW s \in Seq(S), NEW x \in S
  PROVE  /\ Append(s, x) \in Seq(S) /\ Len(Append(s, x)) = Len(s) + 1
         /\ Append(s, x)[Len(s) + 1] = x /\ \A i \in 1..Len(s) : Append(s, x)[i] = s[i]
BY SMTT(30)

\* A new node in front.
LEMMA ListPush ==
  ASSUME NEW S, NEW nil, NEW c, NEW first, NEW next \in [S -> S \cup {nil}], IsList(c, S, first, next, nil),
         NEW n \in S, n \notin Members(c), nil \notin S, next[n] = first
  PROVE  /\ IsList(<<n>> \o c, S, n, next, nil)
         /\ Members(<<n>> \o c) = Members(c) \cup {n}
<1> DEFINE d == <<n>> \o c
<1>1. c \in Seq(S) /\ Len(c) \in Nat BY SMTT(30) DEF IsList
<1>2. d \in Seq(S) /\ Len(d) = Len(c) + 1 /\ d[1] = n /\ \A i \in 1..Len(c) : d[i + 1] = c[i]
  BY SMTT(30), <1>1
<1>3. \A i \in 1..Len(d) : i = 1 \/ (i - 1 \in 1..Len(c) /\ d[i] = c[i - 1])
  <2> SUFFICES ASSUME NEW i \in 1..Len(d), i # 1 PROVE i - 1 \in 1..Len(c) /\ d[i] = c[i - 1] OBVIOUS
  <2>1. i - 1 \in 1..Len(c) BY SMTT(30), <1>1, <1>2
  <2>2. d[(i - 1) + 1] = c[i - 1] BY <1>2, <2>1
  <2> QED BY SMTT(30), <1>1, <1>2, <2>1, <2>2
<1> HIDE DEF d
<1>4. \A i \in 1..Len(c) : c[i] # n BY DEF Members
<1>5. \A i, j \in 1..Len(d) : d[i] = d[j] => i = j
  <2> SUFFICES ASSUME NEW i \in 1..Len(d), NEW j \in 1..Len(d), d[i] = d[j] PROVE i = j OBVIOUS
  <2>1. CASE i = 1 BY SMTT(30), <1>2, <1>3, <1>4, <2>1
  <2>2. CASE j = 1 BY SMTT(30), <1>2, <1>3, <1>4, <2>2
  <2>3. CASE i # 1 /\ j # 1
    <3>1. i - 1 \in 1..Len(c) /\ j - 1 \in 1..Len(c) /\ c[i - 1] = c[j - 1] BY <1>3, <2>3
    <3>2. i - 1 = j - 1 BY <3>1 DEF IsList
    <3> QED BY SMTT(30), <3>2, <1>1, <1>2
  <2> QED BY <2>1, <2>2, <2>3
<1>6. \A i \in 1..Len(d) : next[d[i]] = IF i = Len(d) THEN nil ELSE d[i + 1]
  <2> SUFFICES ASSUME NEW i \in 1..Len(d) PROVE next[d[i]] = IF i = Len(d) THEN nil ELSE d[i + 1] OBVIOUS
  <2>1. CASE i = 1
    <3>1. next[d[i]] = first BY <1>2, <2>1
    <3>2. CASE Len(c) = 0
      <4>1. c = <<>> BY SMTT(30), <1>1, <3>2
      <4> QED BY SMTT(30), <3>1, <4>1, <1>2, <2>1, <3>2 DEF IsList
    <3>3. CASE Len(c) # 0
      <4>1. c # <<>> /\ 1 \in 1..Len(c) BY SMTT(30), <1>1, <3>3
      <4>2. first = c[1] BY <4>1 DEF IsList
      <4>3. d[1 + 1] = c[1] BY <4>1, <1>2
      <4> QED BY SMTT(30), <3>1, <4>2, <4>3, <1>1, <1>2, <2>1, <3>3
    <3> QED BY <3>2, <3>3
  <2>2. CASE i # 1
    <3>1. i - 1 \in 1..Len(c) /\ d[i] = c[i - 1] BY <1>3, <2>2
    <3>2. next[c[i - 1]] = IF i - 1 = Len(c) THEN nil ELSE c[i - 1 + 1] BY <3>1 DEF IsList
    <3>3. i - 1 # Len(c) => i \in 1..Len(c) /\ d[i + 1] = c[i] BY SMTT(30), <3>1, <1>1, <1>2
    <3> QED BY SMTT(30), <3>1, <3>2, <3>3, <1>1, <1>2
  <2> QED BY <2>1, <2>2
<1>7. d # <<>> BY SMTT(30), <1>1, <1>2
<1>8. IsList(d, S, n, next, nil) BY <1>2, <1>5, <1>6, <1>7 DEF IsList
<1>9. Members(d) = Members(c) \cup {n}
  <2>1. \A x : x \in Members(d) => x \in Members(c) \cup {n}
    <3> SUFFICES ASSUME NEW i \in 1..Len(d) PROVE d[i] \in Members(c) \cup {n} BY DEF Members
    <3> QED BY <1>2, <1>3 DEF Members
  <2>2. \A x : x \in Members(c) => x \in Members(d)
    <3> SUFFICES ASSUME NEW i \in 1..Len(c) PROVE c[i] \in Members(d) BY DEF Members
    <3>1. i + 1 \in 1..Len(d) /\ d[i + 1] = c[i] BY SMTT(30), <1>1, <1>2
    <3> QED BY <3>1 DEF Members
  <2>3. n \in Members(d) BY SMTT(30), <1>1, <1>2 DEF Members
  <2> QED BY <2>1, <2>2, <2>3
<1> QED BY <1>8, <1>9 DEF d

\* The first node is taken off.
LEMMA ListPop ==
  ASSUME NEW S, NEW nil, nil \notin S, NEW c, NEW first, NEW next, IsList(c, S, first, next, nil), first # nil
  PROVE  /\ first \in S /\ first \in Members(c)
         /\ IsList(Tail(c), S, next[first], next, nil)
         /\ Members(Tail(c)) = Members(c) \ {first}
<1> DEFINE d == Tail(c)
<1>1. c \in Seq(S) /\ c # <<>> /\ first = c[1] BY DEF IsList
<1>2. Len(c) \in Nat \ {0} /\ first \in S /\ first \in Members(c) BY SMTT(30), <1>1 DEF Members
<1>3. d \in Seq(S) /\ Len(d) = Len(c) - 1 /\ \A i \in 1..Len(d) : d[i] = c[i + 1] BY <1>1, TailOf
<1> HIDE DEF d
<1>4. \A i, j \in 1..Len(d) : d[i] = d[j] => i = j
  <2> SUFFICES ASSUME NEW i \in 1..Len(d), NEW j \in 1..Len(d), d[i] = d[j] PROVE i = j OBVIOUS
  <2>1. i + 1 \in 1..Len(c) /\ j + 1 \in 1..Len(c) /\ c[i + 1] = c[j + 1] BY SMTT(30), <1>2, <1>3
  <2>2. i + 1 = j + 1 BY <2>1 DEF IsList
  <2> QED BY SMTT(30), <2>2, <1>2, <1>3
<1>5. next[first] = IF d = <<>> THEN nil ELSE d[1]
  <2>1. next[c[1]] = IF 1 = Len(c) THEN nil ELSE c[1 + 1] BY SMTT(30), <1>2 DEF IsList
  <2>2. CASE Len(c) = 1
    <3>1. d = <<>> BY SMTT(30), <1>3, <2>2
    <3> QED BY <3>1, <2>1, <2>2, <1>1
  <2>3. CASE Len(c) # 1
    <3>1. d # <<>> /\ 1 \in 1..Len(d) BY SMTT(30), <1>2, <1>3, <2>3
    <3>2. d[1] = c[1 + 1] BY <3>1, <1>3
    <3> QED BY <3>1, <3>2, <2>1, <2>3, <1>1
  <2> QED BY <2>2, <2>3
<1>6. \A i \in 1..Len(d) : next[d[i]] = IF i = Len(d) THEN nil ELSE d[i + 1]
  <2> SUFFICES ASSUME NEW i \in 1..Len(d) PROVE next[d[i]] = IF i = Len(d) THEN nil ELSE d[i + 1] OBVIOUS
  <2>1. i + 1 \in 1..Len(c) /\ d[i] = c[i + 1] BY SMTT(30), <1>2, <1>3
  <2>2. next[c[i + 1]] = IF i + 1 = Len(c) THEN nil ELSE c[i + 1 + 1] BY <2>1 DEF IsList
  <2>3. i # Len(d) => i + 1 \in 1..Len(d) /\ d[i + 1] = c[i + 1 + 1] BY SMTT(30), <1>2, <1>3
  <2> QED BY SMTT(30), <2>1, <2>2, <2>3, <1>2, <1>3
<1>7. Members(d) = Members(c) \ {first}
  <2>1. \A i \in 1..Len(d) : d[i] \in Members(c) \ {first}
    <3> SUFFICES ASSUME NEW i \in 1..Len(d) PROVE d[i] \in Members(c) \ {first} OBVIOUS
    <3>1. i + 1 \in 1..Len(c) /\ d[i] = c[i + 1] /\ 1 \in 1..Len(c) /\ i + 1 # 1 BY SMTT(30), <1>2, <1>3
    <3>2. c[i + 1] # c[1] BY <3>1 DEF IsList
    <3> QED BY <3>1, <3>2, <1>1 DEF Members
  <2>2. \A i \in 1..Len(c) : c[i] # first => c[i] \in Members(d)
    <3> SUFFICES ASSUME NEW i \in 1..Len(c), c[i] # first PROVE c[i] \in Members(d) OBVIOUS
    <3>1. i # 1 BY <1>1
    <3>2. i - 1 \in 1..Len(d) BY SMTT(30), <3>1, <1>2, <1>3
    <3>3. d[i - 1] = c[(i - 1) + 1] BY <3>2, <1>3
    <3> QED BY SMTT(30), <3>2, <3>3, <1>2 DEF Members
  <2> QED BY <2>1, <2>2 DEF Members
<1> QED BY <1>2, <1>3, <1>4, <1>5, <1>6, <1>7 DEF IsList, d

\* Writing to nodes that are not on the list does not concern it.
LEMMA ListKept ==
  ASSUME NEW S, NEW nil, NEW c, NEW first, NEW next, NEW other, IsList(c, S, first, next, nil),
         \A n \in Members(c) : other[n] = next[n]
  PROVE  IsList(c, S, first, other, nil)
BY DEF IsList, Members

\* A new node behind the last one.
LEMMA ListAppend ==
  ASSUME NEW S, NEW nil, nil \notin S, NEW c, NEW first, NEW next, IsList(c, S, first, next, nil),
         NEW last \in Members(c), next[last] = nil, NEW n \in S, n \notin Members(c), NEW other,
         other[last] = n, other[n] = nil, \A m \in Members(c) : m # last => other[m] = next[m]
  PROVE  /\ IsList(Append(c, n), S, first, other, nil)
         /\ Members(Append(c, n)) = Members(c) \cup {n}
<1> DEFINE d == Append(c, n)
<1>1. c \in Seq(S) /\ Len(c) \in Nat BY SMTT(30) DEF IsList
<1>2. d \in Seq(S) /\ Len(d) = Len(c) + 1 /\ d[Len(c) + 1] = n /\ \A i \in 1..Len(c) : d[i] = c[i]
  BY SMTT(30), <1>1, AppendOf
<1> HIDE DEF d
<1>3. \A i \in 1..Len(d) : i \in 1..Len(c) \/ i = Len(c) + 1 BY SMTT(30), <1>1, <1>2
<1>4. \A i \in 1..Len(c) : i \in 1..Len(d) /\ c[i] \in Members(c) /\ c[i] \in S BY SMTT(30), <1>1, <1>2 DEF Members
<1>5. PICK k \in 1..Len(c) : c[k] = last BY DEF Members
<1>6. k = Len(c)
  <2>1. next[c[k]] = IF k = Len(c) THEN nil ELSE c[k + 1] BY DEF IsList
  <2>2. k # Len(c) => k + 1 \in 1..Len(c) BY SMTT(30), <1>1
  <2> QED BY <1>4, <1>5, <2>1, <2>2
<1>7. \A i, j \in 1..Len(d) : d[i] = d[j] => i = j
  <2>1. \A i, j \in 1..Len(c) : c[i] = c[j] => i = j BY DEF IsList
  <2> QED BY SMTT(30), <1>2, <1>3, <1>4, <2>1
<1>8. first = IF d = <<>> THEN nil ELSE d[1]
  <2>1. c # <<>> /\ 1 \in 1..Len(c) /\ d # <<>> BY SMTT(30), <1>1, <1>2, <1>5
  <2> QED BY <1>2, <2>1 DEF IsList
<1>9. \A i \in 1..Len(d) : other[d[i]] = IF i = Len(d) THEN nil ELSE d[i + 1]
  <2> SUFFICES ASSUME NEW i \in 1..Len(d) PROVE other[d[i]] = IF i = Len(d) THEN nil ELSE d[i + 1] OBVIOUS
  <2>1. CASE i = Len(c) + 1 BY <1>2, <2>1
  <2>2. CASE i = Len(c) BY <1>1, <1>2, <1>5, <1>6, <2>2
  <2>3. CASE i # Len(c) + 1 /\ i # Len(c)
    <3>1. i \in 1..Len(c) /\ i + 1 \in 1..Len(c) /\ i # Len(d) BY SMTT(30), <1>1, <1>2, <2>3
    <3>2. c[i] # last BY <1>5, <1>6, <2>3, <3>1 DEF IsList
    <3>3. next[c[i]] = c[i + 1] BY <2>3, <3>1 DEF IsList
    <3> QED BY <1>2, <1>4, <3>1, <3>2, <3>3
  <2> QED BY <2>1, <2>2, <2>3
<1>10. Members(d) = Members(c) \cup {n}
  <2>1. \A x : x \in Members(d) <=> \E i \in 1..Len(d) : x = d[i] BY DEF Members
  <2>2. \A x : x \in Members(c) <=> \E i \in 1..Len(c) : x = c[i] BY DEF Members
  <2>3. Len(c) + 1 \in 1..Len(d) BY SMTT(30), <1>1, <1>2
  <2> QED BY SMTT(30), <1>2, <1>3, <1>4, <2>1, <2>2, <2>3
<1>11. IsList(d, S, first, other, nil) BY <1>2, <1>7, <1>8, <1>9 DEF IsList
<1> QED BY <1>10, <1>11 DEF d

\* The successor of a node is in the list, and is not its first node.
LEMMA ListNext ==
  ASSUME NEW S, NEW nil, nil \notin S, NEW c, NEW first, NEW next, IsList(c, S, first, next, nil),
         NEW m \in Members(c), next[m] # nil
  PROVE  next[m] \in Members(c) /\ next[m] # first
<1>1. c \in Seq(S) /\ Len(c) \in Nat BY SMTT(30) DEF IsList
<1>2. PICK k \in 1..Len(c) : c[k] = m BY DEF Members
<1>3. next[c[k]] = IF k = Len(c) THEN nil ELSE c[k + 1] BY DEF IsList
<1>4. k + 1 \in 1..Len(c) /\ 1 \in 1..Len(c) /\ k + 1 # 1 /\ next[m] = c[k + 1] BY SMTT(30), <1>1, <1>2, <1>3
<1>5. c # <<>> BY SMTT(30), <1>2
<1>6. c[k + 1] # c[1] /\ first = c[1] BY <1>4, <1>5 DEF IsList
<1> QED BY <1>4, <1>6 DEF Members
=============================================================================
