----------------------------- MODULE LinkedList -----------------------------
(* Singly linked lists in memory: FreeList, EpochStack and HazardStack keep *)
(* one, MsQueue another.                                                    *)
EXTENDS Integers, Sequences

\* The nodes that can be reached from first in at most bound steps of next.
Reached(first, next, nil, bound) ==
  LET reach[k \in 0..bound] ==
        IF k = 0 THEN {first} \ {nil}
        ELSE reach[k - 1] \cup ({next[n] : n \in reach[k - 1]} \ {nil})
  IN reach[bound]

\* The nodes that follow one another from first, in the same number of steps.
Walked(first, next, nil, bound) ==
  LET walk[k \in 0..bound] ==
        IF k = 0 THEN <<first>>
        ELSE LET w == walk[k - 1]  last == w[Len(w)]
             IN IF next[last] = nil THEN w ELSE Append(w, next[last])
  IN walk[bound]

\* c is the list of nodes of S that starts at first, without repetitions, and
\* ends where next is nil.
IsList(c, S, first, next, nil) ==
  /\ c \in Seq(S)
  /\ \A i, j \in 1..Len(c) : c[i] = c[j] => i = j
  /\ first = IF c = <<>> THEN nil ELSE c[1]
  /\ \A i \in 1..Len(c) : next[c[i]] = IF i = Len(c) THEN nil ELSE c[i + 1]

\* The nodes of a list.
Members(c) == {c[i] : i \in 1..Len(c)}
=============================================================================
