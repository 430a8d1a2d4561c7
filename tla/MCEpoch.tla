------------------------------ MODULE MCEpoch ------------------------------
(* Instances of Epoch for TLC.                                             *)
EXTENDS Epoch, TLC

ThreadNodeSymmetry == Permutations(Thread) \cup Permutations(Node)

\* What the future of ProtectedUnlessLate and AtMostOneAdvance depends on: a
\* local counts only between the operation that sets it and the last one
\* that reads it, and nothing reads retiredIn.
PoolView ==
  LET live(f, labels) == [t \in Thread |-> IF pc[t] \in labels THEN f[t] ELSE Null]
  IN <<domainVars, stackVars, freed, pc, record, node, toReclaim, late,
       live(cursor, {"scanActive", "scanLocal"}),
       live(epoch, {"enterLocal", "retirePush", "scanActive", "scanLocal", "move"}),
       live(old, {"pushCas", "popNext", "popCas"}),
       live(succ, {"popCas"}),
       live(entryEpoch, {"popLoad", "popNext", "popCas", "exit"})>>

\* Every thread has a record of its own.
Registered ==
  \E order \in Permutations(Thread) :
    LET rank == CHOOSE f \in [Thread -> 1..Cardinality(Thread)] :
                  \A t, u \in Thread : t # u => f[t] # f[u]
    IN /\ record = [t \in Thread |-> rank[order[t]]]
       /\ Records(Cardinality(Thread))

\* A reachable state to start from: t has popped and retired the first of
\* the nodes and advanced the epoch, the others have done nothing.  The rest
\* of the nodes is on the stack, but for one that may not be allocated yet.
AdvancedInit ==
  \E t \in Thread, n \in Node : \E unused \in {{}} \cup {{m} : m \in Node \ {n}} :
    LET rest == Node \ ({n} \cup unused)
    IN /\ fresh = unused /\ freed = {}
       /\ globalEpoch = 1
       /\ globalRetire = [s \in 0..kEBREpochs - 1 |-> IF s = 0 THEN {n} ELSE {}]
       /\ \E order \in [1..Cardinality(rest) -> rest] :
            /\ \A m \in rest : \E i \in DOMAIN order : order[i] = m
            /\ head = order[1]
            /\ next = [m \in Node |-> IF m = n THEN head ELSE IF m \in unused THEN Null ELSE
                 LET i == CHOOSE i \in DOMAIN order : order[i] = m
                 IN IF i = Cardinality(rest) THEN Null ELSE order[i + 1]]
            /\ succ = [u \in Thread |-> IF u = t THEN head ELSE Null]
       /\ Registered
       /\ old = [u \in Thread |-> IF u = t THEN n ELSE Null]
       /\ pc = [u \in Thread |-> IF u = t THEN "move" ELSE "idle"]
       /\ cursor = [u \in Thread |-> 0] /\ epoch = [u \in Thread |-> 0]
       /\ node = [u \in Thread |-> Null] /\ toReclaim = [u \in Thread |-> {}]
       /\ entryEpoch = [u \in Thread |-> 0] /\ retiredIn = [m \in Node |-> 0]
       /\ late = {}
AdvancedSpec == AdvancedInit /\ [][PoolNext]_vars

\* Nothing is claimed of what follows a late move.
NoneLate == late = {}
=============================================================================
