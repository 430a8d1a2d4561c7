------------------------------ MODULE Autograd ------------------------------
(***************************************************************************)
(* distributed_training/autograd/autograd.h: the graph that operations     *)
(* build and the backward pass over it.  Matrices are whole numbers (1 x 1)*)
(* and the operations are add, matmul and relu: the graph and the order of *)
(* the pass are what is modelled.                                          *)
(***************************************************************************)
EXTENDS Integers, Sequences, FiniteSets

CONSTANTS
  LeafValues,   \* values of the leaves, a sequence
  MaxNodes      \* bound: nodes of a graph

VARIABLE
  ag   \* nodes: in the order they were made, op and parents of each; value,
       \* grad: of each; order: nodes whose backward_fn is still to be called

GraphNode == DOMAIN ag.nodes
AutogradInit ==
  ag = [nodes |-> [i \in DOMAIN LeafValues |-> [op |-> "leaf", parents |-> <<>>]], value |-> LeafValues,
        grad |-> [i \in DOMAIN LeafValues |-> 0], order |-> <<>>, ran |-> FALSE]

Relu(x) == IF x > 0 THEN x ELSE 0

\* matmul(), add(), relu(): a new node, which names its parents.
Build(op, parents) ==
  /\ ~ag.ran /\ Len(ag.nodes) < MaxNodes
  /\ LET x(k) == ag.value[parents[k]]
         v == CASE op = "add" -> x(1) + x(2) [] op = "matmul" -> x(1) * x(2) [] op = "relu" -> Relu(x(1))
     IN ag' = [ag EXCEPT !.nodes = Append(@, [op |-> op, parents |-> parents]), !.value = Append(@, v), !.grad = Append(@, 0)]

\* topo_sort: parents before the node, each node once.
RECURSIVE TopoSort(_, _, _), TopoParents(_, _, _)
TopoSort(nodes, n, order) ==
  IF \E i \in DOMAIN order : order[i] = n THEN order ELSE Append(TopoParents(nodes, nodes[n].parents, order), n)
TopoParents(nodes, parents, order) ==
  IF parents = <<>> THEN order ELSE TopoParents(nodes, Tail(parents), TopoSort(nodes, Head(parents), order))

\* The order of the pass, from the loss back.
Sorted(nodes, n) == LET order == TopoSort(nodes, n, <<>>) IN [i \in DOMAIN order |-> order[Len(order) + 1 - i]]

Backward ==
  /\ ~ag.ran /\ Len(ag.nodes) > Len(LeafValues)
  /\ ag' = [ag EXCEPT !.ran = TRUE, !.grad[Len(ag.nodes)] = 1, !.order = Sorted(ag.nodes, Len(ag.nodes))]

\* The derivative of node n by its k-th parent.
Partial(n, k) ==
  LET x(j) == ag.value[ag.nodes[n].parents[j]]
      op == ag.nodes[n].op
  IN CASE op = "add" -> 1 [] op = "matmul" -> x(3 - k) [] op = "relu" -> IF x(1) > 0 THEN 1 ELSE 0

BugAccumulate(grad, n, k) == [grad EXCEPT ![ag.nodes[n].parents[k]] = grad[n] * Partial(n, k)]
\* add_inplace into the k-th parent, which may be the same node twice.
Accumulate(grad, n, k) == [grad EXCEPT ![ag.nodes[n].parents[k]] = @ + grad[n] * Partial(n, k)]

BackwardFn ==
  /\ ag.order # <<>>
  /\ LET n == Head(ag.order)
         one == IF Len(ag.nodes[n].parents) >= 1 THEN Accumulate(ag.grad, n, 1) ELSE ag.grad
         two == IF Len(ag.nodes[n].parents) = 2 THEN Accumulate(one, n, 2) ELSE one
     IN ag' = [ag EXCEPT !.order = Tail(@), !.grad = two]

AutogradNext ==
  \/ \E a, b \in GraphNode, op \in {"add", "matmul"} : Build(op, <<a, b>>)
  \/ \E a \in GraphNode : Build("relu", <<a>>)
  \/ Backward \/ BackwardFn
AutogradSpec == AutogradInit /\ [][AutogradNext]_ag

-----------------------------------------------------------------------------
\* What the loss changes by when node n does: over all paths from n to it.
RECURSIVE Derivative(_)
Derivative(n) ==
  LET uses == {<<c, k>> \in GraphNode \X {1, 2} : k \in DOMAIN ag.nodes[c].parents /\ ag.nodes[c].parents[k] = n}
      RECURSIVE SumOver(_)
      SumOver(S) == IF S = {} THEN 0 ELSE LET u == CHOOSE u \in S : TRUE IN Derivative(u[1]) * Partial(u[1], u[2]) + SumOver(S \ {u})
  IN IF n = Len(ag.nodes) THEN 1 ELSE SumOver(uses)

\* A pass over a fresh graph leaves every node with the loss's derivative, also
\* where a value is used several times or twice by one operation, and also for
\* the nodes the loss does not depend on.
GradIsDerivative == ag.ran /\ ag.order = <<>> => \A n \in GraphNode : ag.grad[n] = Derivative(n)
=============================================================================
