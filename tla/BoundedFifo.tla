---------------------------- MODULE BoundedFifo ----------------------------
(***************************************************************************)
(* What a bounded FIFO queue promises its clients, whatever the ring of    *)
(* slots behind it: values leave in the order in which they entered, each  *)
(* to one client, and at most Capacity of them are inside.  MpmcQueue and  *)
(* SpscQueue implement it.                                                 *)
(***************************************************************************)
EXTENDS Naturals, Sequences

CONSTANTS Client, Value, Nothing, Capacity

VARIABLES
  contents,  \* the values inside, oldest first
  taken      \* the value a client's pop has taken and not delivered yet

Init == contents = <<>> /\ taken = [c \in Client |-> Nothing]

Enter(v) ==
  /\ Len(contents) < Capacity
  /\ contents' = Append(contents, v)
  /\ UNCHANGED taken

Take(c) ==
  /\ contents # <<>>
  /\ taken' = [taken EXCEPT ![c] = Head(contents)]
  /\ contents' = Tail(contents)

Deliver(c) ==
  /\ taken' = [taken EXCEPT ![c] = Nothing]
  /\ UNCHANGED contents

Next ==
  \/ \E v \in Value : Enter(v)
  \/ \E c \in Client : Take(c) \/ Deliver(c)

Spec == Init /\ [][Next]_<<contents, taken>>
=============================================================================
