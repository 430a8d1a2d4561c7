--------------------------- MODULE AbstractDeque ---------------------------
(***************************************************************************)
(* What a work-stealing deque promises: the owner adds and takes at the    *)
(* bottom, a thief takes at the top, and whatever is taken goes to exactly *)
(* one of them.                                                            *)
(***************************************************************************)
EXTENDS Sequences, Naturals

CONSTANTS DequeItem, NoneTaken, DequeOwner, DequeThief

VARIABLES
  contents,   \* from the top to the bottom
  taken       \* what a thread has taken and not returned yet

dequeVars == <<contents, taken>>
DequeThread == DequeThief \cup {DequeOwner}

Init ==
  /\ contents = <<>>
  /\ taken = [t \in DequeThread |-> NoneTaken]

PushBottom(v) == contents' = Append(contents, v) /\ UNCHANGED taken

PopBottom ==
  /\ contents # <<>> /\ taken[DequeOwner] = NoneTaken
  /\ taken' = [taken EXCEPT ![DequeOwner] = contents[Len(contents)]]
  /\ contents' = SubSeq(contents, 1, Len(contents) - 1)

StealTop(t) ==
  /\ contents # <<>> /\ taken[t] = NoneTaken
  /\ taken' = [taken EXCEPT ![t] = Head(contents)]
  /\ contents' = Tail(contents)

Deliver(t) ==
  /\ taken[t] # NoneTaken
  /\ taken' = [taken EXCEPT ![t] = NoneTaken]
  /\ UNCHANGED contents

Next ==
  \/ \E v \in DequeItem : PushBottom(v)
  \/ PopBottom
  \/ \E t \in DequeThief : StealTop(t)
  \/ \E t \in DequeThread : Deliver(t)

Spec == Init /\ [][Next]_dequeVars
=============================================================================
