----------------------------- MODULE SpecDecode -----------------------------
(***************************************************************************)
(* inference_serving/speculative_decoding: a draft model proposes, one     *)
(* pass of the verifier accepts a prefix and adds a token.  The models are *)
(* external: a model's argmax at a position is any function of the token   *)
(* there, which a context of one token suffices to tell apart.             *)
(***************************************************************************)
EXTENDS Integers, Sequences

CONSTANTS
  Vocab,      \* token ids
  DraftLens,  \* draft_len_
  MaxContext  \* bound: rounds start below this length

ASSUME SpecDecodeAssumption == DraftLens \subseteq Nat

VARIABLE
  sd   \* draft, verifier: the models' argmax; len: draft_len_; context

Session(draft, verifier, len, t) == [draft |-> draft, verifier |-> verifier, len |-> len, context |-> <<t>>]
SpecInit ==
  \E draft, verifier \in [Vocab -> Vocab], len \in DraftLens, t \in Vocab : sd = Session(draft, verifier, len, t)

\* propose(): len greedy steps of the draft.
Propose ==
  LET tokens[i \in 1..sd.len] == sd.draft[IF i = 1 THEN sd.context[Len(sd.context)] ELSE tokens[i - 1]]
  IN tokens

\* verify_full(): the verifier's choices at the positions of one pass, and how
\* many of the proposed tokens agree before the first that does not.
Choice(proposed, i) == sd.verifier[(sd.context \o proposed)[Len(sd.context) + i - 1]]
BugAccepted(proposed) ==
  CHOOSE n \in 0..sd.len :
    LET agree == {i \in 1..sd.len : Choice(proposed, i) = proposed[i]}
    IN (\A i \in agree : i <= n) /\ (n > 0 => n \in agree)
Accepted(proposed) ==
  CHOOSE n \in 0..sd.len :
    /\ \A i \in 1..n : Choice(proposed, i) = proposed[i]
    /\ n < sd.len => Choice(proposed, n + 1) # proposed[n + 1]

\* generate_round(): the bonus token is the correction, or one token more.
GenerateRound ==
  /\ Len(sd.context) < MaxContext
  /\ LET proposed == Propose
         n == Accepted(proposed)
     IN sd' = [sd EXCEPT !.context = Append(@ \o SubSeq(proposed, 1, n), Choice(proposed, n + 1))]

SpecNext == GenerateRound
SpecDecodeSpec == SpecInit /\ [][SpecNext]_sd

-----------------------------------------------------------------------------
\* Whatever the draft proposes, the text is the one the verifier alone would
\* have produced greedily.
GreedyExact == \A i \in 1..Len(sd.context) - 1 : sd.context[i + 1] = sd.verifier[sd.context[i]]
=============================================================================
