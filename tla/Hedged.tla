------------------------------- MODULE Hedged -------------------------------
(***************************************************************************)
(* networking/hedged_requests/hedged_request.cpp: hedgedCall.  The call    *)
(* starts backend 0, and all the others when it has not answered in time;  *)
(* the first backend to answer wins.                                       *)
(***************************************************************************)
EXTENDS Integers

CONSTANT Backends   \* backends.size()

ASSUME HedgedAssumption == Backends \in Nat \ {0}

Backend == 0..Backends - 1
NoBackend == Backends

VARIABLE
  hr   \* pc: of each backend's thread; fulfilled: fulfilled; value: the
       \* promise's; first: the backend that won the compare-exchange;
       \* hedged: hedged; caller: where hedgedCall is; result: its winner

HedgedInit ==
  hr = [pc |-> [b \in Backend |-> IF b = 0 THEN "call" ELSE "off"],
        fulfilled |-> FALSE, value |-> NoBackend, first |-> NoBackend,
        hedged |-> FALSE, caller |-> "waitFor", result |-> NoBackend]

\* fn() returns.
BackendAnswer(b) == hr.pc[b] = "call" /\ hr' = [hr EXCEPT !.pc[b] = "cas"]

BugFulfil(b) ==
  /\ hr.pc[b] = "cas"
  /\ hr' = [hr EXCEPT !.fulfilled = TRUE, !.first = IF hr.fulfilled THEN @ ELSE b, !.pc[b] = "set"]
\* The compare-exchange of fulfilled; the losers discard their result.
Fulfil(b) ==
  /\ hr.pc[b] = "cas"
  /\ hr' = IF hr.fulfilled THEN [hr EXCEPT !.pc[b] = "ended"]
           ELSE [hr EXCEPT !.fulfilled = TRUE, !.first = b, !.pc[b] = "set"]

SetValue(b) == hr.pc[b] = "set" /\ hr' = [hr EXCEPT !.value = b, !.pc[b] = "ended"]

\* wait_for ends because the value is there or, at any time before, because
\* hedgeDelay is over: then the other backends are started.
WaitReady ==
  /\ hr.caller = "waitFor" /\ hr.value # NoBackend
  /\ hr' = [hr EXCEPT !.caller = "get"]
BugWaitTimeout ==
  /\ hr.caller = "waitFor" /\ hr.value = NoBackend
  /\ hr' = [hr EXCEPT !.hedged = TRUE, !.caller = "get",
                      !.pc = [b \in Backend |-> IF b = 0 THEN "off" ELSE "call"]]
WaitTimeout ==
  /\ hr.caller = "waitFor" /\ hr.value = NoBackend
  /\ hr' = [hr EXCEPT !.hedged = TRUE, !.caller = "get",
                      !.pc = [b \in Backend |-> IF b = 0 THEN hr.pc[b] ELSE "call"]]

Get ==
  /\ hr.caller = "get" /\ hr.value # NoBackend
  /\ hr' = [hr EXCEPT !.result = hr.value, !.caller = "returned"]

Caller == WaitReady \/ WaitTimeout \/ Get
BackendThread(b) == BackendAnswer(b) \/ Fulfil(b) \/ SetValue(b)
HedgedNext == Caller \/ \E b \in Backend : BackendThread(b)

\* The caller and every thread run, but a backend may take for ever to answer.
HedgedFairness == WF_hr(Caller) /\ \A b \in Backend : WF_hr(Fulfil(b) \/ SetValue(b))
HedgedSpec == HedgedInit /\ [][HedgedNext]_hr /\ HedgedFairness

-----------------------------------------------------------------------------
\* The promise is set once, by the backend that answered first (a second
\* set_value would throw in a detached thread), and a call that was not hedged
\* has the primary's answer.
FirstAnswerWins ==
  /\ \A b \in Backend : hr.pc[b] = "set" => b = hr.first /\ hr.value = NoBackend
  /\ hr.caller = "returned" => hr.result = hr.first /\ (~hr.hedged => hr.result = 0)

\* As soon as any backend has answered the call returns, also when the others
\* never do.
AnyAnswerSuffices == \A b \in Backend : (hr.pc[b] = "cas") ~> (hr.caller = "returned")
=============================================================================
