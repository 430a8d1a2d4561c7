---------------------------- MODULE Backpressure ----------------------------
(***************************************************************************)
(* networking/backpressure: BackpressureSender and BackpressureReceiver,   *)
(* credit-based flow control over a Channel.                               *)
(*                                                                         *)
(* The sending threads call acquireCredit and then send a unit; the        *)
(* receiving side processes units and calls grantCredit after each; the    *)
(* sender's listener adds a credit per grant.  The wire is a counter in    *)
(* each direction, since a unit carries nothing that matters here.         *)
(***************************************************************************)
EXTENDS Integers, FiniteSets

CONSTANTS
  BpThread,        \* threads that send
  WindowSize,
  MaxUnits         \* bound: units a thread sends

ASSUME BackpressureAssumption == IsFiniteSet(BpThread) /\ WindowSize \in Nat /\ MaxUnits \in Nat

VARIABLE
  bp    \* credits: credits_; pc, cur, sent: of the sending threads;
        \* data, grants: on the wire; queue: received and not processed;
        \* listener: the listener thread; stop: the thread that calls stop()

BpInit ==
  bp = [credits |-> WindowSize, data |-> 0, grants |-> 0, queue |-> 0,
        pc |-> [t \in BpThread |-> "load"], cur |-> [t \in BpThread |-> 0],
        sent |-> [t \in BpThread |-> 0], listener |-> "recv", stop |-> "running"]

-----------------------------------------------------------------------------
(* acquireCredit, and the send that follows it                             *)

\* With no credit the thread sleeps and loads again.
CreditLoad(t) ==
  /\ bp.pc[t] = "load" /\ bp.sent[t] < MaxUnits /\ bp.credits > 0
  /\ bp' = [bp EXCEPT !.pc[t] = "cas", !.cur[t] = bp.credits]

BugCreditCas(t) ==
  /\ bp.pc[t] = "cas"
  /\ bp' = [bp EXCEPT !.credits = bp.cur[t] - 1, !.pc[t] = "send", !.cur[t] = 0]
CreditCas(t) ==
  /\ bp.pc[t] = "cas"
  /\ bp' = IF bp.credits = bp.cur[t]
           THEN [bp EXCEPT !.credits = @ - 1, !.pc[t] = "send", !.cur[t] = 0]
           ELSE [bp EXCEPT !.pc[t] = "load", !.cur[t] = 0]

SendUnit(t) ==
  /\ bp.pc[t] = "send"
  /\ bp' = [bp EXCEPT !.pc[t] = "load", !.data = @ + 1, !.sent[t] = @ + 1]

-----------------------------------------------------------------------------
(* The receiving side: recv, and grantCredit for a unit processed.         *)

ReceiveUnit == bp.data > 0 /\ bp' = [bp EXCEPT !.data = @ - 1, !.queue = @ + 1]
GrantCredit == bp.queue > 0 /\ bp' = [bp EXCEPT !.queue = @ - 1, !.grants = @ + 1]

-----------------------------------------------------------------------------
(* listenLoop, and stop                                                    *)

ListenRecv == bp.listener = "recv" /\ bp.grants > 0 /\ bp' = [bp EXCEPT !.grants = @ - 1, !.listener = "add"]
\* recv fails after shutdownPeer.
ListenFail == bp.listener = "recv" /\ bp.stop = "join" /\ bp' = [bp EXCEPT !.listener = "ended"]
ListenAdd ==
  /\ bp.listener = "add"
  /\ bp' = [bp EXCEPT !.credits = @ + 1, !.listener = IF bp.stop = "running" THEN "recv" ELSE "ended"]

StopFlag == bp.stop = "running" /\ bp' = [bp EXCEPT !.stop = "shutdown"]
BugStopShutdown == bp.stop = "shutdown" /\ bp' = [bp EXCEPT !.stop = "joining"]
StopShutdown == bp.stop = "shutdown" /\ bp' = [bp EXCEPT !.stop = "join"]
StopJoin == bp.stop \in {"join", "joining"} /\ bp.listener = "ended" /\ bp' = [bp EXCEPT !.stop = "stopped"]

SenderStep(t) == CreditLoad(t) \/ CreditCas(t) \/ SendUnit(t)
ReceiverStep == ReceiveUnit \/ GrantCredit
ListenerStep == ListenRecv \/ ListenFail \/ ListenAdd
BpNext ==
  \/ \E t \in BpThread : SenderStep(t)
  \/ ReceiverStep \/ ListenerStep \/ StopFlag \/ StopShutdown \/ StopJoin

\* Threads run and the receiving side processes what it gets.  A thread that
\* tries again and again finds its compare-exchange undisturbed some time.
\* Nobody has to call stop(), but a stop() that has begun goes on.
BpFairness ==
  /\ WF_bp(ReceiverStep) /\ WF_bp(ListenerStep) /\ WF_bp(StopShutdown \/ StopJoin)
  /\ \A t \in BpThread : WF_bp(SenderStep(t)) /\ SF_bp(CreditCas(t) /\ bp'.pc[t] = "send")
BpSpec == BpInit /\ [][BpNext]_bp /\ BpFairness

-----------------------------------------------------------------------------
\* No credit is lost or made up: those in credits_, those of units under way
\* or in the receiver's queue and those of grants under way make the window.
\* So the receiver never holds more than WindowSize units.
WindowRespected ==
  bp.credits + Cardinality({t \in BpThread : bp.pc[t] = "send"}) + bp.data + bp.queue
    + bp.grants + (IF bp.listener = "add" THEN 1 ELSE 0) = WindowSize

\* As long as stop() is not called every thread sends all it has; and a
\* stop() returns, even if the peer sends no more grants.
SendersProceed ==
  /\ <>(bp.stop # "running" \/ \A t \in BpThread : bp.sent[t] = MaxUnits)
  /\ (bp.stop = "shutdown") ~> (bp.stop = "stopped")
=============================================================================
