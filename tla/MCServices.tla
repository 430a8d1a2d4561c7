----------------------------- MODULE MCServices -----------------------------
(* Components that must come to something under fairness, one at a time:   *)
(* the initial state picks the component, and the variables of the others  *)
(* rest.                                                                   *)
EXTENDS DataLoader, WsPool, Backpressure, Hedged, FairScheduler, ControlService, Dma, MCRaft

VARIABLE part

servicesVars == <<dl, wp, bp, hr, fs, sv, dma, ram, job, vars, part>>

ServicesInit ==
  /\ part \in {"loader", "ws_pool", "backpressure", "hedged", "scheduler", "control", "dma", "raft"}
  /\ PoolInit /\ BpInit /\ HedgedInit /\ FairInit /\ ServiceInit /\ DmaInit
  /\ IF part = "loader" THEN LoaderInit ELSE dl = Started(<<>>)
  /\ IF part = "raft" THEN ReelectedInit ELSE Init

\* A step of component p, in which only its own variables change.
In(p, Step) ==
  /\ part = p /\ Step /\ UNCHANGED part
  /\ IF p = "loader" THEN TRUE ELSE UNCHANGED dl
  /\ IF p = "ws_pool" THEN TRUE ELSE UNCHANGED wp
  /\ IF p = "backpressure" THEN TRUE ELSE UNCHANGED bp
  /\ IF p = "hedged" THEN TRUE ELSE UNCHANGED hr
  /\ IF p = "scheduler" THEN TRUE ELSE UNCHANGED fs
  /\ IF p = "control" THEN TRUE ELSE UNCHANGED sv
  /\ IF p = "dma" THEN TRUE ELSE UNCHANGED <<dma, ram, job>>
  /\ IF p = "raft" THEN TRUE ELSE UNCHANGED vars

ServicesNext ==
  \/ In("loader", LoaderNext) \/ In("ws_pool", PoolNext)
  \/ In("backpressure", BpNext) \/ In("hedged", HedgedNext) \/ In("scheduler", FairNext)
  \/ In("control", ServiceNext) \/ In("dma", DmaNext)
  \/ In("raft", Next)

\* The fairness conditions of the components, of the component at work.
ServicesFairness ==
  /\ WF_servicesVars(In("loader", TrainingLoop))
  /\ \A w \in LoaderWorker : WF_servicesVars(In("loader", WorkerLoop(w)))
  /\ WF_servicesVars(In("ws_pool", ClientStep))
  /\ \A w \in Worker : /\ WF_servicesVars(In("ws_pool", WorkerStep(w)))
                       /\ SF_servicesVars(In("ws_pool", TakeInbox(w)))
  /\ WF_servicesVars(In("backpressure", ReceiverStep))
  /\ WF_servicesVars(In("backpressure", ListenerStep))
  /\ WF_servicesVars(In("backpressure", StopShutdown \/ StopJoin))
  /\ \A t \in BpThread : /\ WF_servicesVars(In("backpressure", SenderStep(t)))
                         /\ SF_servicesVars(In("backpressure", CreditCas(t) /\ bp'.pc[t] = "send"))
  /\ WF_servicesVars(In("hedged", Caller))
  /\ \A b \in Backend : WF_servicesVars(In("hedged", Fulfil(b) \/ SetValue(b)))
  /\ \A c \in ServiceCaller : WF_servicesVars(In("control", WaitReturns(c)))
  /\ WF_servicesVars(In("dma", Edge))
  /\ \A p, q \in Node :
       /\ WF_servicesVars(In("raft", sendHeartbeat(p, q)))
       /\ WF_servicesVars(In("raft", \E m \in net : m.from = p /\ m.to = q /\ Handle(m)))
       /\ WF_servicesVars(In("raft", onCommit(p, q)))
  /\ \A c \in Command : WF_servicesVars(In("raft", \E q \in Node : clientSend(c, q)))

ServicesSpec == ServicesInit /\ [][ServicesNext]_servicesVars /\ ServicesFairness

-----------------------------------------------------------------------------
(* What a component must come to, for the component at work.               *)

\* The training loop gets every sample and joins the workers.
LoaderAtWorkDelivers == part = "loader" => LoaderDelivers

\* wait() and the destructor of the pool return.
PoolAtWorkFinishes == part = "ws_pool" => PoolFinishes

\* Senders get credit, or stop() ends them.
SendersAtWorkProceed == part = "backpressure" => SendersProceed

-----------------------------------------------------------------------------
(* Values of the constants.                                                *)

\* Samples of each shard; a shard that is missing.
SmallShardLists == {<<>>, <<2, 1>>, <<1, Missing, 2>>, <<1, 2, 1, 1>>}

\* Two tenants of a priority with different weights, one of a higher one.
ThreeTenants == <<"a", "b", "c">>
Priorities == [a |-> 1, b |-> 1, c |-> 2]
Weights == [a |-> 1, b |-> 2, c |-> 1]
Quotas == [a |-> 3, b |-> 4, c |-> 1]
=============================================================================
