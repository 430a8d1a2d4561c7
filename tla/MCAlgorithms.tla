---------------------------- MODULE MCAlgorithms ----------------------------
(* Components whose runs end by themselves, and pure algorithms, one at a  *)
(* time: the initial state picks the component, and the variables of the   *)
(* others rest.  Only the snapshot is given its fairness condition.        *)
EXTENDS Collectives, Moe, Mesh, CoroSync, GuardPool, Checkpoint, KvCache, MemPlan, SpecDecode,
        Autograd, ChandyLamport

VARIABLE part

algorithmsVars == <<cl, mo, me, co, gp, ck, kvVars, mp, sd, ag, vars, part>>

\* A component that is not at work has one fixed initial state.
AlgorithmsInit ==
  /\ part \in {"collectives", "moe", "mesh", "coro", "guard_pool", "checkpoint", "kv_cache", "mem_plan",
               "spec_decode", "autograd", "snapshot"}
  /\ MeshInit /\ CoInit /\ GuardPoolInit /\ CheckpointInit /\ KvInit /\ AutogradInit /\ Init
  /\ IF part = "collectives" THEN CollectivesInit ELSE cl = Called("ring", 1, 1, 0, 0)
  /\ IF part = "moe" THEN MoeInit ELSE mo = Routed([r \in Expert |-> [i \in RowsOf(r) |-> r]], 0)
  /\ IF part = "mem_plan" THEN MemPlanInit
     ELSE mp = Lifetimes([i \in TensorValue |-> 1], [i \in TensorValue |-> 1], [i \in TensorValue |-> 1])
  /\ IF part = "spec_decode" THEN SpecInit ELSE sd = Session([v \in Vocab |-> v], [v \in Vocab |-> v], 1, 1)

\* A step of component p, in which only its own variables change.
In(p, Step) ==
  /\ part = p /\ Step /\ UNCHANGED part
  /\ IF p = "collectives" THEN TRUE ELSE UNCHANGED cl
  /\ IF p = "moe" THEN TRUE ELSE UNCHANGED mo
  /\ IF p = "mesh" THEN TRUE ELSE UNCHANGED me
  /\ IF p = "coro" THEN TRUE ELSE UNCHANGED co
  /\ IF p = "guard_pool" THEN TRUE ELSE UNCHANGED gp
  /\ IF p = "checkpoint" THEN TRUE ELSE UNCHANGED ck
  /\ IF p = "kv_cache" THEN TRUE ELSE UNCHANGED kvVars
  /\ IF p = "mem_plan" THEN TRUE ELSE UNCHANGED mp
  /\ IF p = "spec_decode" THEN TRUE ELSE UNCHANGED sd
  /\ IF p = "autograd" THEN TRUE ELSE UNCHANGED ag
  /\ IF p = "snapshot" THEN TRUE ELSE UNCHANGED vars

AlgorithmsNext ==
  \/ In("collectives", CollectivesNext) \/ In("moe", MoeNext) \/ In("mesh", MeshNext)
  \/ In("coro", CoNext) \/ In("guard_pool", GuardPoolNext) \/ In("checkpoint", CheckpointNext)
  \/ In("kv_cache", KvNext) \/ In("mem_plan", MemPlanNext) \/ In("spec_decode", SpecNext)
  \/ In("autograd", AutogradNext) \/ In("snapshot", Next)

\* Fairness of ChandyLamport, when it is at work.
AlgorithmsFairness ==
  \A n \in Node :
    /\ WF_algorithmsVars(In("snapshot", initiateSnapshot(n)))
    /\ WF_algorithmsVars(In("snapshot", snapshotReturn(n)))
    /\ WF_algorithmsVars(In("snapshot", stop(n)))
    /\ WF_algorithmsVars(In("snapshot", joined(n)))
    /\ \A p \in Peer(n) : /\ WF_algorithmsVars(In("snapshot", receiverLoop(n, p)))
                          /\ WF_algorithmsVars(In("snapshot", onTransfer(n, p)))

AlgorithmsSpec == AlgorithmsInit /\ [][AlgorithmsNext]_algorithmsVars /\ AlgorithmsFairness

\* The snapshot completes, with every transfer accounted for, and every node
\* stops, when the snapshot is at work.
SnapshotAtWorkCompletes == part = "snapshot" => SnapshotCompletes

-----------------------------------------------------------------------------
(* Values of the constants.                                                *)

\* Rows of three ranks, one of which has none.
RowsPerRank == <<2, 0, 1>>

\* The leaves of the computation graph.
TwoLeaves == <<2, -3>>
=============================================================================
