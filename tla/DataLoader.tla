----------------------------- MODULE DataLoader -----------------------------
(***************************************************************************)
(* distributed_training/data_loading: DataLoader and the PrefetchQueue     *)
(* between its worker threads and the training loop.                       *)
(*                                                                         *)
(* A critical section of mu_ is one step.  A thread in a condition         *)
(* variable's wait is blocked until a notify picks it, and then tests the  *)
(* predicate again; the notify after an unlock is a step of its own.  The  *)
(* training loop calls next() until it gets nullopt.                       *)
(***************************************************************************)
EXTENDS Integers, Sequences, FiniteSets

CONSTANTS
  ShardLists,      \* the datasets: sequences of the number of samples of a shard
  Missing,         \* for a shard that cannot be opened
  LoaderWorker,
  WorldSize,
  QueueCapacity

ASSUME DataLoaderAssumption == WorldSize \in Nat \ {0} /\ QueueCapacity \in Nat \ {0} /\ Missing \notin Nat

VARIABLE
  dl   \* shards: rank_shards_; queue: queue_; closed: closed_;
       \* nextShard: next_shard_idx_; active: active_producers_;
       \* pc, shard, sample: of the workers; consumer: the training loop;
       \* got: the samples it has had

\* The shards of a rank: every WorldSize-th path, the first one number rank.
RankShards(all, rank) ==
  [k \in 1..Cardinality({i \in 0..Len(all) - 1 : i % WorldSize = rank}) |->
     all[rank + (k - 1) * WorldSize + 1]]

\* The constructor, and start(): without shards there are no workers.
Started(shards) ==
  [shards |-> shards, queue |-> <<>>, closed |-> shards = <<>>,
   nextShard |-> 1, active |-> Cardinality(LoaderWorker),
   pc |-> [w \in LoaderWorker |-> IF shards = <<>> THEN "ended" ELSE "claim"],
   shard |-> [w \in LoaderWorker |-> 0], sample |-> [w \in LoaderWorker |-> 0],
   consumer |-> "pop", got |-> <<>>]
LoaderInit == \E all \in ShardLists, rank \in 0..WorldSize - 1 : dl = Started(RankShards(all, rank))

-----------------------------------------------------------------------------
(* worker_loop                                                             *)

ClaimShard(w) ==
  /\ dl.pc[w] = "claim"
  /\ dl' = [dl EXCEPT !.nextShard = @ + 1, !.shard[w] = dl.nextShard, !.sample[w] = 1,
                      !.pc[w] = IF dl.nextShard > Len(dl.shards) THEN "leave" ELSE "read"]

\* A shard that cannot be opened is skipped; reader.next() ends the inner loop.
ReadSample(w) ==
  /\ dl.pc[w] = "read"
  /\ LET size == dl.shards[dl.shard[w]]
     IN dl' = [dl EXCEPT !.pc[w] = IF size = Missing \/ dl.sample[w] > size THEN "claim" ELSE "push"]

\* The last worker closes the queue.
LeaveLoop(w) ==
  /\ dl.pc[w] = "leave"
  /\ dl' = [dl EXCEPT !.active = @ - 1, !.pc[w] = IF dl.active = 1 THEN "close" ELSE "ended"]

-----------------------------------------------------------------------------
(* PrefetchQueue                                                           *)

PushItem(w) ==
  /\ dl.pc[w] = "push"
  /\ dl' = IF Len(dl.queue) >= QueueCapacity THEN [dl EXCEPT !.pc[w] = "blocked"]
           ELSE [dl EXCEPT !.queue = Append(@, <<dl.shard[w], dl.sample[w]>>),
                           !.sample[w] = @ + 1, !.pc[w] = "notify"]

Woken == IF dl.consumer = "blocked" THEN "pop" ELSE dl.consumer

\* not_empty_.notify_one(), after push.
NotifyNotEmpty(w) == dl.pc[w] = "notify" /\ dl' = [dl EXCEPT !.consumer = Woken, !.pc[w] = "read"]

Close(w) == dl.pc[w] = "close" /\ dl' = [dl EXCEPT !.closed = TRUE, !.pc[w] = "notifyAll"]

BugNotifyClosed(w) == dl.pc[w] = "notifyAll" /\ dl' = [dl EXCEPT !.pc[w] = "ended"]
NotifyClosed(w) == dl.pc[w] = "notifyAll" /\ dl' = [dl EXCEPT !.consumer = Woken, !.pc[w] = "ended"]

\* Closed and drained gives nullopt.
PopItem ==
  /\ dl.consumer = "pop"
  /\ dl' = IF dl.queue # <<>>
           THEN [dl EXCEPT !.got = Append(@, Head(dl.queue)), !.queue = Tail(@), !.consumer = "notify"]
           ELSE [dl EXCEPT !.consumer = IF dl.closed THEN "end" ELSE "blocked"]

\* not_full_.notify_one(), after pop; then the training loop asks again.
NotifyNotFull ==
  LET blocked == {w \in LoaderWorker : dl.pc[w] = "blocked"}
  IN /\ dl.consumer = "notify"
     /\ \/ blocked = {} /\ dl' = [dl EXCEPT !.consumer = "pop"]
        \/ \E w \in blocked : dl' = [dl EXCEPT !.consumer = "pop", !.pc[w] = "push"]

\* The destructor, after the training loop.
JoinWorkers ==
  /\ dl.consumer = "end" /\ \A w \in LoaderWorker : dl.pc[w] = "ended"
  /\ dl' = [dl EXCEPT !.consumer = "joined"]

WorkerLoop(w) ==
  \/ ClaimShard(w) \/ ReadSample(w) \/ LeaveLoop(w)
  \/ PushItem(w) \/ NotifyNotEmpty(w) \/ Close(w) \/ NotifyClosed(w)
TrainingLoop == PopItem \/ NotifyNotFull \/ JoinWorkers
LoaderNext == TrainingLoop \/ \E w \in LoaderWorker : WorkerLoop(w)

\* Threads that can run do; the training loop asks for every sample.
LoaderFairness == WF_dl(TrainingLoop) /\ \A w \in LoaderWorker : WF_dl(WorkerLoop(w))
LoaderSpec == LoaderInit /\ [][LoaderNext]_dl /\ LoaderFairness

-----------------------------------------------------------------------------
Samples ==
  UNION {{i} \X (1..(IF dl.shards[i] = Missing THEN 0 ELSE dl.shards[i])) : i \in DOMAIN dl.shards}

\* The training loop reaches the end of the dataset and the destructor's join
\* returns: no notification that somebody needs is lost.  By then every sample
\* of every shard that could be opened has been delivered, none of them twice,
\* and those of a shard in their order.
LoaderDelivers ==
  <>(/\ dl.consumer = "joined"
     /\ {dl.got[i] : i \in DOMAIN dl.got} = Samples
     /\ \A i, j \in DOMAIN dl.got : i < j /\ dl.got[i][1] = dl.got[j][1] => dl.got[i][2] < dl.got[j][2])
=============================================================================
