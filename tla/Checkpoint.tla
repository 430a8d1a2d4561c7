----------------------------- MODULE Checkpoint -----------------------------
(***************************************************************************)
(* distributed_training/checkpoint/sharded_checkpoint.h: one rank's shard  *)
(* file, AsyncCheckpointWriter, and read_shard after a crash.              *)
(*                                                                         *)
(* The file is the count and the floats that have reached it; the floats   *)
(* of a shard are told apart by its version.  A crash leaves any prefix of *)
(* what was written.  The training loop waits before it starts a write.    *)
(* Every write here goes to one path, as after a restart; with a path for  *)
(* each epoch a file is written once.                                      *)
(***************************************************************************)
EXTENDS Integers, Sequences

CONSTANTS
  MaxVersion,   \* bound: checkpoints taken
  ShardSizes    \* the numbers of floats a shard may have

ASSUME CheckpointAssumption == MaxVersion \in Nat /\ ShardSizes \subseteq Nat

Threw == <<-1>>   \* no shard holds it

VARIABLE
  ck   \* file; shards: the shards handed to start_write, latest last;
       \* writer: the background write, and the place in the file it is at;
       \* restart: "no", "read" or "done"; restored: what read_shard gave

CheckpointInit ==
  ck = [file |-> <<>>, shards |-> <<>>, writer |-> "none", at |-> 0, restart |-> "no", restored |-> Threw]

WriteAt(file, i, x) == IF i <= Len(file) THEN [file EXCEPT ![i] = x] ELSE Append(file, x)
Latest == ck.shards[Len(ck.shards)]

\* start_write: the shard is moved into the background task.
StartWrite(n) ==
  /\ ck.restart = "no" /\ ck.writer = "none" /\ Len(ck.shards) < MaxVersion
  /\ ck' = [ck EXCEPT !.shards = Append(@, [i \in 1..n |-> Len(ck.shards) + 1]), !.writer = "open"]

\* write_shard_sync: fopen with "wb" empties the file.
BugOpenFile == ck.writer = "open" /\ ck' = [ck EXCEPT !.writer = "count", !.at = 1]
OpenFile == ck.writer = "open" /\ ck' = [ck EXCEPT !.file = <<>>, !.writer = "count", !.at = 1]

WriteCount ==
  /\ ck.writer = "count"
  /\ ck' = [ck EXCEPT !.file = WriteAt(@, 1, Len(Latest)), !.writer = "data", !.at = 2]

WriteFloat ==
  /\ ck.writer = "data"
  /\ ck' = IF ck.at > Len(Latest) + 1 THEN [ck EXCEPT !.writer = "none", !.at = 0]
           ELSE [ck EXCEPT !.file = WriteAt(@, ck.at, Latest[ck.at - 1]), !.at = @ + 1]

\* The process dies at any point; it starts again with what the file holds.
Crash == ck.restart = "no" /\ ck' = [ck EXCEPT !.restart = "read", !.writer = "none", !.at = 0]

\* read_shard throws on a truncated header and on truncated data.
ReadShard ==
  /\ ck.restart = "read"
  /\ ck' = [ck EXCEPT !.restart = "done",
       !.restored = IF ck.file = <<>> \/ Len(ck.file) - 1 < ck.file[1] THEN Threw
                    ELSE SubSeq(ck.file, 2, ck.file[1] + 1)]

CheckpointNext ==
  \/ \E n \in ShardSizes : StartWrite(n)
  \/ OpenFile \/ WriteCount \/ WriteFloat \/ Crash \/ ReadShard
CheckpointSpec == CheckpointInit /\ [][CheckpointNext]_ck

-----------------------------------------------------------------------------
\* What read_shard returns after a crash is one shard, whole: never the count
\* of one and floats of another, although the file is overwritten in place.
RestoredWhole ==
  ck.restored # Threw => \E i \in DOMAIN ck.shards : ck.restored = ck.shards[i]
=============================================================================
