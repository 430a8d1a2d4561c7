-------------------------------- MODULE Moe --------------------------------
(***************************************************************************)
(* distributed_training/moe/moe_dispatch.h: moe_forward, called by every   *)
(* rank at once: counts are exchanged, then rows, then the results of the  *)
(* experts go back, all pair by pair with the lower rank sending first.    *)
(* A row is its origin and its index; an expert's output names the expert. *)
(* As in Collectives a send returns when all but what the socket holds has *)
(* been read.                                                              *)
(***************************************************************************)
EXTENDS Integers, Sequences, SequencesExt

CONSTANTS
  MoeRows,      \* rows of local_x, of each rank: a sequence
  MoeBuffers    \* floats a socket holds

Expert == 0..Len(MoeRows) - 1   \* ranks
RowsOf(r) == 1..MoeRows[r + 1]

VARIABLE
  mo   \* dest: dest_rank; todo: the exchanges left, phase by phase; of each
       \* rank recv_counts, received (flat, as in the code) and output; sending;
       \* chan: by sender and receiver; buffer

\* The rows of r for rank d, in order.
Bucket(r, d) == SelectSeq([i \in RowsOf(r) |-> i], LAMBDA i : mo.dest[r][i] = d)

PairOps(me, r, phase) ==
  LET send == [phase |-> phase, do |-> "send", peer |-> r]
      recv == [phase |-> phase, do |-> "recv", peer |-> r]
  IN IF r = me THEN <<[phase |-> phase, do |-> "self", peer |-> me]>>
     ELSE IF me < r THEN <<send, recv>> ELSE <<recv, send>>

Exchanges(me) ==
  FlattenSeq([k \in 1..3 * Len(MoeRows) |-> PairOps(me, (k - 1) % Len(MoeRows), ((k - 1) \div Len(MoeRows)) + 1)])

Routed(dest, buffer) ==
  [dest |-> dest, todo |-> [r \in Expert |-> Exchanges(r)], sending |-> [r \in Expert |-> FALSE], buffer |-> buffer,
   recv_counts |-> [r \in Expert |-> [s \in Expert |-> 0]], received |-> [r \in Expert |-> <<>>],
   output |-> [r \in Expert |-> [i \in RowsOf(r) |-> <<>>]], chan |-> [r \in Expert |-> [s \in Expert |-> <<>>]]]
MoeInit ==
  \E buffer \in MoeBuffers :
  \E dest \in {f \in [Expert -> UNION {[RowsOf(r) -> Expert] : r \in Expert}] : \A r \in Expert : DOMAIN f[r] = RowsOf(r)} :
    mo = Routed(dest, buffer)

MoeOp(r) == Head(mo.todo[r])
MoeRunning(r) == mo.todo[r] # <<>>

\* Where the rows of rank s begin in received.
BugOffset(r, s) == 0
Offset(r, s) == LET sum[q \in Nat] == IF q = 0 THEN 0 ELSE mo.recv_counts[r][q - 1] + sum[q - 1] IN sum[s]

\* expert_fn on the rows that came from s.
Processed(r, s) == [k \in 1..mo.recv_counts[r][s] |-> Append(mo.received[r][Offset(r, s) + k], r)]

\* What r sends to s in a phase.
Payload(r, s, phase) ==
  CASE phase = 1 -> <<Len(Bucket(r, s))>>
    [] phase = 2 -> [k \in 1..Len(Bucket(r, s)) |-> <<r, Bucket(r, s)[k]>>]
    [] phase = 3 -> Processed(r, s)

Expects(r, s, phase) == IF phase = 1 THEN 1 ELSE IF phase = 2 THEN mo.recv_counts[r][s] ELSE Len(Bucket(r, s))

\* r stores what came from s.
Stored(state, r, s, phase, data) ==
  CASE phase = 1 -> [state EXCEPT !.recv_counts[r][s] = data[1]]
    [] phase = 2 -> [state EXCEPT !.received[r] = @ \o data]
    [] phase = 3 -> [state EXCEPT !.output[r] = [i \in RowsOf(r) |->
         IF mo.dest[r][i] = s THEN data[CHOOSE k \in DOMAIN Bucket(r, s) : Bucket(r, s)[k] = i] ELSE @[i]]]

MoeSend(r) ==
  /\ MoeRunning(r) /\ MoeOp(r).do = "send" /\ ~mo.sending[r]
  /\ mo' = [mo EXCEPT !.sending[r] = TRUE, !.chan[r][MoeOp(r).peer] = @ \o Payload(r, MoeOp(r).peer, MoeOp(r).phase)]

MoeSent(r) ==
  /\ MoeRunning(r) /\ mo.sending[r] /\ Len(mo.chan[r][MoeOp(r).peer]) <= mo.buffer
  /\ mo' = [mo EXCEPT !.sending[r] = FALSE, !.todo[r] = Tail(@)]

MoeRecv(r) ==
  /\ MoeRunning(r) /\ MoeOp(r).do = "recv"
  /\ LET s == MoeOp(r).peer
         size == Expects(r, s, MoeOp(r).phase)
     IN /\ Len(mo.chan[s][r]) >= size
        /\ mo' = [Stored(mo, r, s, MoeOp(r).phase, SubSeq(mo.chan[s][r], 1, size))
                    EXCEPT !.chan[s][r] = SubSeq(@, size + 1, Len(@)), !.todo[r] = Tail(@)]

MoeSelf(r) ==
  /\ MoeRunning(r) /\ MoeOp(r).do = "self"
  /\ mo' = [Stored(mo, r, r, MoeOp(r).phase, Payload(r, r, MoeOp(r).phase)) EXCEPT !.todo[r] = Tail(@)]

MoeStep(r) == MoeSend(r) \/ MoeSent(r) \/ MoeRecv(r) \/ MoeSelf(r)
MoeNext == \E r \in Expert : MoeStep(r)

MoeSpec == MoeInit /\ [][MoeNext]_mo

-----------------------------------------------------------------------------

\* When moe_forward has returned every row is back in its place from the expert
\* it was routed to, though rows and results travel without a label; until
\* then some rank can go on, whatever the sockets hold.
MoeCompletes ==
  \A r \in Expert : IF MoeRunning(r) THEN ENABLED MoeNext
                    ELSE \A i \in RowsOf(r) : mo.output[r][i] = <<r, i, mo.dest[r][i]>>
=============================================================================
