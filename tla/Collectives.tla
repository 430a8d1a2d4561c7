---------------------------- MODULE Collectives ----------------------------
(***************************************************************************)
(* networking/ring_allreduce, halving_doubling, tree_allreduce and         *)
(* collectives, over the channels of networking/common.                    *)
(*                                                                         *)
(* What a rank sends and receives does not depend on what it receives: an  *)
(* algorithm is the sequence of sends and receives it makes each rank do.  *)
(* Any rank may be ahead of any other.  A channel is a stream of floats; a *)
(* send returns when all but what the socket buffers is read.              *)
(***************************************************************************)
EXTENDS Integers, Sequences, SequencesExt

CONSTANTS
  Worlds,      \* world sizes
  Counts,      \* sizes of the buffer
  SocketBuffers  \* floats a socket holds: 0 when a chunk is far larger

VARIABLE
  cl   \* the call: algo, n, count, root, buffer; of each rank todo, the
       \* operations it has yet to do, sending and buf; chan: by sender, receiver

World == 0..cl.n - 1

-----------------------------------------------------------------------------
(* Operations of a rank.  A receive overwrites, or adds to, what it covers.*)

SendTo(peer, start, size) == [do |-> "send", peer |-> peer, start |-> start, size |-> size]
Receive(do, peer, start, size) == [do |-> do, peer |-> peer, start |-> start, size |-> size]
IsSet(r, mask) == (r \div mask) % 2 = 1
Partner(r, mask) == IF IsSet(r, mask) THEN r - mask ELSE r + mask

\* Powers of two below n.
Masks(n) == IF n <= 1 THEN 0 ELSE CHOOSE k \in 1..n : 2 ^ k >= n /\ 2 ^ (k - 1) < n

-----------------------------------------------------------------------------
(* ring_allreduce.cpp                                                      *)

ChunkSize(i, n, count) == (count \div n) + IF i < count % n THEN 1 ELSE 0
ChunkStart(i, n, count) == i * (count \div n) + IF i < count % n THEN i ELSE count % n

BugSendsFirst(r) == TRUE
SendsFirst(r) == r % 2 = 0

\* ring_reduce_scatter (ahead = 0) and ring_all_gather (ahead = 1); an odd
\* rank adds what it received after its send, of another chunk.
Ring(r, n, count, ahead) ==
  [i \in 1..2 * (n - 1) |->
     LET step == (i - 1) \div 2
         sendIdx == (r - step + ahead + n) % n
         recvIdx == (r - step - 1 + ahead + n) % n
     IN IF (i % 2 = 1) = SendsFirst(r)
        THEN SendTo((r + 1) % n, ChunkStart(sendIdx, n, count), ChunkSize(sendIdx, n, count))
        ELSE Receive(IF ahead = 0 THEN "add" ELSE "set", (r - 1 + n) % n, ChunkStart(recvIdx, n, count), ChunkSize(recvIdx, n, count))]

RingAllreduce(r, n, count) == Ring(r, n, count, 0) \o Ring(r, n, count, 1)

-----------------------------------------------------------------------------
(* halving_doubling.cpp                                                    *)

IsPowerOfTwo(n) == n > 0 /\ 2 ^ Masks(n) = n

\* Lower rank first.
Exchange(r, partner, send, recv) == IF r < partner THEN <<send, recv>> ELSE <<recv, send>>

Halving(r, p, count) ==
  LET k == Masks(p)
      \* <<myOffset, myCount>> after each halving
      mine[i \in 0..k] ==
        IF i = 0 THEN <<0, count>>
        ELSE LET lower == mine[i - 1][2] \div 2
             IN IF IsSet(r, 2 ^ (k - i)) THEN <<mine[i - 1][1] + lower, mine[i - 1][2] - lower>>
                ELSE <<mine[i - 1][1], lower>>
      \* myOffset after each doubling
      offset[i \in 0..k] ==
        IF i = 0 THEN mine[k][1]
        ELSE IF IsSet(r, 2 ^ (i - 1)) THEN offset[i - 1] - mine[k][2] * 2 ^ (i - 1) ELSE offset[i - 1]
      halve(i) ==
        LET partner == Partner(r, 2 ^ (k - i))
            other == IF mine[i][1] = mine[i - 1][1] THEN mine[i][1] + mine[i][2] ELSE mine[i - 1][1]
        IN Exchange(r, partner, SendTo(partner, other, mine[i - 1][2] - mine[i][2]),
                    Receive("add", partner, mine[i][1], mine[i][2]))
      double(i) ==
        LET partner == Partner(r, 2 ^ (i - 1))
            myCount == mine[k][2] * 2 ^ (i - 1)
        IN Exchange(r, partner, SendTo(partner, offset[i - 1], myCount),
                    Receive("set", partner, IF r < partner THEN offset[i - 1] + myCount ELSE offset[i], myCount))
  IN FlattenSeq([i \in 1..k |-> halve(i)]) \o FlattenSeq([i \in 1..k |-> double(i)])

HalvingDoubling(r, p, count) == IF IsPowerOfTwo(p) THEN Halving(r, p, count) ELSE RingAllreduce(r, p, count)

-----------------------------------------------------------------------------
(* tree_allreduce.cpp                                                      *)

ToActual(relative, root, p) == (relative + root) % p
Relative(r, root, p) == (r - root + p) % p

\* A rank leaves the loop at its lowest bit that is set.
TreeReduce(r, p, count, root) ==
  LET rel == Relative(r, root, p)
      round(mask) ==
        IF rel % mask # 0 THEN <<>>
        ELSE IF IsSet(rel, mask) THEN <<SendTo(ToActual(rel - mask, root, p), 0, count)>>
        ELSE IF rel + mask < p THEN <<Receive("add", ToActual(rel + mask, root, p), 0, count)>>
        ELSE <<>>
  IN FlattenSeq([i \in 1..Masks(p) |-> round(2 ^ (i - 1))])

TreeBroadcast(r, p, count, root) ==
  LET rel == Relative(r, root, p)
      round(mask) ==
        IF rel < mask THEN IF rel + mask < p THEN <<SendTo(ToActual(rel + mask, root, p), 0, count)>> ELSE <<>>
        ELSE IF rel < 2 * mask THEN <<Receive("set", ToActual(rel - mask, root, p), 0, count)>>
        ELSE <<>>
  IN FlattenSeq([i \in 1..Masks(p) |-> round(2 ^ (i - 1))])

TreeAllreduce(r, p, count) == TreeReduce(r, p, count, 0) \o TreeBroadcast(r, p, count, 0)

-----------------------------------------------------------------------------
(* The calls.  Halving-doubling asks for a count that n divides; AllGather *)
(* has a whole slot for each rank.                                         *)

Allreduce == {"ring", "halving", "tree"}
Algo == Allreduce \cup {"reduce_scatter", "all_gather", "broadcast"}

Program(call, r) ==
  CASE call.algo = "ring" -> RingAllreduce(r, call.n, call.count)
    [] call.algo = "halving" -> HalvingDoubling(r, call.n, call.count)
    [] call.algo = "tree" -> TreeAllreduce(r, call.n, call.count)
    [] call.algo = "reduce_scatter" -> Ring(r, call.n, call.count, 0)
    [] call.algo = "all_gather" -> Ring(r, call.n, call.count, 1)
    [] call.algo = "broadcast" -> TreeBroadcast(r, call.n, call.count, call.root)

\* Element i of rank r's input: sums of different elements, or of different
\* ranks, or with one of them twice, are different.
Input(n, r, i) == (i + 1) * 100 ^ r

\* AllGather puts a rank's own contribution in slot (rank + 1) % n.
StartBuf(call, r) ==
  [i \in 0..call.count - 1 |->
     IF call.algo = "all_gather" /\ i \div (call.count \div call.n) # (r + 1) % call.n THEN 0 ELSE Input(call.n, r, i)]

Called(algo, n, count, root, buffer) ==
  LET call == [algo |-> algo, n |-> n, count |-> count, root |-> root]
  IN [algo |-> algo, n |-> n, count |-> count, root |-> root, buffer |-> buffer,
      todo |-> [r \in 0..n - 1 |-> Program(call, r)], sending |-> [r \in 0..n - 1 |-> FALSE],
      buf |-> [r \in 0..n - 1 |-> StartBuf(call, r)], chan |-> [r \in 0..n - 1 |-> [s \in 0..n - 1 |-> <<>>]]]
CollectivesInit ==
  \E algo \in Algo, n \in Worlds, count \in Counts, buffer \in SocketBuffers :
    \E root \in IF algo = "broadcast" THEN 0..n - 1 ELSE {0} :
      /\ algo \in {"halving", "all_gather"} => count % n = 0
      /\ cl = Called(algo, n, count, root, buffer)

Finished(r) == cl.todo[r] = <<>>
Op(r) == Head(cl.todo[r])

ChannelSend(r) ==
  /\ ~Finished(r) /\ Op(r).do = "send" /\ ~cl.sending[r]
  /\ cl' = [cl EXCEPT !.sending[r] = TRUE,
              !.chan[r][Op(r).peer] = @ \o [i \in 1..Op(r).size |-> cl.buf[r][Op(r).start + i - 1]]]

SendReturns(r) ==
  /\ cl.sending[r] /\ Len(cl.chan[r][Op(r).peer]) <= cl.buffer
  /\ cl' = [cl EXCEPT !.sending[r] = FALSE, !.todo[r] = Tail(@)]

ChannelRecv(r) ==
  /\ ~Finished(r) /\ Op(r).do # "send" /\ Len(cl.chan[Op(r).peer][r]) >= Op(r).size
  /\ LET op == Op(r)
         got == cl.chan[op.peer][r]
     IN cl' = [cl EXCEPT !.todo[r] = Tail(@), !.chan[op.peer][r] = SubSeq(@, op.size + 1, Len(@)),
                 !.buf[r] = [i \in DOMAIN @ |->
                               IF i \notin op.start..op.start + op.size - 1 THEN @[i]
                               ELSE (IF op.do = "add" THEN @[i] ELSE 0) + got[i - op.start + 1]]]

RankStep(r) == ChannelSend(r) \/ SendReturns(r) \/ ChannelRecv(r)
CollectivesNext == \E r \in World : RankStep(r)

CollectivesSpec == CollectivesInit /\ [][CollectivesNext]_cl

-----------------------------------------------------------------------------
SumOver(n, i) == LET sum[r \in 0..n] == IF r = 0 THEN 0 ELSE Input(n, r - 1, i) + sum[r - 1] IN sum[n]

\* What each element of a rank's buffer must be in the end.
Wanted(r, i) ==
  CASE cl.algo \in Allreduce -> SumOver(cl.n, i)
    [] cl.algo = "broadcast" -> Input(cl.n, cl.root, i)
    [] cl.algo = "all_gather" -> Input(cl.n, ((i \div (cl.count \div cl.n)) - 1 + cl.n) % cl.n, i)
    [] cl.algo = "reduce_scatter" ->
         LET own == (r + 1) % cl.n
         IN IF i \in ChunkStart(own, cl.n, cl.count)..ChunkStart(own, cl.n, cl.count) + ChunkSize(own, cl.n, cl.count) - 1
            THEN SumOver(cl.n, i) ELSE cl.buf[r][i]

\* A rank whose call has returned has the result, whatever the others do:
\* every element summed over all ranks, each counted once, also when the count
\* is no multiple of the world size and when that is not a power of two.  And
\* while a call has not returned some rank can go on: however little the
\* sockets hold, no ranks wait for each other to read or to send.  (The
\* programs have no loops, so every call returns.)
CollectiveCompletes ==
  \A r \in World : IF Finished(r) THEN \A i \in 0..cl.count - 1 : cl.buf[r][i] = Wanted(r, i)
                   ELSE ENABLED CollectivesNext
=============================================================================
