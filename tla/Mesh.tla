-------------------------------- MODULE Mesh --------------------------------
(***************************************************************************)
(* networking/common/channel.cpp: the constructor of TcpChannel, run by    *)
(* every rank at once.  A rank listens, accepts one connection from each   *)
(* higher rank and learns who it is from the first bytes, closes the       *)
(* listening socket and then dials every lower rank in turn, trying again  *)
(* while the other does not listen.                                        *)
(***************************************************************************)
EXTENDS Integers, Sequences, FiniteSets

CONSTANT MeshSize   \* world_size

ASSUME MeshAssumption == MeshSize \in Nat \ {0}

Rank == 0..MeshSize - 1
NoRank == MeshSize

VARIABLE
  me   \* pc: of each rank; listening; backlog: the ranks that have connected
       \* and are not accepted; said: the ranks that have sent their number to
       \* this one; taken: the connection being accepted; dial: j in the
       \* constructor; fds: the rank at the other end

MeshInit ==
  me = [pc |-> [r \in Rank |-> "listen"], listening |-> [r \in Rank |-> FALSE],
        backlog |-> [r \in Rank |-> <<>>], said |-> [r \in Rank |-> {}],
        taken |-> [r \in Rank |-> NoRank], accepted |-> [r \in Rank |-> 0],
        dial |-> [r \in Rank |-> 0], fds |-> [r \in Rank |-> [p \in Rank |-> NoRank]]]

Listen(r) ==
  /\ me.pc[r] = "listen"
  /\ me' = [me EXCEPT !.listening[r] = TRUE, !.pc[r] = "accept"]

-----------------------------------------------------------------------------
(* acceptFromHigherRanks                                                   *)

Accept(r) ==
  /\ me.pc[r] = "accept" /\ me.accepted[r] < MeshSize - 1 - r /\ me.backlog[r] # <<>>
  /\ me' = [me EXCEPT !.taken[r] = Head(me.backlog[r]), !.backlog[r] = Tail(@), !.pc[r] = "recv"]

BugReceiveRank(r) ==
  /\ me.pc[r] = "recv" /\ me.taken[r] \in me.said[r]
  /\ me' = [me EXCEPT !.fds[r][r + 1 + me.accepted[r]] = me.taken[r], !.accepted[r] = @ + 1, !.pc[r] = "accept"]
\* recvAll of the peer's rank; it names the entry of fds_.
ReceiveRank(r) ==
  /\ me.pc[r] = "recv" /\ me.taken[r] \in me.said[r]
  /\ me' = [me EXCEPT !.fds[r][me.taken[r]] = me.taken[r], !.accepted[r] = @ + 1, !.pc[r] = "accept"]

CloseListener(r) ==
  /\ me.pc[r] = "accept" /\ me.accepted[r] = MeshSize - 1 - r
  /\ me' = [me EXCEPT !.listening[r] = FALSE, !.pc[r] = IF r = 0 THEN "built" ELSE "connect"]

-----------------------------------------------------------------------------
(* connectWithRetry, and sendAll of the rank                               *)

Connect(r) ==
  LET peer == me.dial[r]
  IN /\ me.pc[r] = "connect" /\ me.listening[peer]
     /\ me' = [me EXCEPT !.backlog[peer] = Append(@, r), !.pc[r] = "send"]

SendRank(r) ==
  LET peer == me.dial[r]
  IN /\ me.pc[r] = "send"
     /\ me' = [me EXCEPT !.said[peer] = @ \cup {r}, !.fds[r][peer] = peer, !.dial[r] = @ + 1,
                         !.pc[r] = IF peer + 1 = r THEN "built" ELSE "connect"]

MeshStep(r) ==
  Listen(r) \/ Accept(r) \/ ReceiveRank(r) \/ CloseListener(r) \/ Connect(r) \/ SendRank(r)
MeshNext == \E r \in Rank : MeshStep(r)

MeshSpec == MeshInit /\ [][MeshNext]_me

-----------------------------------------------------------------------------

\* In a mesh that is built a socket in fds_[p] leads to rank p, although
\* accept() gives the connections in the order in which they were made.  While
\* a constructor has not returned some rank can go on (if a dial finds its
\* listener before 2000 attempts): no ring of ranks waits for each other, and
\* nobody is dialled after closing the listening socket.
MeshCompletes ==
  \A r \in Rank : IF me.pc[r] = "built" THEN \A p \in Rank \ {r} : me.fds[r][p] = p
                  ELSE ENABLED MeshNext
=============================================================================
