----------------------------- MODULE MCLockFree -----------------------------
(* Lock-free structures of foundation/, those with safe reclamation by     *)
(* hazard pointers or RCU apart (MCReclaim), one at a time: the initial    *)
(* state picks one, and the variables of the others rest.                  *)
EXTENDS Mpmc, Spsc, ChaseLev, FreeList, Epoch, TLC

VARIABLE structure

LockFreeInit ==
  /\ structure \in {"mpmc", "spsc", "chase_lev", "freelist", "epoch_stack"}
  /\ MpmcInit /\ SpscInit /\ ChaseLevInit /\ FreeListInit /\ Init

LockFreeNext ==
  /\ UNCHANGED structure
  /\ \/ structure = "mpmc" /\ MpmcNext /\ UNCHANGED <<spVars, clVars, flVars, vars>>
     \/ structure = "spsc" /\ SpscNext /\ UNCHANGED <<mpVars, clVars, flVars, vars>>
     \/ structure = "chase_lev" /\ ChaseLevNext /\ UNCHANGED <<mpVars, spVars, flVars, vars>>
     \/ structure = "freelist" /\ FreeListNext /\ UNCHANGED <<mpVars, spVars, clVars, vars>>
     \/ structure = "epoch_stack" /\ Next /\ UNCHANGED <<mpVars, spVars, clVars, flVars>>

LockFreeSpec == LockFreeInit /\ [][LockFreeNext]_<<structure, mpVars, spVars, clVars, flVars, vars>>

\* Threads t1 and t2, and the two values or nodes.
LockFreeSymmetry == Permutations(Thread) \cup Permutations(Value)
=============================================================================
