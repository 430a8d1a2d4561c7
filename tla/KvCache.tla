------------------------------ MODULE KvCache ------------------------------
(***************************************************************************)
(* inference_serving/paged_kv: BlockAllocator and PagedKVCache, the map    *)
(* from the blocks of each sequence to physical blocks.                    *)
(***************************************************************************)
EXTENDS Integers, Sequences

CONSTANTS
  SeqId,       \* sequence ids
  MaxBlocks,   \* max_blocks
  BlockSize    \* block_size

ASSUME KvAssumption == MaxBlocks \in Nat /\ BlockSize \in Nat \ {0}

Block == 0..MaxBlocks - 1

VARIABLES
  free_list,   \* allocate() takes the last
  tables,      \* physical_blocks of each sequence; <<>> when it has no entry
  seq_len      \* tokens of each sequence

kvVars == <<free_list, tables, seq_len>>

KvInit ==
  /\ free_list = [i \in 1..MaxBlocks |-> MaxBlocks - i]
  /\ tables = [s \in SeqId |-> <<>>]
  /\ seq_len = [s \in SeqId |-> 0]

NeedsBlock(s) == tables[s] = <<>> \/ seq_len[s] % BlockSize = 0

\* append_token: within the last block, or in a new one.
AppendInBlock(s) ==
  /\ ~NeedsBlock(s)
  /\ seq_len' = [seq_len EXCEPT ![s] = @ + 1]
  /\ UNCHANGED <<free_list, tables>>

\* With no block left append_token returns false and changes nothing.
AppendNewBlock(s) ==
  /\ NeedsBlock(s) /\ free_list # <<>>
  /\ tables' = [tables EXCEPT ![s] = Append(@, free_list[Len(free_list)])]
  /\ free_list' = SubSeq(free_list, 1, Len(free_list) - 1)
  /\ seq_len' = [seq_len EXCEPT ![s] = @ + 1]

BugFreeSequence(s) ==
  /\ tables[s] # <<>>
  /\ free_list' = free_list \o tables[s]
  /\ tables' = [tables EXCEPT ![s] = <<>>]
  /\ UNCHANGED seq_len
FreeSequence(s) ==
  /\ tables[s] # <<>>
  /\ free_list' = free_list \o tables[s]
  /\ tables' = [tables EXCEPT ![s] = <<>>]
  /\ seq_len' = [seq_len EXCEPT ![s] = 0]

KvNext == \E s \in SeqId : AppendInBlock(s) \/ AppendNewBlock(s) \/ FreeSequence(s)
KvSpec == KvInit /\ [][KvNext]_kvVars

-----------------------------------------------------------------------------
Distinct(seq) == \A i, j \in DOMAIN seq : seq[i] = seq[j] => i = j

\* No physical block is in two sequences, twice in one, or free and in use.
BlocksExclusive ==
  /\ Distinct(free_list)
  /\ \A s \in SeqId : Distinct(tables[s])
  /\ \A s \in SeqId : \A i \in DOMAIN tables[s], j \in DOMAIN free_list : tables[s][i] # free_list[j]
  /\ \A s, u \in SeqId : s # u => \A i \in DOMAIN tables[s], j \in DOMAIN tables[u] : tables[s][i] # tables[u][j]

\* A sequence holds exactly the blocks its tokens need: the block of every
\* token exists, and no sequence keeps one it does not use.
BlocksFitTokens ==
  \A s \in SeqId : /\ (Len(tables[s]) - 1) * BlockSize < seq_len[s]
                   /\ seq_len[s] <= Len(tables[s]) * BlockSize

\* No block is lost: each one is free or in a table.
BlocksAccounted ==
  \A b \in Block : \/ \E j \in DOMAIN free_list : free_list[j] = b
                   \/ \E s \in SeqId : \E i \in DOMAIN tables[s] : tables[s][i] = b

\* The block tables are right after any calls, refused appends included: a
\* block has one place, no block is lost, and a sequence has what it needs.
BlocksConserved == BlocksExclusive /\ BlocksAccounted /\ BlocksFitTokens
=============================================================================
