-------------------------- MODULE FeaturePartitioner ---------------------------
(***************************************************************************)
(* The feature partitioner (src/src/feature_partitioner.hpp): which vault  *)
(* owns which feature dimension.  One call at a time; an iteration of the  *)
(* chunk loop is a step, in the arithmetic of uint32_t.                    *)
(***************************************************************************)
EXTENDS Integers, FiniteSets

CONSTANTS
  Word,     \* 2^32: the values of uint32_t are 0 .. Word - 1
  Configs   \* configurations a caller passes

UInt == 0 .. Word - 1

FeaturePartitionConfig ==
  [num_vaults : UInt, feature_dim : UInt, chunk_size : UInt, hybrid_threshold_dim : UInt]

ASSUME PartitionAssumption ==
  /\ Word \in Nat \ {0}
  /\ Configs \subseteq FeaturePartitionConfig

VARIABLES
  stage,     \* "idle"; "chunks", in the loop; "returned"
  out,       \* the result, as far as it has been computed
  start,     \* the loop's variables
  chunk_id

partitionVars == <<stage, out, start, chunk_id>>

Nothing == [num_vaults |-> 0, feature_dim |-> 0, chunk_size |-> 1, dim_to_vault |-> <<>>]

PartitionInit == stage = "idle" /\ out = Nothing /\ start = 0 /\ chunk_id = 0

make_row_interleaved_partition(cfg) ==
  /\ cfg.feature_dim # 0 /\ cfg.num_vaults # 0
  /\ stage' = "returned"
  /\ out' = [num_vaults |-> cfg.num_vaults, feature_dim |-> cfg.feature_dim, chunk_size |-> 1,
             dim_to_vault |-> [d \in 0 .. cfg.feature_dim - 1 |-> d % cfg.num_vaults]]
  /\ UNCHANGED <<start, chunk_id>>

make_feature_partition(cfg) ==
  /\ cfg.feature_dim # 0 /\ cfg.num_vaults # 0 /\ cfg.chunk_size # 0
  /\ stage' = "chunks"
  /\ out' = [num_vaults |-> cfg.num_vaults, feature_dim |-> cfg.feature_dim,
             chunk_size |-> cfg.chunk_size,
             dim_to_vault |-> [d \in 0 .. cfg.feature_dim - 1 |-> 0]]
  /\ start' = 0 /\ chunk_id' = 0

(* choose_partition_mode.                                                  *)
make_hybrid_partition(cfg) ==
  IF cfg.feature_dim <= cfg.hybrid_threshold_dim THEN make_row_interleaved_partition(cfg)
  ELSE make_feature_partition(cfg)

(* A call with a zero where none is allowed throws.                        *)
Call ==
  /\ stage = "idle"
  /\ \E cfg \in Configs : make_feature_partition(cfg) \/ make_hybrid_partition(cfg)

(* Mutant: the loop takes one more turn when the last chunk is full.       *)
InLoop_late == start <= out.feature_dim

InLoop == start < out.feature_dim

Least(m, n) == IF m < n THEN m ELSE n

(* Mutant: the vault is that of the dimension.                             *)
Vault_ofStart == start % out.num_vaults

(* Mutant: a vault gets all its chunks one after the other.                *)
Vault_blocks == (chunk_id \div 2) % out.num_vaults

Vault == chunk_id % out.num_vaults

AssignChunk ==
  /\ stage = "chunks" /\ InLoop
  /\ LET end == Least(out.feature_dim, (start + out.chunk_size) % Word)
     IN  out' = [out EXCEPT !.dim_to_vault =
                   [d \in DOMAIN @ |-> IF d \in start .. end - 1 THEN Vault ELSE @[d]]]
  /\ chunk_id' = (chunk_id + 1) % Word
  /\ start' = (start + out.chunk_size) % Word
  /\ UNCHANGED stage

Return ==
  /\ stage = "chunks" /\ ~ InLoop
  /\ stage' = "returned"
  /\ UNCHANGED <<out, start, chunk_id>>

(* The caller is done with the result.                                     *)
Forget ==
  /\ stage = "returned"
  /\ stage' = "idle" /\ out' = Nothing /\ start' = 0 /\ chunk_id' = 0

PartitionNext == Call \/ AssignChunk \/ Return \/ Forget

PartitionSpec == PartitionInit /\ [][PartitionNext]_partitionVars

-----------------------------------------------------------------------------
Dim == 0 .. out.feature_dim - 1

dims_per_vault(v) == Cardinality({d \in Dim : out.dim_to_vault[d] = v})

(* The end of every chunk is a number that uint32_t can hold.              *)
EndsFit ==
  \A k \in Dim : k * out.chunk_size < out.feature_dim => (k + 1) * out.chunk_size < Word

(* The result puts chunk after chunk into vault after vault, every         *)
(* dimension into the vault of its chunk, the last, shorter chunk too.     *)
RoundRobinChunks ==
  stage = "returned" /\ EndsFit =>
    \A d \in Dim : out.dim_to_vault[d] = (d \div out.chunk_size) % out.num_vaults

(* The statistics never meet a vault that does not exist (dims_per_vault   *)
(* throws then), not even when the loop's arithmetic wraps, and no vault   *)
(* owns more than one chunk more than another.                             *)
Balanced ==
  stage = "returned" =>
    /\ \A d \in Dim : out.dim_to_vault[d] \in 0 .. out.num_vaults - 1
    /\ EndsFit => \A v, w \in 0 .. out.num_vaults - 1 :
                    dims_per_vault(v) <= dims_per_vault(w) + out.chunk_size

(* A call returns, provided the end of its last chunk can be represented;  *)
(* otherwise the loop may start over for ever.                             *)
PartitionReturns == stage = "chunks" /\ EndsFit ~> stage = "returned"
=============================================================================
