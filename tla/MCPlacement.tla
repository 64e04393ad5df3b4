------------------------------ MODULE MCPlacement ------------------------------
EXTENDS Placement

(* One or two reads of one or two lines (a line is 64 bytes); two of the   *)
(* largest fill a region of 256 bytes exactly.                             *)
MCBurstsPerPc == {1, 2}
MCBurstBytes == {64, 128}

(* Every dimension and chunk size of four bits, those that wrap around     *)
(* included, and thresholds below, between and above.                      *)
MCConfigs ==
  [num_vaults : {0, 1, 3, 4}, feature_dim : 0 .. 15, chunk_size : 0 .. 15,
   hybrid_threshold_dim : {0, 5}]
=============================================================================
