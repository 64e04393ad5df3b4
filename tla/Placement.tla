------------------------------- MODULE Placement -------------------------------
(***************************************************************************)
(* What a caller decides before a run about where data are: it partitions  *)
(* the feature dimensions over the vaults (FeaturePartitioner), then loads *)
(* sequential streams into the ports (SequentialWorkload).  The two share  *)
(* no state; a call of the partitioner blocks the caller.                  *)
(***************************************************************************)
EXTENDS SequentialWorkload, FeaturePartitioner

PlacementInit == Init /\ PartitionInit

Unloaded == bypass = [p \in PC |-> 0] /\ \A p \in PC : ports[p] = <<>>

PlacementNext ==
  \/ Unloaded /\ PartitionNext /\ UNCHANGED vars
  \/ stage = "idle" /\ Next /\ UNCHANGED partitionVars

(* The loop of a call goes on.                                             *)
PlacementSpec ==
  /\ PlacementInit /\ [][PlacementNext]_<<vars, partitionVars>>
  /\ WF_partitionVars(AssignChunk \/ Return)
=============================================================================
