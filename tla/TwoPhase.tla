-------------------------------- MODULE TwoPhase --------------------------------
(***************************************************************************)
(* The vertex program inside the simulator loop                            *)
(* (src/src/ramulator_hbm.cpp:66-188): every cycle ticks the router, the   *)
(* arrays and the adder tree, then the vertex program, which ticks arrays  *)
(* and tree again, then issues the vertex's own bursts, then ticks the     *)
(* memory system.                                                          *)
(*                                                                         *)
(* The caller starts a vertex only when the last one is done.  A run may   *)
(* be cut off by its cycle limit and be followed by another one.           *)
(***************************************************************************)
EXTENDS VertexProgram

CONSTANT
  MaxCutoffs      \* bound: runs cut off by their cycle limit

ASSUME LoopAssumption == MaxCutoffs \in Nat

VARIABLES
  cores_attached,   \* vpus_[i] != nullptr: the loop ticks the arrays
  stage,            \* where the loop is in its cycle
  tree_inputs,      \* tree_inputs of this cycle
  load_h_issued,    \* load_h_issued, local to run()
  router_reads,     \* hidden-state reads in the router: <<vertex, run>>
  memory_reads,     \* hidden-state reads in the ports or the memory system
  loads,            \* history: hidden-state reads of each vertex in each run, two for more
  written,          \* history: writebacks of each vertex, two for more
  cutoffs           \* runs cut off

loopVars ==
  <<cores_attached, stage, tree_inputs, load_h_issued, router_reads, memory_reads,
    loads, written, cutoffs>>
vars == <<programVars, array_age, psauVars, loopVars>>

Vertex == 1 .. MaxVertices
Visit == Vertex \X (0 .. MaxCutoffs)   \* a vertex in a run

Init ==
  /\ PsauInit /\ VertexInit
  /\ cores_attached \in BOOLEAN
  /\ stage = "outside"
  /\ tree_inputs = EveryVault(Zero)
  /\ load_h_issued = FALSE
  /\ router_reads = {} /\ memory_reads = {}
  /\ loads = [visit \in Visit |-> 0] /\ written = [v \in Vertex |-> 0]
  /\ cutoffs = 0

-----------------------------------------------------------------------------
(* Between runs.                                                           *)

StartVertex ==
  /\ stage = "outside" /\ Resting /\ vertex < MaxVertices
  /\ start_vertex(vertex + 1)
  /\ UNCHANGED loopVars

Run ==
  /\ stage = "outside"
  /\ stage' = "test"
  /\ load_h_issued' = FALSE
  /\ UNCHANGED <<programVars, array_age, psauVars, cores_attached, tree_inputs,
                 router_reads, memory_reads, loads, written, cutoffs>>

-----------------------------------------------------------------------------
(* One cycle.                                                              *)

(* has_work(): the program keeps the loop going until it is done, and then *)
(* bursts in the ports and requests of this run in the memory system do,   *)
(* which may be those of others (a free choice, as they are not modelled). *)
KeepRunning ==
  /\ stage = "test"
  /\ stage' = "router"
  /\ UNCHANGED <<programVars, array_age, psauVars, cores_attached, tree_inputs,
                 load_h_issued, router_reads, memory_reads, loads, written, cutoffs>>

Return ==
  /\ stage = "test" /\ phase = "DONE"
  /\ \A read \in memory_reads : read[2] < cutoffs
  /\ stage' = "outside"
  /\ UNCHANGED <<programVars, array_age, psauVars, cores_attached, tree_inputs,
                 load_h_issued, router_reads, memory_reads, loads, written, cutoffs>>

(* The cycle limit.                                                        *)
CutOff ==
  /\ stage = "test" /\ cutoffs < MaxCutoffs
  /\ stage' = "outside" /\ cutoffs' = cutoffs + 1
  /\ UNCHANGED <<programVars, array_age, psauVars, cores_attached, tree_inputs,
                 load_h_issued, router_reads, memory_reads, loads, written>>

(* router_->tick(): a read in the router is forwarded when its turn comes  *)
(* and the credit pays for it.                                             *)
RouterForwards ==
  /\ stage = "router" /\ router_reads # {}
  /\ \E read \in router_reads :
       /\ router_reads' = router_reads \ {read}
       /\ memory_reads' = memory_reads \union {read}
  /\ stage' = "units"
  /\ UNCHANGED <<programVars, array_age, psauVars, cores_attached, tree_inputs,
                 load_h_issued, loads, written, cutoffs>>

RouterHolds ==
  /\ stage = "router"
  /\ stage' = "units"
  /\ UNCHANGED <<programVars, array_age, psauVars, cores_attached, tree_inputs,
                 load_h_issued, router_reads, memory_reads, loads, written, cutoffs>>

(* What the loop finds in the bottom row: the vertex program's product, or *)
(* something of the gates that the GRU cells compute on the same array.    *)
(* Either may be so small that it counts as zero.                          *)
Outputs ==
  IF ~ cores_attached THEN {Zero}
  ELSE IF phase = "APPLY_UPDATE_GRU" THEN {Zero, <<vertex, kDimension>>}
  ELSE {Zero, BottomRow(Older(array_age))}

UnitsTick ==
  /\ stage = "units"
  /\ \E out \in Outputs :
       /\ tree_inputs' = EveryVault(out)
       /\ psau_tick(tree_inputs', out # Zero)
  /\ array_age' = IF cores_attached THEN Older(array_age) ELSE array_age
  /\ stage' = "program"
  /\ UNCHANGED <<programVars, cores_attached, load_h_issued, router_reads, memory_reads,
                 loads, written, cutoffs>>

ProgramTick ==
  /\ stage = "program"
  /\ tick(tree_inputs)
  /\ stage' = "issue"
  /\ UNCHANGED <<cores_attached, tree_inputs, load_h_issued, router_reads, memory_reads,
                 loads, written, cutoffs>>

(* Mutant: the flag is not looked at.                                      *)
LoadDue_always == phase = "APPLY_UPDATE_LOAD_H"

LoadDue == phase = "APPLY_UPDATE_LOAD_H" /\ ~ load_h_issued

(* A history tells once from more than once.                               *)
Counted(n) == IF n < 2 THEN n + 1 ELSE 2

(* The hidden-state read, and the writeback for as long as the program     *)
(* says that it is ready.                                                  *)
Issue ==
  /\ stage = "issue"
  /\ IF LoadDue
       THEN /\ router_reads' = router_reads \union {<<vertex, cutoffs>>}
            /\ loads' = [loads EXCEPT ![<<vertex, cutoffs>>] = Counted(@)]
       ELSE UNCHANGED <<router_reads, loads>>
  /\ load_h_issued' = ((load_h_issued \/ LoadDue) /\ ~ writeback_ready)
  /\ written' = IF writeback_ready THEN [written EXCEPT ![vertex] = Counted(@)] ELSE written
  /\ stage' = "memory"
  /\ UNCHANGED <<programVars, array_age, psauVars, cores_attached, tree_inputs,
                 memory_reads, cutoffs>>

(* memory_system_->tick(): a read completes, or none does.                 *)
MemoryReplies ==
  /\ stage = "memory"
  /\ \E read \in memory_reads :
       /\ memory_reads' = memory_reads \ {read}
       /\ load_h_callback(read[1])
  /\ stage' = "test"
  /\ UNCHANGED <<phase, vertex, compute_cycles, psau_flush_count, partial_sum_inputs,
                 aggregated_message, writeback_ready, array_age, psauVars, cores_attached,
                 tree_inputs, load_h_issued, router_reads, loads, written, cutoffs>>

MemoryWaits ==
  /\ stage = "memory"
  /\ stage' = "test"
  /\ UNCHANGED <<programVars, array_age, psauVars, cores_attached, tree_inputs,
                 load_h_issued, router_reads, memory_reads, loads, written, cutoffs>>

Cycle ==
  \/ KeepRunning \/ Return
  \/ RouterForwards \/ RouterHolds
  \/ UnitsTick \/ ProgramTick \/ Issue
  \/ MemoryReplies \/ MemoryWaits

Next == StartVertex \/ Run \/ CutOff \/ Cycle

Spec == Init /\ [][Next]_vars

(* The loop goes on until its condition fails; gathering and the GRU cells *)
(* come to an end (BatchCompletes, EveryStartFinishes), and the router and *)
(* the memory system serve every read (EveryRequestForwarded).             *)
Fairness ==
  /\ WF_vars(Cycle)
  /\ SF_vars(ProgramTick /\ GatherDone) /\ SF_vars(ProgramTick /\ GruDone)
  /\ SF_vars(RouterForwards) /\ SF_vars(MemoryReplies)

FairSpec == Spec /\ Fairness

-----------------------------------------------------------------------------
(* Types; the drain phase ends by its safety valve at the latest.          *)
TypeOK ==
  /\ PsauTypeOK /\ VertexTypeOK
  /\ cores_attached \in BOOLEAN
  /\ stage \in {"outside", "test", "router", "units", "program", "issue", "memory"}
  /\ tree_inputs \in [0 .. kNumVPUs - 1 -> Value]
  /\ load_h_issued \in BOOLEAN
  /\ router_reads \subseteq Visit /\ memory_reads \subseteq Visit
  /\ loads \in [Visit -> 0 .. 2] /\ written \in [Vertex -> 0 .. 2]
  /\ cutoffs \in 0 .. MaxCutoffs

(* In the second phase the aggregated message is made of data of the       *)
(* vertex itself, whoever ticked the tree and whatever was still in it:    *)
(* nothing of an earlier vertex, of its gates, or mixed.                   *)
MessageIsOwn ==
  phase \in {"APPLY_UPDATE_LOAD_H", "APPLY_UPDATE_GRU", "WRITEBACK", "DONE"} =>
    aggregated_message \in {Zero} \union ({vertex} \X (0 .. kDimension - 1))

(* Unless a run was cut off, the state that the GRU cells start from is    *)
(* that of the vertex itself.                                              *)
HiddenIsOwn ==
  cutoffs = 0 /\ phase \in {"APPLY_UPDATE_GRU", "WRITEBACK", "DONE"} =>
    prev_hidden_state = vertex

(* In one run the hidden state of a vertex is read at most once, although  *)
(* the loop looks at the phase in every cycle and clears the flag in every *)
(* cycle after a writeback (ramulator_hbm.cpp:134-137, 164).  Over several *)
(* runs "once per vertex" (:136-137) is not kept: the flag is the run's.   *)
LoadedOnce == \A visit \in Visit : loads[visit] <= 1

(* The safety valve of the drain phase is never what ends it: although the *)
(* loop takes every other result of the tree, the vertex program meets a   *)
(* valid one itself.                                                       *)
ValveUnused ==
  [][phase = "GEN_UPDATE_PSAU_DRAIN" /\ phase' = "APPLY_UPDATE_LOAD_H" => output_valid']_vars

(* Every vertex whose run is not cut off is finished.                      *)
EveryVertexFinishes == ~ Resting /\ stage # "outside" ~> phase = "DONE" \/ stage = "outside"

(* A vertex is written back once (tests/tgn_test.cpp:190-197).             *)
WrittenOnce == \A v \in Vertex : written[v] <= 1
=============================================================================
