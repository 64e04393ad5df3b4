----------------------------- MODULE VertexProgram -----------------------------
(***************************************************************************)
(* TGNVertexProgram (src/src/tgn_twophase.hpp): the phases of one vertex,  *)
(* on arrays, feeders and an adder tree that it does not own.              *)
(*                                                                         *)
(* The sixteen vaults move in step, so one vector stands for all of them.  *)
(* A vector is followed by the data it is made of: nothing (Zero), column  *)
(* c of the message of vertex v, <<v, c>>, or a mixture (what Plus makes   *)
(* of different ones).  A hidden state is the vertex it belongs to, or 0.  *)
(***************************************************************************)
EXTENDS Psau

CONSTANTS
  kDimension,   \* 16
  kPSAUDepth,   \* 4
  MaxVertices   \* bound: vertices started

ASSUME VertexAssumption ==
  /\ kDimension \in Nat \ {0} /\ kPSAUDepth \in Nat /\ MaxVertices \in Nat \ {0}
  /\ (1 .. MaxVertices) \X (0 .. kDimension) \subseteq Value

VARIABLES
  phase,               \* phase_
  vertex,              \* cfg_: the vertex started last, 0 before the first
  compute_cycles,      \* compute_cycles_
  psau_flush_count,    \* psau_flush_count_
  partial_sum_inputs,  \* partial_sum_inputs_
  aggregated_message,  \* aggregated_message_
  prev_hidden_state,   \* prev_hidden_state_
  h_load_done,         \* h_load_done_
  writeback_ready,     \* writeback_ready_
  array_age            \* array ticks since the gathered vectors were pushed

programVars ==
  <<phase, vertex, compute_cycles, psau_flush_count, partial_sum_inputs,
    aggregated_message, prev_hidden_state, h_load_done, writeback_ready>>

Phases ==
  {"IDLE", "GEN_UPDATE_GATHER", "GEN_UPDATE_COMPUTE", "GEN_UPDATE_PSAU_DRAIN",
   "APPLY_UPDATE_LOAD_H", "APPLY_UPDATE_GRU", "WRITEBACK", "DONE"}

Resting == phase \in {"IDLE", "DONE"}

(* All sixteen vaults deliver the same.                                    *)
EveryVault(vec) == [v \in 0 .. kNumVPUs - 1 |-> vec]

-----------------------------------------------------------------------------
(* The arrays.  Column c of the product of a vector that was pushed into   *)
(* an empty feeder leaves the array kDimension + c + 1 ticks later, and    *)
(* only then (Wavefront, OutputsOnTime).                                   *)

Flushed == 2 * kDimension + 1

Older(age) == IF age = Flushed THEN Flushed ELSE age + 1

(* What the bottom row shows after the tick that makes the vectors `age'.  *)
BottomRow(age) ==
  IF age \in kDimension + 1 .. 2 * kDimension THEN <<vertex, age - kDimension - 1>> ELSE Zero

-----------------------------------------------------------------------------
VertexInit ==
  /\ phase = "IDLE" /\ vertex = 0
  /\ compute_cycles = 0 /\ psau_flush_count = 0
  /\ partial_sum_inputs = EveryVault(Zero)
  /\ aggregated_message = Zero /\ prev_hidden_state = 0
  /\ h_load_done = FALSE /\ writeback_ready = FALSE
  /\ array_age = Flushed

(* start_vertex: the partial sums of the last vertex stay where they are.  *)
start_vertex(v) ==
  /\ vertex' = v
  /\ phase' = "GEN_UPDATE_GATHER"
  /\ compute_cycles' = 0 /\ psau_flush_count' = 0
  /\ aggregated_message' = Zero /\ prev_hidden_state' = 0
  /\ h_load_done' = FALSE /\ writeback_ready' = FALSE
  /\ UNCHANGED <<partial_sum_inputs, array_age, psauVars>>

(* Mutant: the callback delivers the payload and does not say so.          *)
load_h_callback_silent(v) ==
  /\ prev_hidden_state' = v
  /\ UNCHANGED h_load_done

(* What make_load_h_callback() returns, called with the state of v.        *)
load_h_callback(v) == prev_hidden_state' = v /\ h_load_done' = TRUE

(* tick_gen_update_gather: while some vault gathers, nothing else happens; *)
(* then the gathered vectors go into the feeders.                          *)
GatherWaits ==
  /\ phase = "GEN_UPDATE_GATHER"
  /\ UNCHANGED <<programVars, array_age, psauVars>>

GatherDone ==
  /\ phase = "GEN_UPDATE_GATHER"
  /\ array_age' = 0
  /\ compute_cycles' = 0
  /\ phase' = "GEN_UPDATE_COMPUTE"
  /\ UNCHANGED <<vertex, psau_flush_count, partial_sum_inputs, aggregated_message,
                 prev_hidden_state, h_load_done, writeback_ready, psauVars>>

(* Mutant: one tick too many.                                              *)
WavefrontThrough_late(cycles) == cycles > kDimension

WavefrontThrough(cycles) == cycles >= kDimension

(* tick_gen_update_compute: the arrays are ticked and what comes out of    *)
(* them is dropped; the inputs of the reduction are the outputs that the   *)
(* loop saw on the last of kDimension cycles.                              *)
tick_gen_update_compute(sa_outputs) ==
  /\ phase = "GEN_UPDATE_COMPUTE"
  /\ compute_cycles' = compute_cycles + 1
  /\ array_age' = Older(array_age)
  /\ IF WavefrontThrough(compute_cycles')
       THEN /\ partial_sum_inputs' = sa_outputs
            /\ psau_flush_count' = 0
            /\ phase' = "GEN_UPDATE_PSAU_DRAIN"
       ELSE UNCHANGED <<partial_sum_inputs, psau_flush_count, phase>>
  /\ UNCHANGED <<vertex, aggregated_message, prev_hidden_state, h_load_done,
                 writeback_ready, psauVars>>

(* tick_psau_drain: the tree is ticked once more in this cycle.  Either a  *)
(* valid output or the safety valve ends the phase.                        *)
tick_psau_drain ==
  /\ phase = "GEN_UPDATE_PSAU_DRAIN"
  /\ psau_tick(partial_sum_inputs, psau_flush_count = 0)
  /\ psau_flush_count' = psau_flush_count + 1
  /\ IF output_valid' \/ psau_flush_count' > kPSAUDepth + 2
       THEN /\ aggregated_message' = final_result'
            /\ h_load_done' = FALSE
            /\ phase' = "APPLY_UPDATE_LOAD_H"
       ELSE UNCHANGED <<aggregated_message, h_load_done, phase>>
  /\ UNCHANGED <<vertex, compute_cycles, partial_sum_inputs, prev_hidden_state,
                 writeback_ready, array_age>>

(* Mutant: the previous state is not waited for.                           *)
HiddenLoaded_assumed == TRUE

HiddenLoaded == h_load_done

(* tick_load_hidden_state: the cells start, and their first load_weights   *)
(* clears what is left in the arrays.                                      *)
tick_load_hidden_state ==
  /\ phase = "APPLY_UPDATE_LOAD_H"
  /\ IF HiddenLoaded
       THEN phase' = "APPLY_UPDATE_GRU" /\ array_age' = Flushed
       ELSE UNCHANGED <<phase, array_age>>
  /\ UNCHANGED <<vertex, compute_cycles, psau_flush_count, partial_sum_inputs,
                 aggregated_message, prev_hidden_state, h_load_done, writeback_ready,
                 psauVars>>

(* tick_gru: until the cell of every vault is done.                        *)
GruRuns ==
  /\ phase = "APPLY_UPDATE_GRU"
  /\ UNCHANGED <<programVars, array_age, psauVars>>

GruDone ==
  /\ phase = "APPLY_UPDATE_GRU"
  /\ phase' = "WRITEBACK"
  /\ UNCHANGED <<vertex, compute_cycles, psau_flush_count, partial_sum_inputs,
                 aggregated_message, prev_hidden_state, h_load_done, writeback_ready,
                 array_age, psauVars>>

tick_writeback ==
  /\ phase = "WRITEBACK"
  /\ writeback_ready' = TRUE
  /\ phase' = "DONE"
  /\ UNCHANGED <<vertex, compute_cycles, psau_flush_count, partial_sum_inputs,
                 aggregated_message, prev_hidden_state, h_load_done, array_age, psauVars>>

Rest == Resting /\ UNCHANGED <<programVars, array_age, psauVars>>

(* TGNVertexProgram::tick.                                                 *)
tick(sa_outputs) ==
  \/ Rest
  \/ GatherWaits \/ GatherDone
  \/ tick_gen_update_compute(sa_outputs)
  \/ tick_psau_drain
  \/ tick_load_hidden_state
  \/ GruRuns \/ GruDone
  \/ tick_writeback

-----------------------------------------------------------------------------
VertexTypeOK ==
  /\ phase \in Phases /\ vertex \in 0 .. MaxVertices
  /\ compute_cycles \in 0 .. kDimension
  /\ psau_flush_count \in 0 .. kPSAUDepth + 3
  /\ partial_sum_inputs \in [0 .. kNumVPUs - 1 -> Value]
  /\ aggregated_message \in Value
  /\ prev_hidden_state \in 0 .. MaxVertices
  /\ h_load_done \in BOOLEAN /\ writeback_ready \in BOOLEAN
  /\ array_age \in 0 .. Flushed
=============================================================================
