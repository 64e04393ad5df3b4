---------------------------- MODULE TwoPhaseProofs --------------------------
(***************************************************************************)
(* Proofs about the partial-sum accumulation unit, for any vectors and any *)
(* addition of them, and about the vertex program that shares it with the  *)
(* simulator loop, for arrays of any size, any number of vertices and any  *)
(* number of runs that are cut off.                                        *)
(***************************************************************************)
EXTENDS TwoPhase, TLAPS

-----------------------------------------------------------------------------
(* The adder tree.                                                         *)

(* Pairs of zeros add up to zeros.                                         *)
LEMMA ZerosAdd ==
  ASSUME NEW n \in {1, 2, 4, 8}
  PROVE  AddPairs(Zeros(2 * n), n) = Zeros(n)
<1>1. \A j \in 0 .. n - 1 : Zeros(2 * n)[2 * j] = Zero /\ Zeros(2 * n)[2 * j + 1] = Zero
  BY DEF Zeros
<1> QED BY <1>1, PsauAssumption DEF AddPairs, Zeros

(* An empty pipeline holds the sum of zeros in every stage.                *)
LEMMA ZeroTotals ==
  /\ Total2(Zeros(2)) = Zero /\ Total4(Zeros(4)) = Zero
  /\ Total8(Zeros(8)) = Zero /\ Total16(Zeros(16)) = Zero
<1>1. Total2(Zeros(2)) = Zero
  BY PsauAssumption DEF Total2, Zeros
<1>2. Total4(Zeros(4)) = Zero
  <2>1. AddPairs(Zeros(4), 2) = Zeros(2)
    BY ZerosAdd
  <2> QED BY <1>1, <2>1 DEF Total4
<1>3. Total8(Zeros(8)) = Zero
  <2>1. AddPairs(Zeros(8), 4) = Zeros(4)
    BY ZerosAdd
  <2> QED BY <1>2, <2>1 DEF Total8
<1>4. Total16(Zeros(16)) = Zero
  <2>1. AddPairs(Zeros(16), 8) = Zeros(8)
    BY ZerosAdd
  <2> QED BY <1>3, <2>1 DEF Total16
<1> QED BY <1>1, <1>2, <1>3, <1>4

(* Type correctness of the pipeline registers.                             *)
LEMMA PairsInValue ==
  ASSUME NEW n \in {1, 2, 4, 8}, NEW regs \in [0 .. 2 * n - 1 -> Value]
  PROVE  AddPairs(regs, n) \in [0 .. n - 1 -> Value]
<1>1. \A j \in 0 .. n - 1 : 2 * j \in 0 .. 2 * n - 1 /\ 2 * j + 1 \in 0 .. 2 * n - 1
  OBVIOUS
<1>2. \A j \in 0 .. n - 1 : Plus(regs[2 * j], regs[2 * j + 1]) \in Value
  BY <1>1, PsauAssumption
<1> QED BY <1>2 DEF AddPairs

(* A tick keeps the types of the registers.                                *)
LEMMA TreeTickType ==
  ASSUME PsauTypeOK, NEW in \in [0 .. kNumVPUs - 1 -> Value], NEW valid \in BOOLEAN,
         psau_tick(in, valid)
  PROVE  PsauTypeOK'
<1>1. in \in [0 .. 15 -> Value]
  BY DEF kNumVPUs
<1>2. stage1_regs' \in [0 .. 7 -> Value]
  BY <1>1, PairsInValue DEF psau_tick, shift_stages
<1>3. stage2_regs' \in [0 .. 3 -> Value]
  BY PairsInValue DEF PsauTypeOK, psau_tick, shift_stages
<1>4. stage3_regs' \in [0 .. 1 -> Value]
  BY PairsInValue DEF PsauTypeOK, psau_tick, shift_stages
<1>5. stage4_out' \in Value /\ final_result' \in Value
  BY PsauAssumption DEF PsauTypeOK, psau_tick, shift_stages
<1>6. valid_bits' \in [0 .. 3 -> BOOLEAN] /\ output_valid' \in BOOLEAN
  BY DEF PsauTypeOK, psau_tick
<1> QED BY <1>1, <1>2, <1>3, <1>4, <1>5, <1>6
        DEF PsauTypeOK, psau_tick, kNumVPUs

(* An empty pipeline is well typed.                                        *)
LEMMA PsauInitType == PsauInit => PsauTypeOK
<1>1. Zeros(8) \in [0 .. 7 -> Value]
  BY PsauAssumption DEF Zeros
<1>2. Zeros(4) \in [0 .. 3 -> Value] /\ Zeros(2) \in [0 .. 1 -> Value]
  BY PsauAssumption DEF Zeros
<1>3. Zeros(16) \in [0 .. 15 -> Value]
  BY PsauAssumption DEF Zeros
<1>4. [i \in 0 .. 3 |-> FALSE] \in [0 .. 3 -> BOOLEAN]
  OBVIOUS
<1>5. 0 .. kNumVPUs - 1 = 0 .. 15 /\ Zeros(kNumVPUs) = Zeros(16) /\ Zero \in Value
  BY PsauAssumption DEF kNumVPUs
<1> QED BY <1>1, <1>2, <1>3, <1>4, <1>5, Zenon DEF PsauInit, PsauTypeOK

(* The registers hold vectors, and the flags are Booleans, in every state. *)
THEOREM PsauTypeCorrect == PsauSpec => []PsauTypeOK
<1>1. PsauInit => PsauTypeOK
  BY PsauInitType
<1>2. PsauTypeOK /\ [PsauNext]_psauVars => PsauTypeOK'
  <2> SUFFICES ASSUME PsauTypeOK, [PsauNext]_psauVars
               PROVE  PsauTypeOK'
    OBVIOUS
  <2>1. CASE UNCHANGED psauVars
    BY <2>1 DEF PsauTypeOK, psauVars, stageVars
  <2> QED BY <2>1, TreeTickType DEF PsauNext
<1> QED BY <1>1, <1>2, PTL DEF PsauSpec

(* The adder tree implements the delay line: the sum of an input comes out *)
(* four ticks after it went in, with its own valid flag.                   *)
THEOREM AdderTreeDelays == PsauSpec => DelaysByFour
<1>1. PsauInit => Pipeline!Init
  <2> SUFFICES ASSUME PsauInit
               PROVE  Pipeline!Init
    OBVIOUS
  <2>1. Total16(vpu_outputs) = Zero /\ final_result = Zero
    BY ZeroTotals DEF PsauInit, kNumVPUs
  <2>2. /\ Total8(stage1_regs) = Zero /\ Total4(stage2_regs) = Zero
        /\ Total2(stage3_regs) = Zero /\ stage4_out = Zero
    BY ZeroTotals DEF PsauInit
  <2>3. \A i \in 0 .. 3 : valid_bits[i] = FALSE
    BY DEF PsauInit
  <2>4. Line = [i \in 1 .. 4 |-> [sum |-> Zero, valid |-> FALSE]]
    <3>1. ASSUME NEW i \in 1 .. 4
          PROVE  Line[i] = [sum |-> Zero, valid |-> FALSE]
      <4>1. valid_bits[i - 1] = FALSE
        BY <2>3
      <4> QED BY <2>2, <4>1 DEF Line
    <3> QED BY <3>1, Zenon DEF Line
  <2> QED BY <2>1, <2>4 DEF Pipeline!Init, Pipeline!Bubble, PsauInit
<1>2. [PsauNext]_psauVars => [Pipeline!Tick]_(Pipeline!vars)
  <2> SUFFICES ASSUME [PsauNext]_psauVars
               PROVE  [Pipeline!Tick]_(Pipeline!vars)
    OBVIOUS
  <2>1. ASSUME NEW in \in [0 .. kNumVPUs - 1 -> Value], NEW valid \in BOOLEAN, psau_tick(in, valid)
        PROVE  Pipeline!Tick
    <3>1. final_result' = Line[4].sum /\ output_valid' = Line[4].valid
      BY <2>1 DEF psau_tick, Line
    <3>2. Total8(stage1_regs') = Total16(vpu_outputs') /\ valid_bits'[0] = input_valid'
      BY <2>1 DEF psau_tick, shift_stages, Total16
    <3>3. Total4(stage2_regs') = Total8(stage1_regs) /\ valid_bits'[1] = valid_bits[0]
      BY <2>1 DEF psau_tick, shift_stages, Total8
    <3>4. Total2(stage3_regs') = Total4(stage2_regs) /\ valid_bits'[2] = valid_bits[1]
      BY <2>1 DEF psau_tick, shift_stages, Total4
    <3>5. stage4_out' = Total2(stage3_regs) /\ valid_bits'[3] = valid_bits[2]
      BY <2>1 DEF psau_tick, shift_stages, Total2
    <3>6. Line' = [i \in 1 .. 4 |->
                     IF i = 1 THEN [sum |-> Total16(vpu_outputs'), valid |-> input_valid']
                     ELSE Line[i - 1]]
      BY <3>2, <3>3, <3>4, <3>5 DEF Line
    <3> QED BY <3>1, <3>6 DEF Pipeline!Tick
  <2>2. CASE UNCHANGED psauVars
    BY <2>2 DEF Pipeline!vars, psauVars, stageVars, Line
  <2> QED BY <2>1, <2>2 DEF PsauNext
<1> QED BY <1>1, <1>2, PTL DEF PsauSpec, DelaysByFour, Pipeline!Spec

-----------------------------------------------------------------------------
(* Types of the vertex program in the loop.                                *)

(* Where the counters are in their phases; a writeback is ready only when  *)
(* the program is done, and before the first vertex nothing happens.       *)
PhaseInv ==
  /\ vertex = 0 => phase = "IDLE" /\ array_age = Flushed
  /\ phase = "GEN_UPDATE_COMPUTE" => compute_cycles < kDimension
  /\ phase = "GEN_UPDATE_PSAU_DRAIN" => psau_flush_count <= kPSAUDepth + 2
  /\ writeback_ready => phase = "DONE"

LoopTypes == TypeOK /\ PhaseInv

(* The bottom row shows a vector, and array ticks are counted up to Flushed.*)
LEMMA RowType ==
  ASSUME LoopTypes
  PROVE  /\ Flushed \in Nat /\ 0 \in 0 .. Flushed
         /\ Older(array_age) \in 0 .. Flushed
         /\ vertex = 0 => Older(array_age) = Flushed
         /\ Outputs \subseteq Value
<1>1. array_age \in 0 .. Flushed /\ Flushed \in Nat
  BY VertexAssumption DEF LoopTypes, TypeOK, VertexTypeOK, Flushed
<1>2. Older(array_age) \in 0 .. Flushed
  BY <1>1 DEF Older
<1>3. vertex = 0 => Older(array_age) = Flushed
  BY DEF LoopTypes, PhaseInv, Older
<1>4. vertex \in 0 .. MaxVertices
  BY DEF LoopTypes, TypeOK, VertexTypeOK
<1>5. Zero \in Value
  BY PsauAssumption
<1>6. \A c \in 0 .. kDimension : vertex # 0 => <<vertex, c>> \in Value
  BY <1>4, VertexAssumption
<1>7. BottomRow(Older(array_age)) \in Value
  <2>1. CASE Older(array_age) \in kDimension + 1 .. 2 * kDimension
    <3>1. Older(array_age) - kDimension - 1 \in 0 .. kDimension
      BY <2>1, VertexAssumption
    <3>2. vertex # 0
      BY <1>3, <2>1, VertexAssumption DEF Flushed
    <3> QED BY <1>6, <2>1, <3>1, <3>2 DEF BottomRow
  <2>2. CASE Older(array_age) \notin kDimension + 1 .. 2 * kDimension
    BY <1>5, <2>2 DEF BottomRow
  <2> QED BY <2>1, <2>2
<1>8. phase = "APPLY_UPDATE_GRU" => <<vertex, kDimension>> \in Value
  <2>1. phase = "APPLY_UPDATE_GRU" => vertex # 0
    BY DEF LoopTypes, PhaseInv
  <2> QED BY <1>6, <2>1, VertexAssumption
<1> QED BY <1>1, <1>2, <1>3, <1>5, <1>7, <1>8 DEF Outputs

(* Sixteen equal vectors are an input of the tree.                         *)
LEMMA VaultsType == ASSUME NEW a \in Value PROVE EveryVault(a) \in [0 .. kNumVPUs - 1 -> Value]
BY DEF EveryVault

(* The initial state.                                                      *)
LEMMA LoopTypesInit == Init => LoopTypes
<1> SUFFICES ASSUME Init PROVE LoopTypes
  OBVIOUS
<1>1. PsauTypeOK
  BY PsauInitType DEF Init
<1>2. EveryVault(Zero) \in [0 .. kNumVPUs - 1 -> Value] /\ Zero \in Value
  BY VaultsType, PsauAssumption
<1>3. VertexTypeOK
  <2>1. /\ 0 \in 0 .. MaxVertices /\ 0 \in 0 .. kDimension /\ 0 \in 0 .. kPSAUDepth + 3
        /\ Flushed \in 0 .. Flushed
    BY VertexAssumption DEF Flushed
  <2> QED BY <1>2, <2>1 DEF Init, VertexInit, VertexTypeOK, Phases
<1>4. TypeOK
  <2>1. 0 \in 0 .. MaxCutoffs /\ 0 \in 0 .. 2
    BY LoopAssumption
  <2>2. /\ [v \in Vertex |-> 0] \in [Vertex -> 0 .. 2]
        /\ {} \subseteq Vertex \X (0 .. MaxCutoffs)
    BY <2>1
  <2> QED BY <1>1, <1>2, <1>3, <2>1, <2>2 DEF Init, TypeOK
<1>5. PhaseInv
  BY DEF Init, VertexInit, PhaseInv
<1> QED BY <1>4, <1>5 DEF LoopTypes

(* A tick of the program, in every phase.                                  *)
LEMMA ProgramTypes ==
  ASSUME LoopTypes, tick(tree_inputs)
  PROVE  VertexTypeOK' /\ PhaseInv' /\ (PsauNext \/ UNCHANGED psauVars) /\ vertex' = vertex
<1> USE DEF LoopTypes
<1>0. VertexTypeOK /\ PsauTypeOK /\ tree_inputs \in [0 .. kNumVPUs - 1 -> Value]
  BY DEF TypeOK
<1>1. CASE UNCHANGED <<programVars, array_age, psauVars>>
  BY <1>0, <1>1 DEF programVars, VertexTypeOK, PhaseInv
<1>2. CASE GatherDone
  BY <1>0, <1>2, RowType, VertexAssumption DEF GatherDone, VertexTypeOK, PhaseInv, Phases
<1>3. CASE tick_gen_update_compute(tree_inputs)
  <2>1. compute_cycles \in Nat /\ compute_cycles < kDimension /\ vertex # 0
    BY <1>0, <1>3 DEF tick_gen_update_compute, PhaseInv, VertexTypeOK
  <2>2. /\ compute_cycles' = compute_cycles + 1
        /\ array_age' = Older(array_age) /\ array_age' \in 0 .. Flushed
        /\ UNCHANGED <<vertex, aggregated_message, prev_hidden_state, h_load_done,
                       writeback_ready, psauVars>>
    BY <1>3, RowType DEF tick_gen_update_compute
  <2>3. compute_cycles' \in 0 .. kDimension
    BY <2>1, <2>2, VertexAssumption
  <2>4. \/ /\ partial_sum_inputs' = tree_inputs /\ psau_flush_count' = 0
           /\ phase' = "GEN_UPDATE_PSAU_DRAIN"
        \/ /\ UNCHANGED <<partial_sum_inputs, psau_flush_count, phase>>
           /\ ~ (compute_cycles' >= kDimension)
    BY <1>3 DEF tick_gen_update_compute, WavefrontThrough
  <2>5. VertexTypeOK'
    BY <1>0, <2>2, <2>3, <2>4, VertexAssumption DEF VertexTypeOK, Phases
  <2>6. ~ writeback_ready /\ phase = "GEN_UPDATE_COMPUTE"
    BY <1>3 DEF tick_gen_update_compute, PhaseInv
  <2>7. PhaseInv'
    BY <2>1, <2>2, <2>3, <2>4, <2>6, VertexAssumption DEF PhaseInv
  <2> QED BY <2>2, <2>5, <2>7
<1>4. CASE tick_psau_drain
  <2>1. /\ psau_flush_count \in Nat /\ psau_flush_count <= kPSAUDepth + 2
        /\ vertex # 0 /\ ~ writeback_ready /\ phase = "GEN_UPDATE_PSAU_DRAIN"
    BY <1>0, <1>4 DEF tick_psau_drain, PhaseInv, VertexTypeOK
  <2>2. /\ psau_tick(partial_sum_inputs, psau_flush_count = 0)
        /\ psau_flush_count' = psau_flush_count + 1
        /\ UNCHANGED <<vertex, compute_cycles, partial_sum_inputs, prev_hidden_state,
                       writeback_ready, array_age>>
    BY <1>4 DEF tick_psau_drain
  <2>3. partial_sum_inputs \in [0 .. kNumVPUs - 1 -> Value] /\ (psau_flush_count = 0) \in BOOLEAN
    BY <1>0 DEF VertexTypeOK
  <2>4. PsauNext /\ PsauTypeOK'
    BY <1>0, <2>2, <2>3, TreeTickType DEF PsauNext
  <2>5. \/ /\ aggregated_message' = final_result' /\ h_load_done' = FALSE
           /\ phase' = "APPLY_UPDATE_LOAD_H"
        \/ /\ UNCHANGED <<aggregated_message, h_load_done, phase>>
           /\ ~ (psau_flush_count' > kPSAUDepth + 2)
    BY <1>4 DEF tick_psau_drain
  <2>6. psau_flush_count' \in 0 .. kPSAUDepth + 3 /\ final_result' \in Value
    BY <2>1, <2>2, <2>4, VertexAssumption DEF PsauTypeOK
  <2>7. VertexTypeOK'
    BY <1>0, <2>2, <2>5, <2>6 DEF VertexTypeOK, Phases
  <2>8. PhaseInv'
    BY <2>1, <2>2, <2>5, <2>6, VertexAssumption DEF PhaseInv
  <2> QED BY <2>2, <2>4, <2>7, <2>8
<1>5. CASE tick_load_hidden_state
  <2>1. Flushed \in 0 .. Flushed
    BY RowType
  <2> QED BY <1>0, <1>5, <2>1 DEF tick_load_hidden_state, VertexTypeOK, PhaseInv, Phases
<1>6. CASE GruDone
  BY <1>0, <1>6 DEF GruDone, VertexTypeOK, PhaseInv, Phases
<1>7. CASE tick_writeback
  BY <1>0, <1>7 DEF tick_writeback, VertexTypeOK, PhaseInv, Phases
<1>8. CASE Rest \/ GatherWaits \/ GruRuns
  BY <1>1, <1>8 DEF Rest, GatherWaits, GruRuns
<1> QED BY <1>2, <1>3, <1>4, <1>5, <1>6, <1>7, <1>8 DEF tick

(* Every step of the loop keeps the types, and what it does to the tree is *)
(* a tick of it.                                                           *)
LEMMA LoopTypesStep ==
  ASSUME LoopTypes, [Next]_vars
  PROVE  LoopTypes' /\ (PsauNext \/ UNCHANGED psauVars)
<1> USE DEF LoopTypes
<1>0. VertexTypeOK /\ PsauTypeOK /\ PhaseInv /\ tree_inputs \in [0 .. kNumVPUs - 1 -> Value]
  BY DEF TypeOK
<1>1. ASSUME UNCHANGED <<programVars, array_age, psauVars>>
      PROVE  VertexTypeOK' /\ PsauTypeOK' /\ PhaseInv'
  BY <1>0, <1>1 DEF programVars, psauVars, stageVars, VertexTypeOK, PsauTypeOK, PhaseInv
<1>2. CASE StartVertex
  <2>1. /\ vertex' = vertex + 1 /\ vertex < MaxVertices
        /\ phase' = "GEN_UPDATE_GATHER"
        /\ compute_cycles' = 0 /\ psau_flush_count' = 0
        /\ aggregated_message' = Zero /\ prev_hidden_state' = 0
        /\ h_load_done' = FALSE /\ writeback_ready' = FALSE
        /\ UNCHANGED <<partial_sum_inputs, array_age, psauVars, loopVars>>
    BY <1>2 DEF StartVertex, start_vertex
  <2>2. vertex' \in 1 .. MaxVertices
    BY <1>0, <2>1, VertexAssumption DEF VertexTypeOK
  <2>3. /\ 0 \in 0 .. MaxVertices /\ 0 \in 0 .. kDimension /\ 0 \in 0 .. kPSAUDepth + 3
        /\ Zero \in Value
    BY VertexAssumption, PsauAssumption
  <2>4. VertexTypeOK'
    <3>1. vertex' \in 0 .. MaxVertices /\ phase' \in Phases
      BY <2>1, <2>2, VertexAssumption DEF Phases
    <3>2. /\ compute_cycles' \in 0 .. kDimension /\ psau_flush_count' \in 0 .. kPSAUDepth + 3
          /\ aggregated_message' \in Value /\ prev_hidden_state' \in 0 .. MaxVertices
          /\ h_load_done' \in BOOLEAN /\ writeback_ready' \in BOOLEAN
      BY <2>1, <2>3
    <3>3. /\ partial_sum_inputs' \in [0 .. kNumVPUs - 1 -> Value]
          /\ array_age' \in 0 .. Flushed
      BY <1>0, <2>1 DEF VertexTypeOK
    <3> QED BY <3>1, <3>2, <3>3 DEF VertexTypeOK
  <2>5. PhaseInv'
    BY <2>1, <2>2 DEF PhaseInv
  <2>6. PsauTypeOK'
    BY <1>0, <2>1 DEF PsauTypeOK, psauVars, stageVars
  <2> QED BY <2>1, <2>4, <2>5, <2>6 DEF TypeOK, loopVars
<1>3. CASE Run \/ KeepRunning \/ Return \/ RouterHolds \/ MemoryWaits
  BY <1>1, <1>3 DEF Run, KeepRunning, Return, RouterHolds, MemoryWaits, TypeOK
<1>4. CASE CutOff
  <2>1. cutoffs' \in 0 .. MaxCutoffs
    BY <1>4, LoopAssumption DEF CutOff, TypeOK
  <2> QED BY <1>1, <1>4, <2>1 DEF CutOff, TypeOK
<1>5. CASE RouterForwards
  BY <1>1, <1>5 DEF RouterForwards, TypeOK
<1>6. CASE UnitsTick
  <2>1. PICK out \in Outputs : UnitsTick!2!(out)
    BY <1>6 DEF UnitsTick
  <2>2. EveryVault(out) \in [0 .. kNumVPUs - 1 -> Value] /\ (out # Zero) \in BOOLEAN
    BY <2>1, RowType, VaultsType
  <2>3. tree_inputs' = EveryVault(out) /\ psau_tick(EveryVault(out), out # Zero)
    BY <2>1
  <2>4. PsauNext /\ PsauTypeOK'
    BY <1>0, <2>2, <2>3, TreeTickType DEF PsauNext
  <2>5. UNCHANGED programVars /\ array_age' \in {array_age, Older(array_age)}
    BY <1>6 DEF UnitsTick
  <2>6. VertexTypeOK' /\ PhaseInv'
    BY <1>0, <2>5, RowType DEF programVars, VertexTypeOK, PhaseInv
  <2> QED BY <1>6, <2>2, <2>3, <2>4, <2>6 DEF UnitsTick, TypeOK
<1>7. CASE ProgramTick
  <2>1. tick(tree_inputs)
    BY <1>7 DEF ProgramTick
  <2>2. VertexTypeOK' /\ PhaseInv' /\ (PsauNext \/ UNCHANGED psauVars)
    BY <2>1, ProgramTypes
  <2>3. PsauTypeOK'
    <3>1. CASE PsauNext
      BY <1>0, <3>1, TreeTickType DEF PsauNext
    <3>2. CASE UNCHANGED psauVars
      BY <1>0, <3>2 DEF PsauTypeOK, psauVars, stageVars
    <3> QED BY <2>2, <3>1, <3>2
  <2> QED BY <1>7, <2>2, <2>3 DEF ProgramTick, TypeOK
<1>8. CASE Issue
  <2>1. \A n \in 0 .. 2 : Counted(n) \in 0 .. 2
    BY DEF Counted
  <2>2. LoadDue => <<vertex, cutoffs>> \in Visit
    <3>1. vertex \in 0 .. MaxVertices /\ (LoadDue => vertex # 0)
      BY <1>0 DEF LoadDue, VertexTypeOK, PhaseInv
    <3> QED BY <3>1, VertexAssumption DEF Vertex, Visit, TypeOK
  <2>3. /\ [loads EXCEPT ![<<vertex, cutoffs>>] = Counted(@)] \in [Visit -> 0 .. 2]
        /\ [written EXCEPT ![vertex] = Counted(@)] \in [Vertex -> 0 .. 2]
    BY <2>1 DEF TypeOK
  <2>4. /\ loads' \in [Visit -> 0 .. 2] /\ written' \in [Vertex -> 0 .. 2]
        /\ router_reads' \subseteq Visit
    BY <1>8, <2>2, <2>3 DEF Issue, TypeOK
  <2>5. load_h_issued' \in BOOLEAN
    BY <1>8 DEF Issue
  <2>6. /\ UNCHANGED <<programVars, array_age, psauVars, cores_attached, tree_inputs,
                       memory_reads, cutoffs>>
        /\ stage' = "memory"
    BY <1>8 DEF Issue
  <2>7. VertexTypeOK' /\ PsauTypeOK' /\ PhaseInv'
    BY <1>1, <2>6
  <2> QED BY <2>4, <2>5, <2>6, <2>7 DEF TypeOK
<1>9. CASE MemoryReplies
  <2>1. PICK read \in memory_reads :
          memory_reads' = memory_reads \ {read} /\ load_h_callback(read[1])
    BY <1>9 DEF MemoryReplies
  <2>2. read[1] \in 0 .. MaxVertices
    BY <2>1, VertexAssumption DEF TypeOK, Vertex, Visit
  <2>3. VertexTypeOK' /\ PhaseInv'
    BY <1>0, <1>9, <2>1, <2>2 DEF MemoryReplies, load_h_callback, VertexTypeOK, PhaseInv
  <2>4. PsauTypeOK'
    BY <1>0, <1>9 DEF MemoryReplies, psauVars, stageVars, PsauTypeOK
  <2> QED BY <1>9, <2>1, <2>3, <2>4 DEF MemoryReplies, TypeOK
<1>10. CASE UNCHANGED vars
  BY <1>1, <1>10 DEF vars, loopVars, TypeOK
<1> QED BY <1>2, <1>3, <1>4, <1>5, <1>6, <1>7, <1>8, <1>9, <1>10 DEF Next, Cycle

(* Types hold in every state, with counters within their phases.           *)
THEOREM LoopTypeCorrect == Spec => []TypeOK
<1>1. LoopTypes => TypeOK
  BY DEF LoopTypes
<1>2. LoopTypes /\ [Next]_vars => LoopTypes'
  BY LoopTypesStep
<1> QED BY <1>1, <1>2, LoopTypesInit, PTL DEF Spec

(* The tree that loop and vertex program tick in turn is the delay line of *)
(* four ticks that it is on its own.                                       *)
THEOREM TreeOfTwoOwners == Spec => DelaysByFour
<1>1. Spec => []LoopTypes
  <2>1. LoopTypes /\ [Next]_vars => LoopTypes'
    BY LoopTypesStep
  <2> QED BY <2>1, LoopTypesInit, PTL DEF Spec
<1>2. LoopTypes /\ [Next]_vars => [PsauNext]_psauVars
  BY LoopTypesStep
<1>3. Init => PsauInit
  BY DEF Init
<1>4. Spec => PsauSpec
  BY <1>1, <1>2, <1>3, PTL DEF Spec, PsauSpec
<1> QED BY <1>4, AdderTreeDelays, PTL

-----------------------------------------------------------------------------
(* The hidden state.                                                       *)

BeforeLoad == {"GEN_UPDATE_GATHER", "GEN_UPDATE_COMPUTE", "GEN_UPDATE_PSAU_DRAIN"}

(* A vertex whose read may still be issued in this run has none in it;     *)
(* later vertices and later runs have none.                                *)
LoadInv ==
  /\ \A v \in Vertex, run \in 0 .. MaxCutoffs :
       loads[<<v, run>>] <= 1 /\ (v > vertex \/ run > cutoffs => loads[<<v, run>>] = 0)
  /\ vertex # 0 =>
       \/ loads[<<vertex, cutoffs>>] = 0
       \/ phase = "APPLY_UPDATE_LOAD_H" /\ stage # "outside" /\ load_h_issued
       \/ phase \notin BeforeLoad \cup {"APPLY_UPDATE_LOAD_H"}

(* Until a run is cut off, a read on its way is that of the vertex, which  *)
(* waits for it.                                                           *)
HiddenInv ==
  cutoffs = 0 =>
    /\ router_reads = {} \/ memory_reads = {}
    /\ router_reads \cup memory_reads # {} =>
         /\ router_reads \cup memory_reads = {<<vertex, 0>>}
         /\ phase = "APPLY_UPDATE_LOAD_H" /\ load_h_issued /\ ~ h_load_done
    /\ phase = "APPLY_UPDATE_LOAD_H" /\ h_load_done =>
         load_h_issued /\ prev_hidden_state = vertex
    /\ phase \in {"APPLY_UPDATE_GRU", "WRITEBACK", "DONE"} => prev_hidden_state = vertex
    /\ stage = "outside" => phase \in {"IDLE", "DONE", "GEN_UPDATE_GATHER"}

(* What the program's tick does to what these invariants speak of.         *)
ProgramMoves ==
  /\ UNCHANGED <<vertex, prev_hidden_state>>
  /\ \/ UNCHANGED <<phase, h_load_done>>
     \/ /\ phase \in BeforeLoad /\ phase' \in BeforeLoad
        /\ UNCHANGED h_load_done
     \/ /\ phase = "GEN_UPDATE_PSAU_DRAIN" /\ phase' = "APPLY_UPDATE_LOAD_H"
        /\ h_load_done' = FALSE
     \/ /\ phase = "APPLY_UPDATE_LOAD_H" /\ phase' = "APPLY_UPDATE_GRU"
        /\ h_load_done /\ h_load_done' = h_load_done
     \/ /\ phase \in {"APPLY_UPDATE_GRU", "WRITEBACK"} /\ phase' \in {"WRITEBACK", "DONE"}
        /\ h_load_done' = h_load_done

LEMMA TickMoves == ASSUME tick(tree_inputs) PROVE ProgramMoves
<1>1. CASE tick_gen_update_compute(tree_inputs)
  BY <1>1, Zenon DEF tick_gen_update_compute, ProgramMoves, BeforeLoad
<1>2. CASE tick_psau_drain
  BY <1>2 DEF tick_psau_drain, ProgramMoves, BeforeLoad
<1>3. CASE tick_load_hidden_state
  BY <1>3 DEF tick_load_hidden_state, ProgramMoves, HiddenLoaded
<1>4. CASE GatherDone \/ GruDone \/ tick_writeback
  BY <1>4 DEF GatherDone, GruDone, tick_writeback, ProgramMoves, BeforeLoad
<1>5. CASE Rest \/ GatherWaits \/ GruRuns
  BY <1>5 DEF Rest, GatherWaits, GruRuns, ProgramMoves, programVars
<1> QED BY <1>1, <1>2, <1>3, <1>4, <1>5 DEF tick

(* The initial state.                                                      *)
LEMMA ReadsInit == Init => LoadInv /\ HiddenInv
<1> SUFFICES ASSUME Init PROVE LoadInv /\ HiddenInv
  OBVIOUS
<1> QED BY DEF Init, VertexInit, LoadInv, HiddenInv, Resting, Visit

(* Every step keeps both.                                                  *)
LEMMA ReadsStep ==
  ASSUME LoopTypes, LoadInv, HiddenInv, [Next]_vars
  PROVE  LoadInv' /\ HiddenInv'
<1>0. /\ loads \in [Visit -> 0 .. 2] /\ cutoffs \in 0 .. MaxCutoffs /\ MaxCutoffs \in Nat
      /\ Visit = Vertex \X (0 .. MaxCutoffs) /\ vertex \in 0 .. MaxVertices
      /\ Vertex = 1 .. MaxVertices /\ MaxVertices \in Nat
      /\ writeback_ready => phase = "DONE"
      /\ load_h_issued \in BOOLEAN /\ h_load_done \in BOOLEAN
  BY VertexAssumption, LoopAssumption DEF LoopTypes, PhaseInv, TypeOK, VertexTypeOK, Vertex, Visit
<1> USE DEF LoadInv, HiddenInv, Resting, BeforeLoad
<1>1. CASE StartVertex
  <2>1. /\ stage = "outside" /\ phase \in {"IDLE", "DONE"}
        /\ vertex' = vertex + 1 /\ vertex < MaxVertices
        /\ phase' = "GEN_UPDATE_GATHER" /\ stage' = stage
        /\ UNCHANGED <<loads, cutoffs, load_h_issued, router_reads, memory_reads>>
    BY <1>1 DEF StartVertex, start_vertex, loopVars, Resting
  <2>2. loads[<<vertex', cutoffs>>] = 0
    BY <1>0, <2>1
  <2> QED BY <1>0, <2>1, <2>2
<1>2. CASE Run
  BY <1>0, <1>2 DEF Run, programVars
<1>3. CASE KeepRunning \/ RouterHolds \/ MemoryWaits
  BY <1>0, <1>3 DEF KeepRunning, RouterHolds, MemoryWaits, programVars
<1>4. CASE Return
  BY <1>0, <1>4 DEF Return, programVars
<1>5. CASE CutOff
  <2>1. /\ cutoffs' = cutoffs + 1 /\ cutoffs' # 0
        /\ cutoffs < MaxCutoffs /\ UNCHANGED <<vertex, phase, loads>>
    BY <1>0, <1>5 DEF CutOff, programVars
  <2>2. vertex # 0 => loads[<<vertex, cutoffs + 1>>] = 0
    BY <1>0, <2>1
  <2> QED BY <1>0, <2>1, <2>2
<1>6. CASE RouterForwards
  <2>1. PICK read \in router_reads :
          /\ router_reads' = router_reads \ {read}
          /\ memory_reads' = memory_reads \cup {read}
    BY <1>6 DEF RouterForwards
  <2>2. /\ stage' = "units" /\ stage = "router"
        /\ UNCHANGED <<phase, vertex, h_load_done, prev_hidden_state, load_h_issued, loads,
                       cutoffs>>
    BY <1>6 DEF RouterForwards, programVars
  <2>3. cutoffs = 0 => router_reads' = {} /\ memory_reads' = {<<vertex, 0>>}
    BY <2>1
  <2> QED BY <1>0, <2>1, <2>2, <2>3
<1>7. CASE UnitsTick
  BY <1>0, <1>7 DEF UnitsTick, programVars
<1>8. CASE ProgramTick
  <2>1. ProgramMoves
    BY <1>8, TickMoves DEF ProgramTick
  <2>2. /\ stage = "program" /\ stage' = "issue"
        /\ UNCHANGED <<load_h_issued, router_reads, memory_reads, loads, cutoffs>>
    BY <1>8 DEF ProgramTick
  <2>3. LoadInv'
    BY <1>0, <2>1, <2>2 DEF ProgramMoves
  <2>4. HiddenInv'
    BY <1>0, <2>1, <2>2 DEF ProgramMoves
  <2> QED BY <2>3, <2>4
<1>9. CASE Issue
  <2>1. /\ stage' = "memory" /\ stage = "issue"
        /\ UNCHANGED <<phase, vertex, h_load_done, prev_hidden_state, memory_reads, cutoffs>>
        /\ load_h_issued' = ((load_h_issued \/ LoadDue) /\ ~ writeback_ready)
    BY <1>9 DEF Issue, programVars
  <2>2. CASE LoadDue
    <3>1. /\ router_reads' = router_reads \cup {<<vertex, cutoffs>>}
          /\ loads' = [loads EXCEPT ![<<vertex, cutoffs>>] = Counted(@)]
          /\ phase = "APPLY_UPDATE_LOAD_H" /\ ~ load_h_issued /\ load_h_issued'
      BY <1>0, <1>9, <2>1, <2>2 DEF Issue, LoadDue
    <3>2. vertex # 0 /\ vertex \in Vertex
      BY <1>0, <3>1 DEF LoopTypes, PhaseInv
    <3>3. loads[<<vertex, cutoffs>>] = 0
      BY <1>0, <3>1, <3>2
    <3>4. Counted(loads[<<vertex, cutoffs>>]) = 1
      BY <3>3 DEF Counted
    <3>5. \A v \in Vertex, run \in 0 .. MaxCutoffs :
            loads'[<<v, run>>] = IF v = vertex /\ run = cutoffs THEN 1 ELSE loads[<<v, run>>]
      BY <1>0, <3>1, <3>4
    <3>6. LoadInv'
      <4>1. ASSUME NEW v \in Vertex, NEW run \in 0 .. MaxCutoffs
            PROVE  /\ loads'[<<v, run>>] <= 1
                   /\ v > vertex' \/ run > cutoffs' => loads'[<<v, run>>] = 0
        BY <1>0, <2>1, <3>5
      <4> QED BY <2>1, <3>1, <4>1
    <3>7. HiddenInv'
      BY <1>0, <2>1, <3>1
    <3> QED BY <3>6, <3>7
  <2>3. CASE ~ LoadDue
    <3>1. UNCHANGED <<router_reads, loads>>
      BY <1>9, <2>3 DEF Issue
    <3>2. phase = "APPLY_UPDATE_LOAD_H" => load_h_issued /\ load_h_issued'
      BY <1>0, <2>1, <2>3 DEF LoadDue
    <3>3. LoadInv'
      BY <1>0, <2>1, <3>1, <3>2
    <3>4. HiddenInv'
      BY <1>0, <2>1, <3>1, <3>2
    <3> QED BY <3>3, <3>4
  <2> QED BY <2>2, <2>3
<1>10. CASE MemoryReplies
  <2>1. PICK read \in memory_reads :
          memory_reads' = memory_reads \ {read} /\ load_h_callback(read[1])
    BY <1>10 DEF MemoryReplies
  <2>2. /\ stage' = "test"
        /\ UNCHANGED <<phase, vertex, load_h_issued, router_reads, loads, cutoffs>>
        /\ prev_hidden_state' = read[1] /\ h_load_done' = TRUE
    BY <1>10, <2>1 DEF MemoryReplies, load_h_callback
  <2>3. cutoffs = 0 => /\ read = <<vertex, 0>> /\ memory_reads' = {} /\ router_reads = {}
                       /\ phase = "APPLY_UPDATE_LOAD_H" /\ load_h_issued
    BY <2>1
  <2>4. LoadInv'
    BY <1>0, <1>10, <2>2 DEF MemoryReplies
  <2>5. HiddenInv'
    BY <2>2, <2>3
  <2> QED BY <2>4, <2>5
<1>11. CASE UNCHANGED vars
  BY <1>11 DEF vars, programVars, loopVars
<1> QED BY <1>1, <1>2, <1>3, <1>4, <1>5, <1>6, <1>7, <1>8, <1>9, <1>10, <1>11 DEF Next, Cycle

(* Both invariants hold in every state.                                    *)
LEMMA ReadsInvariant == Spec => [](LoopTypes /\ LoadInv /\ HiddenInv)
<1>1. LoopTypes /\ [Next]_vars => LoopTypes'
  BY LoopTypesStep
<1>2. LoopTypes /\ LoadInv /\ HiddenInv /\ [Next]_vars => LoadInv' /\ HiddenInv'
  BY ReadsStep
<1> QED BY <1>1, <1>2, LoopTypesInit, ReadsInit, PTL DEF Spec

(* The hidden state of a vertex is read at most once in each run, for any  *)
(* number of runs cut off before it.                                       *)
THEOREM ReadOncePerRun == Spec => []LoadedOnce
<1>1. LoadInv => LoadedOnce
  BY DEF LoadInv, LoadedOnce, Visit
<1> QED BY <1>1, ReadsInvariant, PTL

(* As long as no run is cut off, the GRU cells start from the state of the *)
(* vertex itself.                                                          *)
THEOREM HiddenStateIsOwn == Spec => []HiddenIsOwn
<1>1. HiddenInv => HiddenIsOwn
  BY DEF HiddenInv, HiddenIsOwn
<1> QED BY <1>1, ReadsInvariant, PTL
-----------------------------------------------------------------------------
(* The message.                                                            *)

(* Addition keeps data of one kind as they are: all vaults deliver the     *)
(* same column.                                                            *)
SameKind == \A a \in Value : Plus(a, a) = a

Own == {Zero} \cup ({vertex} \X (0 .. kDimension - 1))

(* The n newest stages of the tree hold data of the vertex itself.         *)
OwnStages(n) ==
  /\ n >= 1 => \E a \in Own : stage1_regs = [j \in 0 .. 7 |-> a]
  /\ n >= 2 => \E a \in Own : stage2_regs = [j \in 0 .. 3 |-> a]
  /\ n >= 3 => \E a \in Own : stage3_regs = [j \in 0 .. 1 |-> a]
  /\ n >= 4 => stage4_out \in Own

(* While the vectors are in the arrays, every tick of the loop cleans one  *)
(* more stage; then the whole tree is the vertex's, and so is the message. *)
MessageInv ==
  /\ phase = "GEN_UPDATE_COMPUTE" => OwnStages(compute_cycles)
  /\ phase = "GEN_UPDATE_COMPUTE" /\ stage = "program" =>
       /\ OwnStages(compute_cycles + 1)
       /\ \E a \in Own : tree_inputs = EveryVault(a)
  /\ phase = "GEN_UPDATE_PSAU_DRAIN" =>
       OwnStages(4) /\ \E a \in Own : partial_sum_inputs = EveryVault(a)
  /\ phase \in {"APPLY_UPDATE_LOAD_H", "APPLY_UPDATE_GRU", "WRITEBACK", "DONE"} =>
       aggregated_message \in Own

LEMMA OwnType ==
  ASSUME LoopTypes, SameKind, vertex # 0
  PROVE  \A a \in Own : Plus(a, a) = a
<1>1. vertex \in 1 .. MaxVertices
  BY VertexAssumption DEF LoopTypes, TypeOK, VertexTypeOK
<1>2. Own \subseteq Value
  BY <1>1, VertexAssumption, PsauAssumption DEF Own
<1> QED BY <1>2 DEF SameKind

(* A tick with data of the vertex moves them on by one stage.              *)
LEMMA OwnTick ==
  ASSUME LoopTypes, SameKind, vertex # 0, vertex' = vertex,
         NEW n \in Nat, OwnStages(n), NEW a \in Own, NEW valid,
         psau_tick(EveryVault(a), valid)
  PROVE  OwnStages(n + 1)' /\ (n >= 4 => final_result' \in Own')
<1>1. Own' = Own
  BY DEF Own
<1>2. \A b \in Own : Plus(b, b) = b
  BY OwnType
<1>3. stage1_regs' = [j \in 0 .. 7 |-> a]
  BY <1>2 DEF psau_tick, shift_stages, AddPairs, EveryVault, kNumVPUs
<1>4. n >= 1 => \E b \in Own : stage2_regs' = [j \in 0 .. 3 |-> b]
  BY <1>2 DEF OwnStages, psau_tick, shift_stages, AddPairs
<1>5. n >= 2 => \E b \in Own : stage3_regs' = [j \in 0 .. 1 |-> b]
  BY <1>2 DEF OwnStages, psau_tick, shift_stages, AddPairs
<1>6. n >= 3 => stage4_out' \in Own
  BY <1>2 DEF OwnStages, psau_tick, shift_stages
<1>7. n >= 4 => final_result' \in Own
  BY DEF OwnStages, psau_tick
<1> QED BY <1>1, <1>3, <1>4, <1>5, <1>6, <1>7 DEF OwnStages

(* What does not touch the tree leaves its stages alone.                   *)
LEMMA OwnKept ==
  ASSUME UNCHANGED <<vertex, psauVars>>, NEW n, OwnStages(n)
  PROVE  OwnStages(n)'
BY DEF OwnStages, Own, psauVars, stageVars

LEMMA OwnFewer ==
  ASSUME NEW m \in Nat, NEW n \in Nat, m <= n, OwnStages(n)
  PROVE  OwnStages(m)
BY DEF OwnStages

(* Outside the GRU phase the bottom row shows columns of the vertex.       *)
LEMMA OutputsOwn == ASSUME LoopTypes, phase # "APPLY_UPDATE_GRU" PROVE Outputs \subseteq Own
<1>1. Older(array_age) \in 0 .. Flushed /\ Flushed \in Nat
  BY RowType
<1> QED BY <1>1, VertexAssumption DEF Outputs, Own, BottomRow, Flushed

(* The tick of the program.                                                *)
LEMMA MessageTick ==
  ASSUME LoopTypes, SameKind, kDimension >= 4, MessageInv, ProgramTick
  PROVE  MessageInv'
<1>0. /\ stage = "program" /\ stage' = "issue" /\ tick(tree_inputs)
      /\ vertex' = vertex /\ Own' = Own
      /\ compute_cycles \in Nat /\ psau_flush_count \in Nat /\ kDimension \in Nat
      /\ phase \notin {"IDLE", "DONE"} => vertex # 0
  BY ProgramTypes, VertexAssumption
     DEF ProgramTick, Own, LoopTypes, PhaseInv, TypeOK, VertexTypeOK
<1>1. CASE Rest \/ GatherWaits \/ GruRuns
  BY <1>0, <1>1, OwnKept DEF Rest, GatherWaits, GruRuns, programVars, MessageInv, Resting
<1>2. CASE GatherDone
  BY <1>0, <1>2 DEF GatherDone, MessageInv, OwnStages
<1>3. CASE tick_gen_update_compute(tree_inputs)
  <2>1. PICK m \in Nat : m = compute_cycles
    BY <1>0
  <2>2. OwnStages(m + 1)' /\ \E a \in Own : tree_inputs = EveryVault(a)
    <3>1. OwnStages(m + 1) /\ \E a \in Own : tree_inputs = EveryVault(a)
      BY <1>0, <1>3, <2>1 DEF tick_gen_update_compute, MessageInv
    <3> QED BY <1>0, <1>3, <3>1, OwnKept DEF tick_gen_update_compute
  <2>3. CASE WavefrontThrough(m + 1)
    <3>1. 4 <= m + 1
      BY <1>0, <2>3 DEF WavefrontThrough
    <3>2. OwnStages(4)'
      BY <2>2, <3>1 DEF OwnStages
    <3>3. partial_sum_inputs' = tree_inputs /\ phase' = "GEN_UPDATE_PSAU_DRAIN"
      BY <1>3, <2>1, <2>3 DEF tick_gen_update_compute
    <3>4. \E a \in Own' : partial_sum_inputs' = EveryVault(a)
      BY <1>0, <2>2, <3>3
    <3> QED BY <3>2, <3>3, <3>4 DEF MessageInv, EveryVault
  <2>4. CASE ~ WavefrontThrough(m + 1)
    <3>1. phase' = "GEN_UPDATE_COMPUTE" /\ compute_cycles' = m + 1
      BY <1>3, <2>1, <2>4 DEF tick_gen_update_compute
    <3> QED BY <1>0, <2>2, <3>1 DEF MessageInv
  <2> QED BY <2>3, <2>4
<1>4. CASE tick_psau_drain
  <2>1. PICK a \in Own : partial_sum_inputs = EveryVault(a)
    BY <1>4 DEF tick_psau_drain, MessageInv
  <2>2. PICK valid : psau_tick(EveryVault(a), valid)
    BY <1>4, <2>1 DEF tick_psau_drain
  <2>3. OwnStages(4) /\ vertex # 0
    BY <1>0, <1>4 DEF tick_psau_drain, MessageInv
  <2>4. OwnStages(4 + 1)' /\ final_result' \in Own'
    BY <1>0, <2>2, <2>3, OwnTick
  <2>5. OwnStages(4)'
    BY <2>4 DEF OwnStages
  <2>6. \/ aggregated_message' = final_result' /\ phase' = "APPLY_UPDATE_LOAD_H"
        \/ phase' = "GEN_UPDATE_PSAU_DRAIN"
    BY <1>4 DEF tick_psau_drain
  <2>7. \E b \in Own' : partial_sum_inputs' = EveryVault(b)
    BY <1>0, <1>4, <2>1 DEF tick_psau_drain
  <2> QED BY <2>4, <2>5, <2>6, <2>7 DEF MessageInv, EveryVault
<1>5. CASE tick_load_hidden_state \/ GruDone \/ tick_writeback
  BY <1>0, <1>5 DEF tick_load_hidden_state, GruDone, tick_writeback, MessageInv
<1> QED BY <1>0, <1>1, <1>2, <1>3, <1>4, <1>5 DEF tick

(* Every step.                                                             *)
LEMMA MessageStep ==
  ASSUME LoopTypes, SameKind, kDimension >= 4, MessageInv, [Next]_vars
  PROVE  MessageInv'
<1>0. /\ compute_cycles \in Nat
      /\ phase \notin {"IDLE", "DONE"} => vertex # 0
  BY VertexAssumption DEF LoopTypes, PhaseInv, TypeOK, VertexTypeOK
<1>1. CASE StartVertex
  BY <1>1 DEF StartVertex, start_vertex, MessageInv
<1>2. ASSUME UNCHANGED <<phase, vertex, compute_cycles, partial_sum_inputs,
                         aggregated_message, tree_inputs, psauVars>>,
             stage' # "program" \/ stage' = stage
      PROVE  MessageInv'
  BY <1>2, Zenon DEF MessageInv, OwnStages, Own, EveryVault, psauVars, stageVars
<1>3. CASE Run \/ CutOff \/ KeepRunning \/ Return \/ RouterForwards \/ RouterHolds
  BY <1>2, <1>3 DEF Run, CutOff, KeepRunning, Return, RouterForwards, RouterHolds, programVars
<1>4. CASE Issue \/ MemoryReplies \/ MemoryWaits
  BY <1>2, <1>4 DEF Issue, MemoryReplies, MemoryWaits, programVars
<1>5. CASE UnitsTick
  <2>1. PICK a \in Outputs :
          tree_inputs' = EveryVault(a) /\ psau_tick(EveryVault(a), a # Zero)
    BY <1>5 DEF UnitsTick
  <2>2. /\ UNCHANGED <<phase, vertex, compute_cycles, partial_sum_inputs, aggregated_message>>
        /\ Own' = Own
    BY <1>5 DEF UnitsTick, programVars, Own
  <2>3. PICK m \in Nat : m = compute_cycles
    BY <1>0
  <2>4. ASSUME phase = "GEN_UPDATE_COMPUTE"
        PROVE  OwnStages(m + 1)' /\ a \in Own
    <3>1. OwnStages(m) /\ vertex # 0 /\ a \in Own
      BY <1>0, <2>1, <2>3, <2>4, OutputsOwn DEF MessageInv
    <3> QED BY <2>1, <2>2, <3>1, OwnTick
  <2>5. ASSUME phase = "GEN_UPDATE_COMPUTE"
        PROVE  OwnStages(m)'
    BY <2>4, <2>5 DEF OwnStages
  <2>6. ASSUME phase = "GEN_UPDATE_PSAU_DRAIN"
        PROVE  OwnStages(4)'
    <3>1. OwnStages(4) /\ vertex # 0 /\ a \in Own
      BY <1>0, <2>1, <2>6, OutputsOwn DEF MessageInv
    <3>2. OwnStages(4 + 1)'
      BY <2>1, <2>2, <3>1, OwnTick
    <3> QED BY <3>2 DEF OwnStages
  <2> QED BY <2>1, <2>2, <2>3, <2>4, <2>5, <2>6 DEF MessageInv, EveryVault
<1>6. CASE ProgramTick
  BY <1>6, MessageTick
<1>7. CASE UNCHANGED vars
  BY <1>2, <1>7 DEF vars, programVars, loopVars
<1> QED BY <1>1, <1>3, <1>4, <1>5, <1>6, <1>7 DEF Next, Cycle

(* The message of a vertex is made of its own data, whatever was left in   *)
(* the tree, if the arrays have at least as many rows as the tree stages.  *)
THEOREM MessageOfItsOwn ==
  ASSUME SameKind, kDimension >= 4
  PROVE  Spec => []MessageIsOwn
<1>1. Init => MessageInv
  BY DEF Init, VertexInit, MessageInv
<1>2. LoopTypes /\ MessageInv /\ [Next]_vars => MessageInv'
  BY MessageStep
<1>3. LoopTypes /\ [Next]_vars => LoopTypes'
  BY LoopTypesStep
<1>4. MessageInv => MessageIsOwn
  BY DEF MessageInv, MessageIsOwn, Own
<1> QED BY <1>1, <1>2, <1>3, <1>4, LoopTypesInit, PTL DEF Spec
-----------------------------------------------------------------------------
(* The drain phase.                                                        *)

(* Two ticks of the tree for each of the program: the valid input of its   *)
(* first tick is one stage on after the loop's next, and so forth.         *)
ValveInv ==
  phase = "GEN_UPDATE_PSAU_DRAIN" =>
    /\ psau_flush_count \in 0 .. 2
    /\ psau_flush_count = 1 => valid_bits[IF stage = "program" THEN 1 ELSE 0]
    /\ psau_flush_count = 2 => valid_bits[IF stage = "program" THEN 3 ELSE 2]

LEMMA ValveTick ==
  ASSUME LoopTypes, ValveInv, stage = "program", stage' = "issue", tick_psau_drain
  PROVE  /\ ValveInv'
         /\ phase' = "APPLY_UPDATE_LOAD_H" => output_valid'
<1>1. /\ phase = "GEN_UPDATE_PSAU_DRAIN" /\ psau_flush_count \in 0 .. 2
      /\ psau_flush_count' = psau_flush_count + 1
      /\ output_valid' = valid_bits[3]
      /\ valid_bits' = [i \in 0 .. 3 |-> IF i = 0 THEN psau_flush_count = 0
                                         ELSE valid_bits[i - 1]]
      /\ psau_flush_count = 1 => valid_bits[1]
      /\ psau_flush_count = 2 => valid_bits[3]
  BY DEF tick_psau_drain, psau_tick, ValveInv
<1>2. IF output_valid' \/ psau_flush_count' > kPSAUDepth + 2
        THEN phase' = "APPLY_UPDATE_LOAD_H" ELSE UNCHANGED phase
  BY DEF tick_psau_drain
<1>3. kPSAUDepth \in Nat
  BY VertexAssumption
<1>4. psau_flush_count = 0 => valid_bits'[0]
  <2>1. valid_bits'[0] = (psau_flush_count = 0)
    BY <1>1
  <2> QED BY <2>1, Zenon
<1>5. psau_flush_count = 1 => valid_bits'[2]
  BY <1>1
<1>6. psau_flush_count = 2 => output_valid' /\ phase' = "APPLY_UPDATE_LOAD_H"
  BY <1>1, <1>2
<1>7. psau_flush_count < 2 => ~ (psau_flush_count' > kPSAUDepth + 2)
  BY <1>1, <1>3
<1>8. ValveInv'
  BY <1>1, <1>4, <1>5, <1>6 DEF ValveInv
<1>9. phase' = "APPLY_UPDATE_LOAD_H" => output_valid'
  BY <1>1, <1>2, <1>6, <1>7
<1> QED BY <1>8, <1>9

LEMMA ValveStep ==
  ASSUME LoopTypes, ValveInv, [Next]_vars
  PROVE  /\ ValveInv'
         /\ phase = "GEN_UPDATE_PSAU_DRAIN" /\ phase' = "APPLY_UPDATE_LOAD_H" => output_valid'
<1>1. CASE StartVertex
  BY <1>1 DEF StartVertex, start_vertex, ValveInv, Resting
<1>2. ASSUME UNCHANGED <<phase, psau_flush_count, valid_bits>>,
             stage' = stage \/ "program" \notin {stage, stage'}
      PROVE  ValveInv'
  BY <1>2 DEF ValveInv
<1>3. CASE Run \/ CutOff \/ KeepRunning \/ Return \/ RouterForwards \/ RouterHolds
  BY <1>2, <1>3 DEF Run, CutOff, KeepRunning, Return, RouterForwards, RouterHolds,
                    programVars, psauVars, stageVars
<1>4. CASE Issue \/ MemoryReplies \/ MemoryWaits
  BY <1>2, <1>4 DEF Issue, MemoryReplies, MemoryWaits, programVars, psauVars, stageVars
<1>5. CASE UnitsTick
  <2>1. /\ UNCHANGED <<phase, psau_flush_count>> /\ stage = "units" /\ stage' = "program"
        /\ \A i \in 1 .. 3 : valid_bits'[i] = valid_bits[i - 1]
    BY <1>5 DEF UnitsTick, programVars, psau_tick
  <2>2. valid_bits'[1] = valid_bits[0] /\ valid_bits'[3] = valid_bits[2]
    BY <2>1
  <2> QED BY <2>1, <2>2 DEF ValveInv
<1>6. CASE ProgramTick
  <2>1. stage = "program" /\ stage' = "issue" /\ tick(tree_inputs)
    BY <1>6 DEF ProgramTick
  <2>2. CASE tick_psau_drain
    BY <2>1, <2>2, ValveTick
  <2>3. CASE tick_gen_update_compute(tree_inputs)
    BY <2>3 DEF tick_gen_update_compute, ValveInv
  <2>4. CASE GatherDone \/ tick_load_hidden_state \/ GruDone \/ tick_writeback
    BY <2>4 DEF GatherDone, tick_load_hidden_state, GruDone, tick_writeback, ValveInv
  <2>5. CASE Rest \/ GatherWaits \/ GruRuns
    BY <2>5 DEF Rest, GatherWaits, GruRuns, Resting, programVars, ValveInv
  <2> QED BY <2>1, <2>2, <2>3, <2>4, <2>5 DEF tick
<1>7. CASE UNCHANGED vars
  BY <1>2, <1>7 DEF vars, programVars, psauVars, stageVars, loopVars
<1> QED BY <1>1, <1>3, <1>4, <1>5, <1>6, <1>7 DEF Next, Cycle, Run, CutOff, KeepRunning,
           Return, RouterForwards, RouterHolds, Issue, MemoryReplies, MemoryWaits,
           programVars

(* The drain phase ends by a valid result of the tree, although the loop   *)
(* ticks it in between and takes every other result.                       *)
THEOREM ValveNeverNeeded == Spec => ValveUnused
<1>1. Init => ValveInv
  BY DEF Init, VertexInit, ValveInv
<1>2. LoopTypes /\ ValveInv /\ [Next]_vars => ValveInv'
  BY ValveStep
<1>3. LoopTypes /\ [Next]_vars => LoopTypes'
  BY LoopTypesStep
<1>4. LoopTypes /\ ValveInv /\ [Next]_vars =>
        [phase = "GEN_UPDATE_PSAU_DRAIN" /\ phase' = "APPLY_UPDATE_LOAD_H" =>
           output_valid']_vars
  BY ValveStep
<1> QED BY <1>1, <1>2, <1>3, <1>4, LoopTypesInit, PTL DEF Spec, ValveUnused
=============================================================================
