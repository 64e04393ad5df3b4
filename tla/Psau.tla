--------------------------------- MODULE Psau ---------------------------------
(***************************************************************************)
(* The partial-sum accumulation unit (src/src/psau.hpp): a four-stage      *)
(* pipelined adder tree over the output vectors of the sixteen units.      *)
(*                                                                         *)
(* The tree works on every vector position alike, so a vector is one value *)
(* and Plus adds two of them position by position.  Plus is any operation: *)
(* nothing here needs it to be associative, as float addition is not.      *)
(***************************************************************************)
EXTENDS Integers

CONSTANTS
  Value,       \* vectors
  Zero,        \* the vector {0.0f}
  Plus(_, _)   \* position-wise addition

kNumVPUs == 16

ASSUME PsauAssumption ==
  /\ Zero \in Value
  /\ \A a, b \in Value : Plus(a, b) \in Value
  /\ Plus(Zero, Zero) = Zero

VARIABLES
  stage1_regs, stage2_regs, stage3_regs, stage4_out, valid_bits,
  vpu_outputs, input_valid,   \* arguments of the latest tick
  final_result, output_valid  \* results of the latest tick

stageVars == <<stage1_regs, stage2_regs, stage3_regs, stage4_out, valid_bits>>
psauVars == <<stageVars, vpu_outputs, input_valid, final_result, output_valid>>

(* The first n pairs of `regs', added.                                     *)
AddPairs(regs, n) == [j \in 0 .. n - 1 |-> Plus(regs[2 * j], regs[2 * j + 1])]

Zeros(n) == [j \in 0 .. n - 1 |-> Zero]

PsauInit ==
  /\ stage1_regs = Zeros(8) /\ stage2_regs = Zeros(4) /\ stage3_regs = Zeros(2)
  /\ stage4_out = Zero
  /\ valid_bits = [i \in 0 .. 3 |-> FALSE]
  /\ vpu_outputs = Zeros(kNumVPUs) /\ input_valid = FALSE
  /\ final_result = Zero /\ output_valid = FALSE

(* Mutant: stage 2 runs after stage 1 and sees this tick's sums.           *)
shift_stages_forward(in) ==
  /\ stage4_out' = Plus(stage3_regs[0], stage3_regs[1])
  /\ stage3_regs' = AddPairs(stage2_regs, 2)
  /\ stage2_regs' = AddPairs(AddPairs(in, 8), 4)
  /\ stage1_regs' = AddPairs(in, 8)

shift_stages(in) ==
  /\ stage4_out' = Plus(stage3_regs[0], stage3_regs[1])
  /\ stage3_regs' = AddPairs(stage2_regs, 2)
  /\ stage2_regs' = AddPairs(stage1_regs, 4)
  /\ stage1_regs' = AddPairs(in, 8)

(* Mutant: the flags are moved from the first to the last.                 *)
psau_tick_flagsForward(in, valid) ==
  /\ output_valid' = valid_bits[3]
  /\ final_result' = stage4_out
  /\ shift_stages(in)
  /\ valid_bits' = [i \in 0 .. 3 |-> valid]
  /\ vpu_outputs' = in
  /\ input_valid' = valid

(* Mutant: a tick without a valid input does not move the pipeline.        *)
psau_tick_gated(in, valid) ==
  /\ output_valid' = valid_bits[3]
  /\ final_result' = stage4_out
  /\ IF valid
       THEN shift_stages(in) /\ valid_bits' = [i \in 0 .. 3 |-> i = 0 \/ valid_bits[i - 1]]
       ELSE UNCHANGED stageVars
  /\ vpu_outputs' = in
  /\ input_valid' = valid

psau_tick(in, valid) ==
  /\ output_valid' = valid_bits[3]
  /\ final_result' = stage4_out
  /\ shift_stages(in)
  /\ valid_bits' = [i \in 0 .. 3 |-> IF i = 0 THEN valid ELSE valid_bits[i - 1]]
  /\ vpu_outputs' = in
  /\ input_valid' = valid

(* The unit on its own: a tick with any input.                             *)
PsauNext ==
  \E in \in [0 .. kNumVPUs - 1 -> Value], valid \in BOOLEAN : psau_tick(in, valid)

PsauSpec == PsauInit /\ [][PsauNext]_psauVars

-----------------------------------------------------------------------------
PsauTypeOK ==
  /\ stage1_regs \in [0 .. 7 -> Value]
  /\ stage2_regs \in [0 .. 3 -> Value]
  /\ stage3_regs \in [0 .. 1 -> Value]
  /\ stage4_out \in Value
  /\ valid_bits \in [0 .. 3 -> BOOLEAN]
  /\ vpu_outputs \in [0 .. kNumVPUs - 1 -> Value] /\ input_valid \in BOOLEAN
  /\ final_result \in Value /\ output_valid \in BOOLEAN

(* The reduction of two, four, eight and sixteen vectors.                  *)
Total2(regs) == Plus(regs[0], regs[1])
Total4(regs) == Total2(AddPairs(regs, 2))
Total8(regs) == Total4(AddPairs(regs, 4))
Total16(in) == Total8(AddPairs(in, 8))

(* What is on its way in the registers, newest first.                      *)
Line ==
  [i \in 1 .. 4 |->
     [sum |-> IF i = 1 THEN Total8(stage1_regs) ELSE
              IF i = 2 THEN Total4(stage2_regs) ELSE
              IF i = 3 THEN Total2(stage3_regs) ELSE stage4_out,
      valid |-> valid_bits[i - 1]]]

Pipeline == INSTANCE ReductionLine WITH Depth <- 4, Sum <- Total16, line <- Line

(* The adder tree is a delay line of four ticks: every input comes out     *)
(* once, reduced, with its own valid flag (psau.hpp:24-26).                *)
DelaysByFour == Pipeline!Spec
=============================================================================
