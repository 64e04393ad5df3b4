----------------------------- MODULE ReductionLine -----------------------------
(***************************************************************************)
(* What the partial-sum accumulation unit promises: a delay line.  The     *)
(* input of one tick, reduced, is the result of a tick Depth ticks later,  *)
(* with its valid flag, and nothing else ever comes out.                   *)
(***************************************************************************)
EXTENDS Naturals

CONSTANTS
  Depth,   \* ticks between an input and its result
  Sum(_)   \* what one input, a function from units to values, reduces to

VARIABLES
  vpu_outputs, input_valid,    \* arguments of the latest tick
  final_result, output_valid,  \* results of the latest tick
  line                         \* the inputs on their way, newest first

vars == <<vpu_outputs, input_valid, final_result, output_valid, line>>

Bubble == [sum |-> Sum(vpu_outputs), valid |-> FALSE]

Init ==
  /\ input_valid = FALSE /\ output_valid = FALSE
  /\ final_result = Sum(vpu_outputs)
  /\ line = [i \in 1 .. Depth |-> Bubble]

Tick ==
  /\ final_result' = line[Depth].sum
  /\ output_valid' = line[Depth].valid
  /\ line' = [i \in 1 .. Depth |->
       IF i = 1 THEN [sum |-> Sum(vpu_outputs'), valid |-> input_valid']
       ELSE line[i - 1]]

Spec == Init /\ [][Tick]_vars
=============================================================================
