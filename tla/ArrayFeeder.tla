------------------------------ MODULE ArrayFeeder ------------------------------
(***************************************************************************)
(* The feeder of a systolic array (src/src/array_feeder.hpp): one FIFO     *)
(* delay line per row, which skews a vector so that its elements meet the  *)
(* partial sums that come down the array.                                  *)
(***************************************************************************)
EXTENDS SystolicArray

VARIABLE
  delay_lines   \* delay_lines_[i]

FeederTypeOK == delay_lines \in [Row -> Seq(Activation)]

FeederInit == delay_lines = [i \in Row |-> <<>>]

FeederEmpty == \A i \in Row : delay_lines[i] = <<>>

(* The zeros that delay row i by i ticks.                                  *)
Skew(i) == [d \in 1 .. i |-> NoVec]

(* Mutant: every row is padded alike.                                      *)
push_vector_noSkew(v) ==
  delay_lines' = [i \in Row |-> Append(delay_lines[i], v)]

push_vector(v) ==
  delay_lines' = [i \in Row |-> Append(delay_lines[i] \o Skew(i), v)]

(* The result of get_next_activations(), and its effect on the lines.      *)
next_activations ==
  [i \in Row |-> IF delay_lines[i] = <<>> THEN NoVec ELSE Head(delay_lines[i])]

PopLines ==
  delay_lines' = [i \in Row |-> IF delay_lines[i] = <<>> THEN <<>>
                                ELSE Tail(delay_lines[i])]

(* The feeder and the array ticked together, as every owner does it.       *)
TickArray == PopLines /\ array_tick(next_activations)
=============================================================================
