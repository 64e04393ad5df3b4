----------------------------- MODULE SystolicArray -----------------------------
(***************************************************************************)
(* The weight-stationary systolic array (src/src/systolic_array.hpp): a    *)
(* square grid of processing elements that pass activations to the right   *)
(* and partial sums downwards, one position per tick.                      *)
(*                                                                         *)
(* Numbers are symbolic.  An activation is the name of the vector it       *)
(* belongs to (its element is given by its row), or NoVec for 0.0.  A      *)
(* partial sum is the set of the products added into it: the term of       *)
(* vector v, row r and weight matrix w stands for v[r] * w[r][column].     *)
(***************************************************************************)
EXTENDS Integers, Sequences, FiniteSets

CONSTANTS
  kDimension,   \* 16 in the code
  Vec,          \* names of the vectors that may enter
  NoVec,        \* the activation 0.0
  Matrix        \* names of the weight matrices that may be loaded

ASSUME ArrayAssumption ==
  /\ kDimension \in Nat \ {0}
  /\ NoVec \notin Vec

Row == 0 .. kDimension - 1
Col == 0 .. kDimension - 1

Activation == Vec \cup {NoVec}
Term == [vec : Vec, row : Row, weight : Matrix]

VARIABLES
  weight,    \* pes_[*].weight: the matrix loaded
  act_in,    \* pes_[row * kDimension + col].act_in
  psum_in,   \* pes_[row * kDimension + col].psum_in
  bottom     \* the bottom_outputs of the latest tick

arrayVars == <<weight, act_in, psum_in, bottom>>

NoActs == [r \in Row |-> NoVec]
NoSums == [c \in Col |-> {}]

ArrayTypeOK ==
  /\ weight \in Matrix
  /\ act_in \in [Row \X Col -> Activation]
  /\ psum_in \in [Row \X Col -> SUBSET Term]
  /\ bottom \in [Col -> SUBSET Term]

ArrayInit(w) ==
  /\ weight = w
  /\ act_in = [pe \in Row \X Col |-> NoVec]
  /\ psum_in = [pe \in Row \X Col |-> {}]
  /\ bottom = NoSums

load_weights(w) ==
  /\ weight' = w
  /\ act_in' = [pe \in Row \X Col |-> NoVec]
  /\ psum_in' = [pe \in Row \X Col |-> {}]
  /\ UNCHANGED bottom

(* What the MAC of one element adds to a partial sum.                      *)
Product(pe) ==
  IF act_in[pe] = NoVec THEN {}
  ELSE {[vec |-> act_in[pe], row |-> pe[1], weight |-> weight]}

psum_out(pe) == psum_in[pe] \cup Product(pe)

(* Mutant: the outputs are captured before the bottom row's MAC.           *)
array_tick_early(left_activations) ==
  /\ bottom' = [c \in Col |-> psum_in[<<kDimension - 1, c>>]]
  /\ psum_in' = [pe \in Row \X Col |->
       IF pe[1] = 0 THEN {} ELSE psum_out(<<pe[1] - 1, pe[2]>>)]
  /\ act_in' = [pe \in Row \X Col |->
       IF pe[2] = 0 THEN left_activations[pe[1]] ELSE act_in[<<pe[1], pe[2] - 1>>]]
  /\ UNCHANGED weight

(* tick(), with the zero top_psums that every caller passes.               *)
array_tick(left_activations) ==
  /\ bottom' = [c \in Col |-> psum_out(<<kDimension - 1, c>>)]
  /\ psum_in' = [pe \in Row \X Col |->
       IF pe[1] = 0 THEN {} ELSE psum_out(<<pe[1] - 1, pe[2]>>)]
  /\ act_in' = [pe \in Row \X Col |->
       IF pe[2] = 0 THEN left_activations[pe[1]] ELSE act_in[<<pe[1], pe[2] - 1>>]]
  /\ UNCHANGED weight

(* One column of the product of vector v and matrix w.                     *)
WholeColumn(v, w) == {[vec |-> v, row |-> r, weight |-> w] : r \in Row}
=============================================================================
