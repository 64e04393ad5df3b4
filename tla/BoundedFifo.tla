------------------------------ MODULE BoundedFifo ------------------------------
(***************************************************************************)
(* What the offset and data buffers of the gather controller promise: a    *)
(* FIFO of at most Cap elements.  A push into a full buffer and a pop from *)
(* an empty one do nothing; front() of an empty one is a default.          *)
(***************************************************************************)
EXTENDS Naturals, Sequences

CONSTANTS
  Cap,      \* cap_: 256 in the code
  Elem,     \* what is stored
  Default   \* 0u

VARIABLES
  contents,   \* oldest first
  read        \* what front() returned last

vars == <<contents, read>>

Pushed(q, v) == IF Len(q) < Cap THEN Append(q, v) ELSE q
Popped(q) == IF q = <<>> THEN q ELSE Tail(q)
Front(q) == IF q = <<>> THEN Default ELSE Head(q)

Init == contents = <<>> /\ read = Default

Push == \E v \in Elem : contents' = Pushed(contents, v) /\ UNCHANGED read
Pop == contents' = Popped(contents) /\ UNCHANGED read
Read == read' = Front(contents) /\ UNCHANGED contents
Clear == contents' = <<>> /\ UNCHANGED read

Next == Push \/ Pop \/ Read \/ Clear

Spec == Init /\ [][Next]_vars
=============================================================================
