------------------------------- MODULE RingBuffer -------------------------------
(***************************************************************************)
(* OffsetBuffer and DataBuffer (src/src/piccolo_controller.hpp:12-107).    *)
(* Both are the same ring buffer; the vector behind it reaches its full    *)
(* length at the latest with the first push.                               *)
(***************************************************************************)
EXTENDS Integers, Sequences

CONSTANTS
  Cap,      \* cap_: 256 in the code
  Elem,     \* what is stored
  Default   \* 0u

VARIABLES
  data,   \* data_
  head,   \* head_
  size,   \* size_
  read    \* history: what front() returned last

vars == <<data, head, size, read>>

empty == size = 0
full == size >= Cap

Init ==
  /\ data = [i \in 0 .. Cap - 1 |-> Default]
  /\ head = 0 /\ size = 0
  /\ read = Default

Push ==
  \E v \in Elem :
    /\ ~ full
    /\ data' = [data EXCEPT ![(head + size) % Cap] = v]
    /\ size' = size + 1
    /\ UNCHANGED <<head, read>>

Pop ==
  /\ ~ empty
  /\ head' = (head + 1) % Cap
  /\ size' = size - 1
  /\ UNCHANGED <<data, read>>

Clear ==
  /\ head' = 0 /\ size' = 0
  /\ UNCHANGED <<data, read>>

front == IF empty THEN Default ELSE data[head]

Read == read' = front /\ UNCHANGED <<data, head, size>>

(* A push into a full buffer or a pop from an empty one returns at once.   *)
Next == Push \/ Pop \/ Clear \/ Read

Spec == Init /\ [][Next]_vars

-----------------------------------------------------------------------------
(* Head and size stay within the array.                                    *)
TypeOK ==
  /\ data \in [0 .. Cap - 1 -> Elem]
  /\ head \in 0 .. Cap - 1
  /\ size \in 0 .. Cap
  /\ read \in Elem

(* The elements stored, oldest first.                                      *)
Contents == [i \in 1 .. size |-> data[(head + i - 1) % Cap]]

Fifo == INSTANCE BoundedFifo WITH contents <- Contents

(* The ring buffer is a bounded FIFO: over any sequence of pushes, pops,   *)
(* reads and clears, wrap-around included, it hands out what was pushed,   *)
(* in order, and loses only what was pushed when it was full.              *)
IsFifo == Fifo!Spec
=============================================================================
