----------------------------- MODULE PiccoloGather -----------------------------
(***************************************************************************)
(* PiccoloGatherController (src/src/piccolo_controller.hpp:113-175).  Its  *)
(* two ring buffers are the bounded FIFOs they implement (RingBuffer).     *)
(*                                                                         *)
(* The payloads are mock data in the code; what is followed here is which  *)
(* element of which batch a read belongs to: <<batch, element>>.           *)
(***************************************************************************)
EXTENDS Integers, Sequences

CONSTANTS
  ObCap, DbCap,       \* 256 entries each
  max_outstanding     \* 8

ASSUME PiccoloAssumption ==
  /\ ObCap \in Nat \ {0} /\ DbCap \in Nat \ {0}
  /\ max_outstanding \in Nat \ {0}

VARIABLES
  ob,           \* offsets, each with the element it belongs to
  db,           \* values gathered, each with the element it belongs to
  port,         \* the pseudo-channel port the controller enqueues into
  num_elems,    \* num_elems_
  issued,       \* issued_
  completed,    \* completed_
  outstanding   \* outstanding_

piccoloVars == <<ob, db, port, num_elems, issued, completed, outstanding>>

PiccoloInit ==
  /\ ob = <<>> /\ db = <<>> /\ port = <<>>
  /\ num_elems = 0 /\ issued = 0 /\ completed = 0 /\ outstanding = 0

Kept(n) == IF n < ObCap THEN n ELSE ObCap

(* Mutant: the count of reads issued is not reset.                         *)
reset_for_new_batch_keepsIssued(batch, n, offsets) ==
  /\ ob' = [i \in 1 .. Kept(offsets) |-> <<batch, i>>]
  /\ db' = <<>>
  /\ num_elems' = n
  /\ completed' = 0 /\ outstanding' = 0
  /\ UNCHANGED <<port, issued>>

(* reset_for_new_batch(n), then a push of every offset: a push into the    *)
(* full buffer is ignored.                                                 *)
reset_for_new_batch(batch, n, offsets) ==
  /\ ob' = [i \in 1 .. Kept(offsets) |-> <<batch, i>>]
  /\ db' = <<>>
  /\ num_elems' = n
  /\ issued' = 0 /\ completed' = 0 /\ outstanding' = 0
  /\ UNCHANGED port

(* Mutant: the last element is left out.                                   *)
CanIssue_butLast ==
  issued + 1 < num_elems /\ outstanding < max_outstanding /\ ob # <<>> /\ Len(db) < DbCap

CanIssue ==
  issued < num_elems /\ outstanding < max_outstanding /\ ob # <<>> /\ Len(db) < DbCap

tick_issue ==
  /\ CanIssue
  /\ port' = Append(port, Head(ob))
  /\ ob' = Tail(ob)
  /\ issued' = issued + 1 /\ outstanding' = outstanding + 1
  /\ UNCHANGED <<db, num_elems, completed>>

(* Mutant: the completion of a read that was given up is counted as well.  *)
on_read_complete_unguarded(read) ==
  /\ db' = IF Len(db) < DbCap THEN Append(db, read) ELSE db
  /\ outstanding' = outstanding - 1 /\ completed' = completed + 1
  /\ UNCHANGED <<ob, num_elems, issued>>

on_read_complete(read) ==
  IF outstanding = 0 THEN UNCHANGED <<ob, db, num_elems, issued, completed, outstanding>>
  ELSE /\ db' = IF Len(db) < DbCap THEN Append(db, read) ELSE db
       /\ outstanding' = outstanding - 1 /\ completed' = completed + 1
       /\ UNCHANGED <<ob, num_elems, issued>>

(* Mutant: done once every read is on its way.                             *)
done_issued == issued >= num_elems

done == completed >= num_elems
=============================================================================
