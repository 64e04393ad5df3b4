---------------------------- MODULE MCFairAdmission ----------------------------
EXTENDS FairAdmission

(* Lines on every port, and bursts of three lines on port 0.               *)
MCMixedReads ==
  [size_bytes : {64}, pc_id : PC, global : {FALSE}]
    \cup [size_bytes : {192}, pc_id : {0}, global : {FALSE}]
MCNone == {}
=============================================================================
