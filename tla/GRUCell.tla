-------------------------------- MODULE GRUCell --------------------------------
(***************************************************************************)
(* The GRU state machine (src/src/gru.hpp) on its vault's systolic array   *)
(* and feeder, called once per cycle by its owner (the vertex program, a   *)
(* SIMD core, or a test).                                                  *)
(*                                                                         *)
(* A gate is what the state machine read from the array for it: the terms  *)
(* of every column.  Biases, the added message and the activation          *)
(* functions are applied column by column, so a gate is right exactly when *)
(* every column holds the whole product; see GatesComplete.                *)
(***************************************************************************)
EXTENDS ArrayFeeder

CONSTANT
  MaxTurns   \* bound: times that an owner turns away or somebody else pushes

ASSUME TurnsAssumption == MaxTurns \in Nat

VARIABLES
  phase,        \* phase_
  drain_count,  \* drain_count_
  done,         \* done_
  h_prev,       \* h_prev_
  msg,          \* msg_
  gate,         \* reset_gate_, update_gate_, reset_gated_h_, new_gate_ by name
  attached,     \* the vault's SIMD core is attached to the simulator, so that
                \* the loop ticks the array every cycle as well (attach_vpu)
  loop_ticked,  \* the loop has ticked the array in this cycle
  owned,        \* the owner waits for the cell, and ticks it every cycle
  own_feeder,   \* history: the evaluation began with an empty feeder, and
                \* nobody else has put anything into it since
  turns         \* those that are counted by MaxTurns

gruVars == <<phase, drain_count, done, h_prev, msg, gate>>
vars == <<arrayVars, delay_lines, gruVars, attached, loop_ticked, owned, own_feeder, turns>>

kGEMMLatency == 2 * kDimension

Gates == {"RESET_GATE", "UPDATE_GATE", "NEW_GATE_H", "NEW_GATE_X"}

(* "none" is an array before its first matrix.                             *)
ASSUME GRUAssumption == {"none", "W_r", "W_z", "W_hn", "W_in"} \subseteq Matrix

(* The matrix, the operand and the next phase of each gate.                *)
Weights == [RESET_GATE |-> "W_r", UPDATE_GATE |-> "W_z",
            NEW_GATE_H |-> "W_hn", NEW_GATE_X |-> "W_in"]
Operand(g) == IF g = "NEW_GATE_X" THEN msg ELSE h_prev

(* Mutant: the hidden branch goes on where the update gate did.            *)
Following_copied == [RESET_GATE |-> <<"LOAD", "UPDATE_GATE">>,
                     UPDATE_GATE |-> <<"LOAD", "NEW_GATE_H">>,
                     NEW_GATE_H |-> <<"LOAD", "NEW_GATE_H">>,
                     NEW_GATE_X |-> <<"APPLY_ELEMENTWISE">>]

Following == [RESET_GATE |-> <<"LOAD", "UPDATE_GATE">>,
              UPDATE_GATE |-> <<"LOAD", "NEW_GATE_H">>,
              NEW_GATE_H |-> <<"LOAD", "NEW_GATE_X">>,
              NEW_GATE_X |-> <<"APPLY_ELEMENTWISE">>]

Init ==
  /\ ArrayInit("none") /\ FeederInit
  /\ phase = <<"IDLE">> /\ drain_count = 0 /\ done = FALSE
  /\ h_prev = NoVec /\ msg = NoVec
  /\ gate = [g \in Gates |-> NoSums]
  /\ attached \in BOOLEAN /\ loop_ticked = FALSE
  /\ owned = FALSE /\ own_feeder = TRUE /\ turns = 0

Resting == phase \in {<<"IDLE">>, <<"DONE">>}

(* start(h, m), in any phase, but not by an owner that waits for the cell: *)
(* a core that is stalled issues nothing (simd_core.hpp:121).  gate keeps  *)
(* what it held, and so do feeder and array, also when an evaluation is    *)
(* given up for this one.                                                  *)
Start ==
  \E h, m \in Vec :
    /\ ~ owned \/ Resting
    /\ h # m
    /\ h_prev' = h /\ msg' = m
    /\ phase' = <<"LOAD", "RESET_GATE">>
    /\ drain_count' = 0
    /\ done' = FALSE
    /\ bottom' = NoSums
    /\ owned' = TRUE /\ own_feeder' = FeederEmpty
    /\ UNCHANGED <<weight, act_in, psum_in, delay_lines, gate, attached, loop_ticked,
                   turns>>

(* The owner turns away from an evaluation, as load_program does           *)
(* (simd_core.hpp:63-72) and a late reply to an earlier LOAD (:281), and   *)
(* back to it, when it stalls with is_waiting_for_gru_ still set (:101).   *)
OwnerTurns ==
  /\ ~ Resting
  /\ IF owned THEN turns < MaxTurns /\ turns' = turns + 1 ELSE UNCHANGED turns
  /\ owned' = ~ owned
  /\ UNCHANGED <<arrayVars, delay_lines, gruVars, attached, loop_ticked, own_feeder>>

(* Somebody else uses the feeder: a PUSH_ARR (simd_core.hpp:168-178) or    *)
(* the vertex program's gather (tgn_twophase.hpp:277).                     *)
OthersPush ==
  /\ turns < MaxTurns /\ turns' = turns + 1
  /\ \E v \in Vec : push_vector(v)
  /\ own_feeder' = (own_feeder /\ Resting)
  /\ UNCHANGED <<arrayVars, gruVars, attached, loop_ticked, owned>>

(* The simulator loop's tick of the vault, ahead of the owner's in the     *)
(* same cycle (ramulator_hbm.cpp:100-106).                                 *)
LoopTick ==
  /\ attached /\ ~ loop_ticked
  /\ TickArray
  /\ loop_ticked' = TRUE
  /\ UNCHANGED <<gruVars, attached, owned, own_feeder, turns>>

(* The owner's place in the cycle.                                         *)
OwnersTurn ==
  /\ loop_ticked = attached /\ loop_ticked' = FALSE
  /\ UNCHANGED <<attached, owned, own_feeder, turns>>

(* Mutant: the input branch pushes what the hidden branches push.          *)
Load_copied(g) ==
  /\ owned /\ phase = <<"LOAD", g>>
  /\ OwnersTurn
  /\ drain_count' = drain_count + 1
  /\ load_weights(Weights[g])
  /\ push_vector(h_prev)
  /\ phase' = <<"SETTLE", g>>
  /\ UNCHANGED <<done, h_prev, msg, gate>>

Load(g) ==
  /\ owned /\ phase = <<"LOAD", g>>
  /\ OwnersTurn
  /\ drain_count' = drain_count + 1
  /\ load_weights(Weights[g])
  /\ push_vector(Operand(g))
  /\ phase' = <<"SETTLE", g>>
  /\ UNCHANGED <<done, h_prev, msg, gate>>

(* Mutant: the count is not restarted after the load.                      *)
Settle_noReset(g) ==
  /\ owned /\ phase = <<"SETTLE", g>>
  /\ OwnersTurn
  /\ drain_count' = drain_count + 1
  /\ phase' = <<"DRAIN", g>>
  /\ UNCHANGED <<arrayVars, delay_lines, done, h_prev, msg, gate>>

Settle(g) ==
  /\ owned /\ phase = <<"SETTLE", g>>
  /\ OwnersTurn
  /\ drain_count' = 0
  /\ phase' = <<"DRAIN", g>>
  /\ UNCHANGED <<arrayVars, delay_lines, done, h_prev, msg, gate>>

(* Mutant: the count is tested before it is incremented.                   *)
Drain_late(g) ==
  /\ owned /\ phase = <<"DRAIN", g>>
  /\ OwnersTurn
  /\ TickArray
  /\ IF drain_count >= kGEMMLatency
     THEN /\ gate' = [gate EXCEPT ![g] = bottom']
          /\ drain_count' = 0
          /\ phase' = Following[g]
     ELSE /\ drain_count' = drain_count + 1
          /\ UNCHANGED <<gate, phase>>
  /\ UNCHANGED <<done, h_prev, msg>>

(* One DRAIN tick.  The count is incremented first, and the last tick's    *)
(* outputs become the gate.                                                *)
Drain(g) ==
  /\ owned /\ phase = <<"DRAIN", g>>
  /\ OwnersTurn
  /\ TickArray
  /\ IF drain_count + 1 >= kGEMMLatency
     THEN /\ gate' = [gate EXCEPT ![g] = bottom']
          /\ drain_count' = 0
          /\ phase' = Following[g]
     ELSE /\ drain_count' = drain_count + 1
          /\ UNCHANGED <<gate, phase>>
  /\ UNCHANGED <<done, h_prev, msg>>

ApplyElementwise ==
  /\ owned /\ phase = <<"APPLY_ELEMENTWISE">>
  /\ OwnersTurn
  /\ drain_count' = drain_count + 1
  /\ done' = TRUE
  /\ phase' = <<"DONE">>
  /\ UNCHANGED <<arrayVars, delay_lines, h_prev, msg, gate>>

(* A cycle in which the cell has nothing to compute, or is not ticked.     *)
IdleCycle ==
  /\ Resting \/ ~ owned
  /\ OwnersTurn
  /\ UNCHANGED <<arrayVars, delay_lines, gruVars>>

tick == ApplyElementwise \/ \E g \in Gates : Load(g) \/ Settle(g) \/ Drain(g)

Next == Start \/ OwnerTurns \/ OthersPush \/ LoopTick \/ tick \/ IdleCycle

Spec == Init /\ [][Next]_vars

(* The simulator loop and an owner that waits for the cell keep ticking.   *)
FairSpec == Spec /\ WF_vars(LoopTick) /\ WF_vars(tick)

-----------------------------------------------------------------------------
Phases ==
  {<<"IDLE">>, <<"APPLY_ELEMENTWISE">>, <<"DONE">>}
    \cup ({"LOAD", "SETTLE", "DRAIN"} \X Gates)

(* Types of the phase machine: the drain count never reaches its limit.    *)
TypeOK ==
  /\ ArrayTypeOK /\ FeederTypeOK
  /\ phase \in Phases
  /\ drain_count \in 0 .. kGEMMLatency - 1
  /\ done \in BOOLEAN
  /\ h_prev \in Activation /\ msg \in Activation
  /\ gate \in [Gates -> [Col -> SUBSET Term]]
  /\ attached \in BOOLEAN /\ loop_ticked \in BOOLEAN
  /\ owned \in BOOLEAN /\ own_feeder \in BOOLEAN /\ turns \in 0 .. MaxTurns

WholeGate(g, c) == gate[g][c] = WholeColumn(Operand(g), Weights[g])

(* Every gate of a finished evaluation is the whole product of its own     *)
(* operand and its own weights in every column: GRU(msg, h_prev) is what   *)
(* tests/tgn_test.cpp:159-166 expects in every dimension, and              *)
(* kGEMMLatency is meant to cover a whole GEMM (gru.hpp:103-104).          *)
GatesComplete ==
  done => \A g \in Gates, c \in Col : WholeGate(g, c)

(* Where no SIMD core is attached, the last column, the one whose sums     *)
(* come out on the last drain tick, is whole in every gate of a finished   *)
(* evaluation that began with an empty feeder and had it to itself, also   *)
(* when the evaluations before it were given up half-way and the owner     *)
(* left this one and came back: the cell "borrows" the array (gru.hpp:153) *)
(* and a whole GEMM fits into kGEMMLatency ticks (:103-104).  Without the  *)
(* hypothesis it fails: start() does not clear the feeder (:142-150).      *)
LastColumnWhole ==
  done /\ ~ attached /\ own_feeder => \A g \in Gates : WholeGate(g, kDimension - 1)

(* Whatever such an evaluation reads for a gate belongs to that gate's     *)
(* operand and weights: nothing that an earlier gate, or an evaluation     *)
(* given up half-way, has left in the array is in it, whoever else ticks   *)
(* the array.                                                              *)
GatesUnmixed ==
  done /\ own_feeder =>
    \A g \in Gates, c \in Col : gate[g][c] \subseteq WholeColumn(Operand(g), Weights[g])

(* Every evaluation finishes, or its owner turns away from it.             *)
EveryStartFinishes ==
  (phase = <<"LOAD", "RESET_GATE">>) ~> done \/ ~ owned
=============================================================================
