------------------------------- MODULE Wavefront -------------------------------
(***************************************************************************)
(* One vault's feeder and systolic array in the simulator loop: a SIMD     *)
(* core pushes vectors (PUSH_ARR, src/src/simd_core.hpp:168-178), and the  *)
(* loop ticks feeder and array once per cycle                              *)
(* (src/src/ramulator_hbm.cpp:100-106).                                    *)
(***************************************************************************)
EXTENDS ArrayFeeder

CONSTANT
  PushWhenEmpty   \* TRUE: the program pushes only into an empty feeder

ASSUME PushAssumption == PushWhenEmpty \in BOOLEAN

VARIABLE
  age   \* history: ticks since each vector was pushed, up to Gone

wavefrontVars == <<arrayVars, delay_lines, age>>

(* By this age a vector pushed into an empty feeder has left the array.    *)
Gone == 2 * kDimension + 1

WavefrontInit ==
  /\ \E w \in Matrix : ArrayInit(w)
  /\ FeederInit
  /\ age = [v \in Vec |-> Gone]

(* PUSH_ARR.  A core executes one instruction per cycle, so at most one    *)
(* vector is pushed between two ticks; a name is used again only when its  *)
(* vector is gone (a bound, not a guard of the code).                      *)
PushArr ==
  \E v \in Vec :
    /\ age[v] = Gone
    /\ \A u \in Vec : age[u] # 0
    /\ PushWhenEmpty => FeederEmpty
    /\ push_vector(v)
    /\ age' = [age EXCEPT ![v] = 0]
    /\ UNCHANGED arrayVars

(* The caller loads new weights only when every vector is gone.            *)
LoadWeights ==
  \E w \in Matrix :
    /\ \A v \in Vec : age[v] = Gone
    /\ load_weights(w)
    /\ UNCHANGED <<delay_lines, age>>

(* The loop's tick of this vault.                                          *)
VaultTick ==
  /\ TickArray
  /\ age' = [v \in Vec |-> IF age[v] = Gone THEN Gone ELSE age[v] + 1]

WavefrontNext == PushArr \/ LoadWeights \/ VaultTick

WavefrontSpec == WavefrontInit /\ [][WavefrontNext]_wavefrontVars

-----------------------------------------------------------------------------
(* Column c of a vector leaves the array in the (kDimension + c + 1)-th    *)
(* tick after its push, whole, and no column ever shows anything else: no  *)
(* vector reaches into another one's sums, and none is cut short.          *)
OutputsOnTime ==
  \A c \in Col :
    bottom[c] = UNION {WholeColumn(v, weight) :
                  v \in {u \in Vec : age[u] = kDimension + c + 1}}

(* The wavefront alignment that the delays are for ("Pad with i zeros to   *)
(* create the spatial skew (wavefront alignment)", array_feeder.hpp:15): a *)
(* column that leaves the array is the whole product of one vector.        *)
Aligned ==
  \A c \in Col : bottom[c] # {} =>
    \E v \in Vec : bottom[c] = WholeColumn(v, weight)
=============================================================================
