------------------------------ MODULE ArrayProofs ------------------------------
(***************************************************************************)
(* Proofs about feeder and array, for arrays of any size.  First, for any  *)
(* number of vectors and matrices that a program pushes: where every       *)
(* activation and every partial sum is, in terms of the age of its vector. *)
(* Then, for the GRU cell: where the one vector is that the cell is        *)
(* working on, and so what the cell reads.                                 *)
(***************************************************************************)
EXTENDS Wavefront, GRUCell, TLAPS

USE ArrayAssumption DEF Row, Col

-----------------------------------------------------------------------------
(* What every user of feeder and array relies on.                          *)

(* A lane after a push into an empty one.                                  *)
LEMMA PushedLine ==
  ASSUME FeederEmpty, NEW v \in Vec, push_vector(v), NEW i \in Row
  PROVE  /\ delay_lines'[i] \in Seq(Activation)
         /\ DOMAIN delay_lines'[i] = 1 .. i + 1 /\ Len(delay_lines'[i]) = i + 1
         /\ \A j \in 1 .. i : delay_lines'[i][j] = NoVec
         /\ delay_lines'[i][i + 1] = v
<1>1. Skew(i) \in Seq(Activation) /\ Len(Skew(i)) = i /\ \A j \in 1 .. i : Skew(i)[j] = NoVec
  BY DEF Skew, Activation
<1>2. delay_lines'[i] = Append(<<>> \o Skew(i), v)
  BY DEF FeederEmpty, push_vector
<1>3. <<>> \o Skew(i) = Skew(i)
  BY <1>1
<1> QED BY <1>1, <1>2, <1>3 DEF Activation

(* A push keeps the types of the lanes.                                    *)
LEMMA PushedTypes ==
  ASSUME FeederTypeOK, NEW v \in Vec, push_vector(v)
  PROVE  FeederTypeOK'
<1>1. \A i \in Row : Skew(i) \in Seq(Activation)
  BY DEF Skew, Activation
<1>2. delay_lines' = [i \in Row |-> Append(delay_lines[i] \o Skew(i), v)]
  BY DEF push_vector
<1>3. \A i \in Row : Append(delay_lines[i] \o Skew(i), v) \in Seq(Activation)
  BY <1>1 DEF FeederTypeOK, Activation
<1> QED BY <1>2, <1>3 DEF FeederTypeOK

(* A lane after a tick, and what it gives to the array.                    *)
LEMMA PoppedLine ==
  ASSUME FeederTypeOK, PopLines, NEW i \in Row
  PROVE  /\ delay_lines'[i] \in Seq(Activation)
         /\ next_activations[i] \in Activation
         /\ \A j \in DOMAIN delay_lines'[i] :
              j + 1 \in DOMAIN delay_lines[i] /\ delay_lines'[i][j] = delay_lines[i][j + 1]
         /\ \A j \in Nat \ {0} :
              j + 1 \in DOMAIN delay_lines[i] => j \in DOMAIN delay_lines'[i]
<1>1. /\ delay_lines[i] \in Seq(Activation)
      /\ delay_lines'[i] = IF delay_lines[i] = <<>> THEN <<>> ELSE Tail(delay_lines[i])
  BY DEF FeederTypeOK, PopLines
<1>2. CASE delay_lines[i] = <<>>
  <2>1. DOMAIN delay_lines'[i] = {} /\ DOMAIN delay_lines[i] = {} /\ delay_lines'[i] = <<>>
    BY <1>1, <1>2
  <2> QED BY <1>2, <2>1 DEF next_activations, Activation
<1>3. CASE delay_lines[i] # <<>>
  <2>1. delay_lines'[i] = Tail(delay_lines[i])
    BY <1>1, <1>3
  <2>2. next_activations[i] = Head(delay_lines[i])
    BY <1>3 DEF next_activations
  <2> QED BY <1>1, <1>3, <2>1, <2>2
<1> QED BY <1>2, <1>3

(* What an element adds: the product of its activation, if it has one.     *)
LEMMA ProductOf ==
  ASSUME ArrayTypeOK, NEW r \in Row, NEW c \in Col
  PROVE  /\ Product(<<r, c>>) = {t \in Term : t.weight = weight /\ t.row = r
                                              /\ t.vec = act_in[<<r, c>>]}
         /\ psum_out(<<r, c>>) \subseteq Term
<1>1. /\ act_in[<<r, c>>] \in Activation /\ weight \in Matrix
      /\ psum_in[<<r, c>>] \subseteq Term
  BY DEF ArrayTypeOK
<1>2. CASE act_in[<<r, c>>] = NoVec
  BY <1>1, <1>2 DEF Product, Term, psum_out
<1>3. CASE act_in[<<r, c>>] # NoVec
  <2>1. act_in[<<r, c>>] \in Vec
    BY <1>1, <1>3 DEF Activation
  <2>2. Product(<<r, c>>) = {[vec |-> act_in[<<r, c>>], row |-> r, weight |-> weight]}
    BY <1>3 DEF Product
  <2>3. Product(<<r, c>>) = {t \in Term : t.weight = weight /\ t.row = r
                                          /\ t.vec = act_in[<<r, c>>]}
    BY <1>1, <2>1, <2>2 DEF Term
  <2>4. Product(<<r, c>>) \subseteq Term
    BY <2>3
  <2> QED BY <1>1, <2>3, <2>4 DEF psum_out
<1> QED BY <1>2, <1>3

(* A tick keeps the types of feeder and array.                             *)
LEMMA TickTypes ==
  ASSUME FeederTypeOK, ArrayTypeOK, TickArray
  PROVE  FeederTypeOK' /\ ArrayTypeOK'
<1>0. /\ delay_lines \in [Row -> Seq(Activation)] /\ weight \in Matrix
      /\ act_in \in [Row \X Col -> Activation]
      /\ psum_in \in [Row \X Col -> SUBSET Term]
  BY DEF FeederTypeOK, ArrayTypeOK
<1>1. /\ weight' = weight
      /\ delay_lines' = [i \in Row |-> IF delay_lines[i] = <<>> THEN <<>>
                                       ELSE Tail(delay_lines[i])]
      /\ bottom' = [c \in Col |-> psum_out(<<kDimension - 1, c>>)]
      /\ psum_in' = [pe \in Row \X Col |->
           IF pe[1] = 0 THEN {} ELSE psum_out(<<pe[1] - 1, pe[2]>>)]
      /\ act_in' = [pe \in Row \X Col |->
           IF pe[2] = 0 THEN next_activations[pe[1]] ELSE act_in[<<pe[1], pe[2] - 1>>]]
      /\ PopLines
  BY DEF TickArray, PopLines, array_tick
<1>2. \A i \in Row : delay_lines'[i] \in Seq(Activation) /\ next_activations[i] \in Activation
  BY <1>1, PoppedLine
<1>3. \A r \in Row, c \in Col : psum_out(<<r, c>>) \subseteq Term
  BY ProductOf
<1>4. FeederTypeOK'
  BY <1>1, <1>2 DEF FeederTypeOK
<1>5. act_in' \in [Row \X Col -> Activation]
  <2> SUFFICES ASSUME NEW pe \in Row \X Col
               PROVE  (IF pe[2] = 0 THEN next_activations[pe[1]]
                       ELSE act_in[<<pe[1], pe[2] - 1>>]) \in Activation
    BY <1>1
  <2>1. pe[2] # 0 => <<pe[1], pe[2] - 1>> \in Row \X Col
    OBVIOUS
  <2> QED BY <1>0, <1>2, <2>1
<1>6. psum_in' \in [Row \X Col -> SUBSET Term]
  <2> SUFFICES ASSUME NEW pe \in Row \X Col
               PROVE  (IF pe[1] = 0 THEN {} ELSE psum_out(<<pe[1] - 1, pe[2]>>)) \subseteq Term
    BY <1>1
  <2>1. pe[1] # 0 => pe[1] - 1 \in Row /\ pe[2] \in Col
    OBVIOUS
  <2> QED BY <1>3, <2>1
<1>7. bottom' \in [Col -> SUBSET Term]
  <2>1. kDimension - 1 \in Row
    OBVIOUS
  <2> QED BY <1>1, <1>3, <2>1
<1> QED BY <1>0, <1>1, <1>4, <1>5, <1>6, <1>7 DEF ArrayTypeOK

-----------------------------------------------------------------------------
(* Vectors that a program pushes.                                          *)

(* A vector of age a in a lane that it has not left is i + 1 - a elements  *)
(* away from the end of lane i, and nothing else is in the lane.           *)
LanesInv ==
  \A i \in Row :
    /\ \A j \in DOMAIN delay_lines[i], v \in Vec :
         delay_lines[i][j] = v <=> age[v] = i + 1 - j
    /\ \A v \in Vec : age[v] <= i => i + 1 - age[v] \in DOMAIN delay_lines[i]

(* Row r and column c hold a vector at age r + c + 1 ...                   *)
ActsInv ==
  \A r \in Row, c \in Col, v \in Vec : act_in[<<r, c>>] = v <=> age[v] = r + c + 1

(* ... together with the products of the rows above.                       *)
Summed(r, a) == {t \in Term : t.weight = weight /\ t.row < r /\ age[t.vec] = a}

SumsInv == \A r \in Row, c \in Col : psum_in[<<r, c>>] = Summed(r, r + c + 1)

BottomInv == \A c \in Col : bottom[c] = Summed(kDimension, kDimension + c + 1)

WaveTypeOK ==
  /\ FeederTypeOK /\ ArrayTypeOK
  /\ age \in [Vec -> 0 .. Gone]

WaveInv == WaveTypeOK /\ LanesInv /\ ActsInv /\ SumsInv /\ BottomInv

(* Nothing is in the grid at the age at which vectors are gone.            *)
LEMMA GoneIsLate ==
  \A r \in Row, c \in Col : /\ r + c + 1 \in 1 .. Gone - 1
                            /\ kDimension + c + 1 \in 1 .. Gone - 1
BY DEF Gone

(* The initial state.                                                      *)
LEMMA WaveInit == WavefrontInit => WaveInv
<1> SUFFICES ASSUME WavefrontInit PROVE WaveInv
  OBVIOUS
<1>1. PICK w \in Matrix : ArrayInit(w)
  BY DEF WavefrontInit
<1>2. /\ delay_lines = [i \in Row |-> <<>>]
      /\ age = [v \in Vec |-> Gone]
  BY DEF WavefrontInit, FeederInit
<1>3. WaveTypeOK
  BY <1>1, <1>2 DEF WaveTypeOK, FeederTypeOK, ArrayTypeOK, ArrayInit, Activation, NoSums, Gone
<1>4. LanesInv
  <2>1. \A j \in DOMAIN << >> : FALSE
    OBVIOUS
  <2> QED BY <1>2, <2>1 DEF LanesInv, Gone
<1>5. \A r, a : a # Gone => Summed(r, a) = {}
  BY <1>2 DEF Summed, Term
<1>6. ActsInv
  BY <1>1, <1>2, GoneIsLate DEF ActsInv, ArrayInit
<1>7. SumsInv /\ BottomInv
  <2>1. \A r \in Row, c \in Col : r + c + 1 # Gone /\ kDimension + c + 1 # Gone
    BY DEF Gone
  <2> QED BY <1>1, <1>5, <2>1 DEF SumsInv, BottomInv, ArrayInit, NoSums
<1> QED BY <1>3, <1>4, <1>6, <1>7 DEF WaveInv

(* A push into empty lanes: the skew puts the new vector where its age     *)
(* says, and every other vector has left the lanes.                        *)
LEMMA PushStep == WaveInv /\ PushWhenEmpty /\ PushArr => WaveInv'
<1> SUFFICES ASSUME WaveInv, PushWhenEmpty, PushArr PROVE WaveInv'
  OBVIOUS
<1> USE DEF WaveInv, WaveTypeOK
<1>1. PICK v \in Vec : PushArr!(v)
  BY DEF PushArr
<1>2. /\ \A i \in Row : delay_lines[i] = <<>>
      /\ age[v] = Gone /\ age' = [age EXCEPT ![v] = 0]
      /\ push_vector(v) /\ delay_lines' = [i \in Row |-> delay_lines'[i]]
      /\ weight' = weight /\ act_in' = act_in /\ psum_in' = psum_in /\ bottom' = bottom
  BY <1>1 DEF FeederEmpty, push_vector, arrayVars
<1>3. ASSUME NEW i \in Row
      PROVE  /\ delay_lines'[i] \in Seq(Activation)
             /\ DOMAIN delay_lines'[i] = 1 .. i + 1
             /\ \A j \in 1 .. i : delay_lines'[i][j] = NoVec
             /\ delay_lines'[i][i + 1] = v
  BY <1>2, PushedLine DEF FeederEmpty
<1>4. WaveTypeOK'
  <2>1. 0 \in 0 .. Gone
    BY DEF Gone
  <2> QED BY <1>2, <1>3, <2>1 DEF FeederTypeOK, ArrayTypeOK
<1>5. \A u \in Vec : age'[u] = IF u = v THEN 0 ELSE age[u]
  BY <1>2
<1>6. \A u \in Vec, i \in Row : ~ (age[u] <= i)
  <2>1. \A j \in DOMAIN << >> : FALSE
    OBVIOUS
  <2> QED BY <1>2, <2>1 DEF LanesInv
<1>7. LanesInv'
  <2>1. ASSUME NEW i \in Row, NEW j \in 1 .. i + 1, NEW u \in Vec
        PROVE  delay_lines'[i][j] = u <=> age'[u] = i + 1 - j
    <3>1. i + 1 - j \in Row
      OBVIOUS
    <3>2. age[u] \in Nat
      BY DEF Gone
    <3>3. u # v => age'[u] # i + 1 - j
      BY <1>5, <1>6, <3>1, <3>2
    <3> QED BY <1>3, <1>5, <3>1, <3>3
  <2>2. ASSUME NEW i \in Row, NEW u \in Vec, age'[u] <= i
        PROVE  i + 1 - age'[u] \in 1 .. i + 1
    BY <1>5, <1>6, <2>2
  <2> QED BY <1>3, <2>1, <2>2 DEF LanesInv
<1>8. ASSUME NEW a \in 1 .. Gone - 1
      PROVE  /\ \A u \in Vec : age'[u] = a <=> age[u] = a
             /\ \A r : Summed(r, a)' = Summed(r, a)
  <2>1. \A u \in Vec : age'[u] = a <=> age[u] = a
    BY <1>2, <1>5 DEF Gone
  <2> QED BY <1>2, <2>1 DEF Summed, Term
<1>9. ActsInv'
  <2>1. \A r \in Row, c \in Col, u \in Vec : age'[u] = r + c + 1 <=> age[u] = r + c + 1
    BY <1>8, GoneIsLate
  <2> SUFFICES ASSUME NEW r \in Row, NEW c \in Col, NEW u \in Vec
               PROVE  act_in'[<<r, c>>] = u <=> age'[u] = r + c + 1
    BY DEF ActsInv
  <2>2. act_in[<<r, c>>] = u <=> age[u] = r + c + 1
    BY DEF ActsInv
  <2> QED BY <1>2, <2>1, <2>2
<1>10. SumsInv' /\ BottomInv'
  <2>1. \A r \in Row, c \in Col : Summed(r, r + c + 1)' = Summed(r, r + c + 1)
    BY <1>8, GoneIsLate
  <2>2. \A c \in Col :
          Summed(kDimension, kDimension + c + 1)' = Summed(kDimension, kDimension + c + 1)
    BY <1>8, GoneIsLate
  <2> QED BY <1>2, <2>1, <2>2 DEF SumsInv, BottomInv
<1> QED BY <1>4, <1>7, <1>9, <1>10

(* New weights are loaded into a grid that nothing is in.                  *)
LEMMA LoadStep == WaveInv /\ LoadWeights => WaveInv'
<1> SUFFICES ASSUME WaveInv, LoadWeights PROVE WaveInv'
  OBVIOUS
<1> USE DEF WaveInv, WaveTypeOK
<1>1. PICK w \in Matrix : LoadWeights!(w)
  BY DEF LoadWeights
<1>2. /\ \A v \in Vec : age[v] = Gone
      /\ weight' = w /\ bottom' = bottom /\ delay_lines' = delay_lines /\ age' = age
      /\ act_in' = [pe \in Row \X Col |-> NoVec]
      /\ psum_in' = [pe \in Row \X Col |-> {}]
  BY <1>1 DEF load_weights
<1>3. WaveTypeOK'
  BY <1>2 DEF FeederTypeOK, ArrayTypeOK, Activation
<1>4. LanesInv'
  BY <1>2 DEF LanesInv
<1>5. \A r \in Row, c \in Col : r + c + 1 # Gone /\ kDimension + c + 1 # Gone
  BY DEF Gone
<1>6. ActsInv'
  <2> SUFFICES ASSUME NEW r \in Row, NEW c \in Col, NEW u \in Vec
               PROVE  act_in'[<<r, c>>] = u <=> age'[u] = r + c + 1
    BY DEF ActsInv
  <2>1. act_in'[<<r, c>>] = NoVec
    BY <1>2
  <2> QED BY <1>2, <1>5, <2>1
<1>7. \A r, a : a # Gone => Summed(r, a) = {} /\ Summed(r, a)' = {}
  BY <1>2 DEF Summed, Term
<1>8. SumsInv' /\ BottomInv'
  <2>1. SumsInv'
    <3> SUFFICES ASSUME NEW r \in Row, NEW c \in Col
                 PROVE  psum_in'[<<r, c>>] = Summed(r, r + c + 1)'
      BY DEF SumsInv
    <3>1. psum_in'[<<r, c>>] = {}
      BY <1>2
    <3> QED BY <1>5, <1>7, <3>1
  <2>2. BottomInv'
    BY <1>2, <1>5, <1>7 DEF BottomInv
  <2> QED BY <2>1, <2>2
<1> QED BY <1>3, <1>4, <1>6, <1>8

(* A vector grows older by a tick.                                         *)
LEMMA Ageing ==
  ASSUME WaveTypeOK, VaultTick, NEW v \in Vec, NEW a \in 0 .. Gone - 2
  PROVE  age'[v] = a + 1 <=> age[v] = a
BY DEF WaveTypeOK, VaultTick, Gone

(* What a lane gives to the array is the vector that its age says.         *)
LEMMA Leaving ==
  ASSUME WaveInv, NEW i \in Row, NEW v \in Vec
  PROVE  next_activations[i] = v <=> age[v] = i
<1>1. delay_lines[i] \in Seq(Activation)
  BY DEF WaveInv, WaveTypeOK, FeederTypeOK
<1>2. CASE delay_lines[i] = <<>>
  <2>1. \A j \in DOMAIN << >> : FALSE
    OBVIOUS
  <2>2. age[v] # i
    BY <1>2, <2>1 DEF WaveInv, LanesInv
  <2> QED BY <1>2, <2>2 DEF next_activations
<1>3. CASE delay_lines[i] # <<>>
  <2>1. 1 \in DOMAIN delay_lines[i] /\ Head(delay_lines[i]) = delay_lines[i][1]
    BY <1>1, <1>3
  <2>2. delay_lines[i][1] = v <=> age[v] = i + 1 - 1
    BY <2>1 DEF WaveInv, LanesInv
  <2> QED BY <1>3, <2>1, <2>2 DEF next_activations
<1> QED BY <1>2, <1>3

(* A tick moves every vector on by one place.                              *)
LEMMA TickStep == WaveInv /\ VaultTick => WaveInv'
<1> SUFFICES ASSUME WaveInv, VaultTick PROVE WaveInv'
  OBVIOUS
<1>0. /\ delay_lines \in [Row -> Seq(Activation)]
      /\ weight \in Matrix /\ age \in [Vec -> 0 .. Gone]
  BY DEF WaveInv, WaveTypeOK, FeederTypeOK, ArrayTypeOK
<1>1. /\ weight' = weight
      /\ delay_lines' = [i \in Row |-> IF delay_lines[i] = <<>> THEN <<>>
                                       ELSE Tail(delay_lines[i])]
      /\ bottom' = [c \in Col |-> psum_out(<<kDimension - 1, c>>)]
      /\ psum_in' = [pe \in Row \X Col |->
           IF pe[1] = 0 THEN {} ELSE psum_out(<<pe[1] - 1, pe[2]>>)]
      /\ act_in' = [pe \in Row \X Col |->
           IF pe[2] = 0 THEN next_activations[pe[1]] ELSE act_in[<<pe[1], pe[2] - 1>>]]
      /\ age' = [v \in Vec |-> IF age[v] = Gone THEN Gone ELSE age[v] + 1]
      /\ PopLines
  BY DEF VaultTick, TickArray, PopLines, array_tick
<1>2. ASSUME NEW i \in Row
      PROVE  /\ delay_lines'[i] \in Seq(Activation)
             /\ next_activations[i] \in Activation
             /\ \A j \in DOMAIN delay_lines'[i] :
                  j + 1 \in DOMAIN delay_lines[i] /\ delay_lines'[i][j] = delay_lines[i][j + 1]
             /\ \A j \in Nat \ {0} :
                  j + 1 \in DOMAIN delay_lines[i] => j \in DOMAIN delay_lines'[i]
  BY <1>1, PoppedLine DEF WaveInv, WaveTypeOK
<1>3. \A v \in Vec, a \in 0 .. Gone - 2 : age'[v] = a + 1 <=> age[v] = a
  BY Ageing DEF WaveInv
<1>4. WaveTypeOK'
  <2>1. FeederTypeOK' /\ ArrayTypeOK'
    BY TickTypes DEF WaveInv, WaveTypeOK, VaultTick
  <2>2. age' \in [Vec -> 0 .. Gone]
    <3>1. \A v \in Vec : age[v] \in 0 .. Gone /\ Gone \in Nat
      BY <1>0 DEF Gone
    <3>2. \A v \in Vec : (IF age[v] = Gone THEN Gone ELSE age[v] + 1) \in 0 .. Gone
      BY <3>1
    <3> QED BY <1>1, <3>2
  <2> QED BY <2>1, <2>2 DEF WaveTypeOK
<1>5. LanesInv'
  <2>1. ASSUME NEW i \in Row, NEW j \in DOMAIN delay_lines'[i], NEW v \in Vec
        PROVE  delay_lines'[i][j] = v <=> age'[v] = i + 1 - j
    <3>1. /\ j + 1 \in DOMAIN delay_lines[i] /\ delay_lines'[i][j] = delay_lines[i][j + 1]
          /\ j \in Nat \ {0}
      BY <1>2
    <3>2. delay_lines'[i][j] = v <=> age[v] = i + 1 - (j + 1)
      BY <3>1 DEF WaveInv, LanesInv
    <3>3. /\ age[v] \in 0 .. Gone
          /\ age'[v] = IF age[v] = Gone THEN Gone ELSE age[v] + 1
      BY <1>0, <1>1
    <3> QED BY <3>1, <3>2, <3>3 DEF Gone
  <2>2. ASSUME NEW i \in Row, NEW v \in Vec, age'[v] <= i
        PROVE  i + 1 - age'[v] \in DOMAIN delay_lines'[i]
    <3>1. age[v] \in Nat /\ age'[v] = age[v] + 1 /\ age[v] + 1 <= i
      BY <1>0, <1>1, <2>2 DEF Gone
    <3>2. (i - age[v]) + 1 \in DOMAIN delay_lines[i]
      <4>1. i + 1 - age[v] \in DOMAIN delay_lines[i]
        BY <3>1 DEF WaveInv, LanesInv
      <4> QED BY <3>1, <4>1
    <3>3. i - age[v] \in DOMAIN delay_lines'[i]
      BY <1>2, <3>1, <3>2
    <3> QED BY <3>1, <3>3
  <2> QED BY <2>1, <2>2 DEF LanesInv
<1>6. ActsInv'
  <2> SUFFICES ASSUME NEW r \in Row, NEW c \in Col, NEW v \in Vec
               PROVE  act_in'[<<r, c>>] = v <=> age'[v] = r + c + 1
    BY DEF ActsInv
  <2>1. r + c \in 0 .. Gone - 2
    BY DEF Gone
  <2>2. CASE c = 0
    <3>1. act_in'[<<r, c>>] = next_activations[r]
      BY <1>1, <2>2
    <3> QED BY <1>3, <2>1, <2>2, <3>1, Leaving
  <2>3. CASE c # 0
    <3>1. act_in'[<<r, c>>] = act_in[<<r, c - 1>>] /\ c - 1 \in Col
      BY <1>1, <2>3
    <3>2. act_in[<<r, c - 1>>] = v <=> age[v] = r + (c - 1) + 1
      BY <3>1 DEF WaveInv, ActsInv
    <3> QED BY <1>3, <2>1, <3>1, <3>2
  <2> QED BY <2>2, <2>3
<1>7. ASSUME NEW r \in Row, NEW c \in Col
      PROVE  psum_out(<<r, c>>) = Summed(r + 1, r + 1 + c + 1)'
  <2>1. r + c + 1 \in 0 .. Gone - 2 /\ r + 1 + c + 1 = (r + c + 1) + 1
    BY DEF Gone
  <2>2. Summed(r + 1, r + 1 + c + 1)' =
          {t \in Term : t.weight = weight /\ t.row < r + 1 /\ age[t.vec] = r + c + 1}
    BY <1>1, <1>3, <2>1 DEF Summed, Term
  <2>3. psum_in[<<r, c>>] =
          {t \in Term : t.weight = weight /\ t.row < r /\ age[t.vec] = r + c + 1}
    BY DEF WaveInv, SumsInv, Summed
  <2>4. Product(<<r, c>>) =
          {t \in Term : t.weight = weight /\ t.row = r /\ age[t.vec] = r + c + 1}
    <3>1. \A v \in Vec : act_in[<<r, c>>] = v <=> age[v] = r + c + 1
      BY DEF WaveInv, ActsInv
    <3>2. Product(<<r, c>>) = {t \in Term : t.weight = weight /\ t.row = r
                                               /\ t.vec = act_in[<<r, c>>]}
      BY ProductOf DEF WaveInv, WaveTypeOK
    <3> QED BY <3>1, <3>2 DEF Term
  <2>5. \A t \in Term : t.row < r + 1 <=> t.row < r \/ t.row = r
    BY DEF Term
  <2> QED BY <2>2, <2>3, <2>4, <2>5 DEF psum_out
<1>8. SumsInv'
  <2> SUFFICES ASSUME NEW r \in Row, NEW c \in Col
               PROVE  psum_in'[<<r, c>>] = Summed(r, r + c + 1)'
    BY DEF SumsInv
  <2>1. CASE r = 0
    <3>1. \A t \in Term : ~ (t.row < 0)
      BY DEF Term
    <3> QED BY <1>1, <2>1, <3>1 DEF Summed
  <2>2. CASE r # 0
    <3>1. psum_in'[<<r, c>>] = psum_out(<<r - 1, c>>) /\ r - 1 \in Row
      BY <1>1, <2>2
    <3>2. psum_out(<<r - 1, c>>) = Summed((r - 1) + 1, (r - 1) + 1 + c + 1)'
      BY <1>7, <3>1
    <3>3. (r - 1) + 1 = r /\ (r - 1) + 1 + c + 1 = r + c + 1
      OBVIOUS
    <3> QED BY <3>1, <3>2, <3>3
  <2> QED BY <2>1, <2>2
<1>9. BottomInv'
  <2> SUFFICES ASSUME NEW c \in Col
               PROVE  bottom'[c] = Summed(kDimension, kDimension + c + 1)'
    BY DEF BottomInv
  <2>1. bottom'[c] = psum_out(<<kDimension - 1, c>>) /\ kDimension - 1 \in Row
    BY <1>1
  <2>2. psum_out(<<kDimension - 1, c>>) =
          Summed((kDimension - 1) + 1, (kDimension - 1) + 1 + c + 1)'
    BY <1>7, <2>1
  <2>3. (kDimension - 1) + 1 = kDimension
    OBVIOUS
  <2> QED BY <2>1, <2>2, <2>3
<1> QED BY <1>4, <1>5, <1>6, <1>8, <1>9 DEF WaveInv

(* Whatever a program pushes into an empty feeder leaves the array on time *)
(* and whole, for arrays of any size and any number of vectors.            *)
THEOREM WavefrontOnTime ==
  ASSUME PushWhenEmpty
  PROVE  WavefrontSpec => []OutputsOnTime
<1>1. WaveInv /\ [WavefrontNext]_wavefrontVars => WaveInv'
  <2> SUFFICES ASSUME WaveInv, [WavefrontNext]_wavefrontVars PROVE WaveInv'
    OBVIOUS
  <2>1. CASE UNCHANGED wavefrontVars
    BY <2>1 DEF wavefrontVars, arrayVars, WaveInv, WaveTypeOK, FeederTypeOK, ArrayTypeOK,
                LanesInv, ActsInv, SumsInv, BottomInv, Summed
  <2> QED BY <2>1, PushStep, LoadStep, TickStep DEF WavefrontNext
<1>2. WaveInv => OutputsOnTime
  <2> SUFFICES ASSUME WaveInv, NEW c \in Col
               PROVE  bottom[c] = UNION {WholeColumn(v, weight) :
                        v \in {u \in Vec : age[u] = kDimension + c + 1}}
    BY DEF OutputsOnTime
  <2>1. bottom[c] = {t \in Term : t.weight = weight /\ age[t.vec] = kDimension + c + 1}
    <3>1. \A t \in Term : t.row < kDimension
      BY DEF Term
    <3> QED BY <3>1 DEF WaveInv, BottomInv, Summed
  <2>2. weight \in Matrix
    BY DEF WaveInv, WaveTypeOK, ArrayTypeOK
  <2>3. \A t : t \in Term /\ t.weight = weight <=> \E v \in Vec : t \in WholeColumn(v, weight)
                                                            /\ t.vec = v
    BY <2>2 DEF WholeColumn, Term
  <2>4. \A v \in Vec : \A t \in WholeColumn(v, weight) : t.vec = v
    BY DEF WholeColumn
  <2> QED BY <2>1, <2>3, <2>4
<1> QED BY <1>1, <1>2, WaveInit, PTL DEF WavefrontSpec

-----------------------------------------------------------------------------
(* The GRU cell.  While it has the feeder to itself one vector is in the   *)
(* feeder and the array at a time, and everything about them is told by    *)
(* the ticks since it was pushed.                                          *)

(* The products of vector v in the rows above r, in the matrix loaded.     *)
Partial(v, r) == {t \in Term : t.vec = v /\ t.weight = weight /\ t.row < r}

(* Vector v alone is in feeder and array, n ticks after its push.          *)
InLanes(v, n) ==
  \A i \in Row :
    /\ Len(delay_lines[i]) = IF n <= i THEN i + 1 - n ELSE 0
    /\ \A j \in DOMAIN delay_lines[i] :
         delay_lines[i][j] = IF j = i + 1 - n THEN v ELSE NoVec

InGrid(v, n) ==
  \A r \in Row, c \in Col :
    /\ act_in[<<r, c>>] = IF n = r + c + 1 THEN v ELSE NoVec
    /\ psum_in[<<r, c>>] = IF n = r + c + 1 THEN Partial(v, r) ELSE {}

(* The gate that is being computed, in the phases in which its operand is  *)
(* in the feeder or the array.                                             *)
Computing(g) == phase = <<"SETTLE", g>> \/ phase = <<"DRAIN", g>>

(* n may be the array's ticks since that push.  They are the DRAIN ticks,  *)
(* and, when the loop ticks the array as well, at least one more: one in   *)
(* each cycle, also while the owner has turned away.                       *)
Aged(n) ==
  /\ n \in Nat
  /\ IF phase[1] = "SETTLE"
     THEN (attached /\ loop_ticked => 1 <= n) /\ (~ attached => n = 0)
     ELSE IF attached THEN drain_count + 1 <= n ELSE n = drain_count

(* The gates in the order in which they are computed; g has been read.     *)
Position == [RESET_GATE |-> 1, UPDATE_GATE |-> 2, NEW_GATE_H |-> 3, NEW_GATE_X |-> 4]
HasRead(g) ==
  \/ phase \in {<<"APPLY_ELEMENTWISE">>, <<"DONE">>}
  \/ \E k \in Gates : /\ phase = <<"LOAD", k>> \/ Computing(k)
                      /\ Position[g] < Position[k]

(* What the cell reads for a gate: the whole last column if the cell alone *)
(* ticks the array, and otherwise zeros.                                   *)
AsRead(g, c) ==
  gate[g][c] = IF ~ attached /\ c = kDimension - 1
               THEN WholeColumn(Operand(g), Weights[g]) ELSE {}

ReadInv == own_feeder => \A g \in Gates : HasRead(g) => \A c \in Col : AsRead(g, c)

PhaseInv ==
  /\ ~ attached => ~ loop_ticked
  /\ phase # <<"IDLE">> => h_prev \in Vec /\ msg \in Vec
  /\ done => phase = <<"DONE">>
  /\ (\E g \in Gates : phase = <<"LOAD", g>>) \/ phase = <<"APPLY_ELEMENTWISE">>
       => drain_count = 0
  /\ (\E g \in Gates : phase = <<"SETTLE", g>>) => drain_count = 1

(* Where the one vector is that the cell works on, and that the lanes are  *)
(* empty when the next is loaded.                                          *)
Located(g) ==
  /\ weight = Weights[g]
  /\ \E n \in Nat : Aged(n) /\ InLanes(Operand(g), n) /\ InGrid(Operand(g), n)

ArrayInv ==
  own_feeder =>
    /\ \A g \in Gates : Computing(g) => Located(g)
    /\ (\A g \in Gates : ~ Computing(g)) /\ ~ Resting => FeederEmpty

CellInv == TypeOK /\ PhaseInv /\ ArrayInv /\ ReadInv

(* The push of vector v into an empty feeder, as the weights are loaded.   *)
LEMMA Launched ==
  ASSUME FeederEmpty, NEW v \in Vec, NEW w, push_vector(v), load_weights(w)
  PROVE  InLanes(v, 0)' /\ InGrid(v, 0)'
<1>1. InLanes(v, 0)'
  <2> SUFFICES ASSUME NEW i \in Row
               PROVE  /\ Len(delay_lines'[i]) = i + 1
                      /\ \A j \in DOMAIN delay_lines'[i] :
                           delay_lines'[i][j] = IF j = i + 1 THEN v ELSE NoVec
    BY DEF InLanes
  <2>1. /\ DOMAIN delay_lines'[i] = 1 .. i + 1 /\ Len(delay_lines'[i]) = i + 1
        /\ \A j \in 1 .. i : delay_lines'[i][j] = NoVec
        /\ delay_lines'[i][i + 1] = v
    BY PushedLine
  <2>2. \A j \in 1 .. i + 1 : j # i + 1 => j \in 1 .. i
    OBVIOUS
  <2> QED BY <2>1, <2>2
<1>2. InGrid(v, 0)'
  BY DEF InGrid, load_weights
<1> QED BY <1>1, <1>2

(* A lane after a tick.                                                    *)
LEMMA LanesMoveOn ==
  ASSUME FeederTypeOK, PopLines, NEW v, NEW n \in Nat, InLanes(v, n)
  PROVE  /\ InLanes(v, n + 1)'
         /\ \A i \in Row : next_activations[i] = IF n = i THEN v ELSE NoVec
<1> SUFFICES ASSUME NEW i \in Row
             PROVE  /\ Len(delay_lines'[i]) = IF n + 1 <= i THEN i + 1 - (n + 1) ELSE 0
                    /\ \A j \in DOMAIN delay_lines'[i] :
                         delay_lines'[i][j] = IF j = i + 1 - (n + 1) THEN v ELSE NoVec
                    /\ next_activations[i] = IF n = i THEN v ELSE NoVec
  BY DEF InLanes
<1>1. /\ delay_lines[i] \in Seq(Activation)
      /\ delay_lines'[i] = IF delay_lines[i] = <<>> THEN <<>> ELSE Tail(delay_lines[i])
  BY DEF FeederTypeOK, PopLines
<1>2. /\ Len(delay_lines[i]) = IF n <= i THEN i + 1 - n ELSE 0
      /\ \A j \in DOMAIN delay_lines[i] :
           delay_lines[i][j] = IF j = i + 1 - n THEN v ELSE NoVec
  BY DEF InLanes
<1>3. CASE n <= i
  <2>1. delay_lines[i] # <<>> /\ Len(delay_lines[i]) = i + 1 - n
    BY <1>1, <1>2, <1>3
  <2>2. /\ delay_lines'[i] = Tail(delay_lines[i]) /\ Len(delay_lines'[i]) = i - n
        /\ \A j \in DOMAIN delay_lines'[i] :
             j \in Nat /\ j + 1 \in DOMAIN delay_lines[i]
               /\ delay_lines'[i][j] = delay_lines[i][j + 1]
    BY <1>1, <2>1
  <2>3. next_activations[i] = delay_lines[i][1] /\ 1 \in DOMAIN delay_lines[i]
    BY <1>1, <2>1 DEF next_activations
  <2>4. \A j \in DOMAIN delay_lines'[i] :
          delay_lines'[i][j] = IF j = i + 1 - (n + 1) THEN v ELSE NoVec
    BY <1>2, <2>2
  <2>5. next_activations[i] = IF n = i THEN v ELSE NoVec
    BY <1>2, <1>3, <2>3
  <2> QED BY <1>3, <2>2, <2>4, <2>5
<1>4. CASE i < n
  <2>1. delay_lines[i] = <<>>
    BY <1>1, <1>2, <1>4
  <2>2. delay_lines'[i] = <<>> /\ Len(<<>>) = 0 /\ \A j \in DOMAIN <<>> : FALSE
    BY <1>1, <2>1
  <2> QED BY <1>4, <2>1, <2>2 DEF next_activations
<1> QED BY <1>3, <1>4

(* A tick moves the vector on by one place, and brings out its column c    *)
(* if it is the tick for that: the (kDimension + c + 1)-th since its push. *)
LEMMA GridMovesOn ==
  ASSUME FeederTypeOK, ArrayTypeOK, TickArray, NEW v \in Vec, NEW n \in Nat,
         InLanes(v, n), InGrid(v, n)
  PROVE  /\ InLanes(v, n + 1)' /\ InGrid(v, n + 1)'
         /\ \A c \in Col : bottom'[c] = IF n = kDimension + c THEN WholeColumn(v, weight)
                                        ELSE {}
<1>1. /\ weight' = weight /\ PopLines /\ weight \in Matrix
      /\ bottom' = [c \in Col |-> psum_out(<<kDimension - 1, c>>)]
      /\ psum_in' = [pe \in Row \X Col |->
           IF pe[1] = 0 THEN {} ELSE psum_out(<<pe[1] - 1, pe[2]>>)]
      /\ act_in' = [pe \in Row \X Col |->
           IF pe[2] = 0 THEN next_activations[pe[1]] ELSE act_in[<<pe[1], pe[2] - 1>>]]
  BY DEF TickArray, PopLines, array_tick, ArrayTypeOK
<1>2. /\ InLanes(v, n + 1)'
      /\ \A i \in Row : next_activations[i] = IF n = i THEN v ELSE NoVec
  BY <1>1, LanesMoveOn
<1>3. v # NoVec
  OBVIOUS
<1>4. ASSUME NEW r \in Row, NEW c \in Col
      PROVE  psum_out(<<r, c>>) = IF n = r + c + 1 THEN Partial(v, r + 1) ELSE {}
  <2>1. Product(<<r, c>>) = {t \in Term : t.weight = weight /\ t.row = r
                                          /\ t.vec = act_in[<<r, c>>]}
    BY ProductOf
  <2>2. /\ act_in[<<r, c>>] = IF n = r + c + 1 THEN v ELSE NoVec
        /\ psum_in[<<r, c>>] = IF n = r + c + 1 THEN Partial(v, r) ELSE {}
    BY DEF InGrid
  <2>3. CASE n = r + c + 1
    <3>1. \A t \in Term : t.row < r + 1 <=> t.row < r \/ t.row = r
      BY DEF Term
    <3> QED BY <2>1, <2>2, <2>3, <3>1 DEF psum_out, Partial
  <2>4. CASE n # r + c + 1
    <3>1. \A t \in Term : t.vec # NoVec
      BY ArrayAssumption DEF Term
    <3> QED BY <2>1, <2>2, <2>4, <3>1 DEF psum_out
  <2> QED BY <2>3, <2>4
<1>5. \A r \in Row : Partial(v, r)' = Partial(v, r)
  BY <1>1 DEF Partial
<1>6. InGrid(v, n + 1)'
  <2> SUFFICES ASSUME NEW r \in Row, NEW c \in Col
               PROVE  /\ act_in'[<<r, c>>] = IF n + 1 = r + c + 1 THEN v ELSE NoVec
                      /\ psum_in'[<<r, c>>] = IF n + 1 = r + c + 1 THEN Partial(v, r) ELSE {}
    BY <1>5 DEF InGrid
  <2>1. act_in'[<<r, c>>] = IF n + 1 = r + c + 1 THEN v ELSE NoVec
    <3>1. CASE c = 0
      BY <1>1, <1>2, <3>1
    <3>2. CASE c # 0
      <4>1. act_in'[<<r, c>>] = act_in[<<r, c - 1>>] /\ c - 1 \in Col
        BY <1>1, <3>2
      <4>2. act_in[<<r, c - 1>>] = IF n = r + (c - 1) + 1 THEN v ELSE NoVec
        BY <4>1 DEF InGrid
      <4> QED BY <4>1, <4>2
    <3> QED BY <3>1, <3>2
  <2>2. psum_in'[<<r, c>>] = IF n + 1 = r + c + 1 THEN Partial(v, r) ELSE {}
    <3>1. CASE r = 0
      <4>1. \A t \in Term : ~ (t.row < 0)
        BY DEF Term
      <4>2. Partial(v, r) = {}
        BY <3>1, <4>1 DEF Partial
      <4> QED BY <1>1, <3>1, <4>2
    <3>2. CASE r # 0
      <4>1. psum_in'[<<r, c>>] = psum_out(<<r - 1, c>>) /\ r - 1 \in Row
        BY <1>1, <3>2
      <4>2. psum_out(<<r - 1, c>>)
              = IF n = (r - 1) + c + 1 THEN Partial(v, (r - 1) + 1) ELSE {}
        BY <1>4, <4>1
      <4>3. (r - 1) + 1 = r /\ (n = (r - 1) + c + 1 <=> n + 1 = r + c + 1)
        OBVIOUS
      <4> QED BY <4>1, <4>2, <4>3
    <3> QED BY <3>1, <3>2
  <2> QED BY <2>1, <2>2
<1>7. ASSUME NEW c \in Col
      PROVE  bottom'[c] = IF n = kDimension + c THEN WholeColumn(v, weight) ELSE {}
  <2>1. bottom'[c] = psum_out(<<kDimension - 1, c>>) /\ kDimension - 1 \in Row
    BY <1>1
  <2>2. psum_out(<<kDimension - 1, c>>)
          = IF n = (kDimension - 1) + c + 1 THEN Partial(v, (kDimension - 1) + 1) ELSE {}
    BY <1>4, <2>1
  <2>3. (kDimension - 1) + 1 = kDimension /\ (kDimension - 1) + c + 1 = kDimension + c
    OBVIOUS
  <2>4. Partial(v, kDimension) = WholeColumn(v, weight)
    <3>1. \A t \in Term : t.row < kDimension
      BY DEF Term
    <3> QED BY <1>1, <3>1 DEF Partial, WholeColumn, Term
  <2> QED BY <2>1, <2>2, <2>3, <2>4
<1> QED BY <1>2, <1>6, <1>7

-----------------------------------------------------------------------------
(* The steps of the GRU cell.                                              *)

(* While a gate is being computed, nothing about it changes but the tick.  *)
LEMMA OperandType ==
  ASSUME CellInv, NEW g \in Gates, phase # <<"IDLE">>
  PROVE  Operand(g) \in Vec
BY DEF CellInv, PhaseInv, Operand

(* The initial state.                                                      *)
LEMMA CellInit == Init => CellInv
<1> SUFFICES ASSUME Init PROVE CellInv
  OBVIOUS
<1>1. /\ ArrayInit("none") /\ delay_lines = [i \in Row |-> <<>>]
      /\ phase = <<"IDLE">> /\ drain_count = 0 /\ done = FALSE
      /\ h_prev = NoVec /\ msg = NoVec /\ gate = [g \in Gates |-> NoSums]
      /\ attached \in BOOLEAN /\ loop_ticked = FALSE
      /\ owned = FALSE /\ own_feeder = TRUE /\ turns = 0
  BY DEF Init, FeederInit
<1>2. ArrayTypeOK /\ FeederTypeOK
  BY <1>1, GRUAssumption DEF ArrayTypeOK, FeederTypeOK, ArrayInit, Activation, NoSums
<1>3. TypeOK
  <2>1. phase \in Phases /\ drain_count \in 0 .. kGEMMLatency - 1
    BY <1>1 DEF Phases, kGEMMLatency
  <2>2. gate \in [Gates -> [Col -> SUBSET Term]]
    BY <1>1 DEF NoSums
  <2> QED BY <1>1, <1>2, <2>1, <2>2, TurnsAssumption DEF TypeOK, Activation
<1>4. \A g \in Gates : ~ Computing(g) /\ phase # <<"LOAD", g>> /\ ~ HasRead(g)
  BY <1>1 DEF Computing, HasRead
<1>5. PhaseInv
  BY <1>1, <1>4 DEF PhaseInv, Computing
<1>6. ArrayInv /\ ReadInv
  BY <1>1, <1>4 DEF ArrayInv, ReadInv, FeederEmpty
<1> QED BY <1>3, <1>5, <1>6 DEF CellInv

(* A new evaluation begins with nothing read, and with empty lanes or with *)
(* nothing to keep.                                                        *)
LEMMA StartKeeps == CellInv /\ Start => CellInv'
<1> SUFFICES ASSUME CellInv, Start PROVE CellInv'
  OBVIOUS
<1>1. PICK h \in Vec, m \in Vec : Start!(h, m)
  BY DEF Start
<1>2. /\ phase' = <<"LOAD", "RESET_GATE">>
      /\ h_prev' = h /\ msg' = m /\ drain_count' = 0 /\ done' = FALSE /\ bottom' = NoSums
      /\ owned' = TRUE /\ own_feeder' = FeederEmpty
      /\ UNCHANGED <<weight, act_in, psum_in, delay_lines, gate, attached, loop_ticked, turns>>
  BY <1>1
<1>3. TypeOK'
  <2>1. ArrayTypeOK' /\ FeederTypeOK'
    BY <1>2 DEF CellInv, TypeOK, ArrayTypeOK, FeederTypeOK, NoSums
  <2>2. phase' \in Phases /\ drain_count' \in 0 .. kGEMMLatency - 1
    BY <1>2 DEF Phases, Gates, kGEMMLatency
  <2>3. own_feeder' \in BOOLEAN
    BY <1>2 DEF FeederEmpty
  <2> QED BY <1>2, <2>1, <2>2, <2>3 DEF CellInv, TypeOK, Activation
<1>4. \A g \in Gates : ~ Computing(g)' /\ ~ HasRead(g)'
  BY <1>2 DEF Computing, HasRead, Gates, Position
<1>5. PhaseInv'
  BY <1>2, <1>4 DEF CellInv, PhaseInv, Computing, Gates
<1>6. ArrayInv'
  BY <1>2, <1>4 DEF ArrayInv, FeederEmpty
<1>7. ReadInv'
  BY <1>4 DEF ReadInv
<1> QED BY <1>3, <1>5, <1>6, <1>7 DEF CellInv

(* Nothing that was read changes when the cell reads nothing.              *)
LEMMA ReadKept ==
  ASSUME ReadInv, UNCHANGED <<h_prev, msg, gate, attached>>, own_feeder' => own_feeder,
         \A g \in Gates : HasRead(g)' => HasRead(g)
  PROVE  ReadInv'
BY DEF ReadInv, AsRead, Operand

(* Nor does the place of the vector when neither it nor its age change.    *)
LEMMA LocationKept ==
  ASSUME NEW g \in Gates, Located(g), UNCHANGED <<arrayVars, delay_lines, h_prev, msg>>,
         \A n \in Nat : Aged(n) => Aged(n)'
  PROVE  Located(g)'
<1>1. /\ UNCHANGED <<weight, act_in, psum_in, delay_lines>> /\ Operand(g)' = Operand(g)
  BY DEF arrayVars, Operand
<1>2. PICK n \in Nat : Aged(n) /\ InLanes(Operand(g), n) /\ InGrid(Operand(g), n)
  BY DEF Located
<1>3. \A r : Partial(Operand(g), r)' = Partial(Operand(g), r)
  BY <1>1 DEF Partial
<1>4. InLanes(Operand(g), n)' /\ InGrid(Operand(g), n)'
  BY <1>1, <1>2, <1>3 DEF InLanes, InGrid
<1> QED BY <1>1, <1>2, <1>4 DEF Located

(* A tick of the array moves the vector on by one.                         *)
LEMMA LocationMoves ==
  ASSUME CellInv, NEW g \in Gates, Located(g), phase # <<"IDLE">>, TickArray,
         UNCHANGED <<h_prev, msg>>, \A n \in Nat : Aged(n) => Aged(n + 1)'
  PROVE  Located(g)'
<1>1. PICK v \in Vec : v = Operand(g)
  BY OperandType
<1>2. PICK n \in Nat : Aged(n) /\ InLanes(v, n) /\ InGrid(v, n)
  BY <1>1 DEF Located
<1>3. InLanes(v, n + 1)' /\ InGrid(v, n + 1)'
  BY <1>2, GridMovesOn DEF CellInv, TypeOK
<1>4. Operand(g)' = v /\ weight' = weight /\ weight = Weights[g]
  BY <1>1 DEF Operand, TickArray, array_tick, Located
<1>5. Aged(n + 1)' /\ n + 1 \in Nat
  BY <1>2
<1>6. InLanes(Operand(g), n + 1)' /\ InGrid(Operand(g), n + 1)'
  BY <1>3, <1>4 DEF InLanes, InGrid, Partial
<1> QED BY <1>4, <1>5, <1>6 DEF Located

(* The owner turns away or back.                                           *)
LEMMA OwnerTurnsKeeps == CellInv /\ OwnerTurns => CellInv'
<1> SUFFICES ASSUME CellInv, OwnerTurns PROVE CellInv'
  OBVIOUS
<1>1. /\ UNCHANGED <<weight, act_in, psum_in, bottom, delay_lines>>
      /\ UNCHANGED <<phase, drain_count, done, h_prev, msg, gate>>
      /\ UNCHANGED <<attached, loop_ticked, own_feeder>>
      /\ owned' \in BOOLEAN /\ turns' \in 0 .. MaxTurns
  <2>1. IF owned THEN turns < MaxTurns /\ turns' = turns + 1 ELSE turns' = turns
    BY DEF OwnerTurns
  <2>2. turns \in 0 .. MaxTurns /\ turns' \in 0 .. MaxTurns
    BY <2>1, TurnsAssumption DEF CellInv, TypeOK
  <2>3. owned' \in BOOLEAN
    BY DEF OwnerTurns
  <2> QED BY <2>2, <2>3 DEF OwnerTurns, arrayVars, gruVars
<1>2. TypeOK'
  BY <1>1 DEF CellInv, TypeOK, ArrayTypeOK, FeederTypeOK
<1>3. PhaseInv'
  BY <1>1 DEF CellInv, PhaseInv
<1>4. \A g \in Gates : (Computing(g)' <=> Computing(g)) /\ (HasRead(g)' <=> HasRead(g))
  BY <1>1 DEF Computing, HasRead
<1>5. ArrayInv'
  <2>1. \A n \in Nat : Aged(n) => Aged(n)'
    BY <1>1 DEF Aged
  <2>2. ASSUME NEW g \in Gates, Located(g) PROVE Located(g)'
    BY <1>1, <2>1, <2>2, LocationKept DEF arrayVars
  <2> QED BY <1>1, <1>4, <2>2 DEF CellInv, ArrayInv, FeederEmpty, Resting
<1>6. ReadInv'
  BY <1>1, <1>4, ReadKept DEF CellInv
<1> QED BY <1>2, <1>3, <1>5, <1>6 DEF CellInv

(* Somebody else's push takes the feeder from an evaluation under way, and *)
(* changes nothing that a finished one has read.                           *)
LEMMA OthersPushKeeps == CellInv /\ OthersPush => CellInv'
<1> SUFFICES ASSUME CellInv, OthersPush PROVE CellInv'
  OBVIOUS
<1>1. /\ UNCHANGED <<weight, act_in, psum_in, bottom, attached, loop_ticked, owned>>
      /\ UNCHANGED <<phase, drain_count, done, h_prev, msg, gate>>
      /\ own_feeder' = (own_feeder /\ Resting)
      /\ turns < MaxTurns /\ turns' = turns + 1
  BY DEF OthersPush, arrayVars, gruVars
<1>2. PICK v \in Vec : push_vector(v)
  BY DEF OthersPush
<1>3. FeederTypeOK'
  BY <1>2, PushedTypes DEF CellInv, TypeOK
<1>4. TypeOK'
  <2>1. turns' \in 0 .. MaxTurns
    BY <1>1, TurnsAssumption DEF CellInv, TypeOK
  <2>2. own_feeder' \in BOOLEAN
    BY <1>1 DEF CellInv, TypeOK, Resting
  <2> QED BY <1>1, <1>3, <2>1, <2>2 DEF CellInv, TypeOK, ArrayTypeOK
<1>5. PhaseInv'
  BY <1>1 DEF CellInv, PhaseInv
<1>6. \A g \in Gates : (Resting => ~ Computing(g)') /\ (HasRead(g)' <=> HasRead(g))
  BY <1>1 DEF Computing, HasRead, Resting
<1>7. ArrayInv'
  BY <1>1, <1>6 DEF ArrayInv, Resting
<1>8. ReadInv'
  BY <1>1, <1>6, ReadKept DEF CellInv
<1> QED BY <1>4, <1>5, <1>7, <1>8 DEF CellInv

(* The loop's tick moves what the cell is working on, if anything.         *)
LEMMA LoopTickKeeps == CellInv /\ LoopTick => CellInv'
<1> SUFFICES ASSUME CellInv, LoopTick PROVE CellInv'
  OBVIOUS
<1>1. /\ attached /\ ~ loop_ticked /\ loop_ticked' = TRUE /\ TickArray
      /\ UNCHANGED <<phase, drain_count, done, h_prev, msg, gate, attached>>
      /\ UNCHANGED <<owned, own_feeder, turns>>
  BY DEF LoopTick, gruVars
<1>2. ArrayTypeOK' /\ FeederTypeOK'
  BY <1>1, TickTypes DEF CellInv, TypeOK
<1>3. TypeOK'
  BY <1>1, <1>2 DEF CellInv, TypeOK
<1>4. \A g \in Gates : /\ Computing(g)' <=> Computing(g)
                       /\ HasRead(g)' <=> HasRead(g)
                       /\ Operand(g)' = Operand(g)
  BY <1>1 DEF Computing, HasRead, Operand
<1>5. PhaseInv'
  BY <1>1, <1>4 DEF CellInv, PhaseInv, Computing
<1>6. ArrayInv'
  <2>1. ASSUME NEW g \in Gates, Computing(g), Located(g)
        PROVE  Located(g)'
    <3>1. phase # <<"IDLE">>
      BY <2>1 DEF Computing
    <3>2. drain_count \in Nat
      BY DEF CellInv, TypeOK, kGEMMLatency
    <3>3. \A n \in Nat : Aged(n) => Aged(n + 1)'
      BY <1>1, <3>2 DEF Aged
    <3> QED BY <1>1, <2>1, <3>1, <3>3, LocationMoves
  <2>2. FeederEmpty => FeederEmpty'
    BY <1>1 DEF FeederEmpty, TickArray, PopLines
  <2> QED BY <1>1, <1>4, <2>1, <2>2 DEF CellInv, ArrayInv, Resting
<1>7. ReadInv'
  BY <1>1, <1>4, ReadKept DEF CellInv
<1> QED BY <1>3, <1>5, <1>6, <1>7 DEF CellInv

(* LOAD puts the gate's operand into an empty array, if nobody else used   *)
(* the feeder.                                                             *)
LEMMA LoadKeeps == ASSUME NEW g \in Gates PROVE CellInv /\ Load(g) => CellInv'
<1> SUFFICES ASSUME CellInv, Load(g) PROVE CellInv'
  OBVIOUS
<1>1. /\ phase = <<"LOAD", g>> /\ phase' = <<"SETTLE", g>>
      /\ loop_ticked = attached /\ loop_ticked' = FALSE
      /\ drain_count' = drain_count + 1
      /\ load_weights(Weights[g]) /\ push_vector(Operand(g))
      /\ UNCHANGED <<attached, done, h_prev, msg, gate, owned, own_feeder, turns>>
  BY DEF Load, OwnersTurn
<1>2. PICK v \in Vec : v = Operand(g)
  BY <1>1, OperandType
<1>3. \A k \in Gates : ~ Computing(k) /\ (Computing(k)' => k = g)
  BY <1>1 DEF Computing
<1>4. own_feeder => FeederEmpty
  BY <1>1, <1>3 DEF CellInv, ArrayInv, Resting
<1>5. drain_count = 0
  BY <1>1 DEF CellInv, PhaseInv
<1>6. TypeOK'
  <2>1. ArrayTypeOK'
    <3>1. Weights[g] \in Matrix
      BY GRUAssumption DEF Weights, Gates
    <3> QED BY <1>1, <3>1 DEF load_weights, CellInv, TypeOK, ArrayTypeOK, Activation
  <2>2. FeederTypeOK'
    BY <1>1, <1>2, PushedTypes DEF CellInv, TypeOK
  <2>3. phase' \in Phases /\ drain_count' \in 0 .. kGEMMLatency - 1
    BY <1>1, <1>5 DEF Phases, kGEMMLatency
  <2> QED BY <1>1, <2>1, <2>2, <2>3 DEF CellInv, TypeOK
<1>7. PhaseInv'
  BY <1>1, <1>5 DEF CellInv, PhaseInv
<1>8. ArrayInv'
  <2> SUFFICES ASSUME own_feeder
               PROVE  Located(g)'
    <3>1. Computing(g)'
      BY <1>1 DEF Computing
    <3> QED BY <1>1, <1>3, <3>1 DEF ArrayInv
  <2>1. InLanes(v, 0)' /\ InGrid(v, 0)'
    BY <1>1, <1>2, <1>4, Launched
  <2>2. Operand(g)' = v /\ weight' = Weights[g]
    BY <1>1, <1>2 DEF Operand, load_weights
  <2>3. Aged(0)'
    BY <1>1 DEF Aged
  <2>4. InLanes(Operand(g), 0)' /\ InGrid(Operand(g), 0)'
    BY <2>1, <2>2 DEF InLanes, InGrid, Partial
  <2> QED BY <2>2, <2>3, <2>4 DEF Located
<1>9. ReadInv'
  <2>1. \A k \in Gates : HasRead(k)' => HasRead(k)
    BY <1>1 DEF HasRead, Computing
  <2> QED BY <1>1, <2>1, ReadKept DEF CellInv
<1> QED BY <1>6, <1>7, <1>8, <1>9 DEF CellInv

(* SETTLE only restarts the count; the array has not ticked but by the     *)
(* loop.                                                                   *)
LEMMA SettleKeeps == ASSUME NEW g \in Gates PROVE CellInv /\ Settle(g) => CellInv'
<1> SUFFICES ASSUME CellInv, Settle(g) PROVE CellInv'
  OBVIOUS
<1>1. /\ phase = <<"SETTLE", g>> /\ phase' = <<"DRAIN", g>>
      /\ loop_ticked = attached /\ loop_ticked' = FALSE
      /\ drain_count' = 0
      /\ UNCHANGED <<attached, weight, act_in, psum_in, bottom, delay_lines,
                     done, h_prev, msg, gate, owned, own_feeder, turns>>
  BY DEF Settle, OwnersTurn, arrayVars
<1>2. \A k \in Gates : (Computing(k) <=> k = g) /\ (Computing(k)' <=> k = g)
  BY <1>1 DEF Computing
<1>3. TypeOK'
  <2>1. ArrayTypeOK' /\ FeederTypeOK'
    BY <1>1 DEF CellInv, TypeOK, ArrayTypeOK, FeederTypeOK
  <2>2. phase' \in Phases /\ drain_count' \in 0 .. kGEMMLatency - 1
    BY <1>1 DEF Phases, kGEMMLatency
  <2> QED BY <1>1, <2>1, <2>2 DEF CellInv, TypeOK
<1>4. PhaseInv'
  BY <1>1 DEF CellInv, PhaseInv
<1>5. ArrayInv'
  <2>1. \A n \in Nat : Aged(n) => Aged(n)'
    BY <1>1 DEF Aged, CellInv, TypeOK
  <2>2. Located(g) => Located(g)'
    BY <1>1, <2>1, LocationKept DEF arrayVars
  <2> QED BY <1>1, <1>2, <2>2 DEF CellInv, ArrayInv
<1>6. ReadInv'
  <2>1. \A k \in Gates : HasRead(k)' => HasRead(k)
    BY <1>1, <1>2 DEF HasRead
  <2> QED BY <1>1, <2>1, ReadKept DEF CellInv
<1> QED BY <1>3, <1>4, <1>5, <1>6 DEF CellInv

(* A DRAIN tick that leaves the count below the latency.                   *)
LEMMA DrainGoesOn ==
  ASSUME NEW g \in Gates, CellInv, Drain(g), drain_count + 1 < kGEMMLatency
  PROVE  CellInv'
<1>1. /\ phase = <<"DRAIN", g>> /\ phase' = phase /\ gate' = gate
      /\ loop_ticked = attached /\ loop_ticked' = FALSE /\ TickArray
      /\ drain_count' = drain_count + 1
      /\ UNCHANGED <<attached, done, h_prev, msg, owned, own_feeder, turns>>
  <2>1. drain_count \in Nat /\ kGEMMLatency \in Nat
    BY DEF CellInv, TypeOK, kGEMMLatency
  <2>2. ~ (drain_count + 1 >= kGEMMLatency)
    BY <2>1
  <2> QED BY <2>2 DEF Drain, OwnersTurn
<1>2. \A k \in Gates : (Computing(k) <=> k = g) /\ (Computing(k)' <=> k = g)
  BY <1>1 DEF Computing
<1>3. TypeOK'
  <2>1. ArrayTypeOK' /\ FeederTypeOK'
    BY <1>1, TickTypes DEF CellInv, TypeOK
  <2>2. drain_count' \in 0 .. kGEMMLatency - 1
    BY <1>1 DEF CellInv, TypeOK, kGEMMLatency
  <2> QED BY <1>1, <2>1, <2>2 DEF CellInv, TypeOK
<1>4. PhaseInv'
  BY <1>1 DEF CellInv, PhaseInv
<1>5. ArrayInv'
  <2>1. \A n \in Nat : Aged(n) => Aged(n + 1)'
    <3>1. drain_count \in Nat
      BY DEF CellInv, TypeOK
    <3> QED BY <1>1, <3>1 DEF Aged
  <2>2. Located(g) => Located(g)'
    BY <1>1, <2>1, LocationMoves
  <2> QED BY <1>1, <1>2, <2>2 DEF CellInv, ArrayInv
<1>6. ReadInv'
  <2>1. \A k \in Gates : HasRead(k)' => HasRead(k)
    BY <1>1, <1>2 DEF HasRead
  <2> QED BY <1>1, <2>1, ReadKept DEF CellInv
<1> QED BY <1>3, <1>4, <1>5, <1>6 DEF CellInv

(* The DRAIN tick on which the gate is read: the last column comes out on  *)
(* it if no one else ticks the array, and by then the lanes are empty.     *)
LEMMA DrainReads ==
  ASSUME NEW g \in Gates, CellInv, Drain(g), drain_count + 1 >= kGEMMLatency
  PROVE  CellInv'
<1>1. /\ phase = <<"DRAIN", g>> /\ phase' = Following[g]
      /\ gate' = [gate EXCEPT ![g] = bottom']
      /\ loop_ticked = attached /\ loop_ticked' = FALSE /\ TickArray
      /\ drain_count' = 0
      /\ UNCHANGED <<attached, done, h_prev, msg, owned, own_feeder, turns>>
  BY DEF Drain, OwnersTurn
<1>2. \A k \in Gates : (Computing(k) <=> k = g) /\ ~ Computing(k)'
  BY <1>1 DEF Computing, Following, Gates
<1>3. ArrayTypeOK' /\ FeederTypeOK'
  BY <1>1, TickTypes DEF CellInv, TypeOK
<1>4. TypeOK'
  <2>1. phase' \in Phases /\ drain_count' \in 0 .. kGEMMLatency - 1
    BY <1>1 DEF Phases, kGEMMLatency, Following, Gates
  <2>2. gate' \in [Gates -> [Col -> SUBSET Term]]
    BY <1>1, <1>3 DEF CellInv, TypeOK, ArrayTypeOK
  <2> QED BY <1>1, <1>3, <2>1, <2>2 DEF CellInv, TypeOK
<1>5. phase' # <<"IDLE">> /\ phase' # <<"DONE">> /\ \A k \in Gates : phase' # <<"SETTLE", k>>
  BY <1>1 DEF Following, Gates
<1>6. PhaseInv'
  BY <1>1, <1>5 DEF CellInv, PhaseInv
<1>7. PICK v \in Vec : v = Operand(g)
  BY <1>1, OperandType
<1>8. ASSUME own_feeder
      PROVE  \E n \in Nat :
               /\ IF attached THEN 2 * kDimension <= n ELSE n = 2 * kDimension - 1
               /\ weight = Weights[g] /\ InLanes(v, n) /\ InGrid(v, n)
  <2>1. PICK n \in Nat : Aged(n) /\ InLanes(v, n) /\ InGrid(v, n) /\ weight = Weights[g]
    BY <1>2, <1>7, <1>8 DEF CellInv, ArrayInv, Located
  <2>2. drain_count \in 0 .. 2 * kDimension - 1 /\ drain_count + 1 >= 2 * kDimension
    BY DEF CellInv, TypeOK, kGEMMLatency
  <2>3. drain_count = 2 * kDimension - 1
    BY <2>2
  <2>4. IF attached THEN 2 * kDimension <= n ELSE n = 2 * kDimension - 1
    BY <1>1, <2>1, <2>3 DEF Aged
  <2> QED BY <2>1, <2>4
<1>9. ASSUME own_feeder, NEW n \in Nat, InLanes(v, n), InGrid(v, n)
      PROVE  /\ InLanes(v, n + 1)'
             /\ \A c \in Col : bottom'[c] = IF n = kDimension + c THEN WholeColumn(v, weight)
                                            ELSE {}
  BY <1>1, <1>9, GridMovesOn DEF CellInv, TypeOK
<1>10. ArrayInv'
  <2> SUFFICES ASSUME own_feeder
               PROVE  FeederEmpty'
    BY <1>1, <1>2 DEF ArrayInv
  <2>1. PICK n \in Nat : /\ InLanes(v, n) /\ InGrid(v, n)
                         /\ IF attached THEN 2 * kDimension <= n ELSE n = 2 * kDimension - 1
    BY <1>8
  <2>2. kDimension <= n + 1
    BY <2>1
  <2>3. InLanes(v, n + 1)'
    BY <1>9, <2>1
  <2> SUFFICES ASSUME NEW i \in Row
               PROVE  delay_lines'[i] = <<>>
    BY DEF FeederEmpty
  <2>4. delay_lines'[i] \in Seq(Activation) /\ Len(delay_lines'[i]) = 0
    BY <1>3, <2>2, <2>3 DEF FeederTypeOK, InLanes
  <2> QED BY <2>4
<1>11. ReadInv'
  <2> SUFFICES ASSUME own_feeder
               PROVE  \A k \in Gates : HasRead(k)' => \A c \in Col : AsRead(k, c)'
    BY <1>1 DEF ReadInv
  <2>1. /\ gate'[g] = bottom' /\ \A k \in Gates : k # g => gate'[k] = gate[k]
    BY <1>1 DEF CellInv, TypeOK
  <2>2. \A c \in Col : gate'[g][c] = IF ~ attached /\ c = kDimension - 1
                                      THEN WholeColumn(v, Weights[g]) ELSE {}
    <3>1. PICK n \in Nat : /\ InLanes(v, n) /\ InGrid(v, n) /\ weight = Weights[g]
                           /\ IF attached THEN 2 * kDimension <= n ELSE n = 2 * kDimension - 1
      BY <1>8
    <3>2. \A c \in Col : n = kDimension + c <=> ~ attached /\ c = kDimension - 1
      BY <3>1
    <3>3. \A c \in Col : bottom'[c] = IF n = kDimension + c THEN WholeColumn(v, weight) ELSE {}
      BY <1>9, <3>1
    <3> QED BY <2>1, <3>1, <3>2, <3>3
  <2>3. \A k \in Gates : Operand(k)' = Operand(k)
    BY <1>1 DEF Operand
  <2>4. \A k \in Gates : HasRead(k)' => k = g \/ HasRead(k)
    BY <1>1, <1>2 DEF HasRead, Following, Position, Gates
  <2> SUFFICES ASSUME NEW k \in Gates, HasRead(k)', NEW c \in Col
               PROVE  gate'[k][c] = IF ~ attached /\ c = kDimension - 1
                                    THEN WholeColumn(Operand(k), Weights[k]) ELSE {}
    BY <1>1, <2>3 DEF AsRead
  <2>5. CASE k = g
    BY <1>7, <2>2, <2>5
  <2>6. CASE k # g
    BY <2>1, <2>4, <2>6 DEF CellInv, ReadInv, AsRead
  <2> QED BY <2>5, <2>6
<1> QED BY <1>4, <1>6, <1>10, <1>11 DEF CellInv

(* The blend leaves the gates alone.                                       *)
LEMMA ApplyKeeps == CellInv /\ ApplyElementwise => CellInv'
<1> SUFFICES ASSUME CellInv, ApplyElementwise PROVE CellInv'
  OBVIOUS
<1>1. /\ phase = <<"APPLY_ELEMENTWISE">> /\ phase' = <<"DONE">> /\ done' = TRUE
      /\ loop_ticked = attached /\ loop_ticked' = FALSE
      /\ drain_count' = drain_count + 1
      /\ UNCHANGED <<attached, weight, act_in, psum_in, bottom, delay_lines,
                     h_prev, msg, gate, owned, own_feeder, turns>>
  BY DEF ApplyElementwise, OwnersTurn, arrayVars
<1>2. drain_count = 0
  BY <1>1 DEF CellInv, PhaseInv
<1>3. \A k \in Gates : ~ Computing(k) /\ ~ Computing(k)' /\ HasRead(k)
  BY <1>1 DEF Computing, HasRead
<1>4. TypeOK'
  <2>1. ArrayTypeOK' /\ FeederTypeOK'
    BY <1>1 DEF CellInv, TypeOK, ArrayTypeOK, FeederTypeOK
  <2>2. phase' \in Phases /\ drain_count' \in 0 .. kGEMMLatency - 1
    BY <1>1, <1>2 DEF Phases, kGEMMLatency
  <2> QED BY <1>1, <2>1, <2>2 DEF CellInv, TypeOK
<1>5. PhaseInv'
  BY <1>1 DEF CellInv, PhaseInv
<1>6. ArrayInv'
  BY <1>1, <1>3 DEF ArrayInv, Resting
<1>7. ReadInv'
  BY <1>1, <1>3, ReadKept DEF CellInv
<1> QED BY <1>4, <1>5, <1>6, <1>7 DEF CellInv

(* A cycle in which the cell is idle or not ticked, and a step of anyone   *)
(* else.                                                                   *)
LEMMA IdleKeeps ==
  ASSUME CellInv, UNCHANGED <<arrayVars, delay_lines, gruVars>>,
         UNCHANGED <<attached, owned, own_feeder, turns>>,
         loop_ticked' = loop_ticked \/ loop_ticked' = FALSE
  PROVE  CellInv'
<1>1. /\ UNCHANGED <<weight, act_in, psum_in, bottom, delay_lines, attached>>
      /\ UNCHANGED <<phase, drain_count, done, h_prev, msg, gate>>
  BY DEF arrayVars, gruVars
<1>2. loop_ticked' \in BOOLEAN /\ (loop_ticked' => loop_ticked)
  <2>1. loop_ticked \in BOOLEAN
    BY DEF CellInv, TypeOK
  <2>2. CASE loop_ticked' = loop_ticked
    BY <2>1, <2>2, Zenon
  <2>3. CASE loop_ticked' = FALSE
    BY <2>3
  <2> QED BY <2>2, <2>3
<1>3. TypeOK'
  BY <1>1, <1>2 DEF CellInv, TypeOK, ArrayTypeOK, FeederTypeOK
<1>4. PhaseInv'
  BY <1>1, <1>2 DEF CellInv, PhaseInv
<1>5. \A g \in Gates : (Computing(g)' <=> Computing(g)) /\ (HasRead(g)' <=> HasRead(g))
  BY <1>1 DEF Computing, HasRead
<1>6. ArrayInv'
  <2>1. \A n \in Nat : Aged(n) => Aged(n)'
    BY <1>1, <1>2 DEF Aged
  <2>2. ASSUME NEW g \in Gates, Located(g) PROVE Located(g)'
    BY <1>1, <2>1, <2>2, LocationKept
  <2> QED BY <1>1, <1>5, <2>2 DEF CellInv, ArrayInv, FeederEmpty, Resting
<1>7. ReadInv'
  BY <1>1, <1>5, ReadKept DEF CellInv
<1> QED BY <1>3, <1>4, <1>6, <1>7 DEF CellInv

LEMMA CellStep == CellInv /\ [Next]_vars => CellInv'
<1> SUFFICES ASSUME CellInv, [Next]_vars PROVE CellInv'
  OBVIOUS
<1>1. CASE Start
  BY <1>1, StartKeeps
<1>2. CASE LoopTick
  BY <1>2, LoopTickKeeps
<1>3. CASE tick
  <2>1. ASSUME NEW g \in Gates, Drain(g)
        PROVE  CellInv'
    <3>1. drain_count + 1 < kGEMMLatency \/ drain_count + 1 >= kGEMMLatency
      BY DEF CellInv, TypeOK, kGEMMLatency
    <3> QED BY <2>1, <3>1, DrainGoesOn, DrainReads
  <2> QED BY <1>3, <2>1, LoadKeeps, SettleKeeps, ApplyKeeps DEF tick
<1>4. CASE IdleCycle
  BY <1>4, IdleKeeps DEF IdleCycle, OwnersTurn
<1>5. CASE OwnerTurns \/ OthersPush
  BY <1>5, OwnerTurnsKeeps, OthersPushKeeps
<1>6. CASE UNCHANGED vars
  BY <1>6, IdleKeeps DEF vars
<1> QED BY <1>1, <1>2, <1>3, <1>4, <1>5, <1>6 DEF Next

(* Types of the phase machine; the drain count never reaches its limit.    *)
THEOREM CellTypeCorrect == Spec => []TypeOK
<1>1. CellInv => TypeOK
  BY DEF CellInv
<1> QED BY <1>1, CellInit, CellStep, PTL DEF Spec

(* For arrays of any size, exactly what a finished evaluation has read     *)
(* that had the feeder to itself: of every gate only the last column, and  *)
(* not even that when the loop ticks the array as well.  So what it reads  *)
(* is a function of its operands and weights, whatever evaluations were    *)
(* given up before it, and whether or not its owner left it for a while.   *)
THEOREM CellReadsExactly ==
  Spec => [](done /\ own_feeder => \A g \in Gates, c \in Col : AsRead(g, c))
<1>1. CellInv => (done /\ own_feeder => \A g \in Gates, c \in Col : AsRead(g, c))
  BY DEF CellInv, PhaseInv, ReadInv, HasRead
<1> QED BY <1>1, CellInit, CellStep, PTL DEF Spec

(* Whatever such an evaluation has read for a gate is of that gate's       *)
(* operand and weights, for arrays of any size, whoever ticks the array.   *)
THEOREM GatesOwn == Spec => []GatesUnmixed
<1>1. (done /\ own_feeder => \A g \in Gates, c \in Col : AsRead(g, c)) => GatesUnmixed
  BY DEF AsRead, GatesUnmixed
<1> QED BY <1>1, CellReadsExactly, PTL

(* Where the cell alone ticks the array, kGEMMLatency ticks are enough for *)
(* the last column of every gate, for arrays of any size, if the           *)
(* evaluation began with an empty feeder and had it to itself.             *)
THEOREM LastColumnRead == Spec => []LastColumnWhole
<1>1. (done /\ own_feeder => \A g \in Gates, c \in Col : AsRead(g, c)) => LastColumnWhole
  <2>1. kDimension - 1 \in Col
    OBVIOUS
  <2> QED BY <2>1 DEF AsRead, LastColumnWhole, WholeGate
<1> QED BY <1>1, CellReadsExactly, PTL

-----------------------------------------------------------------------------
(* How long an evaluation takes.                                           *)

(* The owner's cycles for a gate: LOAD, SETTLE and the DRAIN ticks.        *)
GateCycles == kGEMMLatency + 2

(* The owner's cycles until the evaluation is done.                        *)
CyclesLeft ==
  IF phase \in {<<"IDLE">>, <<"DONE">>} THEN 0
  ELSE IF phase = <<"APPLY_ELEMENTWISE">> THEN 1
  ELSE 1 + (4 - Position[phase[2]]) * GateCycles
         + (IF phase[1] = "LOAD" THEN GateCycles
            ELSE IF phase[1] = "SETTLE" THEN GateCycles - 1
            ELSE kGEMMLatency - drain_count)

(* A cycle of the owner brings the end one cycle closer, whatever the      *)
(* phase, and nobody else but a start changes it.                          *)
CountsDown ==
  /\ Start => CyclesLeft' = 4 * GateCycles + 1
  /\ tick => CyclesLeft' = CyclesLeft - 1
  /\ LoopTick \/ IdleCycle \/ OwnerTurns \/ OthersPush => CyclesLeft' = CyclesLeft

LEMMA CyclesOf ==
  ASSUME CellInv, NEW g \in Gates
  PROVE  /\ phase = <<"LOAD", g>> =>
              CyclesLeft = 1 + (4 - Position[g]) * GateCycles + GateCycles
         /\ phase = <<"SETTLE", g>> =>
              CyclesLeft = 1 + (4 - Position[g]) * GateCycles + (GateCycles - 1)
         /\ phase = <<"DRAIN", g>> =>
              CyclesLeft = 1 + (4 - Position[g]) * GateCycles + (kGEMMLatency - drain_count)
BY DEF CyclesLeft

LEMMA CyclesOfNext ==
  ASSUME NEW g \in Gates
  PROVE  /\ phase' = <<"LOAD", g>> =>
              CyclesLeft' = 1 + (4 - Position[g]) * GateCycles + GateCycles
         /\ phase' = <<"SETTLE", g>> =>
              CyclesLeft' = 1 + (4 - Position[g]) * GateCycles + (GateCycles - 1)
         /\ phase' = <<"DRAIN", g>> =>
              CyclesLeft' = 1 + (4 - Position[g]) * GateCycles + (kGEMMLatency - drain_count')
BY DEF CyclesLeft

LEMMA LoadCounts ==
  ASSUME CellInv, NEW g \in Gates, Load(g) \/ Settle(g)
  PROVE  CyclesLeft' = CyclesLeft - 1
<1> DEFINE z == (4 - Position[g]) * GateCycles
<1>1. z \in Int /\ GateCycles \in Int /\ kGEMMLatency = GateCycles - 2
  BY DEF Position, Gates, GateCycles, kGEMMLatency
<1>2. CASE Load(g)
  <2>1. phase = <<"LOAD", g>> /\ phase' = <<"SETTLE", g>>
    BY <1>2 DEF Load
  <2>2. CyclesLeft = 1 + z + GateCycles /\ CyclesLeft' = 1 + z + (GateCycles - 1)
    BY <2>1, CyclesOf, CyclesOfNext
  <2> HIDE DEF z
  <2> QED BY <1>1, <2>2
<1>3. CASE Settle(g)
  <2>1. phase = <<"SETTLE", g>> /\ phase' = <<"DRAIN", g>> /\ drain_count' = 0
    BY <1>3 DEF Settle
  <2>2. CyclesLeft = 1 + z + (GateCycles - 1) /\ CyclesLeft' = 1 + z + (kGEMMLatency - 0)
    BY <2>1, CyclesOf, CyclesOfNext
  <2> HIDE DEF z
  <2> QED BY <1>1, <2>2
<1> QED BY <1>2, <1>3

LEMMA DrainCounts ==
  ASSUME CellInv, NEW g \in Gates, Drain(g)
  PROVE  CyclesLeft' = CyclesLeft - 1
<1>1. /\ phase = <<"DRAIN", g>>
      /\ IF drain_count + 1 >= kGEMMLatency
         THEN phase' = Following[g]
         ELSE phase' = phase /\ drain_count' = drain_count + 1
  BY DEF Drain
<1>2. drain_count \in 0 .. kGEMMLatency - 1 /\ kGEMMLatency \in Nat /\ GateCycles \in Nat
  BY DEF CellInv, TypeOK, kGEMMLatency, GateCycles
<1>3. CyclesLeft = 1 + (4 - Position[g]) * GateCycles + (kGEMMLatency - drain_count)
  BY <1>1, CyclesOf
<1>4. CASE drain_count + 1 < kGEMMLatency
  <2>1. phase' = <<"DRAIN", g>> /\ drain_count' = drain_count + 1
    BY <1>1, <1>2, <1>4
  <2>2. CyclesLeft' = 1 + (4 - Position[g]) * GateCycles + (kGEMMLatency - drain_count')
    BY <2>1, CyclesOfNext
  <2> DEFINE z == (4 - Position[g]) * GateCycles
  <2>3. z \in Int
    BY <1>2 DEF Position, Gates
  <2> HIDE DEF z
  <2>4. CyclesLeft = 1 + z + (kGEMMLatency - drain_count)
        /\ CyclesLeft' = 1 + z + (kGEMMLatency - (drain_count + 1))
    BY <1>3, <2>1, <2>2 DEF z
  <2> QED BY <1>2, <2>3, <2>4
<1>5. CASE drain_count + 1 >= kGEMMLatency
  <2>1. phase' = Following[g] /\ drain_count = kGEMMLatency - 1
    BY <1>1, <1>2, <1>5
  <2>2. CyclesLeft = 1 + (4 - Position[g]) * GateCycles + 1
    BY <1>2, <1>3, <2>1
  <2>3. CASE g = "NEW_GATE_X"
    <3>1. CyclesLeft' = 1
      BY <2>1, <2>3 DEF Following, CyclesLeft
    <3>2. (4 - Position[g]) * GateCycles = 0
      BY <1>2, <2>3 DEF Position
    <3> QED BY <2>2, <3>1, <3>2
  <2>4. CASE g # "NEW_GATE_X"
    <3>1. PICK k \in Gates : Following[g] = <<"LOAD", k>> /\ Position[k] = Position[g] + 1
                              /\ Position[g] \in 1 .. 3
      BY <2>4 DEF Following, Gates, Position
    <3>2. CyclesLeft' = 1 + (4 - Position[k]) * GateCycles + GateCycles
      BY <2>1, <3>1, CyclesOfNext
    <3>3. (4 - Position[g]) * GateCycles = (4 - Position[k]) * GateCycles + GateCycles
          /\ (4 - Position[k]) * GateCycles \in Int
      BY <1>2, <3>1
    <3> QED BY <1>2, <2>2, <3>2, <3>3
  <2> QED BY <2>3, <2>4
<1> QED BY <1>2, <1>4, <1>5

(* Every evaluation takes 4 * (kGEMMLatency + 2) + 1 ticks of its owner,   *)
(* with or without the loop's ticks, for arrays of any size: each tick     *)
(* counts down by one from there, a new start begins anew, and nothing     *)
(* else counts up or down.  None is left exactly when the cell is idle or  *)
(* done.                                                                   *)
THEOREM EvaluationLength ==
  Spec => /\ [](CyclesLeft \in Nat /\ (CyclesLeft = 0 <=> phase \in {<<"IDLE">>, <<"DONE">>}))
          /\ [][CountsDown]_vars
<1>1. CellInv => CyclesLeft \in Nat /\ (CyclesLeft = 0 <=> phase \in {<<"IDLE">>, <<"DONE">>})
  <2> SUFFICES ASSUME CellInv
               PROVE  CyclesLeft \in Nat
                      /\ (CyclesLeft = 0 <=> phase \in {<<"IDLE">>, <<"DONE">>})
    OBVIOUS
  <2>1. CASE phase \in {<<"IDLE">>, <<"APPLY_ELEMENTWISE">>, <<"DONE">>}
    BY <2>1 DEF CyclesLeft
  <2>2. ASSUME NEW g \in Gates, phase = <<"LOAD", g>> \/ Computing(g)
        PROVE  CyclesLeft \in Nat \ {0}
    <3>1. drain_count \in 0 .. kGEMMLatency - 1 /\ kGEMMLatency \in Nat /\ GateCycles \in Nat
          /\ GateCycles >= 2
      BY DEF CellInv, TypeOK, kGEMMLatency, GateCycles
    <3>2. Position[g] \in 1 .. 4 /\ (4 - Position[g]) * GateCycles \in Nat
      BY <3>1 DEF Position, Gates
    <3> DEFINE z == (4 - Position[g]) * GateCycles
    <3>3. \/ CyclesLeft = 1 + z + GateCycles
          \/ CyclesLeft = 1 + z + (GateCycles - 1)
          \/ CyclesLeft = 1 + z + (kGEMMLatency - drain_count)
      BY <2>2, CyclesOf DEF Computing
    <3>4. z \in Nat
      BY <3>2
    <3> HIDE DEF z
    <3> QED BY <3>1, <3>3, <3>4
  <2>3. \/ phase \in {<<"IDLE">>, <<"APPLY_ELEMENTWISE">>, <<"DONE">>}
        \/ \E g \in Gates : phase = <<"LOAD", g>> \/ Computing(g)
    BY DEF CellInv, TypeOK, Phases, Computing
  <2>4. ASSUME NEW g \in Gates, phase = <<"LOAD", g>> \/ Computing(g)
        PROVE  phase \notin {<<"IDLE">>, <<"DONE">>}
    BY <2>4 DEF Computing
  <2>5. phase = <<"APPLY_ELEMENTWISE">> => CyclesLeft = 1
    BY DEF CyclesLeft
  <2>6. CASE phase \in {<<"IDLE">>, <<"APPLY_ELEMENTWISE">>, <<"DONE">>}
    BY <2>1, <2>5, <2>6 DEF CyclesLeft
  <2>7. CASE \E g \in Gates : phase = <<"LOAD", g>> \/ Computing(g)
    BY <2>2, <2>4, <2>7
  <2> QED BY <2>3, <2>6, <2>7
<1>2. CellInv /\ [Next]_vars => [CountsDown]_vars
  <2> SUFFICES ASSUME CellInv
               PROVE  CountsDown
    OBVIOUS
  <2>1. Start => CyclesLeft' = 4 * GateCycles + 1
    <3> SUFFICES ASSUME Start PROVE CyclesLeft' = 4 * GateCycles + 1
      OBVIOUS
    <3>1. phase' = <<"LOAD", "RESET_GATE">> /\ "RESET_GATE" \in Gates
      BY DEF Start, Gates
    <3>2. CyclesLeft' = 1 + (4 - Position["RESET_GATE"]) * GateCycles + GateCycles
      BY <3>1, CyclesOfNext
    <3>3. Position["RESET_GATE"] = 1 /\ GateCycles \in Nat
      BY DEF Position, GateCycles, kGEMMLatency
    <3> QED BY <3>2, <3>3
  <2>2. tick => CyclesLeft' = CyclesLeft - 1
    <3>1. ApplyElementwise => CyclesLeft' = CyclesLeft - 1
      BY DEF ApplyElementwise, CyclesLeft
    <3> QED BY <3>1, LoadCounts, DrainCounts DEF tick
  <2>3. LoopTick \/ IdleCycle \/ OwnerTurns \/ OthersPush => CyclesLeft' = CyclesLeft
    BY DEF LoopTick, IdleCycle, OwnerTurns, OthersPush, gruVars, CyclesLeft
  <2> QED BY <2>1, <2>2, <2>3 DEF CountsDown
<1> QED BY <1>1, <1>2, CellInit, CellStep, PTL DEF Spec
=============================================================================
