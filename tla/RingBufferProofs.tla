--------------------------- MODULE RingBufferProofs ---------------------------
(***************************************************************************)
(* Proofs about the ring buffer, for any capacity and any elements.        *)
(***************************************************************************)
EXTENDS RingBuffer, SequenceTheorems, TLAPS

(* What every result below assumes.                                        *)
RingAssumption == Cap \in Nat \ {0} /\ Default \in Elem

USE DEF RingAssumption

(* A slot index as an addition that wraps once.                            *)
LEMMA SlotWraps ==
  ASSUME RingAssumption, NEW h \in 0 .. Cap - 1, NEW k \in 0 .. Cap
  PROVE  /\ (h + k) % Cap = IF h + k < Cap THEN h + k ELSE h + k - Cap
         /\ (h + k) % Cap \in 0 .. Cap - 1
<1>1. Cap \in Nat \ {0}
  BY RingAssumption
<1>2. CASE h + k < Cap
  BY <1>1, <1>2
<1>3. CASE h + k >= Cap
  <2> DEFINE r == h + k - Cap
  <2>1. r \in 0 .. Cap - 1 /\ h + k = Cap * 1 + r
    BY <1>1, <1>3
  <2>2. (h + k) % Cap = r
    BY <1>1, <2>1
  <2> QED BY <1>1, <1>3, <2>1, <2>2
<1> QED BY <1>1, <1>2, <1>3

(* Different positions of the queue are different slots of the array.      *)
LEMMA SlotsDiffer ==
  ASSUME RingAssumption, NEW h \in 0 .. Cap - 1, NEW j \in 0 .. Cap, NEW k \in 0 .. Cap,
         j < k, k - j < Cap
  PROVE  (h + j) % Cap # (h + k) % Cap
<1>1. (h + j) % Cap = (IF h + j < Cap THEN h + j ELSE h + j - Cap)
  BY SlotWraps
<1>2. (h + k) % Cap = (IF h + k < Cap THEN h + k ELSE h + k - Cap)
  BY SlotWraps
<1> QED BY <1>1, <1>2, RingAssumption

-----------------------------------------------------------------------------
(* Type correctness.                                                       *)

(* An empty ring is well typed.                                            *)
LEMMA TypeInit ==
  ASSUME RingAssumption
  PROVE  Init => TypeOK
BY RingAssumption DEF Init, TypeOK

(* No operation moves head or size out of range.                           *)
LEMMA TypeStep ==
  ASSUME RingAssumption
  PROVE  TypeOK /\ [Next]_vars => TypeOK'
<1> SUFFICES ASSUME TypeOK, [Next]_vars
             PROVE  TypeOK'
  OBVIOUS
<1>1. CASE Push
  <2>1. (head + size) % Cap \in 0 .. Cap - 1
    BY SlotWraps DEF TypeOK
  <2> QED BY <1>1, <2>1, RingAssumption DEF Push, full, TypeOK
<1>2. CASE Pop
  <2>1. (head + 1) % Cap \in 0 .. Cap - 1
    BY SlotWraps, RingAssumption DEF TypeOK
  <2> QED BY <1>2, <2>1, RingAssumption DEF Pop, empty, TypeOK
<1>3. CASE Clear
  BY <1>3, RingAssumption DEF Clear, TypeOK
<1>4. CASE Read
  BY <1>4, RingAssumption DEF Read, front, TypeOK
<1>5. CASE UNCHANGED vars
  BY <1>5 DEF vars, TypeOK
<1> QED BY <1>1, <1>2, <1>3, <1>4, <1>5 DEF Next

(* Head and size stay inside the array in every state: no push or pop      *)
(* touches a slot that is not there.                                       *)
THEOREM TypeCorrect ==
  ASSUME RingAssumption
  PROVE  Spec => []TypeOK
BY TypeInit, TypeStep, PTL DEF Spec

-----------------------------------------------------------------------------
(* Refinement.  Each operation is followed on the sequence of stored       *)
(* elements.                                                               *)

(* The stored elements form a sequence of `size' elements.                 *)
LEMMA ContentsType ==
  ASSUME RingAssumption, TypeOK
  PROVE  /\ Contents \in Seq(Elem)
         /\ Len(Contents) = size
         /\ \A i \in 1 .. size : Contents[i] = data[(head + i - 1) % Cap]
<1>1. ASSUME NEW i \in 1 .. size
      PROVE  data[(head + i - 1) % Cap] \in Elem
  <2>1. i - 1 \in 0 .. Cap /\ head + i - 1 = head + (i - 1)
    BY RingAssumption DEF TypeOK
  <2>2. (head + (i - 1)) % Cap \in 0 .. Cap - 1
    BY <2>1, SlotWraps DEF TypeOK
  <2> QED BY <2>1, <2>2 DEF TypeOK
<1>2. size \in Nat
  BY RingAssumption DEF TypeOK
<1> QED BY <1>1, <1>2 DEF Contents

(* A push appends: it writes the slot behind the last, and no other.       *)
LEMMA PushAppends ==
  ASSUME RingAssumption, TypeOK, NEW v \in Elem, size < Cap,
         data' = [data EXCEPT ![(head + size) % Cap] = v],
         size' = size + 1, head' = head
  PROVE  Contents' = Append(Contents, v)
<1>1. size \in Nat /\ size \in 0 .. Cap /\ head \in 0 .. Cap - 1
  BY RingAssumption DEF TypeOK
<1>2. Contents' = [i \in 1 .. size + 1 |-> data'[(head + i - 1) % Cap]]
  BY DEF Contents
<1>3. Append(Contents, v) = [i \in 1 .. size + 1 |-> IF i = size + 1 THEN v ELSE Contents[i]]
  <2>1. Contents \in Seq(Elem) /\ Len(Contents) = size
    BY ContentsType
  <2>2. /\ Append(Contents, v) \in [1 .. size + 1 -> Elem]
        /\ \A i \in 1 .. size : Append(Contents, v)[i] = Contents[i]
        /\ Append(Contents, v)[size + 1] = v
    <3> DEFINE new == Append(Contents, v)
    <3>1. new \in Seq(Elem) /\ Len(new) = size + 1
      BY <2>1, AppendProperties
    <3>2. new \in [1 .. size + 1 -> Elem]
      <4> HIDE DEF new
      <4> QED BY <3>1, LenProperties
    <3>3. /\ \A i \in 1 .. size : new[i] = Contents[i]
          /\ new[size + 1] = v
      BY <2>1, AppendProperties
    <3> QED BY <3>2, <3>3
  <2>3. \A i \in 1 .. size + 1 : i # size + 1 => i \in 1 .. size
    BY <1>1
  <2> QED BY <2>2, <2>3
<1>4. ASSUME NEW i \in 1 .. size + 1
      PROVE  data'[(head + i - 1) % Cap] = IF i = size + 1 THEN v ELSE Contents[i]
  <2>1. (head + size) % Cap \in 0 .. Cap - 1
    BY <1>1, SlotWraps
  <2>2. CASE i = size + 1
    <3>1. head + i - 1 = head + size
      BY <1>1, <2>2
    <3> QED BY <2>1, <2>2, <3>1 DEF TypeOK
  <2>3. CASE i # size + 1
    <3>1. i \in 1 .. size /\ head + i - 1 = head + (i - 1)
      BY <1>1, <2>3
    <3>2. i - 1 \in 0 .. Cap /\ i - 1 < size /\ size - (i - 1) < Cap
      BY <1>1, <3>1, RingAssumption
    <3>3. (head + (i - 1)) % Cap # (head + size) % Cap
      BY <1>1, <3>2, SlotsDiffer
    <3>4. (head + (i - 1)) % Cap \in 0 .. Cap - 1
      BY <1>1, <3>2, SlotWraps
    <3>5. Contents[i] = data[(head + i - 1) % Cap]
      BY <3>1, ContentsType
    <3> QED BY <2>1, <2>3, <3>1, <3>3, <3>4, <3>5 DEF TypeOK
  <2> QED BY <2>2, <2>3
<1> QED BY <1>2, <1>3, <1>4

(* A pop drops the oldest element.                                         *)
LEMMA PopDropsFirst ==
  ASSUME RingAssumption, TypeOK, size # 0,
         head' = (head + 1) % Cap, size' = size - 1, data' = data
  PROVE  Contents' = Tail(Contents)
<1>1. size \in 1 .. Cap /\ size \in Nat /\ head \in 0 .. Cap - 1 /\ Cap \in Nat \ {0}
  BY RingAssumption DEF TypeOK
<1>2. Contents' = [i \in 1 .. size - 1 |-> data[(head' + i - 1) % Cap]]
  BY DEF Contents
<1>3. Tail(Contents) = [i \in 1 .. size - 1 |-> Contents[i + 1]]
  <2>1. Contents \in Seq(Elem) /\ Len(Contents) = size
    BY ContentsType
  <2>2. Contents # <<>>
    BY <1>1, <2>1
  <2>3. /\ Tail(Contents) \in [1 .. size - 1 -> Elem]
        /\ \A i \in 1 .. size - 1 : Tail(Contents)[i] = Contents[i + 1]
    BY <2>1, <2>2, HeadTailProperties, LenProperties
  <2> QED BY <2>3
<1>4. ASSUME NEW i \in 1 .. size - 1
      PROVE  data[(head' + i - 1) % Cap] = Contents[i + 1]
  <2>1. i + 1 \in 1 .. size /\ head + (i + 1) - 1 = head + i
    BY <1>1
  <2>2. Contents[i + 1] = data[(head + i) % Cap]
    BY <2>1, ContentsType
  <2>3. /\ head' = (IF head + 1 < Cap THEN head + 1 ELSE head + 1 - Cap)
        /\ head' \in 0 .. Cap - 1
    BY <1>1, SlotWraps
  <2>4. i - 1 \in 0 .. Cap /\ i \in 0 .. Cap /\ head' + i - 1 = head' + (i - 1)
    BY <1>1, <2>3
  <2>5. /\ (head' + (i - 1)) % Cap
             = (IF head' + (i - 1) < Cap THEN head' + (i - 1) ELSE head' + (i - 1) - Cap)
        /\ (head + i) % Cap = (IF head + i < Cap THEN head + i ELSE head + i - Cap)
    BY <1>1, <2>3, <2>4, SlotWraps
  <2>6. (head' + (i - 1)) % Cap = (head + i) % Cap
    BY <1>1, <2>3, <2>4, <2>5
  <2> QED BY <2>2, <2>4, <2>6
<1> QED BY <1>2, <1>3, <1>4

(* front() is the oldest element, or the default of an empty buffer.       *)
LEMMA FrontIsHead ==
  ASSUME RingAssumption, TypeOK
  PROVE  front = Fifo!Front(Contents)
<1>1. Contents \in Seq(Elem) /\ Len(Contents) = size /\ size \in Nat
  BY ContentsType, RingAssumption DEF TypeOK
<1>2. CASE size = 0
  <2>1. Contents = <<>>
    BY <1>1, <1>2
  <2> QED BY <1>2, <2>1 DEF front, empty, Fifo!Front
<1>3. CASE size # 0
  <2>1. Contents # <<>> /\ 1 \in 1 .. size
    BY <1>1, <1>3
  <2>2. Contents[1] = data[(head + 1 - 1) % Cap]
    BY <2>1, ContentsType
  <2>3. head \in 0 .. Cap - 1 /\ 0 \in 0 .. Cap /\ head + 0 < Cap /\ head + 1 - 1 = head + 0
    BY RingAssumption DEF TypeOK
  <2>4. (head + 0) % Cap = head
    <3>1. (head + 0) % Cap = IF head + 0 < Cap THEN head + 0 ELSE head + 0 - Cap
      BY <2>3, SlotWraps
    <3>2. head + 0 = head
      BY <2>3
    <3> QED BY <2>3, <3>1, <3>2
  <2> QED BY <1>1, <1>3, <2>1, <2>2, <2>3, <2>4 DEF front, empty, Fifo!Front
<1> QED BY <1>2, <1>3

(* The empty ring is the empty FIFO.                                       *)
LEMMA RefinementInit ==
  ASSUME RingAssumption
  PROVE  Init => Fifo!Init
<1> SUFFICES ASSUME Init
             PROVE  Fifo!Init
  OBVIOUS
<1>1. Len(Contents) = 0 /\ Contents \in Seq(Elem)
  BY TypeInit, ContentsType DEF Init
<1>2. Contents = <<>>
  BY <1>1
<1> QED BY <1>2 DEF Init, Fifo!Init

(* Every operation of the ring is the same operation of the FIFO.          *)
LEMMA RefinementStep ==
  ASSUME RingAssumption
  PROVE  TypeOK /\ [Next]_vars => [Fifo!Next]_(Fifo!vars)
<1> SUFFICES ASSUME TypeOK, [Next]_vars
             PROVE  [Fifo!Next]_(Fifo!vars)
  OBVIOUS
<1>1. Contents \in Seq(Elem) /\ Len(Contents) = size /\ size \in 0 .. Cap /\ Cap \in Nat
  BY ContentsType, RingAssumption DEF TypeOK
<1>2. CASE Push
  <2>1. PICK v \in Elem :
          /\ data' = [data EXCEPT ![(head + size) % Cap] = v]
          /\ size' = size + 1 /\ head' = head /\ read' = read
    BY <1>2 DEF Push
  <2>2. size < Cap
    BY <1>1, <1>2 DEF Push, full
  <2>3. Contents' = Append(Contents, v)
    BY <2>1, <2>2, PushAppends
  <2> QED BY <1>1, <2>1, <2>2, <2>3 DEF Fifo!Next, Fifo!Push, Fifo!Pushed
<1>3. CASE Pop
  <2>1. size # 0 /\ Contents' = Tail(Contents) /\ read' = read
    BY <1>3, PopDropsFirst DEF Pop, empty
  <2>2. Contents # <<>>
    BY <1>1, <2>1
  <2> QED BY <2>1, <2>2 DEF Fifo!Next, Fifo!Pop, Fifo!Popped
<1>4. CASE Clear
  <2>1. Contents' = [i \in 1 .. 0 |-> data'[(head' + i - 1) % Cap]]
    BY <1>4 DEF Clear, Contents
  <2>2. Contents' = <<>>
    BY <2>1
  <2> QED BY <1>4, <2>2 DEF Clear, Fifo!Next, Fifo!Clear
<1>5. CASE Read
  <2>1. read' = Fifo!Front(Contents)
    BY <1>5, FrontIsHead DEF Read
  <2>2. Contents' = Contents
    BY <1>5 DEF Read, Contents
  <2> QED BY <2>1, <2>2 DEF Fifo!Next, Fifo!Read
<1>6. CASE UNCHANGED vars
  BY <1>6 DEF vars, Fifo!vars, Contents
<1> QED BY <1>2, <1>3, <1>4, <1>5, <1>6 DEF Next

(* The ring buffer implements the bounded FIFO, whatever its capacity.     *)
THEOREM RingIsFifo ==
  ASSUME RingAssumption
  PROVE  Spec => IsFifo
BY TypeInit, TypeStep, RefinementInit, RefinementStep, PTL DEF Spec, IsFifo, Fifo!Spec
=============================================================================
