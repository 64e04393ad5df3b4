-------------------------- MODULE GatherClientProofs ---------------------------
(***************************************************************************)
(* Proofs about the gather controller and its clients, for buffers, limits *)
(* and batches of any size.                                                *)
(***************************************************************************)
EXTENDS GatherClient, SequenceTheorems, FiniteSetTheorems, TLAPS

-----------------------------------------------------------------------------
(* Type correctness, with batches given up half-way or not.                *)

(* What start of a batch puts into the offset buffer is well typed and     *)
(* fits.                                                                   *)
LEMMA OffsetsType ==
  ASSUME NEW b \in Nat \ {0}, NEW n \in Nat
  PROVE  /\ [i \in 1 .. Kept(n) |-> <<b, i>>] \in Seq((1 .. b) \X Nat)
         /\ Len([i \in 1 .. Kept(n) |-> <<b, i>>]) = Kept(n)
         /\ Kept(n) \in Nat /\ Kept(n) <= n /\ Kept(n) <= ObCap
<1>1. Kept(n) \in Nat /\ Kept(n) <= n /\ Kept(n) <= ObCap
  BY PiccoloAssumption DEF Kept
<1>2. \A i \in 1 .. Kept(n) : <<b, i>> \in (1 .. b) \X Nat
  BY <1>1
<1> HIDE DEF Kept
<1> QED BY <1>1, <1>2

(* The reads under way stay reads of a batch that was started.             *)
LEMMA ElementsGrow ==
  ASSUME batch \in Nat, batch' = batch + 1
  PROVE  /\ Element \subseteq Element'
         /\ \A s \in Seq(Element) : s \in Seq(Element')
         /\ Element' = (1 .. batch') \X Nat
<1>1. Element \subseteq Element' /\ Element' = (1 .. batch') \X Nat
  BY DEF Element
<1> HIDE DEF Element
<1>2. ASSUME NEW s \in Seq(Element)
      PROVE  s \in Seq(Element')
  <2>1. /\ Len(s) \in Nat /\ s = [i \in 1 .. Len(s) |-> s[i]]
        /\ \A i \in 1 .. Len(s) : s[i] \in Element
    BY <1>2
  <2>2. \A i \in 1 .. Len(s) : s[i] \in Element'
    BY <1>1, <2>1
  <2> DEFINE n == Len(s)
  <2> HIDE DEF n
  <2>3. n \in Nat /\ s \in [1 .. n -> Element']
    BY <2>1, <2>2 DEF n
  <2> QED BY <2>3
<1> QED BY <1>1, <1>2

(* The initial buffers are empty and the counters zero.                    *)
LEMMA TypeInit == GatherInit => GatherTypeOK
<1>1. <<>> \in Seq(Element) /\ Len(<<>>) = 0
  OBVIOUS
<1>2. 0 <= ObCap /\ 0 <= DbCap /\ 0 \in 0 .. max_outstanding /\ 0 \in Nat
  BY PiccoloAssumption
<1>3. {} \subseteq Element /\ {} \subseteq {"core", "vertex"} /\ TRUE \in BOOLEAN
  OBVIOUS
<1> SUFFICES ASSUME GatherInit
             PROVE  GatherTypeOK
  OBVIOUS
<1>4. /\ ob = <<>> /\ db = <<>> /\ port = <<>> /\ memory = {}
      /\ waiting = {} /\ intact = TRUE /\ attached \in BOOLEAN
      /\ num_elems = 0 /\ issued = 0 /\ completed = 0 /\ outstanding = 0 /\ batch = 0
  BY DEF GatherInit, PiccoloInit
<1> QED BY <1>1, <1>2, <1>3, <1>4 DEF GatherTypeOK

(* Every action keeps the buffers within their capacities.                 *)
LEMMA TypeStep == GatherTypeOK /\ [GatherNext]_gatherVars => GatherTypeOK'
<1> SUFFICES ASSUME GatherTypeOK, [GatherNext]_gatherVars
             PROVE  GatherTypeOK'
  OBVIOUS
<1> USE DEF GatherTypeOK
<1>0. batch' = batch => Element' = Element
  BY DEF Element
<1>1. ASSUME NEW user \in {"core", "vertex"}, NEW elems \in Nat, NEW offsets \in Nat,
             StartBatch(user, elems, offsets)
      PROVE  GatherTypeOK'
  <2>1. reset_for_new_batch(batch', elems, offsets) /\ batch' = batch + 1 /\ batch' \in Nat \ {0}
    BY <1>1 DEF StartBatch
  <2>2. ob' \in Seq(Element') /\ Len(ob') <= ObCap
    BY <2>1, OffsetsType, ElementsGrow DEF reset_for_new_batch
  <2>3. db' = <<>> /\ db' \in Seq(Element') /\ Len(db') <= DbCap
    BY <2>1, PiccoloAssumption DEF reset_for_new_batch
  <2>4. /\ num_elems' \in Nat /\ issued' \in Nat /\ completed' \in Nat
        /\ outstanding' \in 0 .. max_outstanding
    BY <2>1, PiccoloAssumption DEF reset_for_new_batch
  <2>5. /\ waiting' = waiting \union {user} /\ intact' = (intact /\ waiting = {})
        /\ port' = port /\ memory' = memory /\ attached' = attached
    BY <1>1, <2>1 DEF StartBatch, reset_for_new_batch
  <2>6. waiting' \subseteq {"core", "vertex"} /\ intact' \in BOOLEAN /\ attached' \in BOOLEAN
    BY <2>5
  <2>7. port' \in Seq(Element') /\ memory' \subseteq Element'
    BY <2>1, <2>5, ElementsGrow
  <2> QED BY <2>1, <2>2, <2>3, <2>4, <2>6, <2>7
<1>2. CASE TickIssue
  <2>1. /\ ob # <<>> /\ Head(ob) \in Element
        /\ Tail(ob) \in Seq(Element) /\ Len(Tail(ob)) = Len(ob) - 1
    BY <1>2, HeadTailProperties DEF TickIssue, tick_issue, CanIssue
  <2>2. Append(port, Head(ob)) \in Seq(Element)
    BY <2>1
  <2>3. outstanding' \in 0 .. max_outstanding /\ issued' \in Nat
    BY <1>2, PiccoloAssumption DEF TickIssue, tick_issue, CanIssue
  <2>4. ob' \in Seq(Element) /\ Len(ob') <= ObCap /\ port' \in Seq(Element)
    <3>1. ob' = Tail(ob) /\ port' = Append(port, Head(ob)) /\ Len(ob) \in Nat
      BY <1>2 DEF TickIssue, tick_issue
    <3> QED BY <2>1, <2>2, <3>1, PiccoloAssumption
  <2> QED BY <1>0, <1>2, <2>3, <2>4 DEF TickIssue, tick_issue
<1>3. CASE Send
  <2>1. Head(port) \in Element /\ Tail(port) \in Seq(Element)
    BY <1>3, HeadTailProperties DEF Send
  <2> QED BY <1>0, <1>3, <2>1 DEF Send
<1>4. CASE ReadComplete
  <2>1. PICK read \in memory : memory' = memory \ {read} /\ on_read_complete(read)
    BY <1>4 DEF ReadComplete
  <2>2. UNCHANGED <<port, batch, waiting, attached, intact>>
    BY <1>4 DEF ReadComplete
  <2>3. memory' \subseteq Element /\ read \in Element
    BY <2>1
  <2>4. CASE outstanding = 0
    BY <1>0, <2>1, <2>2, <2>3, <2>4 DEF on_read_complete
  <2>5. CASE outstanding # 0
    <3>1. db' = (IF Len(db) < DbCap THEN Append(db, read) ELSE db)
      BY <2>1, <2>5 DEF on_read_complete
    <3>2. db' \in Seq(Element) /\ Len(db') <= DbCap
      <4>1. Append(db, read) \in Seq(Element) /\ Len(Append(db, read)) = Len(db) + 1
        BY <2>3, AppendProperties
      <4> QED BY <3>1, <4>1, PiccoloAssumption
    <3>3. outstanding' \in 0 .. max_outstanding /\ completed' \in Nat
      BY <2>1, <2>5, PiccoloAssumption DEF on_read_complete
    <3> QED BY <1>0, <2>1, <2>2, <2>3, <2>5, <3>2, <3>3 DEF on_read_complete
  <2> QED BY <2>4, <2>5
<1>5. ASSUME NEW user \in {"core", "vertex"}, NEW n \in 0 .. Len(db), Drain(user, n)
      PROVE  GatherTypeOK'
  <2>1. /\ SubSeq(db, n + 1, Len(db)) \in Seq(Element)
        /\ Len(SubSeq(db, n + 1, Len(db))) <= Len(db)
    OBVIOUS
  <2>2. /\ db' = SubSeq(db, n + 1, Len(db)) /\ waiting' = waiting \ {user}
        /\ UNCHANGED <<ob, port, num_elems, issued, completed, outstanding, memory, batch,
                       attached, intact>>
    BY <1>5 DEF Drain
  <2>3. db' \in Seq(Element) /\ Len(db') <= DbCap
    BY <2>1, <2>2, PiccoloAssumption
  <2> QED BY <1>0, <2>2, <2>3
<1>6. ASSUME NEW user \in {"core", "vertex"}, Abandon(user)
      PROVE  GatherTypeOK'
  BY <1>0, <1>6 DEF Abandon, piccoloVars
<1>7. CASE UNCHANGED gatherVars
  BY <1>0, <1>7 DEF gatherVars, piccoloVars
<1> QED BY <1>1, <1>2, <1>3, <1>4, <1>5, <1>6, <1>7 DEF GatherNext

(* The counters and buffers stay within their bounds, and the number of    *)
(* outstanding reads never wraps, whatever the clients give up.            *)
THEOREM TypeCorrect == GatherSpec => []GatherTypeOK
BY TypeInit, TypeStep, PTL DEF GatherSpec

-----------------------------------------------------------------------------
(* What done() means.  The reads of a batch are issued in the order of its *)
(* offsets, so they are, from the newest to the oldest: not issued yet, in *)
(* the port, and in the memory system or in the data buffer.               *)

Sent == issued - Len(port)

CountInv ==
  /\ IsFiniteSet(memory)
  /\ outstanding = Len(port) + Cardinality(memory)
  /\ issued = completed + outstanding
  /\ issued <= num_elems
  /\ issued + Len(ob) <= ObCap

GatherInv ==
  /\ CountInv
  /\ \A i \in 1 .. Len(ob) : ob[i] = <<batch, issued + i>>
  /\ \A i \in 1 .. Len(port) : port[i] = <<batch, Sent + i>>
  /\ \A read \in memory : \E e \in 1 .. Sent : read = <<batch, e>>
  /\ waiting # {} =>
       /\ Len(db) = completed
       /\ \A i \in 1 .. Len(db) : \E e \in 1 .. Sent : db[i] = <<batch, e>>
       /\ \A e \in 1 .. Sent :
            <<batch, e>> \in memory \/ \E i \in 1 .. Len(db) : db[i] = <<batch, e>>
  /\ waiting = {} => done
  /\ \A user, other \in waiting : user = other

(* Before the first batch nothing is on its way.                           *)
LEMMA GatherFirst == GatherInit => GatherInv
<1> SUFFICES ASSUME GatherInit
             PROVE  GatherInv
  OBVIOUS
<1>1. IsFiniteSet(memory) /\ Cardinality(memory) = 0
  BY FS_EmptySet DEF GatherInit
<1>2. Len(ob) = 0 /\ Len(db) = 0 /\ Len(port) = 0
  BY DEF GatherInit, PiccoloInit
<1>3. memory = {} /\ waiting = {} /\ issued = 0 /\ completed = 0 /\ outstanding = 0 /\ num_elems = 0
  BY DEF GatherInit, PiccoloInit
<1> QED BY <1>1, <1>2, <1>3, PiccoloAssumption DEF GatherInv, CountInv, done, Sent

(* Nothing is in flight when the batch is done.                            *)
LEMMA DoneIsDrained ==
  ASSUME GatherTypeOK, GatherInv, done
  PROVE  /\ outstanding = 0 /\ completed = num_elems /\ issued = num_elems
         /\ Len(port) = 0 /\ memory = {}
<1>1. /\ issued \in Nat /\ completed \in Nat /\ num_elems \in Nat
      /\ outstanding \in Nat /\ Len(port) \in Nat
  BY PiccoloAssumption DEF GatherTypeOK
<1>2. IsFiniteSet(memory) /\ Cardinality(memory) \in Nat
  BY FS_CardinalityType DEF GatherInv, CountInv
<1>3. /\ outstanding = 0 /\ completed = num_elems /\ issued = num_elems
      /\ Len(port) = 0 /\ Cardinality(memory) = 0
  BY <1>1, <1>2 DEF GatherInv, CountInv, done
<1>4. memory = {}
  BY <1>2, <1>3, FS_EmptySet
<1> QED BY <1>3, <1>4

(* A new batch starts when nothing of the last one is left.                *)
LEMMA GatherStart ==
  ASSUME GatherTypeOK, GatherInv, waiting = {},
         NEW user, NEW elems \in Nat, NEW offsets \in Nat, StartBatch(user, elems, offsets)
  PROVE  GatherInv'
<1>1. reset_for_new_batch(batch', elems, offsets)
  BY DEF StartBatch
<1>2. elems \in Nat /\ offsets \in Nat /\ batch' \in Nat \ {0}
  BY DEF StartBatch, GatherTypeOK
<1>3. Len(port) = 0 /\ memory = {} /\ port' = port /\ memory' = memory /\ waiting' = {user}
  BY <1>1, DoneIsDrained DEF StartBatch, GatherInv, reset_for_new_batch
<1>4. /\ num_elems' = elems /\ issued' = 0 /\ completed' = 0 /\ outstanding' = 0
      /\ db' = <<>> /\ ob' = [i \in 1 .. Kept(offsets) |-> <<batch', i>>]
  BY <1>1 DEF reset_for_new_batch
<1>5. IsFiniteSet(memory') /\ Cardinality(memory') = 0
  BY <1>3, FS_EmptySet
<1>6. Len(ob') <= ObCap /\ \A i \in 1 .. Len(ob') : ob'[i] = <<batch', i>>
  <2>1. Len(ob') = Kept(offsets) /\ Kept(offsets) <= ObCap
    BY <1>2, <1>4, OffsetsType
  <2> QED BY <1>4, <2>1
<1>7. \A i \in 1 .. Len(ob') : ob'[i] = <<batch', issued' + i>>
  <2>1. \A i \in 1 .. Len(ob') : i = issued' + i
    BY <1>4
  <2> QED BY <1>6, <2>1
<1>8. Len(ob') \in Nat /\ issued' + Len(ob') <= ObCap
  <2>1. Len(ob') = Kept(offsets) /\ Kept(offsets) \in Nat
    BY <1>2, <1>4, OffsetsType
  <2> QED BY <1>4, <1>6, <2>1, PiccoloAssumption
<1>9. Len(db') = 0 /\ Len(port') = 0
  BY <1>3, <1>4
<1>10. Sent' = 0
  BY <1>4, <1>9 DEF Sent
<1>11. /\ outstanding' = Len(port') + Cardinality(memory')
       /\ issued' = completed' + outstanding' /\ issued' <= num_elems'
  BY <1>2, <1>4, <1>5, <1>9
<1>12. CountInv'
  BY <1>5, <1>8, <1>11 DEF CountInv
<1>13. \A e : /\ e \notin 1 .. Sent' /\ e \notin 1 .. Len(port')
             /\ e \notin 1 .. Len(db')
  BY <1>9, <1>10
<1>14. Len(db') = completed' /\ memory' = {} /\ waiting' = {user}
  BY <1>3, <1>4, <1>9
<1> QED BY <1>7, <1>12, <1>13, <1>14 DEF GatherInv

(* A read moves from the offset buffer to the end of the port.             *)
LEMMA GatherIssue ==
  ASSUME GatherTypeOK, GatherInv, TickIssue
  PROVE  GatherInv'
<1>1. /\ issued < num_elems /\ ob # <<>>
      /\ port' = Append(port, Head(ob)) /\ ob' = Tail(ob)
      /\ issued' = issued + 1 /\ outstanding' = outstanding + 1
      /\ db' = db /\ num_elems' = num_elems /\ completed' = completed
      /\ memory' = memory /\ batch' = batch /\ waiting' = waiting
  BY DEF TickIssue, tick_issue, CanIssue
<1>2. /\ issued \in Nat /\ completed \in Nat /\ num_elems \in Nat /\ outstanding \in Nat
      /\ ob \in Seq(Element) /\ port \in Seq(Element)
  BY PiccoloAssumption DEF GatherTypeOK
<1>3. /\ Len(ob) \in Nat \ {0} /\ Len(ob') = Len(ob) - 1
      /\ \A i \in 1 .. Len(ob') : ob'[i] = ob[i + 1]
  <2>1. Len(ob) \in Nat \ {0}
    BY <1>1, <1>2, EmptySeq
  <2> QED BY <1>1, <1>2, <2>1, HeadTailProperties
<1>4. Head(ob) = <<batch, issued + 1>> /\ Head(ob) \in Element
  <2>1. Head(ob) = ob[1] /\ 1 \in 1 .. Len(ob)
    BY <1>1, <1>2, <1>3
  <2>2. ob[1] = <<batch, issued + 1>>
    BY <2>1 DEF GatherInv
  <2> QED BY <1>1, <1>2, <2>1, <2>2, HeadTailProperties
<1>5. /\ Len(port') = Len(port) + 1 /\ Len(port) \in Nat
      /\ \A i \in 1 .. Len(port) : port'[i] = port[i]
      /\ port'[Len(port) + 1] = <<batch, issued + 1>>
  BY <1>1, <1>2, <1>4, AppendProperties, LenProperties
<1>6. Sent' = Sent
  BY <1>1, <1>2, <1>5 DEF Sent
<1>7. \A i \in 1 .. Len(ob') : ob'[i] = <<batch', issued' + i>>
  <2> SUFFICES ASSUME NEW i \in 1 .. Len(ob')
               PROVE  ob'[i] = <<batch', issued' + i>>
    OBVIOUS
  <2>1. i + 1 \in 1 .. Len(ob) /\ issued + (i + 1) = issued' + i
    BY <1>1, <1>2, <1>3
  <2>2. ob[i + 1] = <<batch, issued + (i + 1)>>
    BY <2>1 DEF GatherInv
  <2> QED BY <1>1, <1>3, <2>1, <2>2
<1>8. \A i \in 1 .. Len(port') : port'[i] = <<batch', Sent' + i>>
  <2> SUFFICES ASSUME NEW i \in 1 .. Len(port')
               PROVE  port'[i] = <<batch', Sent' + i>>
    OBVIOUS
  <2>1. CASE i \in 1 .. Len(port)
    BY <1>1, <1>5, <1>6, <2>1 DEF GatherInv
  <2>2. CASE i = Len(port) + 1
    <3>1. Sent + i = issued + 1
      BY <1>2, <1>5, <2>2 DEF Sent
    <3> QED BY <1>1, <1>5, <1>6, <2>2, <3>1
  <2> QED BY <1>5, <2>1, <2>2
<1>9. IsFiniteSet(memory) /\ Cardinality(memory) \in Nat
  BY FS_CardinalityType DEF GatherInv, CountInv
<1>10. /\ outstanding' = Len(port') + Cardinality(memory')
       /\ issued' = completed' + outstanding' /\ issued' <= num_elems'
       /\ issued' + Len(ob') <= ObCap
  <2>1. /\ outstanding = Len(port) + Cardinality(memory) /\ issued = completed + outstanding
        /\ issued + Len(ob) <= ObCap /\ ObCap \in Nat
    BY PiccoloAssumption DEF GatherInv, CountInv
  <2>2. Cardinality(memory') = Cardinality(memory)
    BY <1>1
  <2>3. /\ issued' = issued + 1 /\ outstanding' = outstanding + 1
        /\ completed' = completed /\ num_elems' = num_elems /\ issued < num_elems
    BY <1>1
  <2>4. outstanding' = Len(port') + Cardinality(memory')
    <3>1. Len(port') = Len(port) + 1 /\ Len(port) \in Nat
      BY <1>5
    <3> QED BY <1>9, <2>1, <2>2, <2>3, <3>1
  <2>5. issued' = completed' + outstanding' /\ issued' <= num_elems'
    <3>1. issued \in Nat /\ completed \in Nat /\ num_elems \in Nat /\ outstanding \in Nat
      BY <1>2
    <3>2. issued = completed + outstanding
      BY <2>1
    <3>3. issued' = issued + 1 /\ outstanding' = outstanding + 1 /\ completed' = completed
      BY <2>3
    <3>4. issued' = completed' + outstanding'
      BY <3>1, <3>2, <3>3
    <3>5. num_elems' = num_elems /\ issued < num_elems
      BY <2>3
    <3> QED BY <3>1, <3>3, <3>4, <3>5
  <2>6. issued' + Len(ob') <= ObCap
    BY <1>2, <1>3, <2>1, <2>3
  <2> QED BY <2>4, <2>5, <2>6
<1>11. waiting # {}
  <2>1. issued = completed + outstanding /\ (waiting = {} => done)
    BY DEF GatherInv, CountInv
  <2>2. ~ done
    BY <1>1, <1>2, <2>1 DEF done
  <2> QED BY <2>1, <2>2
<1>12. /\ \A read \in memory' : \E e \in 1 .. Sent' : read = <<batch', e>>
       /\ Len(db') = completed'
       /\ \A i \in 1 .. Len(db') : \E e \in 1 .. Sent' : db'[i] = <<batch', e>>
       /\ \A e \in 1 .. Sent' :
            <<batch', e>> \in memory' \/ \E i \in 1 .. Len(db') : db'[i] = <<batch', e>>
       /\ \A user, other \in waiting' : user = other
  BY <1>1, <1>6, <1>11 DEF GatherInv
<1> QED BY <1>1, <1>7, <1>8, <1>9, <1>10, <1>11, <1>12 DEF GatherInv, CountInv

(* A read moves from the head of the port to the memory system.            *)
LEMMA GatherSend ==
  ASSUME GatherTypeOK, GatherInv, Send
  PROVE  GatherInv'
<1> DEFINE read == Head(port)
<1>1. /\ port # <<>> /\ memory' = memory \union {read} /\ port' = Tail(port)
      /\ UNCHANGED <<ob, db, num_elems, issued, completed, outstanding, batch, waiting>>
  BY DEF Send
<1>2. /\ issued \in Nat /\ outstanding \in Nat /\ completed \in Nat /\ num_elems \in Nat
      /\ port \in Seq(Element)
  BY PiccoloAssumption DEF GatherTypeOK
<1>3. /\ Len(port) \in Nat \ {0} /\ Len(port') = Len(port) - 1
      /\ \A i \in 1 .. Len(port') : port'[i] = port[i + 1]
  <2>1. Len(port) \in Nat \ {0}
    BY <1>1, <1>2, EmptySeq
  <2> QED BY <1>1, <1>2, <2>1, HeadTailProperties
<1>4. Sent \in Nat /\ Sent' = Sent + 1
  <2>1. IsFiniteSet(memory) /\ Cardinality(memory) \in Nat
    BY FS_CardinalityType DEF GatherInv, CountInv
  <2>2. outstanding = Len(port) + Cardinality(memory) /\ issued = completed + outstanding
    BY DEF GatherInv, CountInv
  <2>3. issued' = issued
    BY <1>1
  <2> QED BY <1>2, <1>3, <2>1, <2>2, <2>3 DEF Sent
<1>5. read = <<batch, Sent + 1>>
  <2>1. Head(port) = port[1] /\ 1 \in 1 .. Len(port)
    BY <1>1, <1>2, <1>3
  <2> QED BY <2>1 DEF GatherInv
<1>6. read \notin memory
  BY <1>4, <1>5 DEF GatherInv
<1>7. IsFiniteSet(memory') /\ Cardinality(memory') = Cardinality(memory) + 1
  <2>1. IsFiniteSet(memory)
    BY DEF GatherInv, CountInv
  <2> HIDE DEF read
  <2> QED BY <1>1, <1>6, <2>1, FS_AddElement
<1>8. Cardinality(memory) \in Nat
  BY FS_CardinalityType DEF GatherInv, CountInv
<1>9. outstanding' = Len(port') + Cardinality(memory')
  BY <1>1, <1>2, <1>3, <1>7, <1>8 DEF GatherInv, CountInv
<1>10. \A i \in 1 .. Len(port') : port'[i] = <<batch', Sent' + i>>
  <2> SUFFICES ASSUME NEW i \in 1 .. Len(port')
               PROVE  port'[i] = <<batch', Sent' + i>>
    OBVIOUS
  <2>1. i + 1 \in 1 .. Len(port) /\ Sent + (i + 1) = Sent' + i
    BY <1>3, <1>4
  <2>2. port[i + 1] = <<batch, Sent + (i + 1)>>
    BY <2>1 DEF GatherInv
  <2> QED BY <1>1, <1>3, <2>1, <2>2
<1>11. \A r \in memory' : \E e \in 1 .. Sent' : r = <<batch', e>>
  <2> HIDE DEF read
  <2>1. ASSUME NEW r \in memory'
        PROVE  \E e \in 1 .. Sent' : r = <<batch', e>>
    <3>1. CASE r = read
      <4>1. Sent + 1 \in 1 .. Sent'
        BY <1>4
      <4> QED BY <1>1, <1>5, <3>1, <4>1
    <3>2. CASE r \in memory
      <4>1. PICK e \in 1 .. Sent : r = <<batch, e>>
        BY <3>2 DEF GatherInv
      <4>2. e \in 1 .. Sent'
        BY <1>4
      <4> QED BY <1>1, <4>1, <4>2
    <3> QED BY <1>1, <3>1, <3>2
  <2> QED BY <2>1
<1>12. ASSUME waiting' # {}
       PROVE  /\ Len(db') = completed'
              /\ \A i \in 1 .. Len(db') : \E e \in 1 .. Sent' : db'[i] = <<batch', e>>
              /\ \A e \in 1 .. Sent' :
                   <<batch', e>> \in memory' \/ \E i \in 1 .. Len(db') : db'[i] = <<batch', e>>
  <2>1. Len(db') = completed'
    BY <1>1, <1>12 DEF GatherInv
  <2>2. ASSUME NEW e \in 1 .. Sent'
        PROVE  <<batch', e>> \in memory' \/ \E i \in 1 .. Len(db') : db'[i] = <<batch', e>>
    <3>1. CASE e = Sent + 1
      BY <1>1, <1>5, <3>1
    <3>2. CASE e \in 1 .. Sent
      BY <1>1, <1>12, <3>2 DEF GatherInv
    <3> QED BY <1>4, <2>2, <3>1, <3>2
  <2>3. ASSUME NEW i \in 1 .. Len(db')
        PROVE  \E e \in 1 .. Sent' : db'[i] = <<batch', e>>
    <3>1. PICK e \in 1 .. Sent : db[i] = <<batch, e>>
      BY <1>1, <1>12 DEF GatherInv
    <3>2. e \in 1 .. Sent'
      BY <1>4
    <3> QED BY <1>1, <3>1, <3>2
  <2> QED BY <2>1, <2>2, <2>3
<1>13. /\ issued' = completed' + outstanding' /\ issued' <= num_elems'
       /\ issued' + Len(ob') <= ObCap
       /\ \A i \in 1 .. Len(ob') : ob'[i] = <<batch', issued' + i>>
       /\ waiting' = {} => done'
       /\ \A user, other \in waiting' : user = other
  BY <1>1 DEF GatherInv, CountInv, done
<1> QED BY <1>7, <1>9, <1>10, <1>11, <1>12, <1>13 DEF GatherInv, CountInv

(* A read moves from the memory system to the data buffer, which has room  *)
(* for it.                                                                 *)
LEMMA GatherComplete ==
  ASSUME GatherTypeOK, GatherInv, ReadComplete, ObCap <= DbCap
  PROVE  GatherInv'
<1>1. PICK read \in memory : memory' = memory \ {read} /\ on_read_complete(read)
  BY DEF ReadComplete
<1>2. port' = port /\ batch' = batch /\ waiting' = waiting
  BY DEF ReadComplete
<1>3. /\ issued \in Nat /\ outstanding \in Nat /\ completed \in Nat /\ num_elems \in Nat
      /\ port \in Seq(Element) /\ Len(port) \in Nat /\ db \in Seq(Element) /\ Len(db) \in Nat
      /\ Len(ob) \in Nat
  BY PiccoloAssumption DEF GatherTypeOK
<1>4. /\ IsFiniteSet(memory') /\ Cardinality(memory') = Cardinality(memory) - 1
      /\ Cardinality(memory) \in Nat \ {0}
  <2>1. IsFiniteSet(memory) /\ Cardinality(memory) \in Nat
    BY FS_CardinalityType DEF GatherInv, CountInv
  <2>2. IsFiniteSet(memory') /\ Cardinality(memory') = Cardinality(memory) - 1
    BY <1>1, <2>1, FS_RemoveElement
  <2>3. Cardinality(memory) # 0
    BY <1>1, <2>1, FS_EmptySet
  <2> QED BY <2>1, <2>2, <2>3
<1>5. outstanding # 0
  <2>1. outstanding = Len(port) + Cardinality(memory)
    BY DEF GatherInv, CountInv
  <2> QED BY <1>3, <1>4, <2>1
<1>6. waiting # {}
  BY <1>5, DoneIsDrained DEF GatherInv
<1>7. Len(db) = completed /\ Len(db) < DbCap
  BY <1>3, <1>5, <1>6, PiccoloAssumption DEF GatherInv, CountInv
<1>8. /\ db' = Append(db, read) /\ outstanding' = outstanding - 1 /\ completed' = completed + 1
      /\ ob' = ob /\ num_elems' = num_elems /\ issued' = issued
  BY <1>1, <1>5, <1>7 DEF on_read_complete
<1>9. /\ Len(db') = Len(db) + 1 /\ db'[Len(db) + 1] = read
      /\ \A i \in 1 .. Len(db) : db'[i] = db[i]
  <2>1. read \in Element
    BY DEF GatherTypeOK
  <2> QED BY <1>3, <1>8, <2>1, AppendProperties
<1>10. Sent' = Sent
  BY <1>2, <1>8 DEF Sent
<1>11. \A e \in 1 .. Sent :
         <<batch, e>> \in memory' \/ \E i \in 1 .. Len(db') : db'[i] = <<batch, e>>
  <2> SUFFICES ASSUME NEW e \in 1 .. Sent
               PROVE  <<batch, e>> \in memory' \/ \E i \in 1 .. Len(db') : db'[i] = <<batch, e>>
    OBVIOUS
  <2>1. CASE <<batch, e>> = read
    <3>1. Len(db) + 1 \in 1 .. Len(db')
      BY <1>3, <1>9
    <3> QED BY <1>9, <2>1, <3>1
  <2>2. CASE <<batch, e>> \in memory /\ <<batch, e>> # read
    BY <1>1, <2>2
  <2>3. CASE \E i \in 1 .. Len(db) : db[i] = <<batch, e>>
    <3>1. PICK i \in 1 .. Len(db) : db[i] = <<batch, e>>
      BY <2>3
    <3>2. i \in 1 .. Len(db')
      BY <1>3, <1>9
    <3> QED BY <1>9, <3>1, <3>2
  <2> QED BY <1>6, <2>1, <2>2, <2>3 DEF GatherInv
<1>12. \A i \in 1 .. Len(db') : \E e \in 1 .. Sent : db'[i] = <<batch, e>>
  <2> SUFFICES ASSUME NEW i \in 1 .. Len(db')
               PROVE  \E e \in 1 .. Sent : db'[i] = <<batch, e>>
    OBVIOUS
  <2>1. CASE i \in 1 .. Len(db)
    BY <1>6, <1>9, <2>1 DEF GatherInv
  <2>2. CASE i = Len(db) + 1
    BY <1>9, <2>2 DEF GatherInv
  <2> QED BY <1>3, <1>9, <2>1, <2>2
<1>13. /\ outstanding' = Len(port') + Cardinality(memory')
       /\ issued' = completed' + outstanding' /\ issued' <= num_elems'
       /\ issued' + Len(ob') <= ObCap /\ Len(db') = completed'
  <2>1. /\ outstanding = Len(port) + Cardinality(memory) /\ issued = completed + outstanding
        /\ issued + Len(ob) <= ObCap /\ issued <= num_elems
    BY DEF GatherInv, CountInv
  <2>2. Len(port') = Len(port) /\ Len(ob') = Len(ob)
    BY <1>2, <1>8
  <2>3. /\ outstanding' = outstanding - 1 /\ completed' = completed + 1
        /\ num_elems' = num_elems /\ issued' = issued
    BY <1>8
  <2>4. outstanding' = Len(port') + Cardinality(memory')
    BY <1>3, <1>4, <2>1, <2>2, <2>3
  <2>5. issued' = completed' + outstanding' /\ issued' <= num_elems'
    BY <1>3, <2>1, <2>3
  <2>6. issued' + Len(ob') <= ObCap
    BY <2>1, <2>2, <2>3
  <2>7. Len(db') = completed'
    BY <1>7, <1>9, <2>3
  <2> QED BY <2>4, <2>5, <2>6, <2>7
<1>14. /\ \A i \in 1 .. Len(ob') : ob'[i] = <<batch', issued' + i>>
       /\ \A i \in 1 .. Len(port') : port'[i] = <<batch', Sent' + i>>
       /\ \A r \in memory' : \E e \in 1 .. Sent' : r = <<batch', e>>
       /\ \A user, other \in waiting' : user = other
  BY <1>1, <1>2, <1>8, <1>10 DEF GatherInv
<1> QED BY <1>2, <1>4, <1>6, <1>10, <1>11, <1>12, <1>13, <1>14 DEF GatherInv, CountInv

(* Every step other than giving up a batch keeps the order of the reads.   *)
LEMMA GatherStep ==
  ASSUME ObCap <= DbCap
  PROVE  GatherTypeOK /\ (intact => GatherInv) /\ [GatherNext]_gatherVars => (intact => GatherInv)'
<1> SUFFICES ASSUME GatherTypeOK, intact => GatherInv, [GatherNext]_gatherVars, intact'
             PROVE  GatherInv'
  OBVIOUS
<1>1. ASSUME NEW user \in {"core", "vertex"}, NEW elems \in Nat, NEW offsets \in Nat,
             StartBatch(user, elems, offsets)
      PROVE  GatherInv'
  <2>1. waiting = {} /\ GatherInv
    BY <1>1 DEF StartBatch
  <2> QED BY <1>1, <2>1, GatherStart
<1>2. CASE TickIssue
  BY <1>2, GatherIssue DEF TickIssue
<1>3. CASE Send
  BY <1>3, GatherSend DEF Send
<1>4. CASE ReadComplete
  BY <1>4, GatherComplete DEF ReadComplete
<1>5. ASSUME NEW user \in {"core", "vertex"}, NEW n \in 0 .. Len(db), Drain(user, n)
      PROVE  GatherInv'
  <2>1. /\ waiting' = waiting \ {user} /\ user \in waiting /\ done /\ GatherInv
        /\ UNCHANGED <<ob, port, num_elems, issued, completed, outstanding, memory, batch>>
    BY <1>5 DEF Drain
  <2>2. waiting' = {}
    BY <2>1 DEF GatherInv
  <2> QED BY <2>1, <2>2 DEF GatherInv, CountInv, done, Sent
<1>6. ASSUME NEW user \in {"core", "vertex"}, Abandon(user)
      PROVE  GatherInv'
  <2>1. user \notin waiting /\ waiting' = waiting \ {user} /\ GatherInv
    BY <1>6 DEF Abandon
  <2>2. UNCHANGED <<ob, db, port, num_elems, issued, completed, outstanding, memory, batch>>
    BY <1>6, Zenon DEF Abandon, piccoloVars
  <2>3. waiting' = waiting
    BY <2>1
  <2> QED BY <2>1, <2>2, <2>3 DEF GatherInv, CountInv, done, Sent
<1>7. CASE UNCHANGED gatherVars
  <2>1. UNCHANGED <<ob, db, port, num_elems, issued, completed, outstanding, memory, batch, waiting,
                    intact>>
    BY <1>7, Zenon DEF gatherVars, piccoloVars
  <2> QED BY <2>1 DEF GatherInv, CountInv, done, Sent
<1> QED BY <1>1, <1>2, <1>3, <1>4, <1>5, <1>6, <1>7 DEF GatherNext

(* The invariant, in every state before a batch is given up.               *)
LEMMA GatherHolds ==
  ASSUME ObCap <= DbCap
  PROVE  GatherSpec => [](GatherTypeOK /\ (intact => GatherInv))
<1>1. GatherInit => GatherTypeOK /\ (intact => GatherInv)
  BY TypeInit, GatherFirst
<1>2. GatherTypeOK /\ (intact => GatherInv) /\ [GatherNext]_gatherVars
        => GatherTypeOK' /\ (intact => GatherInv)'
  BY TypeStep, GatherStep
<1> QED BY <1>1, <1>2, PTL DEF GatherSpec

(* What the invariant says of the counters.                                *)
LEMMA CountersFollow == GatherTypeOK /\ (intact => GatherInv) => CountersExact
BY PiccoloAssumption DEF GatherTypeOK, GatherInv, CountInv, CountersExact, InFlight

(* As long as no batch has been given up, the counters are exact, provided *)
(* the data buffer is at least as large as the offset buffer.              *)
THEOREM CountersAgree ==
  ASSUME ObCap <= DbCap
  PROVE  GatherSpec => []CountersExact
BY CountersFollow, GatherHolds, PTL

(* done() then means that every element has been gathered, and no other.   *)
LEMMA DoneGathered ==
  ASSUME GatherTypeOK, GatherInv, waiting # {}, done
  PROVE  Gathered
<1>1. completed = num_elems /\ Len(port) = 0 /\ memory = {} /\ issued = num_elems
  BY DoneIsDrained
<1>2. num_elems \in Nat /\ Sent = num_elems
  BY <1>1 DEF GatherTypeOK, Sent
<1> QED BY <1>1, <1>2 DEF GatherInv, Gathered

(* ... and of done().                                                      *)
LEMMA GatheredFollows == GatherTypeOK /\ (intact => GatherInv) => GatheredAll
BY DoneGathered DEF GatheredAll

(* A user goes on with all of its batch and nothing else, whatever the     *)
(* order in which reads complete.                                          *)
THEOREM DoneIsGathered ==
  ASSUME ObCap <= DbCap
  PROVE  GatherSpec => []GatheredAll
BY GatheredFollows, GatherHolds, PTL

-----------------------------------------------------------------------------
(* Why a batch that somebody waits for gets done, given up or replaced     *)
(* batches before it or not: the controller is never stuck, and every step *)
(* of a read uses up some of the work left.  Reads of an earlier batch are *)
(* told apart from those of this one; completions are not, so a late one   *)
(* is counted for this batch.                                              *)

Known(read) == read[1] < batch \/ read[2] <= issued

WayInv ==
  /\ IsFiniteSet(memory)
  /\ issued = completed + outstanding /\ outstanding <= InFlight
  /\ Len(db) <= completed /\ issued + Len(ob) <= ObCap
  /\ \A i \in 1 .. Len(ob) : ob[i] = <<batch, issued + i>>
  /\ \A i \in 1 .. Len(port) : Known(port[i]) /\ port[i] \notin memory
  /\ \A i, j \in 1 .. Len(port) : port[i] = port[j] => i = j
  /\ \A read \in memory : Known(read)

(* Numbers, and what the state of another step of a read says of them.     *)
LEMMA WayNumbers ==
  ASSUME GatherTypeOK, WayInv
  PROVE  /\ issued \in Nat /\ completed \in Nat /\ outstanding \in Nat /\ num_elems \in Nat
         /\ Len(ob) \in Nat /\ Len(port) \in Nat /\ Len(db) \in Nat
         /\ IsFiniteSet(memory) /\ Cardinality(memory) \in Nat /\ InFlight \in Nat
         /\ issued = completed + outstanding /\ outstanding <= InFlight
         /\ Len(db) <= completed /\ issued + Len(ob) <= ObCap
<1>1. IsFiniteSet(memory) /\ Cardinality(memory) \in Nat
  BY FS_CardinalityType DEF WayInv
<1>2. /\ issued = completed + outstanding /\ outstanding <= InFlight
      /\ Len(db) <= completed /\ issued + Len(ob) <= ObCap
  BY DEF WayInv
<1> QED BY <1>1, <1>2, PiccoloAssumption DEF GatherTypeOK, InFlight

(* Before the first batch nothing is on its way.                           *)
LEMMA WayInit == GatherInit => WayInv
<1> SUFFICES ASSUME GatherInit
             PROVE  WayInv
  OBVIOUS
<1>1. IsFiniteSet(memory) /\ Cardinality(memory) = 0
  BY FS_EmptySet DEF GatherInit
<1>2. Len(ob) = 0 /\ Len(db) = 0 /\ Len(port) = 0
  BY DEF GatherInit, PiccoloInit
<1>3. memory = {} /\ issued = 0 /\ completed = 0 /\ outstanding = 0
  BY DEF GatherInit, PiccoloInit
<1> QED BY <1>1, <1>2, <1>3, PiccoloAssumption DEF WayInv, InFlight

(* A new batch: whatever is still on its way belongs to an earlier one.    *)
LEMMA WayStart ==
  ASSUME GatherTypeOK, WayInv,
         NEW user, NEW elems \in Nat, NEW offsets \in Nat, StartBatch(user, elems, offsets)
  PROVE  WayInv'
<1>1. reset_for_new_batch(batch', elems, offsets) /\ batch' = batch + 1 /\ batch' \in Nat \ {0}
  BY DEF StartBatch, GatherTypeOK
<1>2. /\ port' = port /\ memory' = memory /\ issued' = 0 /\ completed' = 0 /\ outstanding' = 0
      /\ db' = <<>> /\ ob' = [i \in 1 .. Kept(offsets) |-> <<batch', i>>]
  BY <1>1 DEF StartBatch, reset_for_new_batch
<1>3. /\ Len(ob') = Kept(offsets) /\ Kept(offsets) \in Nat /\ Kept(offsets) <= ObCap
      /\ \A i \in 1 .. Len(ob') : ob'[i] = <<batch', i>>
  BY <1>1, <1>2, OffsetsType
<1>4. \A i \in 1 .. Len(ob') : ob'[i] = <<batch', issued' + i>>
  <2>1. \A i \in 1 .. Len(ob') : i = issued' + i
    BY <1>2
  <2> QED BY <1>3, <2>1
<1>5. \A read \in Element : read[1] < batch'
  BY <1>1 DEF Element, GatherTypeOK
<1>6. \A i \in 1 .. Len(port') : Known(port[i])'
  <2>1. \A i \in 1 .. Len(port) : port[i] \in Element
    BY DEF GatherTypeOK
  <2> QED BY <1>2, <1>5, <2>1 DEF Known
<1>7. \A read \in memory' : Known(read)'
  BY <1>2, <1>5 DEF Known, GatherTypeOK
<1>8. /\ issued' = completed' + outstanding' /\ outstanding' <= InFlight'
      /\ Len(db') <= completed' /\ issued' + Len(ob') <= ObCap
  <2>1. InFlight' = InFlight /\ InFlight \in Nat /\ Len(db') = 0
    BY <1>2, WayNumbers DEF InFlight
  <2> QED BY <1>2, <1>3, <2>1
<1> QED BY <1>2, <1>4, <1>6, <1>7, <1>8 DEF WayInv

(* The next offset has a number that no read on its way has.               *)
LEMMA WayIssue ==
  ASSUME GatherTypeOK, WayInv, TickIssue
  PROVE  WayInv'
<1>0. PICK read : read = Head(ob)
  OBVIOUS
<1>1. /\ ob # <<>> /\ port' = Append(port, read) /\ ob' = Tail(ob)
      /\ issued' = issued + 1 /\ outstanding' = outstanding + 1
      /\ UNCHANGED <<db, completed, memory, batch>>
  BY <1>0 DEF TickIssue, tick_issue, CanIssue
<1>2. /\ Len(ob) \in Nat \ {0} /\ Len(ob') = Len(ob) - 1 /\ read = ob[1] /\ read \in Element
      /\ \A i \in 1 .. Len(ob') : ob'[i] = ob[i + 1]
  <2>1. ob \in Seq(Element)
    BY DEF GatherTypeOK
  <2>2. Len(ob) \in Nat \ {0}
    BY <1>1, <2>1, EmptySeq
  <2> QED BY <1>0, <1>1, <2>1, <2>2, HeadTailProperties
<1>3. read = <<batch, issued + 1>> /\ batch \in Nat /\ issued \in Nat
  <2>1. 1 \in 1 .. Len(ob)
    BY <1>2
  <2> QED BY <1>2, <2>1 DEF WayInv, GatherTypeOK
<1>4. ~ Known(read) /\ Known(read)'
  BY <1>1, <1>3 DEF Known
<1>5. \A r \in Element : Known(r) => Known(r)'
  BY <1>1, <1>3 DEF Known, Element
<1>6. /\ port \in Seq(Element) /\ Len(port') = Len(port) + 1 /\ port'[Len(port) + 1] = read
      /\ \A i \in 1 .. Len(port) : port'[i] = port[i] /\ port[i] \in Element
  <2>1. port \in Seq(Element)
    BY DEF GatherTypeOK
  <2> QED BY <1>1, <1>2, <2>1, AppendProperties
<1>7. \A i \in 1 .. Len(ob') : ob'[i] = <<batch', issued' + i>>
  <2> SUFFICES ASSUME NEW i \in 1 .. Len(ob')
               PROVE  ob'[i] = <<batch', issued' + i>>
    OBVIOUS
  <2>1. i + 1 \in 1 .. Len(ob) /\ issued + (i + 1) = issued' + i
    BY <1>1, <1>2, <1>3
  <2> QED BY <1>1, <1>2, <2>1 DEF WayInv
<1>8. \A i \in 1 .. Len(port') : Known(port[i])' /\ port'[i] \notin memory'
  <2> SUFFICES ASSUME NEW i \in 1 .. Len(port')
               PROVE  Known(port[i])' /\ port'[i] \notin memory'
    OBVIOUS
  <2>1. CASE i \in 1 .. Len(port)
    BY <1>1, <1>5, <1>6, <2>1 DEF WayInv, Known
  <2>2. CASE i = Len(port) + 1
    BY <1>1, <1>4, <1>6, <2>2 DEF WayInv, Known
  <2>3. Len(port) \in Nat
    BY <1>6
  <2> QED BY <1>6, <2>1, <2>2, <2>3
<1>9. \A i, j \in 1 .. Len(port') : port'[i] = port'[j] => i = j
  <2>1. \A i \in 1 .. Len(port) : port[i] # read
    BY <1>4 DEF WayInv
  <2>2. Len(port) \in Nat
    BY <1>6
  <2>3. \A i \in 1 .. Len(port') : i \in 1 .. Len(port) \/ i = Len(port) + 1
    BY <1>6, <2>2
  <2> QED BY <1>6, <2>1, <2>3 DEF WayInv
<1>10. \A r \in memory' : Known(r)'
  BY <1>1, <1>5 DEF WayInv, GatherTypeOK
<1>11. /\ issued' = completed' + outstanding' /\ outstanding' <= InFlight'
       /\ Len(db') <= completed' /\ issued' + Len(ob') <= ObCap /\ IsFiniteSet(memory')
  <2>1. InFlight' = InFlight + 1
    BY <1>1, <1>6, WayNumbers DEF InFlight
  <2>2. IsFiniteSet(memory')
    BY <1>1, WayNumbers
  <2>3. /\ issued \in Nat /\ completed \in Nat /\ outstanding \in Nat /\ InFlight \in Nat
        /\ issued = completed + outstanding /\ outstanding <= InFlight
        /\ Len(db) <= completed /\ issued + Len(ob) <= ObCap /\ Len(db) \in Nat
    BY WayNumbers
  <2>4. Len(db') <= completed'
    BY <1>1, <2>3
  <2>5. issued' = completed' + outstanding' /\ outstanding' <= InFlight'
    BY <1>1, <2>1, <2>3
  <2>6. issued' + Len(ob') <= ObCap
    BY <1>1, <1>2, <2>3, PiccoloAssumption
  <2> QED BY <2>2, <2>4, <2>5, <2>6
<1> QED BY <1>7, <1>8, <1>9, <1>10, <1>11 DEF WayInv

(* No read is sent twice, so the memory system gains what the port loses.  *)
LEMMA WaySend ==
  ASSUME GatherTypeOK, WayInv, Send
  PROVE  WayInv' /\ InFlight' = InFlight
<1>0. PICK read : read = Head(port)
  OBVIOUS
<1>1. /\ port # <<>> /\ memory' = memory \union {read} /\ port' = Tail(port)
      /\ UNCHANGED <<ob, db, issued, completed, outstanding, batch>>
  BY <1>0 DEF Send
<1>2. /\ Len(port) \in Nat \ {0} /\ Len(port') = Len(port) - 1 /\ read = port[1]
      /\ \A i \in 1 .. Len(port') : port'[i] = port[i + 1]
  <2>1. port \in Seq(Element)
    BY DEF GatherTypeOK
  <2>2. Len(port) \in Nat \ {0}
    BY <1>1, <2>1, EmptySeq
  <2> QED BY <1>0, <1>1, <2>1, <2>2, HeadTailProperties
<1>3. 1 \in 1 .. Len(port) /\ \A i \in 1 .. Len(port') : i + 1 \in 1 .. Len(port) /\ i + 1 # 1
  BY <1>2
<1>4. read \notin memory /\ Known(read)
  BY <1>2, <1>3 DEF WayInv
<1>5. IsFiniteSet(memory') /\ Cardinality(memory') = Cardinality(memory) + 1
  BY <1>1, <1>4, FS_AddElement DEF WayInv
<1>6. InFlight' = InFlight
  BY <1>2, <1>5, WayNumbers DEF InFlight
<1>7. \A r : Known(r)' <=> Known(r)
  BY <1>1 DEF Known
<1>8. \A i \in 1 .. Len(port') : Known(port[i])' /\ port'[i] \notin memory'
  <2> SUFFICES ASSUME NEW i \in 1 .. Len(port')
               PROVE  Known(port[i])' /\ port'[i] \notin memory'
    OBVIOUS
  <2>1. i + 1 \in 1 .. Len(port) /\ port'[i] = port[i + 1] /\ port[i + 1] # read
    BY <1>2, <1>3 DEF WayInv
  <2>2. Known(port[i + 1]) /\ port[i + 1] \notin memory
    BY <2>1 DEF WayInv
  <2> QED BY <1>1, <2>1, <2>2 DEF Known
<1>9. \A i, j \in 1 .. Len(port') : port'[i] = port'[j] => i = j
  BY <1>2, <1>3 DEF WayInv
<1>10. \A r \in memory' : Known(r)'
  BY <1>1, <1>4, <1>7 DEF WayInv
<1>11. /\ issued' = completed' + outstanding' /\ outstanding' <= InFlight'
       /\ Len(db') <= completed' /\ issued' + Len(ob') <= ObCap
       /\ \A i \in 1 .. Len(ob') : ob'[i] = <<batch', issued' + i>>
  BY <1>1, <1>6 DEF WayInv
<1> QED BY <1>5, <1>6, <1>8, <1>9, <1>10, <1>11 DEF WayInv

(* A completion is counted for the batch of the moment, if any is missing. *)
LEMMA WayComplete ==
  ASSUME GatherTypeOK, WayInv, ReadComplete
  PROVE  WayInv' /\ InFlight' = InFlight - 1
<1>1. PICK read \in memory : memory' = memory \ {read} /\ on_read_complete(read)
  BY DEF ReadComplete
<1>2. UNCHANGED <<port, batch, ob, issued>>
  BY <1>1 DEF ReadComplete, on_read_complete
<1>3. /\ IsFiniteSet(memory') /\ Cardinality(memory') = Cardinality(memory) - 1
      /\ Cardinality(memory) \in Nat \ {0}
  <2>1. IsFiniteSet(memory) /\ Cardinality(memory) \in Nat
    BY WayNumbers
  <2>2. IsFiniteSet(memory') /\ Cardinality(memory') = Cardinality(memory) - 1
    BY <1>1, <2>1, FS_RemoveElement
  <2>3. Cardinality(memory) # 0
    BY <1>1, <2>1, FS_EmptySet
  <2> QED BY <2>1, <2>2, <2>3
<1>4. InFlight' = InFlight - 1
  BY <1>2, <1>3, WayNumbers DEF InFlight
<1>5. /\ issued' = completed' + outstanding' /\ outstanding' <= InFlight'
      /\ Len(db') <= completed'
  <2>1. CASE outstanding = 0
    <3>1. UNCHANGED <<db, completed, outstanding>>
      BY <1>1, <2>1 DEF on_read_complete
    <3>2. InFlight' \in Nat
      BY <1>2, <1>3, WayNumbers DEF InFlight
    <3> QED BY <1>2, <2>1, <3>1, <3>2, WayNumbers
  <2>2. CASE outstanding # 0
    <3>1. /\ outstanding' = outstanding - 1 /\ completed' = completed + 1
          /\ db' = IF Len(db) < DbCap THEN Append(db, read) ELSE db
      BY <1>1, <2>2 DEF on_read_complete
    <3>2. Len(db') <= Len(db) + 1
      <4>1. db \in Seq(Element) /\ read \in Element
        BY <1>1 DEF GatherTypeOK
      <4>2. Len(Append(db, read)) = Len(db) + 1 /\ Len(db) \in Nat
        BY <4>1, AppendProperties
      <4> QED BY <3>1, <4>2
    <3>3. Len(db') \in Nat
      <4>1. db \in Seq(Element) /\ read \in Element
        BY <1>1 DEF GatherTypeOK
      <4>2. Len(Append(db, read)) = Len(db) + 1 /\ Len(db) \in Nat
        BY <4>1, AppendProperties
      <4> QED BY <3>1, <4>2
    <3>4. /\ issued \in Nat /\ completed \in Nat /\ outstanding \in Nat /\ InFlight \in Nat
          /\ issued = completed + outstanding /\ outstanding <= InFlight
          /\ Len(db) <= completed /\ Len(db) \in Nat
      BY WayNumbers
    <3>5. Len(db') <= completed'
      BY <3>1, <3>2, <3>3, <3>4
    <3>6. issued' = completed' + outstanding' /\ outstanding' <= InFlight'
      BY <1>2, <1>4, <3>1, <3>4
    <3> QED BY <3>5, <3>6
  <2> QED BY <2>1, <2>2
<1>6. \A r : Known(r)' <=> Known(r)
  BY <1>2 DEF Known
<1>7. /\ \A i \in 1 .. Len(port') : Known(port[i])' /\ port'[i] \notin memory'
      /\ \A r \in memory' : Known(r)'
  BY <1>1, <1>2, <1>6 DEF WayInv, Known
<1>8. issued' + Len(ob') <= ObCap /\ \A i \in 1 .. Len(ob') : ob'[i] = <<batch', issued' + i>>
  BY <1>2 DEF WayInv
<1>9. \A i, j \in 1 .. Len(port') : port'[i] = port'[j] => i = j
  BY <1>2 DEF WayInv
<1> QED BY <1>3, <1>4, <1>5, <1>7, <1>8, <1>9 DEF WayInv

LEMMA WayStep == GatherTypeOK /\ WayInv /\ [GatherNext]_gatherVars => WayInv'
<1> SUFFICES ASSUME GatherTypeOK, WayInv, [GatherNext]_gatherVars
             PROVE  WayInv'
  OBVIOUS
<1>1. ASSUME NEW user \in {"core", "vertex"}, NEW elems \in Nat, NEW offsets \in Nat,
             StartBatch(user, elems, offsets)
      PROVE  WayInv'
  BY <1>1, WayStart
<1>2. CASE TickIssue
  BY <1>2, WayIssue
<1>3. CASE Send
  BY <1>3, WaySend
<1>4. CASE ReadComplete
  BY <1>4, WayComplete
<1>5. ASSUME NEW user \in {"core", "vertex"}, NEW n \in 0 .. Len(db), Drain(user, n)
      PROVE  WayInv'
  <2>1. /\ UNCHANGED <<ob, port, issued, completed, outstanding, memory, batch>>
        /\ db' = SubSeq(db, n + 1, Len(db))
    BY <1>5 DEF Drain
  <2>2. Len(db') <= completed'
    <3>1. db \in Seq(Element) /\ Len(db) \in Nat
      BY DEF GatherTypeOK
    <3>2. Len(db') \in Nat /\ Len(db') <= Len(db)
      BY <2>1, <3>1
    <3> QED BY <2>1, <3>1, <3>2, WayNumbers
  <2> QED BY <2>1, <2>2 DEF WayInv, InFlight, Known
<1>6. ASSUME NEW user \in {"core", "vertex"}, Abandon(user)
      PROVE  WayInv'
  <2>1. UNCHANGED <<ob, db, port, issued, completed, outstanding, memory, batch>>
    BY <1>6, Zenon DEF Abandon, piccoloVars
  <2> QED BY <2>1 DEF WayInv, InFlight, Known
<1>7. CASE UNCHANGED gatherVars
  <2>1. UNCHANGED <<ob, db, port, issued, completed, outstanding, memory, batch>>
    BY <1>7, Zenon DEF gatherVars, piccoloVars
  <2> QED BY <2>1 DEF WayInv, InFlight, Known
<1> QED BY <1>1, <1>2, <1>3, <1>4, <1>5, <1>6, <1>7 DEF GatherNext

(* While somebody waits, there is always a step left to take: a read to    *)
(* issue, to send or to complete.                                          *)
NeverStuck == waiting # {} => done \/ Starved \/ CanIssue \/ port # <<>> \/ memory # {}

(* What the invariant says of a controller with nothing on its way.        *)
LEMMA NotStuck ==
  ASSUME ObCap <= DbCap
  PROVE  GatherTypeOK /\ WayInv => NeverStuck
<1> SUFFICES ASSUME GatherTypeOK, WayInv, ~ done, ~ Starved, port = <<>>, memory = {}
             PROVE  CanIssue
  BY DEF NeverStuck
<1>1. InFlight = 0
  <2>1. Cardinality(memory) = 0 /\ Len(port) = 0
    BY FS_EmptySet
  <2> QED BY <2>1 DEF InFlight
<1>2. outstanding = 0 /\ issued = completed
  BY <1>1, WayNumbers
<1>3. issued < num_elems /\ Len(ob) > 0
  BY <1>2, WayNumbers DEF done, Starved
<1>4. Len(db) < DbCap
  BY <1>2, <1>3, WayNumbers, PiccoloAssumption
<1>5. ob # <<>>
  BY <1>3
<1> QED BY <1>2, <1>3, <1>4, <1>5, PiccoloAssumption DEF CanIssue

(* The controller is never stuck half-way, even after batches have been    *)
(* given up or replaced and their reads are answered late: a completion    *)
(* that is missing for the batch is never one that has been lost.  It      *)
(* needs a data buffer at least as large as the offset buffer, or values   *)
(* nobody has taken yet would keep the next read from being issued.        *)
THEOREM GatherNeverStuck ==
  ASSUME ObCap <= DbCap
  PROVE  GatherSpec => []NeverStuck
<1>1. GatherInit => GatherTypeOK /\ WayInv
  BY TypeInit, WayInit
<1>2. GatherTypeOK /\ WayInv /\ [GatherNext]_gatherVars => GatherTypeOK' /\ WayInv'
  BY TypeStep, WayStep
<1> QED BY <1>1, <1>2, NotStuck, PTL DEF GatherSpec

(* What a batch still costs: three steps for an offset, two for a read in  *)
(* the port and one for a read in the memory system.                       *)
Work == 3 * Len(ob) + 2 * Len(port) + Cardinality(memory)

(* Every step of a read lowers it, and only a new batch raises it.         *)
WorkGoesDown ==
  /\ Work \in Nat
  /\ TickIssue \/ Send \/ ReadComplete => Work' = Work - 1
  /\ batch' = batch => Work' <= Work

(* The steps one by one.                                                   *)
LEMMA WorkStep == GatherTypeOK /\ WayInv /\ [GatherNext]_gatherVars => WorkGoesDown
<1> SUFFICES ASSUME GatherTypeOK, WayInv, [GatherNext]_gatherVars
             PROVE  WorkGoesDown
  OBVIOUS
<1>1. Work \in Nat
  BY WayNumbers DEF Work
<1>2. ASSUME TickIssue
      PROVE  Work' = Work - 1
  <2>1. /\ ob # <<>> /\ port' = Append(port, Head(ob)) /\ ob' = Tail(ob) /\ memory' = memory
    BY <1>2 DEF TickIssue, tick_issue, CanIssue
  <2>2. ob \in Seq(Element) /\ port \in Seq(Element)
    BY DEF GatherTypeOK
  <2>3. Len(ob') = Len(ob) - 1 /\ Len(port') = Len(port) + 1
    BY <2>1, <2>2, HeadTailProperties, AppendProperties
  <2> QED BY <2>1, <2>3, WayNumbers DEF Work
<1>3. ASSUME Send
      PROVE  Work' = Work - 1
  <2>1. ob' = ob /\ port # <<>> /\ port' = Tail(port) /\ port \in Seq(Element)
    BY <1>3 DEF Send, GatherTypeOK
  <2>2. Len(port') = Len(port) - 1
    BY <2>1, HeadTailProperties
  <2>3. Len(port') + Cardinality(memory') = Len(port) + Cardinality(memory)
    BY <1>3, WaySend DEF InFlight
  <2>4. Cardinality(memory') = Cardinality(memory) + 1
    <3>1. Cardinality(memory') \in Nat
      BY <1>3, WaySend, FS_CardinalityType DEF WayInv
    <3>2. Cardinality(memory) \in Nat /\ Len(port) \in Nat /\ Len(port') \in Nat
      BY <2>1, <2>2, HeadTailProperties, WayNumbers
    <3> QED BY <2>2, <2>3, <3>1, <3>2
  <2> QED BY <2>1, <2>2, <2>4, WayNumbers DEF Work
<1>4. ASSUME ReadComplete
      PROVE  Work' = Work - 1
  <2>1. ob' = ob /\ port' = port
    BY <1>4 DEF ReadComplete, on_read_complete
  <2>2. Len(port) + Cardinality(memory') = (Len(port) + Cardinality(memory)) - 1
    <3>1. InFlight' = InFlight - 1
      BY <1>4, WayComplete
    <3> QED BY <2>1, <3>1 DEF InFlight
  <2>3. Cardinality(memory') \in Nat
    BY <1>4, WayComplete, FS_CardinalityType DEF WayInv
  <2>4. Cardinality(memory) \in Nat /\ Len(port) \in Nat /\ Len(ob) \in Nat
    BY WayNumbers
  <2>5. Cardinality(memory') = Cardinality(memory) - 1
    BY <2>2, <2>3, <2>4
  <2> QED BY <2>1, <2>4, <2>5 DEF Work
<1>5. ASSUME batch' = batch
      PROVE  Work' <= Work
  <2>1. ASSUME NEW user \in {"core", "vertex"}, NEW elems \in Nat, NEW offsets \in Nat,
               StartBatch(user, elems, offsets)
        PROVE  FALSE
    BY <1>5, <2>1 DEF StartBatch, GatherTypeOK
  <2>2. CASE TickIssue \/ Send \/ ReadComplete
    BY <1>1, <1>2, <1>3, <1>4, <2>2
  <2>3. ASSUME UNCHANGED <<ob, port, memory>>
        PROVE  Work' <= Work
    BY <1>1, <2>3 DEF Work
  <2>4. ASSUME NEW user \in {"core", "vertex"}, NEW n \in 0 .. Len(db), Drain(user, n)
        PROVE  UNCHANGED <<ob, port, memory>>
    BY <2>4 DEF Drain
  <2>5. ASSUME NEW user \in {"core", "vertex"}, Abandon(user)
        PROVE  UNCHANGED <<ob, port, memory>>
    BY <2>5, Zenon DEF Abandon, piccoloVars
  <2>6. ASSUME UNCHANGED gatherVars
        PROVE  UNCHANGED <<ob, port, memory>>
    BY <2>6, Zenon DEF gatherVars, piccoloVars
  <2> QED BY <2>1, <2>2, <2>3, <2>4, <2>5, <2>6 DEF GatherNext
<1> QED BY <1>1, <1>2, <1>3, <1>4, <1>5 DEF WorkGoesDown

(* Between two batches the controller can take only so many steps: with    *)
(* GatherNeverStuck, all that a batch needs to get done is that each unit  *)
(* goes on.                                                                *)
THEOREM WorkRunsOut == GatherSpec => [][WorkGoesDown]_gatherVars
<1>1. GatherInit => GatherTypeOK /\ WayInv
  BY TypeInit, WayInit
<1>2. GatherTypeOK /\ WayInv /\ [GatherNext]_gatherVars => GatherTypeOK' /\ WayInv'
  BY TypeStep, WayStep
<1>3. GatherTypeOK /\ WayInv /\ [GatherNext]_gatherVars => [WorkGoesDown]_gatherVars
  BY WorkStep
<1> QED BY <1>1, <1>2, <1>3, PTL DEF GatherSpec
=============================================================================
