-------------------------- MODULE RouterTrafficProofs --------------------------
(***************************************************************************)
(* Proofs about the router, for any rates, request sizes, number of ports  *)
(* and pattern of requests and consumption.                                *)
(***************************************************************************)
EXTENDS RouterTraffic, TLAPS

-----------------------------------------------------------------------------
(* Types and rates.                                                        *)

(* Credit and bytes sent account for all that the ticks have brought.      *)
CreditInv ==
  /\ local_used + local_sent = LocalBytesPerTick * ticks
  /\ global_used + global_sent = GlobalBytesPerTick * ticks

(* A request that is enqueued is a burst.                                  *)
LEMMA RequestType ==
  ASSUME issued \in Nat, NEW p \in PC, NEW bytes \in RequestBytes,
         NEW region \in {0, kGlobalAddressBoundary}
  PROVE  [addr |-> region + issued, size_bytes |-> bytes,
          pc_id |-> p, on_complete |-> FALSE] \in MemoryBurst
BY RouterAssumption, TrafficAssumption DEF MemoryBurst

(* What a step of tick() that forwards from a queue does, in terms of the  *)
(* head of the queue.                                                      *)
LEMMA PaidHead ==
  ASSUME NEW queue \in Seq(MemoryBurst), NEW used \in Nat, CanPay(queue, used)
  PROVE  /\ queue # <<>>
         /\ Head(queue) \in MemoryBurst
         /\ Tail(queue) \in Seq(MemoryBurst)
         /\ Tail(queue) # queue
         /\ Head(queue).size_bytes \in Nat
         /\ Head(queue).pc_id \in PC
         /\ used >= Head(queue).size_bytes
<1>1. queue # <<>> /\ used >= Head(queue).size_bytes
  BY DEF CanPay
<1>2. /\ Head(queue) \in MemoryBurst
      /\ Tail(queue) \in Seq(MemoryBurst)
      /\ Len(Tail(queue)) = Len(queue) - 1 /\ Len(queue) \in Nat
  BY <1>1
<1>3. Tail(queue) # queue
  <2> SUFFICES ASSUME Tail(queue) = queue PROVE FALSE
    OBVIOUS
  <2> QED BY <1>2
<1>4. Head(queue).size_bytes \in Nat /\ Head(queue).pc_id \in PC
  BY <1>2 DEF MemoryBurst
<1> QED BY <1>1, <1>2, <1>3, <1>4

(* The initial state is well typed and no credit has been earned.          *)
LEMMA TypeInit == Init => TypeOK /\ CreditInv
<1>1. 0 \in PC
  BY PseudoChannelAssumption DEF PC
<1> QED BY <1>1, RouterAssumption
        DEF Init, MuxInit, RouterInit, TypeOK, MuxTypeOK, RouterTypeOK, CreditInv

(* Every step keeps types and account.                                     *)
LEMMA TypeStep == TypeOK /\ CreditInv /\ [Next]_vars => TypeOK' /\ CreditInv'
<1> SUFFICES ASSUME TypeOK, CreditInv, [Next]_vars
             PROVE  TypeOK' /\ CreditInv'
  OBVIOUS
<1>1. CASE Request
  <2>1. PICK p \in PC, bytes \in RequestBytes, region \in {0, kGlobalAddressBoundary} :
          Request!(p, bytes, region)
    BY <1>1 DEF Request
  <2> DEFINE b == [addr |-> region + issued, size_bytes |-> bytes,
                   pc_id |-> p, on_complete |-> FALSE]
  <2>2. b \in MemoryBurst
    BY RequestType DEF TypeOK
  <2>3. enqueue_request(b)
    BY <2>1
  <2> HIDE DEF b
  <2>4. RouterTypeOK'
    BY <2>2, <2>3 DEF TypeOK, RouterTypeOK, enqueue_request
  <2>5. UNCHANGED <<muxVars, at, ticks, local_sent, global_sent, local_used, global_used>>
    BY <2>1, <2>3 DEF enqueue_request
  <2> QED BY <2>1, <2>4, <2>5 DEF TypeOK, MuxTypeOK, muxVars, CreditInv
<1>2. CASE StartTick
  <2>1. /\ local_used' = local_used + LocalBytesPerTick
        /\ global_used' = global_used + GlobalBytesPerTick
        /\ ticks' = ticks + 1
        /\ UNCHANGED <<muxVars, local_queue, global_queue, issued, local_sent, global_sent>>
        /\ at' = "router_local"
    BY <1>2 DEF StartTick, AddCredit
  <2>2. TypeOK'
    BY <2>1, RouterAssumption DEF TypeOK, MuxTypeOK, RouterTypeOK, muxVars
  <2>3. \A rate \in Nat : rate * (ticks + 1) = rate * ticks + rate
    BY DEF TypeOK
  <2> QED BY <2>1, <2>2, <2>3, RouterAssumption DEF TypeOK, RouterTypeOK, CreditInv
<1>3. CASE Tick /\ ForwardLocal
  <2>1. CanPay(local_queue, local_used)
    BY <1>3 DEF ForwardLocal
  <2> DEFINE b == Head(local_queue)
  <2>2. /\ b \in MemoryBurst /\ b.size_bytes \in Nat /\ b.pc_id \in PC
        /\ Tail(local_queue) \in Seq(MemoryBurst) /\ Tail(local_queue) # local_queue
        /\ local_used >= b.size_bytes
    BY <2>1, PaidHead DEF TypeOK, RouterTypeOK
  <2>3. /\ local_used' = local_used - b.size_bytes
        /\ local_queue' = Tail(local_queue)
        /\ ports' = [ports EXCEPT ![b.pc_id] = Append(@, b)]
        /\ UNCHANGED <<at, rr_cursor, global_queue, global_used, issued, ticks>>
        /\ local_sent' = local_sent + IF local_queue' = local_queue THEN 0 ELSE b.size_bytes
        /\ global_sent' = global_sent + IF global_queue' = global_queue THEN 0
                                        ELSE Head(global_queue).size_bytes
    BY <1>3 DEF Tick, ForwardLocal, enqueue
  <2> HIDE DEF b
  <2>4. local_sent' = local_sent + b.size_bytes /\ global_sent' = global_sent
    BY <2>2, <2>3 DEF TypeOK
  <2>5. MuxTypeOK'
    BY <2>2, <2>3 DEF TypeOK, MuxTypeOK
  <2>6. /\ local_used' \in Nat /\ local_sent' \in Nat
        /\ local_used' + local_sent' = local_used + local_sent
    <3> DEFINE n == b.size_bytes
    <3>1. /\ n \in Nat /\ local_used \in Nat /\ local_sent \in Nat /\ local_used >= n
          /\ local_used' = local_used - n /\ local_sent' = local_sent + n
      BY <2>2, <2>3, <2>4 DEF TypeOK, RouterTypeOK
    <3> HIDE DEF n
    <3> QED BY <3>1
  <2> QED BY <2>2, <2>3, <2>4, <2>5, <2>6 DEF TypeOK, RouterTypeOK, CreditInv
<1>4. CASE Tick /\ ForwardGlobal
  <2>1. CanPay(global_queue, global_used)
    BY <1>4 DEF ForwardGlobal
  <2> DEFINE b == Head(global_queue)
  <2>2. /\ b \in MemoryBurst /\ b.size_bytes \in Nat /\ b.pc_id \in PC
        /\ Tail(global_queue) \in Seq(MemoryBurst) /\ Tail(global_queue) # global_queue
        /\ global_used >= b.size_bytes
    BY <2>1, PaidHead DEF TypeOK, RouterTypeOK
  <2>3. /\ global_used' = global_used - b.size_bytes
        /\ global_queue' = Tail(global_queue)
        /\ ports' = [ports EXCEPT ![b.pc_id] = Append(@, b)]
        /\ UNCHANGED <<at, rr_cursor, local_queue, local_used, issued, ticks>>
        /\ global_sent' = global_sent + IF global_queue' = global_queue THEN 0 ELSE b.size_bytes
        /\ local_sent' = local_sent + IF local_queue' = local_queue THEN 0
                                      ELSE Head(local_queue).size_bytes
    BY <1>4 DEF Tick, ForwardGlobal, enqueue
  <2> HIDE DEF b
  <2>4. global_sent' = global_sent + b.size_bytes /\ local_sent' = local_sent
    BY <2>2, <2>3 DEF TypeOK
  <2>5. MuxTypeOK'
    BY <2>2, <2>3 DEF TypeOK, MuxTypeOK
  <2>6. /\ global_used' \in Nat /\ global_sent' \in Nat
        /\ global_used' + global_sent' = global_used + global_sent
    <3> DEFINE n == b.size_bytes
    <3>1. /\ n \in Nat /\ global_used \in Nat /\ global_sent \in Nat /\ global_used >= n
          /\ global_used' = global_used - n /\ global_sent' = global_sent + n
      BY <2>2, <2>3, <2>4 DEF TypeOK, RouterTypeOK
    <3> HIDE DEF n
    <3> QED BY <3>1
  <2> QED BY <2>2, <2>3, <2>4, <2>5, <2>6 DEF TypeOK, RouterTypeOK, CreditInv
<1>5. CASE Tick /\ (LocalDone \/ GlobalDone("idle"))
  <2>1. /\ at' \in {"idle", "router_global"}
        /\ UNCHANGED <<muxVars, routerVars, issued, ticks>>
        /\ local_sent' = local_sent + IF local_queue' = local_queue THEN 0
                                      ELSE Head(local_queue).size_bytes
        /\ global_sent' = global_sent + IF global_queue' = global_queue THEN 0
                                        ELSE Head(global_queue).size_bytes
    BY <1>5 DEF Tick, LocalDone, GlobalDone
  <2>2. local_sent' = local_sent /\ global_sent' = global_sent
    BY <2>1 DEF TypeOK, routerVars
  <2> QED BY <2>1, <2>2
          DEF TypeOK, MuxTypeOK, RouterTypeOK, CreditInv, muxVars, routerVars
<1>6. CASE Consume
  <2>1. PICK p \in PC : Consume!(p)
    BY <1>6 DEF Consume
  <2>2. MuxTypeOK'
    <3>1. ports[p] \in Seq(MemoryBurst) /\ Tail(ports[p]) \in Seq(MemoryBurst)
      BY <2>1 DEF TypeOK, MuxTypeOK
    <3> QED BY <2>1, <3>1 DEF TypeOK, MuxTypeOK, pop
  <2> QED BY <2>1, <2>2 DEF TypeOK, RouterTypeOK, routerVars, CreditInv
<1>7. CASE UNCHANGED vars
  BY <1>7 DEF vars, TypeOK, MuxTypeOK, RouterTypeOK, CreditInv, muxVars, routerVars
<1> QED BY <1>1, <1>2, <1>3, <1>4, <1>5, <1>6, <1>7 DEF Next, Tick

(* Types and account hold in every state.                                  *)
LEMMA Types == Spec => [](TypeOK /\ CreditInv)
BY TypeInit, TypeStep, PTL DEF Spec

(* The queues hold requests and their credit never becomes negative.       *)
THEOREM RouterTypeCorrect == Spec => []TypeOK
BY Types, PTL

(* Over its whole life neither queue forwards more than its rate times the *)
(* ticks, for any rates and request sizes.                                 *)
THEOREM RatesHold == Spec => []RateBound
<1>1. TypeOK /\ CreditInv => RateBound
  <2> SUFFICES ASSUME TypeOK, CreditInv PROVE RateBound
    OBVIOUS
  <2> DEFINE l == LocalBytesPerTick * ticks
             g == GlobalBytesPerTick * ticks
  <2>1. local_used + local_sent = l /\ global_used + global_sent = g
    BY DEF CreditInv
  <2> HIDE DEF l, g
  <2>2. local_sent <= l /\ global_sent <= g
    BY <2>1 DEF TypeOK, RouterTypeOK
  <2> QED BY <2>2 DEF RateBound, l, g
<1> QED BY <1>1, Types, PTL

-----------------------------------------------------------------------------
(* Order.                                                                  *)

(* Addresses below that of request n of their class.                       *)
Fresh(s, n) == \A i \in DOMAIN s :
  s[i].addr < n + IF IsGlobal(s[i]) THEN kGlobalAddressBoundary ELSE 0

(* Whatever is under way was issued before the next request, and each      *)
(* queue holds one class only.                                             *)
OrderInv ==
  /\ issued <= MaxRequests
  /\ Fresh(local_queue, issued) /\ Fresh(global_queue, issued)
  /\ \A p \in PC : Fresh(ports[p], issued)
  /\ \A i \in DOMAIN local_queue : ~ IsGlobal(local_queue[i])
  /\ \A i \in DOMAIN global_queue : IsGlobal(global_queue[i])
  /\ ClassOrder

(* Appending a request that is younger than all of its class.              *)
LEMMA AppendYoungest ==
  ASSUME NEW s \in Seq(MemoryBurst), NEW b \in MemoryBurst, InOrder(s),
         \A i \in DOMAIN s : IsGlobal(s[i]) = IsGlobal(b) => s[i].addr < b.addr
  PROVE  InOrder(Append(s, b))
<1>1. /\ DOMAIN s = 1 .. Len(s) /\ Len(s) \in Nat
      /\ DOMAIN Append(s, b) = 1 .. Len(s) + 1
      /\ \A i \in 1 .. Len(s) : Append(s, b)[i] = s[i]
      /\ Append(s, b)[Len(s) + 1] = b
  OBVIOUS
<1> DEFINE t == Append(s, b)
<1>2. ASSUME NEW i \in DOMAIN t, NEW j \in DOMAIN t, i < j, IsGlobal(t[i]) = IsGlobal(t[j])
      PROVE  t[i].addr < t[j].addr
  <2> HIDE DEF t
  <2>1. i \in DOMAIN s /\ t[i] = s[i]
    BY <1>1, <1>2 DEF t
  <2>2. CASE j \in DOMAIN s
    <3>1. t[j] = s[j]
      BY <1>1, <2>2 DEF t
    <3> QED BY <1>2, <2>1, <2>2, <3>1 DEF InOrder
  <2>3. CASE j \notin DOMAIN s
    <3>1. t[j] = b
      BY <1>1, <2>3 DEF t
    <3> QED BY <1>2, <2>1, <3>1
  <2> QED BY <2>2, <2>3
<1> QED BY <1>2 DEF InOrder

(* What is left of a sequence without its head.                            *)
LEMMA TailInOrder ==
  ASSUME NEW s \in Seq(MemoryBurst), s # <<>>, InOrder(s)
  PROVE  /\ InOrder(Tail(s))
         /\ \A j \in DOMAIN Tail(s) : /\ j + 1 \in DOMAIN s /\ Tail(s)[j] = s[j + 1]
                                      /\ IsGlobal(s[1]) = IsGlobal(s[j + 1])
                                           => Head(s).addr < Tail(s)[j].addr
<1>1. /\ DOMAIN s = 1 .. Len(s) /\ Len(s) \in Nat \ {0}
      /\ DOMAIN Tail(s) = 1 .. Len(s) - 1
      /\ \A j \in 1 .. Len(s) - 1 : Tail(s)[j] = s[j + 1]
      /\ Head(s) = s[1]
  OBVIOUS
<1> HIDE DEF InOrder
<1>2. \A j \in DOMAIN Tail(s) : j + 1 \in DOMAIN s /\ Tail(s)[j] = s[j + 1] /\ 1 < j + 1
  BY <1>1
<1>3. \A i, j \in DOMAIN Tail(s) : i < j => i + 1 < j + 1
  BY <1>1
<1>4. InOrder(Tail(s))
  BY <1>2, <1>3 DEF InOrder
<1>5. 1 \in DOMAIN s
  BY <1>1
<1> QED BY <1>1, <1>2, <1>4, <1>5 DEF InOrder

(* Moving the head of a queue to a port keeps the order: within the port,  *)
(* within the queue, from the port to the queue and to the other queue.    *)
LEMMA MoveKeepsOrder ==
  ASSUME NEW s \in Seq(MemoryBurst), NEW q \in Seq(MemoryBurst), q # <<>>,
         InOrder(s), InOrder(q), Before(s, q),
         NEW other, Before(s, other),
         NEW global \in BOOLEAN,
         \A i \in DOMAIN q : IsGlobal(q[i]) = global,
         \A i \in DOMAIN other : IsGlobal(other[i]) # global
  PROVE  /\ InOrder(Append(s, Head(q))) /\ InOrder(Tail(q))
         /\ Before(Append(s, Head(q)), Tail(q)) /\ Before(Append(s, Head(q)), other)
         /\ Before(s, Tail(q))
<1>1. /\ Head(q) \in MemoryBurst /\ Head(q) = q[1] /\ 1 \in DOMAIN q
      /\ DOMAIN s = 1 .. Len(s) /\ Len(s) \in Nat
      /\ DOMAIN Append(s, Head(q)) = 1 .. Len(s) + 1
      /\ \A i \in 1 .. Len(s) : Append(s, Head(q))[i] = s[i]
      /\ Append(s, Head(q))[Len(s) + 1] = Head(q)
  OBVIOUS
<1>2. InOrder(Append(s, Head(q)))
  <2>1. \A i \in DOMAIN s : IsGlobal(s[i]) = IsGlobal(Head(q)) => s[i].addr < Head(q).addr
    BY <1>1 DEF Before
  <2> QED BY <1>1, <2>1, AppendYoungest
<1>3. /\ InOrder(Tail(q))
      /\ \A j \in DOMAIN Tail(q) : /\ j + 1 \in DOMAIN q /\ Tail(q)[j] = q[j + 1]
                                   /\ Head(q).addr < Tail(q)[j].addr
  BY <1>1, TailInOrder
<1>4. Before(s, Tail(q))
  BY <1>3 DEF Before
<1> DEFINE t == Append(s, Head(q))
<1>5. \A i \in DOMAIN t : (i \in DOMAIN s /\ t[i] = s[i]) \/ t[i] = Head(q)
  BY <1>1
<1> HIDE DEF t
<1>6. Before(t, Tail(q))
  BY <1>3, <1>4, <1>5 DEF Before
<1>7. Before(t, other)
  BY <1>1, <1>5 DEF Before
<1> QED BY <1>2, <1>3, <1>4, <1>6, <1>7 DEF t

(* The same for ages.                                                      *)
LEMMA MoveKeepsFresh ==
  ASSUME NEW s \in Seq(MemoryBurst), NEW q \in Seq(MemoryBurst), NEW n, q # <<>>,
         Fresh(s, n), Fresh(q, n)
  PROVE  /\ Fresh(Append(s, Head(q)), n) /\ Fresh(Tail(q), n)
         /\ \A i \in DOMAIN Tail(q) : \E j \in DOMAIN q : Tail(q)[i] = q[j]
<1>1. /\ Head(q) = q[1] /\ 1 \in DOMAIN q
      /\ DOMAIN s = 1 .. Len(s) /\ Len(s) \in Nat
      /\ DOMAIN Append(s, Head(q)) = 1 .. Len(s) + 1
      /\ \A i \in 1 .. Len(s) : Append(s, Head(q))[i] = s[i]
      /\ Append(s, Head(q))[Len(s) + 1] = Head(q)
  OBVIOUS
<1>2. \A i \in DOMAIN Tail(q) : i + 1 \in DOMAIN q /\ Tail(q)[i] = q[i + 1]
  OBVIOUS
<1>3. Fresh(Tail(q), n)
  BY <1>2 DEF Fresh
<1> DEFINE t == Append(s, Head(q))
<1>4. \A i \in DOMAIN t : (i \in DOMAIN s /\ t[i] = s[i]) \/ t[i] = q[1]
  BY <1>1
<1> HIDE DEF t
<1>5. Fresh(t, n)
  BY <1>1, <1>4 DEF Fresh
<1> QED BY <1>2, <1>3, <1>5 DEF t

(* A request just issued is younger than all of its class.                 *)
LEMMA IssueKeepsOrder ==
  ASSUME TypeOK, OrderInv, issued < MaxRequests,
         NEW b \in MemoryBurst,
         b.addr = issued \/ b.addr = kGlobalAddressBoundary + issued
  PROVE  /\ \A s : Fresh(s, issued) => \A i \in DOMAIN s :
              IsGlobal(s[i]) = IsGlobal(b) => s[i].addr < b.addr
         /\ \A s \in Seq(MemoryBurst) :
              Fresh(s, issued) => Fresh(s, issued + 1) /\ Fresh(Append(s, b), issued + 1)
<1>1. b.addr = issued + IF IsGlobal(b) THEN kGlobalAddressBoundary ELSE 0
  BY RouterAssumption, TrafficAssumption DEF IsGlobal, TypeOK
<1>2. \A s : Fresh(s, issued) => \A i \in DOMAIN s :
              IsGlobal(s[i]) = IsGlobal(b) => s[i].addr < b.addr
  BY <1>1 DEF Fresh
<1>3. ASSUME NEW s \in Seq(MemoryBurst), Fresh(s, issued)
      PROVE  Fresh(s, issued + 1) /\ Fresh(Append(s, b), issued + 1)
  <2> DEFINE t == Append(s, b)
             bound(e) == IF IsGlobal(e) THEN kGlobalAddressBoundary ELSE 0
  <2>1. \A i \in DOMAIN t : (i \in DOMAIN s /\ t[i] = s[i]) \/ t[i] = b
    OBVIOUS
  <2>2. \A e \in MemoryBurst : bound(e) \in Nat /\ e.addr \in Nat
    BY RouterAssumption DEF MemoryBurst
  <2>3. issued \in Nat /\ \A i \in DOMAIN s : s[i] \in MemoryBurst
    BY DEF TypeOK
  <2>4. \A i \in DOMAIN s : s[i].addr < issued + bound(s[i])
    BY <1>3 DEF Fresh
  <2>5. b.addr = issued + bound(b)
    BY <1>1
  <2> HIDE DEF bound, t
  <2>6. \A i \in DOMAIN s : s[i].addr < issued + 1 + bound(s[i])
    BY <2>2, <2>3, <2>4
  <2>7. b.addr < issued + 1 + bound(b)
    BY <2>2, <2>3, <2>5
  <2>8. \A i \in DOMAIN t : t[i].addr < issued + 1 + bound(t[i])
    BY <2>1, <2>6, <2>7
  <2> QED BY <2>6, <2>8 DEF Fresh, IsGlobal, bound, t
<1> QED BY <1>2, <1>3

(* The initial state is in order.                                          *)
LEMMA OrderInit == Init => OrderInv
<1> SUFFICES ASSUME Init PROVE OrderInv
  OBVIOUS
<1>1. \A i \in DOMAIN << >> : FALSE
  OBVIOUS
<1>2. /\ local_queue = <<>> /\ global_queue = <<>> /\ issued = 0
      /\ \A p \in PC : ports[p] = <<>>
  BY DEF Init, MuxInit, RouterInit
<1>3. 0 <= MaxRequests
  BY TrafficAssumption, RouterAssumption
<1> QED BY <1>1, <1>2, <1>3 DEF OrderInv, Fresh, ClassOrder, InOrder, Before

(* A burst is local or global.                                             *)
LEMMA ClassIsBoolean == \A b \in MemoryBurst : IsGlobal(b) \in BOOLEAN
<1> SUFFICES ASSUME NEW b \in MemoryBurst PROVE IsGlobal(b) \in BOOLEAN
  OBVIOUS
<1>1. b.addr \in Nat
  BY DEF MemoryBurst
<1> QED BY <1>1, RouterAssumption DEF IsGlobal

(* Order is a property of the sequences alone, and freshness of these and  *)
(* of the number of requests issued.                                       *)
LEMMA PrimedOrder ==
  /\ ClassOrder' <=>
       /\ InOrder(local_queue') /\ InOrder(global_queue')
       /\ \A p \in PC : /\ InOrder(ports'[p])
                        /\ Before(ports'[p], local_queue')
                        /\ Before(ports'[p], global_queue')
  /\ Fresh(local_queue, issued)' <=> Fresh(local_queue', issued')
  /\ Fresh(global_queue, issued)' <=> Fresh(global_queue', issued')
  /\ \A p \in PC : Fresh(ports[p], issued)' <=> Fresh(ports'[p], issued')
BY DEF ClassOrder, InOrder, Before, Fresh, IsGlobal

(* Every step keeps the order.                                             *)
LEMMA OrderStep == TypeOK /\ OrderInv /\ [Next]_vars => OrderInv'
<1> SUFFICES ASSUME TypeOK, OrderInv, [Next]_vars
             PROVE  OrderInv'
  OBVIOUS
<1>0. /\ ports \in [PC -> Seq(MemoryBurst)]
      /\ local_queue \in Seq(MemoryBurst) /\ global_queue \in Seq(MemoryBurst)
      /\ issued \in Nat
  BY DEF TypeOK, MuxTypeOK, RouterTypeOK
<1>1. CASE Request
  <2>1. PICK p \in PC, bytes \in RequestBytes, region \in {0, kGlobalAddressBoundary} :
          Request!(p, bytes, region)
    BY <1>1 DEF Request
  <2> DEFINE b == [addr |-> region + issued, size_bytes |-> bytes,
                   pc_id |-> p, on_complete |-> FALSE]
  <2>2. /\ b \in MemoryBurst
        /\ b.addr = issued \/ b.addr = kGlobalAddressBoundary + issued
    <3>1. region + issued = issued \/ region + issued = kGlobalAddressBoundary + issued
      BY <1>0
    <3> QED BY <1>0, <3>1, RequestType
  <2>3. issued < MaxRequests /\ issued' = issued + 1 /\ ports' = ports /\ enqueue_request(b)
    BY <2>1 DEF muxVars
  <2> HIDE DEF b
  <2>4. /\ \A s : Fresh(s, issued) => \A i \in DOMAIN s :
              IsGlobal(s[i]) = IsGlobal(b) => s[i].addr < b.addr
        /\ \A s \in Seq(MemoryBurst) :
              Fresh(s, issued) => Fresh(s, issued + 1) /\ Fresh(Append(s, b), issued + 1)
    BY <2>2, <2>3, IssueKeepsOrder
  <2>5. /\ \A s : InOrder(s)' <=> InOrder(s)
        /\ \A s, t : Before(s, t)' <=> Before(s, t)
    BY DEF InOrder, Before, IsGlobal
  <2>6. ASSUME NEW q \in Seq(MemoryBurst), NEW s, Fresh(s, issued), Before(s, q)
        PROVE  Before(s, Append(q, b))
    <3>1. \A i \in DOMAIN Append(q, b) :
            (i \in DOMAIN q /\ Append(q, b)[i] = q[i]) \/ Append(q, b)[i] = b
      OBVIOUS
    <3> QED BY <2>4, <2>6, <3>1 DEF Before
  <2>7. ASSUME NEW q \in Seq(MemoryBurst), Fresh(q, issued), InOrder(q)
        PROVE  InOrder(Append(q, b))
    BY <2>2, <2>4, <2>7, AppendYoungest
  <2>8. ASSUME NEW q \in Seq(MemoryBurst), NEW i \in DOMAIN Append(q, b)
        PROVE  (i \in DOMAIN q /\ Append(q, b)[i] = q[i]) \/ Append(q, b)[i] = b
    OBVIOUS
  <2>9. CASE IsGlobal(b)
    <3>1. local_queue' = local_queue /\ global_queue' = Append(global_queue, b)
      BY <2>3, <2>9 DEF enqueue_request
    <3>2. /\ Fresh(local_queue, issued)' /\ Fresh(global_queue, issued)'
          /\ \A p_1 \in PC : Fresh(ports[p_1], issued)'
      BY <1>0, <2>3, <2>4, <3>1, PrimedOrder DEF OrderInv
    <3>3. \A i \in DOMAIN global_queue' : IsGlobal(global_queue'[i])
      BY <1>0, <2>8, <2>9, <3>1 DEF OrderInv
    <3>4. ClassOrder'
      BY <1>0, <2>3, <2>6, <2>7, <3>1, PrimedOrder DEF OrderInv, ClassOrder
    <3> QED BY <2>3, <3>1, <3>2, <3>3, <3>4, <1>0, TrafficAssumption, RouterAssumption
            DEF OrderInv, IsGlobal
  <2>10. CASE ~ IsGlobal(b)
    <3>1. global_queue' = global_queue /\ local_queue' = Append(local_queue, b)
      BY <2>3, <2>10 DEF enqueue_request
    <3>2. /\ Fresh(local_queue, issued)' /\ Fresh(global_queue, issued)'
          /\ \A p_1 \in PC : Fresh(ports[p_1], issued)'
      BY <1>0, <2>3, <2>4, <3>1, PrimedOrder DEF OrderInv
    <3>3. \A i \in DOMAIN local_queue' : ~ IsGlobal(local_queue'[i])
      BY <1>0, <2>8, <2>10, <3>1 DEF OrderInv
    <3>4. ClassOrder'
      BY <1>0, <2>3, <2>6, <2>7, <3>1, PrimedOrder DEF OrderInv, ClassOrder
    <3> QED BY <2>3, <3>1, <3>2, <3>3, <3>4, <1>0, TrafficAssumption, RouterAssumption
            DEF OrderInv, IsGlobal
  <2> QED BY <2>9, <2>10
<1>2. CASE StartTick
  BY <1>2, PrimedOrder DEF StartTick, AddCredit, muxVars, OrderInv, ClassOrder, IsGlobal
<1>3. CASE Tick /\ ForwardLocal
  <2>0. /\ \A i \in DOMAIN local_queue : IsGlobal(local_queue[i]) = FALSE
        /\ \A i \in DOMAIN global_queue : IsGlobal(global_queue[i]) # FALSE
    <3>1. /\ \A i \in DOMAIN local_queue : local_queue[i] \in MemoryBurst
          /\ \A i \in DOMAIN global_queue : global_queue[i] \in MemoryBurst
      BY <1>0
    <3> QED BY <3>1, ClassIsBoolean DEF OrderInv
  <2> DEFINE b == Head(local_queue)
             c == b.pc_id
  <2>1. /\ local_queue # <<>> /\ c \in PC
        /\ local_queue' = Tail(local_queue) /\ global_queue' = global_queue
        /\ ports' = [ports EXCEPT ![c] = Append(@, b)]
        /\ issued' = issued
    BY <1>0, <1>3, PaidHead DEF Tick, ForwardLocal, enqueue, TypeOK, RouterTypeOK
  <2> HIDE DEF c
  <2>2. /\ InOrder(Append(ports[c], b)) /\ InOrder(Tail(local_queue))
        /\ Before(Append(ports[c], b), Tail(local_queue))
        /\ Before(Append(ports[c], b), global_queue)
    BY <1>0, <2>0, <2>1, MoveKeepsOrder DEF OrderInv, ClassOrder
  <2>3. ASSUME NEW p \in PC PROVE Before(ports[p], Tail(local_queue))
    BY <1>0, <2>0, <2>1, MoveKeepsOrder DEF OrderInv, ClassOrder
  <2>4. /\ Fresh(Append(ports[c], b), issued) /\ Fresh(Tail(local_queue), issued)
        /\ \A i \in DOMAIN Tail(local_queue) : \E j \in DOMAIN local_queue :
              Tail(local_queue)[i] = local_queue[j]
    BY <1>0, <2>1, MoveKeepsFresh DEF OrderInv
  <2>5. \A p \in PC : ports'[p] = IF p = c THEN Append(ports[c], b) ELSE ports[p]
    BY <1>0, <2>1
  <2> HIDE DEF b
  <2>6. ClassOrder'
    BY <2>1, <2>2, <2>3, <2>5, PrimedOrder DEF OrderInv, ClassOrder
  <2>7. /\ Fresh(local_queue, issued)' /\ Fresh(global_queue, issued)'
        /\ \A p \in PC : Fresh(ports[p], issued)'
    BY <2>1, <2>4, <2>5, PrimedOrder DEF OrderInv
  <2>8. /\ \A i \in DOMAIN local_queue' : ~ IsGlobal(local_queue'[i])
        /\ \A i \in DOMAIN global_queue' : IsGlobal(global_queue'[i])
    BY <2>1, <2>4 DEF OrderInv
  <2> QED BY <2>1, <2>6, <2>7, <2>8 DEF OrderInv, IsGlobal
<1>4. CASE Tick /\ ForwardGlobal
  <2>0. /\ \A i \in DOMAIN global_queue : IsGlobal(global_queue[i]) = TRUE
        /\ \A i \in DOMAIN local_queue : IsGlobal(local_queue[i]) # TRUE
    <3>1. /\ \A i \in DOMAIN local_queue : local_queue[i] \in MemoryBurst
          /\ \A i \in DOMAIN global_queue : global_queue[i] \in MemoryBurst
      BY <1>0
    <3> QED BY <3>1, ClassIsBoolean DEF OrderInv
  <2> DEFINE b == Head(global_queue)
             c == b.pc_id
  <2>1. /\ global_queue # <<>> /\ c \in PC
        /\ global_queue' = Tail(global_queue) /\ local_queue' = local_queue
        /\ ports' = [ports EXCEPT ![c] = Append(@, b)]
        /\ issued' = issued
    BY <1>0, <1>4, PaidHead DEF Tick, ForwardGlobal, enqueue, TypeOK, RouterTypeOK
  <2> HIDE DEF c
  <2>2. /\ InOrder(Append(ports[c], b)) /\ InOrder(Tail(global_queue))
        /\ Before(Append(ports[c], b), Tail(global_queue))
        /\ Before(Append(ports[c], b), local_queue)
    BY <1>0, <2>0, <2>1, MoveKeepsOrder DEF OrderInv, ClassOrder
  <2>3. ASSUME NEW p \in PC PROVE Before(ports[p], Tail(global_queue))
    BY <1>0, <2>0, <2>1, MoveKeepsOrder DEF OrderInv, ClassOrder
  <2>4. /\ Fresh(Append(ports[c], b), issued) /\ Fresh(Tail(global_queue), issued)
        /\ \A i \in DOMAIN Tail(global_queue) : \E j \in DOMAIN global_queue :
              Tail(global_queue)[i] = global_queue[j]
    BY <1>0, <2>1, MoveKeepsFresh DEF OrderInv
  <2>5. \A p \in PC : ports'[p] = IF p = c THEN Append(ports[c], b) ELSE ports[p]
    BY <1>0, <2>1
  <2> HIDE DEF b
  <2>6. ClassOrder'
    BY <2>1, <2>2, <2>3, <2>5, PrimedOrder DEF OrderInv, ClassOrder
  <2>7. /\ Fresh(local_queue, issued)' /\ Fresh(global_queue, issued)'
        /\ \A p \in PC : Fresh(ports[p], issued)'
    BY <2>1, <2>4, <2>5, PrimedOrder DEF OrderInv
  <2>8. /\ \A i \in DOMAIN local_queue' : ~ IsGlobal(local_queue'[i])
        /\ \A i \in DOMAIN global_queue' : IsGlobal(global_queue'[i])
    BY <2>1, <2>4 DEF OrderInv
  <2> QED BY <2>1, <2>6, <2>7, <2>8 DEF OrderInv, IsGlobal
<1>5. CASE Consume
  <2>1. PICK c \in PC : Consume!(c)
    BY <1>5 DEF Consume
  <2>2. /\ local_queue' = local_queue /\ global_queue' = global_queue /\ issued' = issued
        /\ ports[c] # <<>>
        /\ \A p \in PC : ports'[p] = IF p = c THEN Tail(ports[c]) ELSE ports[p]
    BY <1>0, <2>1 DEF routerVars, pop
  <2>3. InOrder(Tail(ports[c]))
    BY <1>0, <2>2, TailInOrder DEF OrderInv, ClassOrder
  <2>4. /\ Fresh(Tail(ports[c]), issued)
        /\ Before(Tail(ports[c]), local_queue) /\ Before(Tail(ports[c]), global_queue)
    <3>1. /\ Fresh(ports[c], issued)
          /\ Before(ports[c], local_queue) /\ Before(ports[c], global_queue)
      BY DEF OrderInv, ClassOrder
    <3>2. \A i \in DOMAIN Tail(ports[c]) :
            i + 1 \in DOMAIN ports[c] /\ Tail(ports[c])[i] = ports[c][i + 1]
      BY <1>0, <2>2
    <3> QED BY <3>1, <3>2 DEF Fresh, Before
  <2>5. ClassOrder'
    BY <2>2, <2>3, <2>4, PrimedOrder DEF OrderInv, ClassOrder
  <2>6. /\ Fresh(local_queue, issued)' /\ Fresh(global_queue, issued)'
        /\ \A p \in PC : Fresh(ports[p], issued)'
    BY <2>2, <2>4, PrimedOrder DEF OrderInv
  <2> QED BY <2>2, <2>5, <2>6 DEF OrderInv, IsGlobal
<1>6. CASE UNCHANGED <<muxVars, routerVars, issued>>
  BY <1>6, PrimedOrder DEF muxVars, routerVars, OrderInv, ClassOrder, IsGlobal
<1>7. CASE Tick /\ (LocalDone \/ GlobalDone("idle"))
  BY <1>6, <1>7 DEF Tick, LocalDone, GlobalDone
<1>8. CASE UNCHANGED vars
  BY <1>6, <1>8 DEF vars
<1> QED BY <1>1, <1>2, <1>3, <1>4, <1>5, <1>7, <1>8 DEF Next, Tick

(* The router never reorders requests of one class, for any rates, sizes,  *)
(* ports and pattern of requests and consumption.                          *)
THEOREM OrderKept == Spec => []ClassOrder
<1>1. OrderInv => ClassOrder
  BY DEF OrderInv
<1> QED BY <1>1, Types, OrderInit, OrderStep, PTL DEF Spec

-----------------------------------------------------------------------------
(* Work conservation.                                                      *)

(* A tick forwards from the global queue after the local queue is done.    *)
LocalDoneInv == at = "router_global" => ~ CanPay(local_queue, local_used)

LEMMA LocalDoneStep == LocalDoneInv /\ [Next]_vars => LocalDoneInv'
<1> USE DEF LocalDoneInv, CanPay
<1> QED BY DEF Next, vars, routerVars, Request, StartTick, Tick, Consume,
               ForwardLocal, LocalDone, ForwardGlobal, GlobalDone

(* A tick never leaves a request that its queue could have paid for.       *)
THEOREM TicksConserveWork == Spec => WorkConserving
<1>1. LocalDoneInv /\ [Next]_vars =>
        [ at = "router_global" /\ at' = "idle" =>
            ~ CanPay(local_queue, local_used) /\ ~ CanPay(global_queue, global_used)
        ]_vars
  BY DEF LocalDoneInv, Next, Request, StartTick, Tick, Consume, ForwardLocal,
         LocalDone, ForwardGlobal, GlobalDone, CanPay
<1>2. Init => LocalDoneInv
  BY DEF Init, LocalDoneInv
<1> QED BY <1>1, <1>2, LocalDoneStep, PTL DEF Spec, WorkConserving
=============================================================================
