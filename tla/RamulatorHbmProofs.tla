-------------------------- MODULE RamulatorHbmProofs --------------------------
(***************************************************************************)
(* Proofs about the simulator loop, for any number of ports, any traffic   *)
(* and any memory system.                                                  *)
(***************************************************************************)
EXTENDS FairAdmission, FiniteSetTheorems, TLAPS

-----------------------------------------------------------------------------
(* Types of the operators of the multiplexer and the router.               *)

(* A sweep visits existing ports.                                          *)
LEMMA VisitedInPC ==
  ASSUME NEW s \in PC, NEW j \in Nat
  PROVE  Visited(s, j) \in PC
BY PseudoChannelAssumption DEF Visited, PC

(* A burst that a client creates is well typed.                            *)
LEMMA NewBurstType ==
  ASSUME TypeOK, NEW s \in Shape, NEW awaited \in BOOLEAN
  PROVE  NewBurst(s, awaited) \in MemoryBurst /\ s.pc_id \in PC
<1>1. created + (IF s.global THEN kGlobalAddressBoundary ELSE 0) \in Nat
  BY RouterAssumption, SimulatorAssumption DEF TypeOK
<1> QED BY <1>1 DEF NewBurst, MemoryBurst, Shape

(* An enqueue leaves the ports well typed.                                 *)
LEMMA EnqueueType ==
  ASSUME MuxTypeOK, NEW b \in MemoryBurst, NEW p \in PC, enqueue(p, b),
         UNCHANGED rr_cursor
  PROVE  MuxTypeOK'
BY DEF MuxTypeOK, enqueue

(* A request leaves the queues of the router well typed.                   *)
LEMMA EnqueueRequestType ==
  ASSUME RouterTypeOK, NEW b \in MemoryBurst, enqueue_request(b)
  PROVE  RouterTypeOK'
BY DEF RouterTypeOK, enqueue_request

(* The credit stays a number of bytes.                                     *)
LEMMA AddCreditType ==
  ASSUME RouterTypeOK, AddCredit
  PROVE  RouterTypeOK'
BY RouterAssumption DEF RouterTypeOK, AddCredit

(* The initial state is well typed.                                        *)
LEMMA TypeInit == Init => TypeOK
BY PseudoChannelAssumption, SimulatorAssumption
DEF Init, MuxInit, RouterInit, TypeOK, MuxTypeOK, RouterTypeOK, PC

(* Forwarding leaves queues, credit and ports well typed.                  *)
LEMMA ForwardType ==
  ASSUME MuxTypeOK, RouterTypeOK, ForwardLocal \/ ForwardGlobal
  PROVE  MuxTypeOK' /\ RouterTypeOK'
<1>1. CASE ForwardLocal
  <2>1. /\ Head(local_queue) \in MemoryBurst /\ Tail(local_queue) \in Seq(MemoryBurst)
        /\ local_used >= Head(local_queue).size_bytes
    BY <1>1 DEF ForwardLocal, CanPay, RouterTypeOK
  <2>2. Head(local_queue).pc_id \in PC /\ Head(local_queue).size_bytes \in Nat
    BY <2>1 DEF MemoryBurst
  <2> QED BY <1>1, <2>1, <2>2, EnqueueType DEF ForwardLocal, RouterTypeOK
<1>2. CASE ForwardGlobal
  <2>1. /\ Head(global_queue) \in MemoryBurst /\ Tail(global_queue) \in Seq(MemoryBurst)
        /\ global_used >= Head(global_queue).size_bytes
    BY <1>2 DEF ForwardGlobal, CanPay, RouterTypeOK
  <2>2. Head(global_queue).pc_id \in PC /\ Head(global_queue).size_bytes \in Nat
    BY <2>1 DEF MemoryBurst
  <2> QED BY <1>2, <2>1, <2>2, EnqueueType DEF ForwardGlobal, RouterTypeOK
<1> QED BY <1>1, <1>2

(* Every step of the loop, of a client and of the memory system keeps the  *)
(* types.                                                                  *)
LEMMA TypeStep == TypeOK /\ [Next]_vars => TypeOK'
<1> SUFFICES ASSUME TypeOK, [Next]_vars
             PROVE  TypeOK'
  OBVIOUS
<1> USE SimulatorAssumption
<1>1. CASE CallerEnqueue
  <2>1. PICK s \in CallerBursts : CallerEnqueue!(s)
    BY <1>1 DEF CallerEnqueue
  <2>2. MuxTypeOK'
    BY <2>1, NewBurstType, EnqueueType DEF TypeOK
  <2> QED BY <2>1, <2>2 DEF TypeOK, RouterTypeOK, routerVars, runVars, tickVars
<1>2. CASE Call
  BY <1>2 DEF Call, TypeOK, MuxTypeOK, RouterTypeOK, muxVars, routerVars, tickVars
<1>3. CASE Return
  BY <1>3 DEF Return, TypeOK, MuxTypeOK, RouterTypeOK, muxVars, routerVars,
              runVars, tickVars
<1>4. CASE BeginCycle
  <2>1. RouterTypeOK'
    BY <1>4, AddCreditType DEF BeginCycle, TypeOK
  <2>2. MuxTypeOK' /\ created' \in 0 .. MaxBursts
    <3>1. CASE UNCHANGED <<ports, created>>
      BY <1>4, <3>1 DEF BeginCycle, TypeOK, MuxTypeOK
    <3>2. CASE \E s \in GatherBursts :
                 /\ ~ clients_done /\ ClientsMayIssue
                 /\ enqueue(s.pc_id, NewBurst(s, TRUE))
                 /\ created' = created + 1
      <4>1. PICK s \in GatherBursts :
              ClientsMayIssue /\ enqueue(s.pc_id, NewBurst(s, TRUE))
                /\ created' = created + 1
        BY <3>2
      <4>2. UNCHANGED rr_cursor
        BY <1>4 DEF BeginCycle
      <4>3. created' \in 0 .. MaxBursts
        BY <4>1 DEF ClientsMayIssue, TypeOK
      <4> QED BY <4>1, <4>2, <4>3, NewBurstType, EnqueueType DEF TypeOK
    <3> QED BY <1>4, <3>1, <3>2 DEF BeginCycle
  <2> QED BY <1>4, <2>1, <2>2 DEF BeginCycle, TypeOK, runVars, tickVars
<1>5. CASE RouterTick
  <2>1. CASE ForwardLocal \/ ForwardGlobal
    <3>1. MuxTypeOK' /\ RouterTypeOK'
      BY <2>1, ForwardType DEF TypeOK
    <3>2. UNCHANGED at
      BY <2>1 DEF ForwardLocal, ForwardGlobal
    <3> QED BY <1>5, <3>1, <3>2 DEF RouterTick, TypeOK, runVars, tickVars
  <2>2. CASE LocalDone \/ GlobalDone("vaults")
    BY <1>5, <2>2 DEF RouterTick, LocalDone, GlobalDone, TypeOK, MuxTypeOK,
      RouterTypeOK, muxVars, routerVars, runVars, tickVars
  <2> QED BY <1>5, <2>1, <2>2 DEF RouterTick
<1>6. CASE VaultRequest
  <2>1. RouterTypeOK'
    BY <1>6, NewBurstType, EnqueueRequestType DEF VaultRequest, TypeOK
  <2> QED BY <1>6, <2>1 DEF VaultRequest, ClientsMayIssue, TypeOK, MuxTypeOK,
             muxVars, runVars, tickVars
<1>7. CASE VaultsTicked
  BY <1>7, PseudoChannelAssumption DEF VaultsTicked, TypeOK, MuxTypeOK,
    RouterTypeOK, muxVars, routerVars, runVars
<1>8. CASE StartSweep
  <2>1. /\ wave_count' \in 0 .. kMaxWavesPerTick /\ wave_progress' \in BOOLEAN
        /\ sweep_start' \in PC /\ k' \in 0 .. kNumPseudoChannels
    <3>1. wave_count < kMaxWavesPerTick /\ wave_count' = wave_count + 1
      BY <1>8, Zenon DEF StartSweep, NextWave
    <3>2. wave_progress' \in BOOLEAN
      BY <1>8, Zenon DEF StartSweep
    <3>3. sweep_start' = rr_cursor /\ k' = 0
      BY <1>8, Zenon DEF StartSweep
    <3>4. wave_count' \in 0 .. kMaxWavesPerTick
      BY <3>1 DEF TypeOK
    <3>5. sweep_start' \in PC /\ k' \in 0 .. kNumPseudoChannels
      BY <3>3, PseudoChannelAssumption DEF TypeOK, MuxTypeOK
    <3> QED BY <3>2, <3>4, <3>5
  <2> QED BY <1>8, <2>1 DEF StartSweep, TypeOK, MuxTypeOK, RouterTypeOK,
             muxVars, routerVars, runVars
<1>9. CASE EndAdmission
  BY <1>9 DEF EndAdmission, TypeOK, MuxTypeOK, RouterTypeOK, muxVars, routerVars,
    runVars, tickVars
<1>10. CASE Skip
  BY <1>10, PseudoChannelAssumption DEF Skip, TypeOK, MuxTypeOK, RouterTypeOK,
    muxVars, routerVars, runVars
<1>11. CASE Admit
  <2> DEFINE p == Visited(sweep_start, k)
             b == Head(ports[p])
  <2>1. p \in PC /\ ports[p] # <<>>
    BY <1>11, VisitedInPC, PseudoChannelAssumption DEF Admit, Admissible, TypeOK, PC
  <2>2. b \in MemoryBurst /\ b.size_bytes \in Nat
    <3> HIDE DEF p
    <3>1. b \in MemoryBurst
      BY <2>1 DEF TypeOK, MuxTypeOK
    <3> QED BY <3>1 DEF MemoryBurst
  <2>3. MuxTypeOK'
    <3>1. pop(p) /\ advance_after_issue(p)
      BY <1>11 DEF Admit
    <3>2. rr_cursor' \in PC
      BY <2>1, <3>1, VisitedInPC DEF advance_after_issue
    <3>3. ports' \in [PC -> Seq(MemoryBurst)]
      BY <2>1, <3>1 DEF pop, TypeOK, MuxTypeOK
    <3> QED BY <3>2, <3>3 DEF MuxTypeOK
  <2>4. inflight' \subseteq [burst : MemoryBurst, run : Nat, left : 0 .. MaxLatency]
    <3> HIDE DEF b
    <3> QED BY <1>11, <2>2 DEF Admit, TypeOK, b
  <2>5. /\ tsv_used_this_tick' \in Nat /\ tsv_bytes_admitted' \in Nat
        /\ outstanding_requests' \in Nat /\ standard_sparse_inflight' \in Nat
    BY <1>11, <2>2 DEF Admit, Track, TypeOK
  <2> QED BY <1>11, <2>3, <2>4, <2>5, PseudoChannelAssumption
          DEF Admit, TypeOK, RouterTypeOK, routerVars
<1>12. CASE Complete
  <2>1. PICK r \in inflight : Complete!(r)
    BY <1>12 DEF Complete
  <2>2. r.burst.addr \in Nat /\ r.burst.size_bytes \in Nat
    BY DEF TypeOK, MemoryBurst
  <2>3. /\ completed' \in Nat /\ bytes_done' \in Nat
        /\ outstanding_requests' \in Nat /\ standard_sparse_inflight' \in Nat
    BY <2>1, <2>2 DEF Reply, CountDown, TypeOK
  <2> QED BY <2>1, <2>2, <2>3 DEF TypeOK, MuxTypeOK, RouterTypeOK, muxVars,
             routerVars, tickVars
<1>13. CASE EndCycle
  <2>1. inflight' \subseteq [burst : MemoryBurst, run : Nat, left : 0 .. MaxLatency]
    BY <1>13 DEF EndCycle, Aged, TypeOK
  <2> QED BY <1>13, <2>1 DEF EndCycle, TypeOK, MuxTypeOK, RouterTypeOK, muxVars,
             routerVars, tickVars
<1>14. CASE UNCHANGED vars
  BY <1>14 DEF vars, TypeOK, MuxTypeOK, RouterTypeOK, muxVars, routerVars,
    runVars, tickVars
<1> QED BY <1>1, <1>2, <1>3, <1>4, <1>5, <1>6, <1>7, <1>8, <1>9, <1>10, <1>11,
           <1>12, <1>13, <1>14 DEF Next, RunStep

(* Every variable keeps its type: no credit, counter or cursor leaves its  *)
(* range, whatever the traffic and the memory system do.                   *)
THEOREM TypeCorrect == Spec => []TypeOK
BY TypeInit, TypeStep, PTL DEF Spec

-----------------------------------------------------------------------------
(* The inductive invariant.  Its parts say, in this order: what has been   *)
(* charged to the TSV at each control point; that serialization keeps the  *)
(* counter it tests at one; and that, until a second run() call, every     *)
(* request in the memory system belongs to the current call and is covered *)
(* by the call's counters.  Only the upper bounds are needed: a request    *)
(* the counters missed is what would let run() return early or let a       *)
(* second read through.                                                    *)

ChargedInv ==
  TsvLimitPerTick > 0 =>
    /\ at = "admit" =>
         /\ tsv_used_this_tick <= TsvLimitPerTick
         /\ tsv_bytes_admitted <= TsvLimitPerTick * cycles + tsv_used_this_tick
    /\ at = "memory" => tsv_bytes_admitted <= TsvLimitPerTick * cycles + TsvLimitPerTick
    /\ at \notin {"admit", "memory"} => tsv_bytes_admitted <= TsvLimitPerTick * cycles

SlotInv == Serialize => standard_sparse_inflight <= 1

CoverInv ==
  run_id <= 1 =>
    /\ run_id = 0 => at = "idle" /\ inflight = {}
    /\ \A r \in inflight : r.run = run_id
    /\ Cardinality(inflight) <= outstanding_requests
    /\ Cardinality(StandardSparse) <= standard_sparse_inflight

LoopInv == TypeOK /\ IsFiniteSet(inflight) /\ ChargedInv /\ SlotInv /\ CoverInv

(* TypeOK as used below: the arithmetic facts without the rest.            *)
LEMMA Counters ==
  ASSUME TypeOK
  PROVE  /\ cycles \in Nat /\ tsv_used_this_tick \in Nat
         /\ tsv_bytes_admitted \in Nat /\ outstanding_requests \in Nat
         /\ standard_sparse_inflight \in Nat /\ run_id \in Nat
         /\ TsvLimitPerTick * cycles \in Nat /\ TsvLimitPerTick \in Nat
         /\ TsvLimitPerTick * (cycles + 1) = TsvLimitPerTick * cycles + TsvLimitPerTick
<1>1. cycles \in Nat /\ TsvLimitPerTick \in Nat
  BY SimulatorAssumption DEF TypeOK
<1>2. /\ TsvLimitPerTick * cycles \in Nat
      /\ TsvLimitPerTick * (cycles + 1) = TsvLimitPerTick * cycles + TsvLimitPerTick
  BY <1>1
<1> QED BY <1>1, <1>2, SimulatorAssumption DEF TypeOK

(* Before the first run nothing is charged and nothing is in flight.       *)
LEMMA LoopInit == Init => LoopInv
<1> SUFFICES ASSUME Init
             PROVE  LoopInv
  OBVIOUS
<1>1. TypeOK
  BY TypeInit
<1>2. inflight = {} /\ StandardSparse = {} /\ IsFiniteSet(inflight) /\ Cardinality({}) = 0
  BY FS_EmptySet DEF Init, StandardSparse
<1>3. ChargedInv
  BY SimulatorAssumption DEF Init, ChargedInv
<1>4. SlotInv /\ CoverInv
  BY <1>2 DEF Init, SlotInv, CoverInv
<1> QED BY <1>1, <1>2, <1>3, <1>4 DEF LoopInv

(* The steps that neither admit nor complete a request.                    *)
LEMMA CoverFrame ==
  ASSUME LoopInv, UNCHANGED <<inflight, run_id, outstanding_requests,
                              standard_sparse_inflight>>,
         at # "idle" \/ UNCHANGED at
  PROVE  IsFiniteSet(inflight') /\ SlotInv' /\ CoverInv'
BY DEF LoopInv, SlotInv, CoverInv, StandardSparse

(* What one more request adds to the two counts.                           *)
LEMMA AddRequest ==
  ASSUME NEW x, IsFiniteSet(inflight), inflight' = inflight \cup {x}
  PROVE  /\ IsFiniteSet(inflight')
         /\ Cardinality(inflight) \in Nat
         /\ Cardinality(StandardSparse) \in Nat
         /\ Cardinality(inflight') <= Cardinality(inflight) + 1
         /\ Cardinality(StandardSparse') <= Cardinality(StandardSparse) + Track(x.burst)
<1>1. IsFiniteSet(StandardSparse)
  BY FS_Subset DEF StandardSparse
<1>2. Cardinality(inflight) \in Nat /\ Cardinality(StandardSparse) \in Nat
  BY <1>1, FS_CardinalityType
<1>3. /\ IsFiniteSet(inflight')
      /\ Cardinality(inflight') <= Cardinality(inflight) + 1
  BY <1>2, FS_AddElement
<1>4. CASE IsStandardSparse(x.burst)
  <2>1. StandardSparse' = StandardSparse \cup {x}
    BY <1>4 DEF StandardSparse
  <2>2. Cardinality(StandardSparse \cup {x}) <= Cardinality(StandardSparse) + 1
    <3>1. Cardinality(StandardSparse \cup {x})
            = IF x \in StandardSparse THEN Cardinality(StandardSparse)
              ELSE Cardinality(StandardSparse) + 1
      BY <1>1, FS_AddElement, Zenon
    <3> QED BY <1>2, <3>1
  <2> QED BY <1>2, <1>3, <1>4, <2>1, <2>2 DEF Track
<1>5. CASE ~ IsStandardSparse(x.burst)
  <2>1. StandardSparse' = StandardSparse
    BY <1>5 DEF StandardSparse
  <2> QED BY <1>2, <1>3, <1>5, <2>1 DEF Track
<1> QED BY <1>4, <1>5

(* An admission keeps the charge of the tick below the cap and the reads   *)
(* serialized.                                                             *)
LEMMA AdmitStep ==
  ASSUME LoopInv, Admit
  PROVE  IsFiniteSet(inflight') /\ ChargedInv' /\ SlotInv' /\ CoverInv'
<1> DEFINE p == Visited(sweep_start, k)
           b == Head(ports[p])
<1>1. p \in PC /\ ports[p] # <<>>
  BY VisitedInPC, PseudoChannelAssumption DEF Admit, Admissible, LoopInv, TypeOK, PC
<1>2. b \in MemoryBurst /\ b.size_bytes \in Nat
  <2> HIDE DEF p
  <2>1. b \in MemoryBurst
    BY <1>1 DEF LoopInv, TypeOK, MuxTypeOK
  <2> QED BY <2>1 DEF MemoryBurst
<1>3. /\ ~ SerializeBlocks(b) /\ ~ TsvBlocks(b)
      /\ tsv_used_this_tick' = tsv_used_this_tick + b.size_bytes
      /\ tsv_bytes_admitted' = tsv_bytes_admitted + b.size_bytes
      /\ outstanding_requests' = outstanding_requests + 1
      /\ standard_sparse_inflight' = standard_sparse_inflight + Track(b)
  BY DEF Admit, Admissible
<1>4. PICK x : x.burst = b /\ x.run = run_id /\ inflight' = inflight \cup {x}
  BY DEF Admit
<1>5. at = "admit" /\ at' = "admit" /\ UNCHANGED <<cycles, run_id>>
  BY DEF Admit
<1> HIDE DEF b
<1>6. ChargedInv'
  BY <1>2, <1>3, <1>5, Counters DEF LoopInv, ChargedInv, TsvBlocks
<1>7. SlotInv'
  BY <1>3, Counters DEF LoopInv, SlotInv, SerializeBlocks, Track
<1>8. IsFiniteSet(inflight')
  BY <1>4, AddRequest DEF LoopInv
<1>9. ASSUME run_id <= 1
      PROVE  CoverInv'
  <2>1. run_id # 0 /\ \A r \in inflight' : r.run = run_id
    BY <1>4, <1>5, <1>9 DEF LoopInv, CoverInv
  <2>2. /\ Cardinality(inflight) \in Nat /\ Cardinality(StandardSparse) \in Nat
        /\ Cardinality(inflight') <= Cardinality(inflight) + 1
        /\ Cardinality(StandardSparse') <= Cardinality(StandardSparse) + Track(b)
    BY <1>4, AddRequest DEF LoopInv
  <2>3. /\ Cardinality(inflight) <= outstanding_requests
        /\ Cardinality(StandardSparse) <= standard_sparse_inflight
    BY <1>9 DEF LoopInv, CoverInv
  <2>4. /\ Cardinality(inflight') \in Nat /\ Cardinality(StandardSparse') \in Nat
        /\ Track(b) \in Nat
    BY <1>8, FS_Subset, FS_CardinalityType DEF StandardSparse, Track
  <2>5. /\ Cardinality(inflight') <= outstanding_requests'
        /\ Cardinality(StandardSparse') <= standard_sparse_inflight'
    BY <1>3, <2>2, <2>3, <2>4, Counters DEF LoopInv
  <2> QED BY <1>5, <2>1, <2>5 DEF CoverInv
<1> QED BY <1>5, <1>6, <1>7, <1>8, <1>9 DEF CoverInv

(* What one request less takes from the two counts.                        *)
LEMMA RemoveRequest ==
  ASSUME NEW r \in inflight, IsFiniteSet(inflight), inflight' = inflight \ {r}
  PROVE  /\ IsFiniteSet(inflight')
         /\ Cardinality(inflight) \in Nat
         /\ Cardinality(StandardSparse) \in Nat
         /\ Cardinality(inflight') = Cardinality(inflight) - 1
         /\ Cardinality(StandardSparse') =
              IF IsStandardSparse(r.burst) THEN Cardinality(StandardSparse) - 1
              ELSE Cardinality(StandardSparse)
<1>1. IsFiniteSet(StandardSparse)
  BY FS_Subset DEF StandardSparse
<1>2. Cardinality(inflight) \in Nat /\ Cardinality(StandardSparse) \in Nat
  BY <1>1, FS_CardinalityType
<1>3. IsFiniteSet(inflight') /\ Cardinality(inflight') = Cardinality(inflight) - 1
  BY <1>2, FS_RemoveElement
<1>4. CASE IsStandardSparse(r.burst)
  <2>1. StandardSparse' = StandardSparse \ {r} /\ r \in StandardSparse
    BY <1>4 DEF StandardSparse
  <2>2. Cardinality(StandardSparse') = Cardinality(StandardSparse) - 1
    BY <1>1, <1>2, <2>1, FS_RemoveElement
  <2> QED BY <1>2, <1>3, <1>4, <2>2
<1>5. CASE ~ IsStandardSparse(r.burst)
  <2>1. StandardSparse' = StandardSparse
    BY <1>5 DEF StandardSparse
  <2> QED BY <1>2, <1>3, <1>5, <2>1
<1> QED BY <1>4, <1>5

(* A completion takes a request out of the memory system and out of the    *)
(* counters.                                                               *)
LEMMA CompleteStep ==
  ASSUME LoopInv, Complete
  PROVE  IsFiniteSet(inflight') /\ ChargedInv' /\ SlotInv' /\ CoverInv'
<1>1. PICK r \in inflight : Complete!(r)
  BY DEF Complete
<1>2. IsFiniteSet(inflight')
  BY <1>1, RemoveRequest DEF LoopInv
<1>3. ChargedInv'
  BY <1>1 DEF LoopInv, ChargedInv, tickVars
<1>4. /\ standard_sparse_inflight' <= standard_sparse_inflight
      /\ standard_sparse_inflight' \in Nat
  BY <1>1, Counters DEF LoopInv, Reply, CountDown
<1>5. SlotInv'
  BY <1>4, Counters DEF LoopInv, SlotInv
<1>6. ASSUME run_id <= 1
      PROVE  CoverInv'
  <2>1. r.run = run_id /\ run_id # 0
    BY <1>6 DEF LoopInv, CoverInv
  <2>2. Reply(r.burst) /\ inflight' = inflight \ {r} /\ run_id' = run_id
    BY <1>1, <2>1
  <2>3. /\ Cardinality(inflight) \in Nat /\ Cardinality(StandardSparse) \in Nat
        /\ Cardinality(inflight') = Cardinality(inflight) - 1
        /\ Cardinality(StandardSparse') =
             IF IsStandardSparse(r.burst) THEN Cardinality(StandardSparse) - 1
             ELSE Cardinality(StandardSparse)
    BY <2>2, RemoveRequest DEF LoopInv
  <2>4. /\ Cardinality(inflight) <= outstanding_requests
        /\ Cardinality(StandardSparse) <= standard_sparse_inflight
    BY <1>6 DEF LoopInv, CoverInv
  <2>5. Cardinality(inflight') \in Nat /\ Cardinality(StandardSparse') \in Nat
    BY <1>2, FS_Subset, FS_CardinalityType DEF StandardSparse
  <2>6. /\ Cardinality(inflight') <= outstanding_requests'
        /\ Cardinality(StandardSparse') <= standard_sparse_inflight'
    BY <2>2, <2>3, <2>4, <2>5, Counters DEF LoopInv, Reply, CountDown
  <2>7. \A q \in inflight' : q.run = run_id
    BY <1>6, <2>2 DEF LoopInv, CoverInv
  <2> QED BY <2>1, <2>2, <2>6, <2>7 DEF CoverInv
<1> QED BY <1>1, <1>2, <1>3, <1>5, <1>6 DEF CoverInv

(* Ageing the requests does not add any.                                   *)
LEMMA AgeRequests ==
  ASSUME NEW S, IsFiniteSet(S)
  PROVE  LET T == {Aged(r) : r \in S}
         IN  IsFiniteSet(T) /\ Cardinality(T) <= Cardinality(S)
<1> DEFINE T == {Aged(r) : r \in S}
           f == [r \in S |-> Aged(r)]
<1>1. f \in Surjection(S, T)
  BY DEF Surjection
<1> HIDE DEF f, T
<1>2. IsFiniteSet(T) /\ Cardinality(T) <= Cardinality(S)
  BY <1>1, FS_Surjection
<1> QED BY <1>2 DEF T

(* The end of a cycle ages the requests and leaves the counters alone.     *)
LEMMA EndCycleStep ==
  ASSUME LoopInv, EndCycle
  PROVE  IsFiniteSet(inflight') /\ ChargedInv' /\ SlotInv' /\ CoverInv'
<1>1. /\ inflight' = {Aged(r) : r \in inflight}
      /\ at = "memory" /\ at' = "while" /\ cycles' = cycles + 1
      /\ UNCHANGED <<run_id, outstanding_requests, standard_sparse_inflight,
                     tsv_bytes_admitted>>
  BY DEF EndCycle
<1>2. StandardSparse' = {Aged(r) : r \in StandardSparse}
  BY <1>1 DEF StandardSparse, Aged
<1>3. IsFiniteSet(StandardSparse) /\ IsFiniteSet(inflight)
  BY FS_Subset DEF LoopInv, StandardSparse
<1>4. /\ IsFiniteSet(inflight')
      /\ IsFiniteSet(StandardSparse')
      /\ Cardinality(inflight') <= Cardinality(inflight)
      /\ Cardinality(StandardSparse') <= Cardinality(StandardSparse)
  BY <1>1, <1>2, <1>3, AgeRequests
<1>5. /\ Cardinality(inflight) \in Nat /\ Cardinality(StandardSparse) \in Nat
      /\ Cardinality(inflight') \in Nat /\ Cardinality(StandardSparse') \in Nat
  BY <1>3, <1>4, FS_CardinalityType
<1>6. ChargedInv' /\ SlotInv'
  BY <1>1, Counters DEF LoopInv, ChargedInv, SlotInv
<1>7. CoverInv'
  <2>1. run_id <= 1 => \A q \in inflight' : q.run = run_id
    BY <1>1 DEF LoopInv, CoverInv, Aged
  <2> QED BY <1>1, <1>4, <1>5, <2>1, Counters DEF LoopInv, CoverInv
<1> QED BY <1>4, <1>6, <1>7

(* Every step keeps the loop invariant.                                    *)
LEMMA LoopStep == LoopInv /\ [Next]_vars => LoopInv'
<1> SUFFICES ASSUME LoopInv, [Next]_vars
             PROVE  LoopInv'
  OBVIOUS
<1>1. TypeOK'
  BY TypeStep DEF LoopInv
<1>0. SUFFICES IsFiniteSet(inflight') /\ ChargedInv' /\ SlotInv' /\ CoverInv'
  BY <1>1 DEF LoopInv
<1>2. CASE CallerEnqueue
  <2>1. UNCHANGED <<at, runVars, tickVars, run_id, inflight>>
    BY <1>2 DEF CallerEnqueue
  <2>2. ChargedInv'
    BY <2>1 DEF LoopInv, ChargedInv, runVars, tickVars
  <2> QED BY <2>1, <2>2, CoverFrame DEF runVars
<1>3. CASE Call
  <2>1. /\ at' = "while" /\ cycles' = 0 /\ tsv_bytes_admitted' = 0
        /\ outstanding_requests' = 0 /\ standard_sparse_inflight' = 0
        /\ run_id' = run_id + 1 /\ inflight' = inflight
    BY <1>3 DEF Call
  <2>2. ChargedInv' /\ SlotInv' /\ IsFiniteSet(inflight')
    BY <2>1, Counters DEF LoopInv, ChargedInv, SlotInv
  <2>3. ASSUME run_id' <= 1
        PROVE  CoverInv'
    <3>1. run_id = 0 /\ inflight' = {} /\ run_id' # 0
      BY <2>1, <2>3, Counters DEF LoopInv, CoverInv
    <3>2. StandardSparse' = {}
      BY <3>1 DEF StandardSparse
    <3> QED BY <2>1, <3>1, <3>2, FS_EmptySet DEF CoverInv
  <2> QED BY <2>2, <2>3 DEF CoverInv
<1>4. CASE Return \/ BeginCycle \/ RouterTick \/ VaultRequest
  <2>1. /\ UNCHANGED <<runVars, tickVars, run_id, inflight>>
        /\ at \notin {"idle", "admit", "memory"} /\ at' \notin {"admit", "memory"}
    BY <1>4 DEF Return, BeginCycle, RouterTick, VaultRequest, ForwardLocal,
      ForwardGlobal, LocalDone, GlobalDone
  <2>2. ChargedInv'
    BY <2>1 DEF LoopInv, ChargedInv, runVars
  <2> QED BY <2>1, <2>2, CoverFrame DEF runVars
<1>5. CASE VaultsTicked
  <2>1. /\ UNCHANGED <<runVars, run_id, inflight>> /\ at = "vaults"
        /\ tsv_used_this_tick' = 0
    BY <1>5 DEF VaultsTicked
  <2>2. ChargedInv'
    BY <2>1, Counters DEF LoopInv, ChargedInv, runVars
  <2> QED BY <2>1, <2>2, CoverFrame DEF runVars
<1>6. CASE StartSweep \/ EndAdmission \/ Skip
  <2>1. /\ UNCHANGED <<runVars, tsv_used_this_tick, run_id, inflight>>
        /\ at = "admit" /\ at' \in {"admit", "memory"}
    BY <1>6 DEF StartSweep, EndAdmission, Skip, tickVars
  <2>2. ChargedInv'
    BY <2>1, Counters DEF LoopInv, ChargedInv, runVars
  <2> QED BY <2>1, <2>2, CoverFrame DEF runVars
<1>7. CASE Admit
  BY <1>7, AdmitStep
<1>8. CASE Complete
  BY <1>8, CompleteStep
<1>9. CASE EndCycle
  BY <1>9, EndCycleStep
<1>10. CASE UNCHANGED vars
  <2>1. UNCHANGED <<at, runVars, tickVars, run_id, inflight>>
    BY <1>10 DEF vars
  <2>2. ChargedInv'
    BY <2>1 DEF LoopInv, ChargedInv, runVars, tickVars
  <2> QED BY <2>1, <2>2, CoverFrame DEF runVars
<1> QED BY <1>2, <1>3, <1>4, <1>5, <1>6, <1>7, <1>8, <1>9, <1>10
        DEF Next, RunStep

(* The loop invariant holds in every state.                                *)
LEMMA LoopInvariant == Spec => []LoopInv
BY LoopInit, LoopStep, PTL DEF Spec

-----------------------------------------------------------------------------
(* What the invariant gives.                                               *)

(* No run ever charges more to the TSV than its peak allows.               *)
THEOREM NeverAboveOracle == Spec => []OracleBound
<1>1. LoopInv => OracleBound
  <2> SUFFICES ASSUME LoopInv, TsvLimitPerTick > 0
               PROVE  tsv_bytes_admitted <= TsvLimitPerTick * AdmittingCycles
    BY DEF OracleBound
  <2>1. CASE at \in {"admit", "memory"}
    <3>1. TsvLimitPerTick * AdmittingCycles = TsvLimitPerTick * cycles + TsvLimitPerTick
      BY <2>1, Counters DEF LoopInv, AdmittingCycles
    <3> QED BY <2>1, <3>1, Counters DEF LoopInv, ChargedInv
  <2>2. CASE at \notin {"admit", "memory"}
    BY <2>2, Counters DEF LoopInv, ChargedInv, AdmittingCycles
  <2> QED BY <2>1, <2>2
<1> QED BY <1>1, LoopInvariant, PTL

(* Serialization admits one standard sparse read at a time.                *)
THEOREM AtMostOneStandardRead == Spec => []SerializedReads
<1>1. LoopInv => SerializedReads
  <2> SUFFICES ASSUME LoopInv, Serialize, run_id <= 1
               PROVE  Cardinality(StandardSparse) <= 1
    BY DEF SerializedReads
  <2>1. Cardinality(StandardSparse) \in Nat
    BY FS_Subset, FS_CardinalityType DEF LoopInv, StandardSparse
  <2> QED BY <2>1, Counters DEF LoopInv, SlotInv, CoverInv
<1> QED BY <1>1, LoopInvariant, PTL

(* A first run that ends early leaves nothing in a port or in the memory   *)
(* system.                                                                 *)
THEOREM EarlyReturnIsDrained == Spec => ReturnedDrained
<1>1. LoopInv /\ [Next]_vars =>
        (FinishedEarly /\ run_id = 1 => NoPendingBursts /\ inflight = {})
  <2> SUFFICES ASSUME LoopInv, [Next]_vars, FinishedEarly, run_id = 1
               PROVE  NoPendingBursts /\ inflight = {}
    OBVIOUS
  <2>1. Return
    BY DEF FinishedEarly, Next, RunStep, CallerEnqueue, Call, BeginCycle, RouterTick,
      ForwardLocal, LocalDone, ForwardGlobal, GlobalDone, VaultRequest, VaultsTicked,
      StartSweep, EndAdmission, Skip, Admit, Complete, EndCycle, vars
  <2>2. ~ has_work
    BY <2>1 DEF Return, FinishedEarly
  <2>3. NoPendingBursts /\ ~ (outstanding_requests > 0)
    BY <2>2, Zenon DEF has_work
  <2>4. Cardinality(inflight) \in Nat /\ Cardinality(inflight) <= outstanding_requests
    BY FS_CardinalityType DEF LoopInv, CoverInv
  <2>5. Cardinality(inflight) = 0
    BY <2>3, <2>4, Counters DEF LoopInv
  <2> QED BY <2>3, <2>5, FS_EmptySet DEF LoopInv
<1> QED BY <1>1, LoopInvariant, PTL DEF Spec, ReturnedDrained

-----------------------------------------------------------------------------
(* The bound on being passed over.                                         *)

(* Every burst that can pass the TSV cap has the same size.                *)
OneSize(z) ==
  \A s \in CallerBursts \cup GatherBursts \cup CoreBursts \cup WritebackBursts :
    Fits(s) => s.size_bytes = z

(* How many ports a scan from c visits before it reaches q.                *)
Distance(c, q) == IF c <= q THEN q - c ELSE q + kNumPseudoChannels - c

(* A port with a burst at its head that can be admitted at some time.      *)
Waiting(p) == ports[p] # <<>> /\ Fits(Head(ports[p]))

(* No burst of z bytes is admitted before the next cycle.                  *)
Stuck(z) ==
  \/ ~ SendAccepts
  \/ TsvLimitPerTick > 0 /\ tsv_used_this_tick + z > TsvLimitPerTick

Uniform(q, z) == \A i \in DOMAIN q : Fits(q[i]) => q[i].size_bytes = z

SizesInv(z) ==
  /\ Uniform(local_queue, z) /\ Uniform(global_queue, z)
  /\ \A p \in PC : Uniform(ports[p], z)

(* In the middle of a sweep the cursor is behind the last port admitted    *)
(* from, and a port between the two that still waits was refused for want  *)
(* of room or bytes.                                                       *)
SweepInv(z) ==
  k < kNumPseudoChannels =>
    /\ at = "admit"
    /\ Distance(sweep_start, rr_cursor) <= k
    /\ \A q \in PC :
         /\ Distance(sweep_start, rr_cursor) <= Distance(sweep_start, q)
         /\ Distance(sweep_start, q) < k
         /\ Waiting(q)
         => Stuck(z)

(* A port that has been passed over n times is n ports closer.             *)
BypassInv ==
  /\ bypass \in [PC -> Nat]
  /\ \A q \in PC : /\ bypass[q] = 0 \/ Waiting(q)
                   /\ bypass[q] + Distance(rr_cursor, q) <= kNumPseudoChannels - 1

(* A step around the ring as an addition that wraps once.                  *)
LEMMA VisitedWraps ==
  ASSUME NEW s \in PC, NEW j \in 0 .. kNumPseudoChannels
  PROVE  Visited(s, j) = IF s + j < kNumPseudoChannels THEN s + j
                         ELSE s + j - kNumPseudoChannels
<1>1. kNumPseudoChannels \in Nat \ {0}
  BY PseudoChannelAssumption
<1>2. CASE s + j < kNumPseudoChannels
  BY <1>1, <1>2 DEF Visited, PC
<1>3. CASE s + j >= kNumPseudoChannels
  <2> DEFINE r == s + j - kNumPseudoChannels
  <2>1. r \in 0 .. kNumPseudoChannels - 1 /\ s + j = kNumPseudoChannels * 1 + r
    BY <1>1, <1>3 DEF PC
  <2>2. (s + j) % kNumPseudoChannels = r
    BY <1>1, <2>1
  <2> QED BY <1>1, <1>3, <2>2 DEF Visited, PC
<1> QED BY <1>1, <1>2, <1>3 DEF PC

(* Distances are those of a ring.                                          *)
LEMMA DistanceType ==
  ASSUME NEW c \in PC, NEW q \in PC
  PROVE  Distance(c, q) \in 0 .. kNumPseudoChannels - 1 /\ Distance(c, c) = 0
BY PseudoChannelAssumption DEF Distance, PC

(* The j-th port of a sweep is at distance j, and no other port is.        *)
LEMMA VisitedDistance ==
  ASSUME NEW s \in PC, NEW j \in 0 .. kNumPseudoChannels - 1, NEW q \in PC
  PROVE  Distance(s, q) = j <=> q = Visited(s, j)
<1>1. Visited(s, j) = IF s + j < kNumPseudoChannels THEN s + j
                      ELSE s + j - kNumPseudoChannels
  BY VisitedWraps, PseudoChannelAssumption
<1> QED BY <1>1, PseudoChannelAssumption DEF Distance, PC

(* Where the cursor is after the j-th port of a sweep was served.          *)
LEMMA CursorAfter ==
  ASSUME NEW s \in PC, NEW j \in 0 .. kNumPseudoChannels - 1
  PROVE  /\ Visited(Visited(s, j), 1) \in PC
         /\ Distance(s, Visited(Visited(s, j), 1)) =
              IF j + 1 < kNumPseudoChannels THEN j + 1 ELSE 0
<1>1. Visited(s, j) \in PC /\ 1 \in 0 .. kNumPseudoChannels
  BY VisitedInPC, PseudoChannelAssumption
<1>2. Visited(Visited(s, j), 1) \in PC
  BY <1>1, VisitedInPC
<1> QED BY <1>1, <1>2, VisitedWraps, PseudoChannelAssumption DEF Distance, PC

(* Serving port j of a sweep from s, with the cursor at c, brings the      *)
(* cursor closer to every port not between the two.                        *)
LEMMA CursorCloser ==
  ASSUME NEW s \in PC, NEW j \in 0 .. kNumPseudoChannels - 1, NEW c \in PC, NEW q \in PC,
         Distance(s, c) <= j, Distance(s, q) # j,
         ~ (Distance(s, c) <= Distance(s, q) /\ Distance(s, q) < j)
  PROVE  Distance(Visited(Visited(s, j), 1), q) + 1 <= Distance(c, q)
<1> DEFINE n == Visited(Visited(s, j), 1)
<1>1. n \in PC /\ Distance(s, n) = IF j + 1 < kNumPseudoChannels THEN j + 1 ELSE 0
  BY CursorAfter
<1> HIDE DEF n
<1>2. \A a, b \in PC : Distance(a, b) =
        IF Distance(s, a) <= Distance(s, b) THEN Distance(s, b) - Distance(s, a)
        ELSE Distance(s, b) + kNumPseudoChannels - Distance(s, a)
  BY PseudoChannelAssumption DEF Distance, PC
<1>3. /\ Distance(s, c) \in 0 .. kNumPseudoChannels - 1
      /\ Distance(s, q) \in 0 .. kNumPseudoChannels - 1
  BY DistanceType
<1> QED BY <1>1, <1>2, <1>3, PseudoChannelAssumption DEF n


-----------------------------------------------------------------------------
(* Sizes.                                                                  *)

(* Parts of uniform sequences are uniform, and so is one that grows by a   *)
(* burst of the uniform size.                                              *)
LEMMA UniformParts ==
  ASSUME NEW q \in Seq(MemoryBurst), NEW z, Uniform(q, z)
  PROVE  /\ \A b \in MemoryBurst : (Fits(b) => b.size_bytes = z) => Uniform(Append(q, b), z)
         /\ q # <<>> => Uniform(Tail(q), z) /\ (Fits(Head(q)) => Head(q).size_bytes = z)
<1>1. ASSUME NEW b \in MemoryBurst, Fits(b) => b.size_bytes = z
      PROVE  Uniform(Append(q, b), z)
  <2>1. \A i \in DOMAIN Append(q, b) :
          (i \in DOMAIN q /\ Append(q, b)[i] = q[i]) \/ Append(q, b)[i] = b
    OBVIOUS
  <2> QED BY <1>1, <2>1 DEF Uniform
<1>2. ASSUME q # <<>>
      PROVE  Uniform(Tail(q), z) /\ (Fits(Head(q)) => Head(q).size_bytes = z)
  <2>1. \A i \in DOMAIN Tail(q) : i + 1 \in DOMAIN q /\ Tail(q)[i] = q[i + 1]
    BY <1>2
  <2>2. Head(q) = q[1] /\ 1 \in DOMAIN q
    BY <1>2
  <2> QED BY <2>1, <2>2 DEF Uniform
<1> QED BY <1>1, <1>2

(* A client's burst has the uniform size if it can pass the cap at all.    *)
LEMMA NewBurstFits ==
  ASSUME NEW z, OneSize(z), NEW awaited,
         NEW s \in CallerBursts \cup GatherBursts \cup CoreBursts \cup WritebackBursts
  PROVE  Fits(NewBurst(s, awaited)) => NewBurst(s, awaited).size_bytes = z
BY DEF NewBurst, Fits, OneSize

(* A burst is put at the end of a port, or of a queue of the router.       *)
LEMMA EnqueueSizes ==
  ASSUME NEW z, TypeOK, SizesInv(z), NEW b \in MemoryBurst, NEW p \in PC,
         Fits(b) => b.size_bytes = z, enqueue(p, b)
  PROVE  (\A q \in PC : Uniform(ports'[q], z)) /\ (\A q \in PC : Waiting(q) => Waiting(q)')
<1>1. /\ ports \in [PC -> Seq(MemoryBurst)]
      /\ \A q \in PC : ports'[q] = IF q = p THEN Append(ports[p], b) ELSE ports[q]
  BY DEF enqueue, TypeOK, MuxTypeOK
<1>2. \A q \in PC : Uniform(ports'[q], z)
  BY <1>1, UniformParts DEF SizesInv
<1>3. \A s \in Seq(MemoryBurst) : s # <<>> =>
        Append(s, b) # <<>> /\ Head(Append(s, b)) = Head(s)
  OBVIOUS
<1>4. \A q \in PC : ports[q] # <<>> => ports'[q] # <<>> /\ Head(ports'[q]) = Head(ports[q])
  BY <1>1, <1>3
<1> QED BY <1>2, <1>4 DEF Waiting, Fits

LEMMA EnqueueRequestSizes ==
  ASSUME NEW z, TypeOK, SizesInv(z), NEW b \in MemoryBurst,
         Fits(b) => b.size_bytes = z, enqueue_request(b)
  PROVE  Uniform(local_queue', z) /\ Uniform(global_queue', z)
BY UniformParts DEF enqueue_request, TypeOK, RouterTypeOK, SizesInv

(* What a step other than an admission does to ports and queues: it leaves *)
(* sizes uniform and waiting ports waiting.                                *)
LEMMA QuietSizes ==
  ASSUME NEW z, OneSize(z), TypeOK, SizesInv(z), Next, ~ Admit
  PROVE  SizesInv(z)' /\ \A q \in PC : Waiting(q) => Waiting(q)'
<1>0. /\ ports \in [PC -> Seq(MemoryBurst)]
      /\ local_queue \in Seq(MemoryBurst) /\ global_queue \in Seq(MemoryBurst)
  BY DEF TypeOK, MuxTypeOK, RouterTypeOK
<1>1. /\ SizesInv(z)' <=>
           /\ Uniform(local_queue', z) /\ Uniform(global_queue', z)
           /\ \A p \in PC : Uniform(ports'[p], z)
      /\ ports' = ports => \A q \in PC : Waiting(q) => Waiting(q)'
  BY DEF SizesInv, Uniform, Waiting, Fits
<1>2. CASE CallerEnqueue
  <2>1. PICK s \in CallerBursts : CallerEnqueue!(s)
    BY <1>2 DEF CallerEnqueue
  <2>2. NewBurst(s, FALSE) \in MemoryBurst /\ s.pc_id \in PC
    BY NewBurstType, SimulatorAssumption
  <2>3. UNCHANGED routerVars /\ enqueue(s.pc_id, NewBurst(s, FALSE))
    BY <2>1
  <2> QED BY <1>1, <2>2, <2>3, NewBurstFits, EnqueueSizes DEF routerVars, SizesInv
<1>3. CASE BeginCycle
  <2>1. CASE \E s \in GatherBursts : enqueue(s.pc_id, NewBurst(s, TRUE))
    <3>1. PICK s \in GatherBursts : enqueue(s.pc_id, NewBurst(s, TRUE))
      BY <2>1
    <3>2. NewBurst(s, TRUE) \in MemoryBurst /\ s.pc_id \in PC
      BY NewBurstType, SimulatorAssumption
    <3>3. UNCHANGED <<local_queue, global_queue>>
      BY <1>3 DEF BeginCycle, AddCredit
    <3> QED BY <1>1, <3>1, <3>2, <3>3, NewBurstFits, EnqueueSizes DEF SizesInv
  <2>2. CASE UNCHANGED ports
    BY <1>1, <1>3, <2>2 DEF BeginCycle, AddCredit, SizesInv
  <2> QED BY <1>3, <2>1, <2>2 DEF BeginCycle
<1>4. CASE RouterTick
  <2>1. CASE ForwardLocal
    <3>1. /\ local_queue # <<>> /\ enqueue(Head(local_queue).pc_id, Head(local_queue))
          /\ local_queue' = Tail(local_queue) /\ global_queue' = global_queue
      BY <2>1 DEF ForwardLocal, CanPay
    <3>2. Head(local_queue) \in MemoryBurst /\ Head(local_queue).pc_id \in PC
      <4>1. Head(local_queue) \in MemoryBurst
        BY <1>0, <3>1
      <4> QED BY <4>1 DEF MemoryBurst
    <3>3. /\ Uniform(Tail(local_queue), z)
          /\ Fits(Head(local_queue)) => Head(local_queue).size_bytes = z
      BY <1>0, <3>1, UniformParts DEF SizesInv
    <3> QED BY <1>1, <3>1, <3>2, <3>3, EnqueueSizes DEF SizesInv
  <2>2. CASE ForwardGlobal
    <3>1. /\ global_queue # <<>> /\ enqueue(Head(global_queue).pc_id, Head(global_queue))
          /\ global_queue' = Tail(global_queue) /\ local_queue' = local_queue
      BY <2>2 DEF ForwardGlobal, CanPay
    <3>2. Head(global_queue) \in MemoryBurst /\ Head(global_queue).pc_id \in PC
      <4>1. Head(global_queue) \in MemoryBurst
        BY <1>0, <3>1
      <4> QED BY <4>1 DEF MemoryBurst
    <3>3. /\ Uniform(Tail(global_queue), z)
          /\ Fits(Head(global_queue)) => Head(global_queue).size_bytes = z
      BY <1>0, <3>1, UniformParts DEF SizesInv
    <3> QED BY <1>1, <3>1, <3>2, <3>3, EnqueueSizes DEF SizesInv
  <2>3. CASE LocalDone \/ GlobalDone("vaults")
    BY <1>1, <2>3 DEF LocalDone, GlobalDone, muxVars, routerVars, SizesInv
  <2> QED BY <1>4, <2>1, <2>2, <2>3 DEF RouterTick
<1>5. CASE VaultRequest
  <2>1. PICK s \in CoreBursts \cup WritebackBursts, awaited \in BOOLEAN :
          enqueue_request(NewBurst(s, awaited))
    BY <1>5 DEF VaultRequest
  <2>2. NewBurst(s, awaited) \in MemoryBurst
    BY NewBurstType, SimulatorAssumption
  <2>3. ports' = ports
    BY <1>5 DEF VaultRequest, muxVars
  <2> QED BY <1>1, <2>1, <2>2, <2>3, NewBurstFits, EnqueueRequestSizes DEF SizesInv
<1>6. CASE UNCHANGED <<ports, local_queue, global_queue>>
  BY <1>1, <1>6 DEF SizesInv
<1>7. CASE \/ Call \/ Return \/ VaultsTicked \/ StartSweep \/ EndAdmission \/ Skip
           \/ Complete \/ EndCycle
  BY <1>6, <1>7 DEF Call, Return, VaultsTicked, StartSweep, EndAdmission, Skip,
     Complete, EndCycle, muxVars, routerVars
<1> QED BY <1>2, <1>3, <1>4, <1>5, <1>7 DEF Next, RunStep

-----------------------------------------------------------------------------
(* The invariant, its steps and the theorem.                               *)

FairInv(z) == TypeOK /\ SizesInv(z) /\ SweepInv(z) /\ BypassInv

(* The initial state.                                                      *)
LEMMA FairInit == ASSUME NEW z PROVE PortsInit => FairInv(z)
<1> SUFFICES ASSUME PortsInit PROVE FairInv(z)
  OBVIOUS
<1>1. TypeOK
  BY TypeInit DEF PortsInit
<1>2. SizesInv(z) /\ SweepInv(z)
  <2>1. \A i \in DOMAIN << >> : FALSE
    OBVIOUS
  <2> QED BY <2>1, PseudoChannelAssumption
          DEF PortsInit, Init, MuxInit, RouterInit, SizesInv, SweepInv, Uniform
<1>3. BypassInv
  BY <1>1, DistanceType DEF PortsInit, BypassInv, TypeOK, MuxTypeOK
<1> QED BY <1>1, <1>2, <1>3 DEF FairInv

(* A step other than an admission counts nothing and keeps the bound.      *)
LEMMA QuietStep ==
  ASSUME NEW z, OneSize(z), ~ Serialize, FairInv(z), PortsNext, ~ Admit
  PROVE  FairInv(z)'
<1> USE DEF FairInv
<1>1. Next /\ CountBypass
  BY DEF PortsNext
<1>2. TypeOK'
  BY <1>1, TypeStep
<1>3. SizesInv(z)' /\ \A q \in PC : Waiting(q) => Waiting(q)'
  BY <1>1, QuietSizes
<1>4. rr_cursor' = rr_cursor
  BY <1>1 DEF Next, RunStep, CallerEnqueue, Call, Return, BeginCycle, RouterTick,
     ForwardLocal, LocalDone, ForwardGlobal, GlobalDone, VaultRequest, VaultsTicked,
     StartSweep, EndAdmission, Skip, Complete, EndCycle, muxVars
<1>5. tsv_bytes_admitted' \in {0, tsv_bytes_admitted}
  BY <1>1 DEF Next, RunStep, CallerEnqueue, Call, Return, BeginCycle, RouterTick,
     VaultRequest, VaultsTicked, StartSweep, EndAdmission, Skip, Complete, EndCycle, runVars
<1>6. bypass' = bypass
  BY <1>1, <1>5 DEF CountBypass, TypeOK
<1>7. BypassInv'
  <2>1. \A a, b : Distance(a, b)' = Distance(a, b)
    BY DEF Distance
  <2> QED BY <1>3, <1>4, <1>6 DEF BypassInv, Distance
<1>8. SweepInv(z)'
  <2>1. CASE Skip
    <3> DEFINE p == Visited(sweep_start, k)
               d(q) == Distance(sweep_start, q)
    <3>1. /\ at = "admit" /\ at' = at /\ k < kNumPseudoChannels /\ k' = k + 1
          /\ ~ Admissible(p)
          /\ UNCHANGED <<ports, rr_cursor, sweep_start, tsv_used_this_tick, inflight>>
      BY <2>1 DEF Skip, muxVars
    <3>2. /\ k \in 0 .. kNumPseudoChannels - 1 /\ rr_cursor \in PC /\ sweep_start \in PC
          /\ ports \in [PC -> Seq(MemoryBurst)]
      BY <3>1, PseudoChannelAssumption DEF TypeOK, MuxTypeOK
    <3>3. p \in PC /\ \A q \in PC : d(q) = k <=> q = p
      BY <3>2, VisitedInPC, VisitedDistance
    <3>4. Waiting(p) => Stuck(z)
      <4> SUFFICES ASSUME Waiting(p) PROVE Stuck(z)
        OBVIOUS
      <4>1. ports[p] # <<>> /\ Fits(Head(ports[p])) /\ ports[p] \in Seq(MemoryBurst)
        BY <3>2, <3>3 DEF Waiting
      <4> HIDE DEF p
      <4>2. Head(ports[p]).size_bytes = z
        BY <3>3, <4>1, UniformParts DEF SizesInv
      <4>3. TsvBlocks(Head(ports[p])) \/ ~ SendAccepts
        BY <3>1, <4>1 DEF Admissible, SerializeBlocks
      <4> QED BY <4>2, <4>3 DEF Stuck, TsvBlocks
    <3>5. \A q \in PC : d(q) \in Nat
      BY <3>2, DistanceType
    <3>6. d(rr_cursor) <= k /\ \A q \in PC :
            d(rr_cursor) <= d(q) /\ d(q) < k /\ Waiting(q) => Stuck(z)
      BY <3>1 DEF SweepInv
    <3> HIDE DEF p, d
    <3>7. d(rr_cursor) <= k + 1 /\ \A q \in PC :
            d(rr_cursor) <= d(q) /\ d(q) < k + 1 /\ Waiting(q) => Stuck(z)
      BY <3>2, <3>3, <3>4, <3>5, <3>6
    <3> QED BY <3>1, <3>7 DEF SweepInv, d, Distance, Waiting, Fits, Stuck, SendAccepts
  <2>2. CASE StartSweep
    <3>1. k' = 0 /\ at' = "admit" /\ sweep_start' = rr_cursor /\ rr_cursor' = rr_cursor
      BY <2>2 DEF StartSweep, muxVars
    <3>2. rr_cursor \in PC
      BY DEF TypeOK, MuxTypeOK
    <3>3. \A q \in PC : Distance(rr_cursor, q) \in Nat /\ Distance(rr_cursor, rr_cursor) = 0
      BY <3>2, DistanceType
    <3> QED BY <3>1, <3>2, <3>3 DEF SweepInv, Distance
  <2>3. CASE ~ Skip /\ ~ StartSweep
    <3>1. k' = kNumPseudoChannels
      <4>1. k' \in {k, kNumPseudoChannels} /\ (at # "admit" \/ k = kNumPseudoChannels)
        BY <1>1, <2>3 DEF Next, RunStep, CallerEnqueue, Call, Return, BeginCycle,
           RouterTick, ForwardLocal, LocalDone, ForwardGlobal, GlobalDone, VaultRequest,
           VaultsTicked, EndAdmission, Complete, EndCycle, tickVars
      <4> QED BY <4>1, PseudoChannelAssumption DEF SweepInv, TypeOK
    <3> QED BY <3>1, PseudoChannelAssumption DEF SweepInv
  <2> QED BY <2>1, <2>2, <2>3
<1> QED BY <1>2, <1>3, <1>7, <1>8

(* An admission passes over the waiting ports that it brings the cursor    *)
(* closer to.                                                              *)
LEMMA AdmitBypass ==
  ASSUME NEW z \in Nat \ {0}, OneSize(z), ~ Serialize, FairInv(z), PortsNext, Admit
  PROVE  FairInv(z)'
<1> USE DEF FairInv
<1> DEFINE p == Visited(sweep_start, k)
           b == Head(ports[p])
<1>1. /\ at = "admit" /\ at' = at /\ k < kNumPseudoChannels /\ k' = k + 1
      /\ Admissible(p)
      /\ ports' = [ports EXCEPT ![p] = Tail(@)]
      /\ rr_cursor' = Visited(p, 1)
      /\ tsv_bytes_admitted' = tsv_bytes_admitted + b.size_bytes
      /\ UNCHANGED <<local_queue, global_queue, sweep_start>>
  BY DEF Admit, pop, advance_after_issue, routerVars
<1>2. /\ k \in 0 .. kNumPseudoChannels - 1 /\ rr_cursor \in PC /\ sweep_start \in PC
      /\ ports \in [PC -> Seq(MemoryBurst)] /\ tsv_bytes_admitted \in Nat
      /\ tsv_used_this_tick \in Nat
  BY <1>1, PseudoChannelAssumption DEF TypeOK, MuxTypeOK
<1>3. p \in PC /\ \A q \in PC : Distance(sweep_start, q) = k <=> q = p
  BY <1>2, VisitedInPC, VisitedDistance
<1>4. TypeOK'
  BY TypeStep DEF PortsNext
<1>5. ports[p] # <<>> /\ ports[p] \in Seq(MemoryBurst)
  BY <1>1, <1>2, <1>3 DEF Admissible
<1>6. Fits(b)
  <2>1. b.size_bytes \in Nat
    <3>1. b \in MemoryBurst
      BY <1>5
    <3> QED BY <3>1 DEF MemoryBurst
  <2>2. ~ TsvBlocks(b)
    BY <1>1 DEF Admissible
  <2> HIDE DEF b
  <2> QED BY <1>2, <2>1, <2>2, SimulatorAssumption DEF TsvBlocks, Fits
<1>7. b.size_bytes = z /\ Uniform(Tail(ports[p]), z)
  BY <1>3, <1>5, <1>6, UniformParts DEF SizesInv
<1>8. ~ Stuck(z)
  BY <1>1, <1>7 DEF Admissible, TsvBlocks, Stuck
<1>9. bypass' = [q \in PC |->
         IF q = p \/ ports[q] = <<>> \/ ~ Fits(Head(ports[q])) THEN 0 ELSE bypass[q] + 1]
  BY <1>1, <1>2, <1>7 DEF PortsNext, CountBypass, Served
<1> HIDE DEF p, b
<1>10. SizesInv(z)'
  <2>1. \A q \in PC : ports'[q] = IF q = p THEN Tail(ports[p]) ELSE ports[q]
    BY <1>1, <1>2
  <2> QED BY <1>1, <1>7, <2>1 DEF SizesInv, Uniform, Fits
<1>11. BypassInv'
  <2>1. rr_cursor' \in PC
    BY <1>4 DEF TypeOK, MuxTypeOK
  <2>2. bypass' \in [PC -> Nat]
    BY <1>9 DEF BypassInv
  <2>3. ASSUME NEW q \in PC
        PROVE  /\ bypass'[q] = 0 \/ Waiting(q)'
               /\ bypass'[q] + Distance(rr_cursor', q) <= kNumPseudoChannels - 1
    <3>1. CASE q = p \/ ~ Waiting(q)
      <4>1. bypass'[q] = 0
        BY <1>9, <3>1 DEF Waiting
      <4>2. Distance(rr_cursor', q) \in 0 .. kNumPseudoChannels - 1
        BY <2>1, DistanceType
      <4> QED BY <4>1, <4>2, PseudoChannelAssumption
    <3>2. CASE q # p /\ Waiting(q)
      <4>1. bypass'[q] = bypass[q] + 1
        BY <1>9, <3>2 DEF Waiting
      <4>2. Waiting(q)'
        BY <1>1, <1>2, <3>2 DEF Waiting, Fits
      <4>3. /\ Distance(sweep_start, rr_cursor) <= k
            /\ Distance(sweep_start, q) # k
            /\ ~ (/\ Distance(sweep_start, rr_cursor) <= Distance(sweep_start, q)
                  /\ Distance(sweep_start, q) < k)
        BY <1>1, <1>3, <1>8, <3>2 DEF SweepInv
      <4>4. Distance(rr_cursor', q) + 1 <= Distance(rr_cursor, q)
        BY <1>1, <1>2, <4>3, CursorCloser DEF p
      <4>5. /\ bypass[q] \in Nat
            /\ bypass[q] + Distance(rr_cursor, q) <= kNumPseudoChannels - 1
            /\ Distance(rr_cursor', q) \in Nat /\ Distance(rr_cursor, q) \in Nat
        BY <1>2, <2>1, DistanceType DEF BypassInv
      <4> QED BY <4>1, <4>2, <4>4, <4>5, PseudoChannelAssumption
    <3> QED BY <3>1, <3>2
  <2> QED BY <2>2, <2>3 DEF BypassInv, Distance
<1>12. SweepInv(z)'
  <2>1. CASE k + 1 < kNumPseudoChannels
    <3>1. Distance(sweep_start, rr_cursor') = k + 1
      BY <1>1, <1>2, <2>1, CursorAfter DEF p
    <3>2. \A q \in PC : Distance(sweep_start, q) \in Nat
      BY <1>2, DistanceType
    <3>3. \A q \in PC : ~ (k + 1 <= Distance(sweep_start, q) /\ Distance(sweep_start, q) < k + 1)
      BY <1>2, <3>2
    <3> QED BY <1>1, <1>2, <3>1, <3>3 DEF SweepInv, Distance
  <2>2. CASE ~ (k + 1 < kNumPseudoChannels)
    BY <1>1, <2>2 DEF SweepInv
  <2> QED BY <2>1, <2>2
<1> QED BY <1>4, <1>10, <1>11, <1>12

(* Without serialization, among fitting bursts of one size, no port is     *)
(* passed over more than once for every other port, for any number of      *)
(* ports, any cap and any memory system.                                   *)
THEOREM PortsServedInTurn ==
  ASSUME NEW z \in Nat \ {0}, OneSize(z), ~ Serialize
  PROVE  PortsSpec => []BoundedBypass
<1>1. PortsInit => FairInv(z)
  BY FairInit
<1>2. FairInv(z) /\ [PortsNext]_<<vars, bypass>> => FairInv(z)'
  <2> SUFFICES ASSUME FairInv(z), [PortsNext]_<<vars, bypass>> PROVE FairInv(z)'
    OBVIOUS
  <2>1. CASE PortsNext
    BY <2>1, QuietStep, AdmitBypass
  <2>2. CASE UNCHANGED <<vars, bypass>>
    <3>1. TypeOK'
      BY <2>2, TypeStep DEF FairInv
    <3> QED BY <2>2, <3>1 DEF vars, muxVars, routerVars, runVars, tickVars, FairInv,
            SizesInv, Uniform, SweepInv, BypassInv, Distance, Waiting, Fits, Stuck, SendAccepts
  <2> QED BY <2>1, <2>2
<1>3. FairInv(z) => BoundedBypass
  <2> SUFFICES ASSUME FairInv(z), NEW q \in PC PROVE bypass[q] <= kNumPseudoChannels - 1
    BY DEF BoundedBypass
  <2>1. /\ bypass[q] \in Nat /\ Distance(rr_cursor, q) \in Nat
        /\ bypass[q] + Distance(rr_cursor, q) <= kNumPseudoChannels - 1
    BY DistanceType DEF FairInv, BypassInv, TypeOK, MuxTypeOK
  <2> QED BY <2>1, PseudoChannelAssumption
<1> QED BY <1>1, <1>2, <1>3, PTL DEF PortsSpec
-----------------------------------------------------------------------------
(* When the admission phase ends.                                          *)

(* A sweep that has admitted nothing yet leaves behind it only ports that  *)
(* could not be admitted from, and cannot be now.                          *)
RefusedInv ==
  at = "admit" /\ ~ wave_progress =>
    \A j \in 0 .. k - 1 : ~ Admissible(Visited(sweep_start, j))

(* What admissibility depends on.                                          *)
LEMMA AdmissibleFrame ==
  ASSUME UNCHANGED <<ports, standard_sparse_inflight, tsv_used_this_tick, inflight,
                     sweep_start>>,
         NEW j, ~ Admissible(Visited(sweep_start, j))
  PROVE  ~ Admissible(Visited(sweep_start, j))'
BY DEF Admissible, SerializeBlocks, TsvBlocks, SendAccepts, Visited

(* Every step keeps the refusals.                                          *)
LEMMA RefusedStep == TypeOK /\ RefusedInv /\ [Next]_vars => RefusedInv'
<1> SUFFICES ASSUME TypeOK, RefusedInv, [Next]_vars, at' = "admit", ~ wave_progress'
             PROVE  \A j \in 0 .. k' - 1 : ~ Admissible(Visited(sweep_start, j))'
  BY DEF RefusedInv
<1>1. CASE StartSweep
  BY <1>1 DEF StartSweep
<1>2. CASE Skip
  <2>1. /\ at = "admit" /\ ~ wave_progress /\ k' = k + 1 /\ sweep_start' = sweep_start
        /\ ~ Admissible(Visited(sweep_start, k))
        /\ UNCHANGED <<ports, standard_sparse_inflight, tsv_used_this_tick, inflight>>
    BY <1>2, Zenon DEF Skip, runVars, muxVars
  <2>2. k \in Nat
    BY DEF TypeOK
  <2>3. \A j \in 0 .. k : ~ Admissible(Visited(sweep_start, j))
    BY <2>1, <2>2 DEF RefusedInv
  <2>4. 0 .. k' - 1 = 0 .. k
    BY <2>1, <2>2
  <2> QED BY <2>1, <2>3, <2>4, AdmissibleFrame
<1>3. CASE UNCHANGED vars
  <2>1. UNCHANGED <<ports, standard_sparse_inflight, tsv_used_this_tick, inflight,
                    at, wave_progress, k, sweep_start>>
    BY <1>3 DEF vars, muxVars, runVars, tickVars
  <2> QED BY <2>1, AdmissibleFrame DEF RefusedInv
<1>4. CASE VaultsTicked \/ Admit
  BY <1>4, Zenon DEF VaultsTicked, Admit
<1> QED BY <1>1, <1>2, <1>3, <1>4 DEF Next, RunStep, CallerEnqueue, Call, Return,
      BeginCycle, RouterTick, ForwardLocal, LocalDone, ForwardGlobal, GlobalDone,
      VaultRequest, EndAdmission, Complete, EndCycle

(* The admission phase ends only when no port has a burst that could be    *)
(* admitted, or when it has used up its waves: a sweep without an admission*)
(* has passed every port, and nothing changed under it.                    *)
THEOREM AdmissionEndsExhausted == Spec => WavesExhaustAdmission
<1>1. Init => RefusedInv
  BY DEF Init, RefusedInv
<1>2. TypeOK /\ RefusedInv /\ [Next]_vars =>
        (at = "admit" /\ at' = "memory" =>
           wave_count = kMaxWavesPerTick \/ \A p \in PC : ~ Admissible(p))
  <2> SUFFICES ASSUME TypeOK, RefusedInv, [Next]_vars, at = "admit", at' = "memory",
                      wave_count # kMaxWavesPerTick, NEW p \in PC
               PROVE  ~ Admissible(p)
    OBVIOUS
  <2>1. EndAdmission
    BY DEF Next, RunStep, CallerEnqueue, Call, Return, BeginCycle, RouterTick,
      ForwardLocal, LocalDone, ForwardGlobal, GlobalDone, VaultRequest, VaultsTicked,
      StartSweep, Skip, Admit, Complete, EndCycle, vars
  <2>2. k = kNumPseudoChannels /\ ~ NextWave
    BY <2>1 DEF EndAdmission
  <2>3. wave_count < kMaxWavesPerTick /\ sweep_start \in PC
    BY SimulatorAssumption DEF TypeOK
  <2>4. ~ wave_progress
    BY <2>2, <2>3, Zenon DEF NextWave
  <2>5. Distance(sweep_start, p) \in 0 .. k - 1
    BY <2>2, <2>3, DistanceType
  <2>6. p = Visited(sweep_start, Distance(sweep_start, p))
    BY <2>2, <2>3, <2>5, VisitedDistance
  <2> QED BY <2>4, <2>5, <2>6 DEF RefusedInv
<1> QED BY <1>1, <1>2, RefusedStep, TypeCorrect, PTL DEF Spec, WavesExhaustAdmission
-----------------------------------------------------------------------------
(* Sums over finite sets: SumFunctionOnSet of the community modules is a   *)
(* recursion over the subsets of its index set.                            *)

(* The element that a sum takes out first.                                 *)
Pick(s) == CHOOSE x \in s : TRUE

(* g tabulates the sums of f over the subsets of S.                        *)
Tabulates(g, f, S) ==
  g = [s \in SUBSET S |-> IF s = {} THEN 0 ELSE f[Pick(s)] + g[s \ {Pick(s)}]]

LEMMA SumUnfold ==
  ASSUME NEW f, NEW S
  PROVE  SumFunctionOnSet(f, S) = (CHOOSE g : Tabulates(g, f, S))[S]
BY Zenon DEF SumFunctionOnSet, FoldFunctionOnSet, MapThenFoldSet, Tabulates, Pick

(* A nonempty collection of subsets of a finite set has a minimal one.     *)
LEMMA MinimalSubset ==
  ASSUME NEW S, IsFiniteSet(S), NEW B \in SUBSET (SUBSET S), B # {}
  PROVE  \E U \in B : \A V \in B : V \subseteq U => V = U
<1>1. IsWellFoundedOn(StrictSubsetOrdering(S), SUBSET S)
  BY FS_StrictSubsetOrderingWellFounded, FS_FiniteSubsetsOfFinite
<1>2. PICK U \in B : \A V \in B : <<V, U>> \notin StrictSubsetOrdering(S)
  BY <1>1, WFMin
<1>3. \A V \in B : V \subseteq U => V = U
  BY <1>2 DEF StrictSubsetOrdering
<1> QED BY <1>3

(* Two tables agree on the sets on which the functions they sum agree.     *)
LEMMA TablesAgree ==
  ASSUME NEW S, IsFiniteSet(S), NEW T, NEW f, NEW e, NEW g, NEW h,
         Tabulates(g, f, S), Tabulates(h, e, T),
         NEW U \in SUBSET S, U \subseteq T, \A x \in U : f[x] = e[x]
  PROVE  g[U] = h[U]
<1> DEFINE B == {V \in SUBSET U : g[V] # h[V]}
<1>1. CASE B = {}
  BY <1>1
<1>2. CASE B # {}
  <2>0. IsFiniteSet(U) /\ B \in SUBSET (SUBSET U)
    BY FS_Subset
  <2>1. PICK V \in B : \A W \in B : W \subseteq V => W = V
    <3> HIDE DEF B
    <3> QED BY <1>2, <2>0, MinimalSubset
  <2>2. /\ g[V] = IF V = {} THEN 0 ELSE f[Pick(V)] + g[V \ {Pick(V)}]
        /\ h[V] = IF V = {} THEN 0 ELSE e[Pick(V)] + h[V \ {Pick(V)}]
    BY <2>1 DEF Tabulates
  <2>3. V # {} => Pick(V) \in V
    BY DEF Pick
  <2>4. V # {} => V \ {Pick(V)} \notin B /\ f[Pick(V)] = e[Pick(V)]
    BY <2>1, <2>3
  <2>5. V # {} => g[V \ {Pick(V)}] = h[V \ {Pick(V)}]
    BY <2>1, <2>4
  <2> QED BY <2>1, <2>2, <2>4, <2>5
<1> QED BY <1>1, <1>2

(* Every finite set has a table.                                           *)
LEMMA TableExists ==
  ASSUME NEW S, IsFiniteSet(S), NEW f
  PROVE  \E g : Tabulates(g, f, S)
<1> DEFINE B == {V \in SUBSET S : \A g : ~ Tabulates(g, f, V)}
<1>1. CASE B = {}
  BY <1>1
<1>2. CASE B # {}
  <2>0. B \in SUBSET (SUBSET S)
    OBVIOUS
  <2>1. PICK V \in B : \A W \in B : W \subseteq V => W = V
    <3> HIDE DEF B
    <3> QED BY <1>2, <2>0, MinimalSubset
  \* the tables of the proper subsets of V, each looked up at the top
  <2> DEFINE T(W) == CHOOSE g : Tabulates(g, f, W)
             g0 == [W \in SUBSET V |->
                      IF W # V THEN T(W)[W]
                      ELSE IF V = {} THEN 0
                      ELSE f[Pick(V)] + T(V \ {Pick(V)})[V \ {Pick(V)}]]
  <2>2. \A W \in SUBSET V : W # V => Tabulates(T(W), f, W)
    BY <2>1
  <2>3. ASSUME NEW W \in SUBSET V
        PROVE  g0[W] = IF W = {} THEN 0 ELSE f[Pick(W)] + g0[W \ {Pick(W)}]
    <3>1. W # {} => Pick(W) \in W
      BY DEF Pick
    <3>2. CASE W = V
      <4>1. V # {} => V \ {Pick(V)} # V /\ V \ {Pick(V)} \in SUBSET V
        BY <3>1, <3>2
      <4> QED BY <3>2, <4>1
    <3>3. CASE W # V
      <4>1. Tabulates(T(W), f, W)
        BY <2>2, <3>3
      <4>2. T(W)[W] = IF W = {} THEN 0 ELSE f[Pick(W)] + T(W)[W \ {Pick(W)}]
        <5> HIDE DEF T
        <5> QED BY <4>1, Zenon DEF Tabulates
      <4>3. ASSUME W # {}
            PROVE  T(W)[W \ {Pick(W)}] = g0[W \ {Pick(W)}]
        <5> DEFINE X == W \ {Pick(W)}
        <5>1. X \in SUBSET V /\ X # V /\ X \in SUBSET W /\ IsFiniteSet(W)
          BY <3>1, <3>3, <4>3, FS_Subset
        <5>2. Tabulates(T(X), f, X)
          BY <2>2, <5>1
        <5>3. T(W)[X] = T(X)[X]
          <6> HIDE DEF T, X
          <6> QED BY <4>1, <5>1, <5>2, TablesAgree
        <5> QED BY <5>1, <5>3
      <4> QED BY <3>3, <4>2, <4>3
    <3> QED BY <3>2, <3>3
  <2>4. Tabulates(g0, f, V)
    <3>1. g0 = [W \in SUBSET V |-> g0[W]]
      OBVIOUS
    <3> HIDE DEF g0
    <3> QED BY <2>3, <3>1, Zenon DEF Tabulates
  <2> QED BY <2>1, <2>4
<1> QED BY <1>1, <1>2

(* The sum is what any table says.                                         *)
LEMMA SumTable ==
  ASSUME NEW S, IsFiniteSet(S), NEW f
  PROVE  \E g : /\ Tabulates(g, f, S)
                /\ \A U \in SUBSET S : SumFunctionOnSet(f, U) = g[U]
<1>1. PICK g : Tabulates(g, f, S)
  BY TableExists
<1>2. ASSUME NEW U \in SUBSET S
      PROVE  SumFunctionOnSet(f, U) = g[U]
  <2> DEFINE h == CHOOSE h : Tabulates(h, f, U)
  <2>1. IsFiniteSet(U)
    BY FS_Subset
  <2>2. Tabulates(h, f, U)
    BY <2>1, TableExists
  <2>3. SumFunctionOnSet(f, U) = h[U]
    BY SumUnfold
  <2> HIDE DEF h
  <2> QED BY <1>1, <2>1, <2>2, <2>3, TablesAgree
<1> QED BY <1>1, <1>2

(* The empty sum, and the element taken out first.                         *)
LEMMA SumRecursion ==
  ASSUME NEW S, IsFiniteSet(S), NEW f
  PROVE  /\ SumFunctionOnSet(f, {}) = 0
         /\ S # {} => /\ Pick(S) \in S
                      /\ SumFunctionOnSet(f, S)
                           = f[Pick(S)] + SumFunctionOnSet(f, S \ {Pick(S)})
<1>1. PICK g : /\ Tabulates(g, f, S)
               /\ \A U \in SUBSET S : SumFunctionOnSet(f, U) = g[U]
  BY SumTable
<1>2. \A U \in SUBSET S : g[U] = IF U = {} THEN 0 ELSE f[Pick(U)] + g[U \ {Pick(U)}]
  BY <1>1, Zenon DEF Tabulates
<1>3. S # {} => Pick(S) \in S
  BY DEF Pick
<1>4. g[{}] = 0 /\ (S # {} => g[S] = f[Pick(S)] + g[S \ {Pick(S)}])
  BY <1>2
<1>5. {} \in SUBSET S /\ S \in SUBSET S /\ S \ {Pick(S)} \in SUBSET S
  OBVIOUS
<1> QED BY <1>1, <1>3, <1>4, <1>5

(* Sums of naturals are naturals, and any element can be taken out first.  *)
LEMMA SumRemove ==
  ASSUME NEW S, IsFiniteSet(S), NEW f, \A y \in S : f[y] \in Nat
  PROVE  /\ SumFunctionOnSet(f, S) \in Nat
         /\ \A x \in S : SumFunctionOnSet(f, S) = f[x] + SumFunctionOnSet(f, S \ {x})
<1> DEFINE Z(U) == SumFunctionOnSet(f, U)
           Good(U) == Z(U) \in Nat /\ \A x \in U : Z(U) = f[x] + Z(U \ {x})
           B == {U \in SUBSET S : ~ Good(U)}
<1>1. CASE B = {}
  BY <1>1
<1>2. CASE B # {}
  <2>0. B \in SUBSET (SUBSET S)
    OBVIOUS
  <2>1. PICK U \in B : \A W \in B : W \subseteq U => W = U
    <3> HIDE DEF B
    <3> QED BY <1>2, <2>0, MinimalSubset
  <2>2. \A W \in SUBSET U : W # U => Good(W)
    <3> HIDE DEF Good
    <3> QED BY <2>1
  <2>3. U \in SUBSET S /\ IsFiniteSet(U)
    BY <2>1, FS_Subset
  <2>4. Z({}) = 0
    BY <2>3, SumRecursion
  <2>5. CASE U = {}
    <3>1. Good(U)
      BY <2>4, <2>5
    <3> HIDE DEF Good
    <3> QED BY <2>1, <3>1
  <2>6. CASE U # {}
    <3> DEFINE y == Pick(U)
    <3>1. y \in U /\ Z(U) = f[y] + Z(U \ {y})
      BY <2>3, <2>6, SumRecursion
    <3> HIDE DEF y, Z
    <3>2. Z(U \ {y}) \in Nat /\ f[y] \in Nat
      BY <2>2, <2>3, <3>1
    <3>3. ASSUME NEW x \in U, x # y
          PROVE  Z(U) = f[x] + Z(U \ {x})
      <4>1. x \in U \ {y} /\ y \in U \ {x}
        BY <3>1, <3>3
      <4>2. Z(U \ {y}) = f[x] + Z((U \ {y}) \ {x})
        BY <2>2, <3>1, <4>1
      <4>3. Z(U \ {x}) = f[y] + Z((U \ {x}) \ {y})
        BY <2>2, <3>1, <4>1
      <4>4. (U \ {x}) \ {y} = (U \ {y}) \ {x}
        OBVIOUS
      <4>5. Z((U \ {y}) \ {x}) \in Nat /\ f[x] \in Nat
        BY <2>2, <2>3, <3>1, <4>1
      <4> QED BY <3>1, <3>2, <4>2, <4>3, <4>4, <4>5
    <3>4. Good(U)
      <4>1. Z(U) \in Nat
        BY <3>1, <3>2
      <4>2. \A x \in U : Z(U) = f[x] + Z(U \ {x})
        BY <3>1, <3>3
      <4> QED BY <4>1, <4>2
    <3> HIDE DEF Good
    <3> QED BY <2>1, <3>4
  <2> QED BY <2>5, <2>6
<1> QED BY <1>1, <1>2

(* A sum depends on the values over its set only.                          *)
LEMMA SumSame ==
  ASSUME NEW S, IsFiniteSet(S), NEW f, NEW e, \A x \in S : f[x] = e[x]
  PROVE  SumFunctionOnSet(f, S) = SumFunctionOnSet(e, S)
<1>1. PICK g : Tabulates(g, f, S) /\ \A U \in SUBSET S : SumFunctionOnSet(f, U) = g[U]
  BY SumTable
<1>2. PICK h : Tabulates(h, e, S) /\ \A U \in SUBSET S : SumFunctionOnSet(e, U) = h[U]
  BY SumTable
<1>3. S \in SUBSET S
  OBVIOUS
<1>4. g[S] = h[S]
  BY <1>1, <1>2, <1>3, TablesAgree
<1> QED BY <1>1, <1>2, <1>3, <1>4

(* Renaming the elements of a set, one to one, leaves the sum alone.       *)
LEMMA SumRenamed ==
  ASSUME NEW S, IsFiniteSet(S), NEW T, NEW m \in Surjection(S, T), IsInjective(m),
         NEW f, NEW e, \A x \in S : f[x] \in Nat /\ e[m[x]] = f[x]
  PROVE  SumFunctionOnSet(e, T) = SumFunctionOnSet(f, S)
<1> DEFINE Im(U) == {m[x] : x \in U}
           B == {U \in SUBSET S : SumFunctionOnSet(e, Im(U)) # SumFunctionOnSet(f, U)}
<1>0. m \in [S -> T] /\ \A t \in T : \E x \in S : m[x] = t
  BY Zenon DEF Surjection
<1>1. CASE B = {}
  <2>1. Im(S) = T
    BY <1>0
  <2> QED BY <1>1, <2>1
<1>2. CASE B # {}
  <2>0. B \in SUBSET (SUBSET S)
    OBVIOUS
  <2>1. PICK U \in B : \A W \in B : W \subseteq U => W = U
    <3> HIDE DEF B
    <3> QED BY <1>2, <2>0, MinimalSubset
  <2>2. U \in SUBSET S /\ IsFiniteSet(U)
    BY <2>1, FS_Subset
  <2>3. CASE U = {}
    <3>1. Im(U) = {}
      BY <2>3
    <3> QED BY <2>1, <2>2, <2>3, <3>1, SumRecursion, FS_EmptySet
  <2>4. CASE U # {}
    <3>1. PICK x \in U : TRUE
      BY <2>4
    <3>2. U \ {x} \notin B
      BY <2>1, <3>1
    <3>3. Im(U \ {x}) = Im(U) \ {m[x]}
      BY <1>0, <2>2, <3>1 DEF IsInjective
    <3>4. IsFiniteSet(Im(U)) /\ \A t \in Im(U) : e[t] \in Nat
      <4>1. [y \in U |-> m[y]] \in Surjection(U, Im(U))
        BY DEF Surjection
      <4>2. IsFiniteSet(Im(U))
        <5> HIDE DEF Im
        <5> QED BY <2>2, <4>1, FS_Surjection
      <4> QED BY <2>2, <4>2
    <3>5. m[x] \in Im(U)
      BY <3>1
    <3> DEFINE I == Im(U)
    <3>6. SumFunctionOnSet(e, I) = e[m[x]] + SumFunctionOnSet(e, I \ {m[x]})
      <4> HIDE DEF I
      <4> QED BY <3>4, <3>5, SumRemove DEF I
    <3>7. SumFunctionOnSet(f, U) = f[x] + SumFunctionOnSet(f, U \ {x})
      BY <2>2, <3>1, SumRemove
    <3>8. SumFunctionOnSet(e, I \ {m[x]}) = SumFunctionOnSet(f, U \ {x})
      BY <2>2, <3>2, <3>3
    <3>9. SumFunctionOnSet(e, Im(U)) = SumFunctionOnSet(f, U)
      <4> HIDE DEF Im
      <4> QED BY <2>2, <3>1, <3>6, <3>7, <3>8 DEF I
    <3> HIDE DEF Im
    <3> QED BY <2>1, <3>9
  <2> QED BY <2>3, <2>4
<1> QED BY <1>1, <1>2

(* A sum of zeros.                                                         *)
LEMMA SumOfZeros ==
  ASSUME NEW S, IsFiniteSet(S), NEW f, \A x \in S : f[x] = 0
  PROVE  SumFunctionOnSet(f, S) = 0
<1> DEFINE B == {U \in SUBSET S : SumFunctionOnSet(f, U) # 0}
<1>1. CASE B = {}
  BY <1>1
<1>2. CASE B # {}
  <2>0. B \in SUBSET (SUBSET S)
    OBVIOUS
  <2>1. PICK U \in B : \A W \in B : W \subseteq U => W = U
    <3> HIDE DEF B
    <3> QED BY <1>2, <2>0, MinimalSubset
  <2>2. U \in SUBSET S /\ IsFiniteSet(U)
    BY <2>1, FS_Subset
  <2>3. /\ SumFunctionOnSet(f, {}) = 0
        /\ U # {} => /\ Pick(U) \in U
                     /\ SumFunctionOnSet(f, U)
                          = f[Pick(U)] + SumFunctionOnSet(f, U \ {Pick(U)})
    BY <2>2, SumRecursion
  <2>4. U # {} => U \ {Pick(U)} \notin B
    BY <2>1, <2>3
  <2>5. U # {} => SumFunctionOnSet(f, U) = 0
    BY <2>2, <2>3, <2>4
  <2> QED BY <2>1, <2>3, <2>5
<1> QED BY <1>1, <1>2

(* One value changed changes the sum by as much.                           *)
LEMMA SumChanged ==
  ASSUME NEW S, IsFiniteSet(S), NEW f \in [S -> Nat], NEW g \in [S -> Nat], NEW x \in S,
         \A y \in S \ {x} : f[y] = g[y]
  PROVE  /\ SumFunction(f) \in Nat /\ SumFunction(g) \in Nat
         /\ SumFunction(g) + f[x] = SumFunction(f) + g[x]
<1>1. IsFiniteSet(S \ {x})
  BY FS_RemoveElement
<1>2. /\ SumFunctionOnSet(f, S) = f[x] + SumFunctionOnSet(f, S \ {x})
      /\ SumFunctionOnSet(g, S) = g[x] + SumFunctionOnSet(g, S \ {x})
      /\ SumFunctionOnSet(f, S \ {x}) = SumFunctionOnSet(g, S \ {x})
      /\ SumFunctionOnSet(f, S) \in Nat /\ SumFunctionOnSet(g, S) \in Nat
      /\ SumFunctionOnSet(g, S \ {x}) \in Nat
  BY <1>1, SumRemove, SumSame
<1>3. f[x] \in Nat /\ g[x] \in Nat
  OBVIOUS
<1>4. SumFunction(f) = SumFunctionOnSet(f, S) /\ SumFunction(g) = SumFunctionOnSet(g, S)
  BY DEF SumFunction
<1> QED BY <1>2, <1>3, <1>4

(* One element added adds its value.                                       *)
LEMMA SumExtended ==
  ASSUME NEW S, NEW x, NEW f, NEW g, IsFiniteSet(S), x \notin S,
         DOMAIN f = S, DOMAIN g = S \cup {x}, g[x] \in Nat,
         \A y \in S : f[y] = g[y] /\ g[y] \in Nat
  PROVE  SumFunction(f) \in Nat /\ SumFunction(g) = SumFunction(f) + g[x]
<1>1. IsFiniteSet(S \cup {x}) /\ (S \cup {x}) \ {x} = S
  BY FS_AddElement
<1>2. /\ SumFunctionOnSet(g, S \cup {x}) = g[x] + SumFunctionOnSet(g, S)
      /\ SumFunctionOnSet(f, S) = SumFunctionOnSet(g, S)
      /\ SumFunctionOnSet(f, S) \in Nat
  BY <1>1, SumRemove, SumSame
<1>3. g[x] \in Nat
  OBVIOUS
<1>4. SumFunction(f) = SumFunctionOnSet(f, S) /\ SumFunction(g) = SumFunctionOnSet(g, S \cup {x})
  BY DEF SumFunction
<1> QED BY <1>2, <1>3, <1>4

-----------------------------------------------------------------------------
(* Where the bursts are.                                                   *)

Distinct(q) == \A i, j \in DOMAIN q : q[i] = q[j] => i = j

(* No burst is in two places.                                              *)
PlacedInv ==
  /\ Distinct(local_queue) /\ Distinct(global_queue)
  /\ \A p \in PC : Distinct(ports[p])
  /\ \A r, s \in inflight : r.burst = s.burst => r = s
  /\ Range(local_queue) \cap Range(global_queue) = {}
  /\ (Range(local_queue) \cup Range(global_queue)) \cap Bursts(inflight) = {}
  /\ \A p \in PC : \A b \in Range(ports[p]) :
       /\ b.pc_id = p
       /\ b \notin Range(local_queue) \cup Range(global_queue) \cup Bursts(inflight)

(* An address that a burst has been given.                                 *)
Issued(a) == \E n \in 0 .. created - 1 : a = n \/ a = kGlobalAddressBoundary + n

(* The address tells the bursts apart, those that have completed included. *)
AddressInv ==
  /\ \A b, c \in Unfinished : b.addr = c.addr => b = c
  /\ \A b \in Unfinished : Issued(b.addr) /\ b.addr \notin finished
  /\ \A a \in finished : Issued(a)

(* Created bursts have completed or not, and those that have not are as    *)
(* many as what the places hold.                                           *)
CountInv ==
  /\ IsFiniteSet(inflight) /\ IsFiniteSet(finished) /\ IsFiniteSet(Unfinished)
  /\ Cardinality(Unfinished) + Cardinality(finished) = created
  /\ Places + Cardinality(finished) = created

PlacesInv == TypeOK /\ PlacedInv /\ AddressInv /\ CountInv

(* What an append and a removal at the head do to the bursts of a queue.   *)
LEMMA AppendParts ==
  ASSUME NEW q \in Seq(MemoryBurst), NEW b \in MemoryBurst
  PROVE  /\ Range(Append(q, b)) = Range(q) \cup {b}
         /\ Len(Append(q, b)) = Len(q) + 1 /\ Len(q) \in Nat
         /\ Distinct(q) /\ b \notin Range(q) => Distinct(Append(q, b))
<1>1. /\ Len(q) \in Nat /\ DOMAIN q = 1 .. Len(q)
      /\ DOMAIN Append(q, b) = 1 .. Len(q) + 1 /\ Len(Append(q, b)) = Len(q) + 1
      /\ Append(q, b)[Len(q) + 1] = b
      /\ \A i \in 1 .. Len(q) : Append(q, b)[i] = q[i]
  OBVIOUS
<1> DEFINE a == Append(q, b)
<1> HIDE DEF a
<1>2. Range(a) = Range(q) \cup {b}
  <2>1. \A i \in DOMAIN a : (i \in DOMAIN q /\ a[i] = q[i]) \/ a[i] = b
    BY <1>1 DEF a
  <2>2. \A i \in DOMAIN q : i \in DOMAIN a /\ a[i] = q[i]
    BY <1>1 DEF a
  <2>3. \E i \in DOMAIN a : a[i] = b
    BY <1>1 DEF a
  <2> QED BY <2>1, <2>2, <2>3 DEF Range
<1>3. Distinct(q) /\ b \notin Range(q) => Distinct(a)
  BY <1>1 DEF a, Distinct, Range
<1> QED BY <1>1, <1>2, <1>3 DEF a

LEMMA TailParts ==
  ASSUME NEW q \in Seq(MemoryBurst), q # << >>
  PROVE  /\ Head(q) \in Range(q) /\ Head(q) \in MemoryBurst
         /\ Len(q) = Len(Tail(q)) + 1 /\ Len(Tail(q)) \in Nat
         /\ Tail(q) \in Seq(MemoryBurst)
         /\ Range(q) = Range(Tail(q)) \cup {Head(q)}
         /\ Distinct(q) => Distinct(Tail(q)) /\ Head(q) \notin Range(Tail(q))
<1>1. /\ Len(q) \in Nat \ {0} /\ DOMAIN q = 1 .. Len(q) /\ Head(q) = q[1]
      /\ Tail(q) \in Seq(MemoryBurst)
      /\ DOMAIN Tail(q) = 1 .. Len(q) - 1 /\ Len(Tail(q)) = Len(q) - 1
      /\ \A i \in 1 .. Len(q) - 1 : Tail(q)[i] = q[i + 1]
      /\ Head(q) \in MemoryBurst
  OBVIOUS
<1> DEFINE t == Tail(q)
<1> HIDE DEF t
<1>2. Range(q) = Range(t) \cup {q[1]}
  <2>1. \A i \in DOMAIN t : i + 1 \in DOMAIN q /\ t[i] = q[i + 1]
    BY <1>1 DEF t
  <2>2. \A i \in DOMAIN q : i = 1 \/ (i - 1 \in DOMAIN t /\ t[i - 1] = q[i])
    BY <1>1 DEF t
  <2>3. 1 \in DOMAIN q
    BY <1>1
  <2> QED BY <2>1, <2>2, <2>3 DEF Range
<1>3. Distinct(q) => Distinct(t) /\ q[1] \notin Range(t)
  <2> SUFFICES ASSUME Distinct(q) PROVE Distinct(t) /\ q[1] \notin Range(t)
    OBVIOUS
  <2>1. \A i, j \in DOMAIN t : t[i] = t[j] => i = j
    <3> SUFFICES ASSUME NEW i \in DOMAIN t, NEW j \in DOMAIN t, t[i] = t[j] PROVE i = j
      OBVIOUS
    <3>1. i + 1 \in DOMAIN q /\ j + 1 \in DOMAIN q /\ q[i + 1] = q[j + 1]
      BY <1>1 DEF t
    <3>2. i + 1 = j + 1
      BY <3>1 DEF Distinct
    <3> QED BY <1>1, <3>2 DEF t
  <2>2. \A i \in DOMAIN t : t[i] # q[1]
    BY <1>1 DEF t, Distinct
  <2> QED BY <2>1, <2>2 DEF Distinct, Range
<1> QED BY <1>1, <1>2, <1>3 DEF t
(* What the ports hold, and what a push and a pop change of it.            *)
PortsHold == SumFunction([p \in PC |-> Len(ports[p])])

LEMMA PortsHoldMore ==
  ASSUME TypeOK, NEW p \in PC, NEW q \in Seq(MemoryBurst),
         ports' = [ports EXCEPT ![p] = q]
  PROVE  /\ PortsHold \in Nat /\ PortsHold' \in Nat
         /\ PortsHold' + Len(ports[p]) = PortsHold + Len(q)
<1> DEFINE f == [r \in PC |-> Len(ports[r])]
           g == [r \in PC |-> Len(ports'[r])]
<1>1. ports \in [PC -> Seq(MemoryBurst)] /\ ports' \in [PC -> Seq(MemoryBurst)]
  BY DEF TypeOK, MuxTypeOK
<1>2. f \in [PC -> Nat] /\ g \in [PC -> Nat]
  BY <1>1
<1>3. \A r \in PC \ {p} : f[r] = g[r]
  BY <1>1
<1>4. f[p] = Len(ports[p]) /\ g[p] = Len(q)
  BY <1>1
<1>5. IsFiniteSet(PC)
  BY PseudoChannelAssumption, FS_Interval DEF PC
<1>6. PortsHold = SumFunction(f) /\ PortsHold' = SumFunction(g)
  BY DEF PortsHold
<1> HIDE DEF f, g
<1> QED BY <1>2, <1>3, <1>4, <1>5, <1>6, SumChanged

(* The ports hold a natural number of bursts.                              *)
LEMMA PortsCount ==
  ASSUME TypeOK
  PROVE  PortsHold \in Nat
<1>1. IsFiniteSet(PC)
  BY PseudoChannelAssumption, FS_Interval DEF PC
<1>2. [p \in PC |-> Len(ports[p])] \in [PC -> Nat]
  BY DEF TypeOK, MuxTypeOK
<1>3. SumFunctionOnSet([p \in PC |-> Len(ports[p])], PC) \in Nat
  BY <1>1, <1>2, SumRemove
<1> QED BY <1>3 DEF PortsHold, SumFunction

LEMMA EnqueueParts ==
  ASSUME TypeOK, PlacedInv, NEW b \in MemoryBurst, NEW p \in PC, enqueue(p, b),
         b \notin Range(ports[p])
  PROVE  /\ PortsHold \in Nat /\ PortsHold' = PortsHold + 1
         /\ \A q \in PC : /\ Range(ports'[q]) = IF q = p THEN Range(ports[q]) \cup {b}
                                                ELSE Range(ports[q])
                          /\ Distinct(ports'[q])
<1>1. ports \in [PC -> Seq(MemoryBurst)]
  BY DEF TypeOK, MuxTypeOK
<1> DEFINE a == Append(ports[p], b)
<1>2. a \in Seq(MemoryBurst) /\ ports' = [ports EXCEPT ![p] = a]
  BY <1>1 DEF enqueue
<1>3. /\ Range(a) = Range(ports[p]) \cup {b} /\ Distinct(a)
      /\ Len(a) = Len(ports[p]) + 1 /\ Len(ports[p]) \in Nat
  <2>1. ports[p] \in Seq(MemoryBurst) /\ Distinct(ports[p])
    BY <1>1 DEF PlacedInv
  <2> QED BY <2>1, AppendParts
<1> HIDE DEF a
<1>4. PortsHold \in Nat /\ PortsHold' \in Nat /\ PortsHold' + Len(ports[p]) = PortsHold + Len(a)
  BY <1>2, PortsHoldMore
<1>5. PortsHold \in Nat /\ PortsHold' = PortsHold + 1
  BY <1>3, <1>4
<1>6. \A q \in PC : ports'[q] = IF q = p THEN a ELSE ports[q]
  BY <1>1, <1>2
<1>7. \A q \in PC : Distinct(ports'[q])
  BY <1>3, <1>6, Zenon DEF PlacedInv
<1>8. \A q \in PC : Range(ports'[q]) = IF q = p THEN Range(ports[q]) \cup {b}
                                      ELSE Range(ports[q])
  BY <1>3, <1>6, Zenon
<1> QED BY <1>5, <1>7, <1>8

LEMMA PopParts ==
  ASSUME TypeOK, PlacedInv, NEW p \in PC, ports[p] # << >>, pop(p)
  PROVE  /\ PortsHold' \in Nat /\ PortsHold = PortsHold' + 1
         /\ Head(ports[p]) \in MemoryBurst
         /\ Head(ports[p]) \in Range(ports[p]) /\ Head(ports[p]) \notin Range(ports'[p])
         /\ \A q \in PC : /\ Range(ports[q]) = IF q = p THEN Range(ports'[q]) \cup {Head(ports[p])}
                                               ELSE Range(ports'[q])
                          /\ Distinct(ports'[q])
<1>1. ports \in [PC -> Seq(MemoryBurst)]
  BY DEF TypeOK, MuxTypeOK
<1> DEFINE t == Tail(ports[p])
<1>2. /\ t \in Seq(MemoryBurst) /\ Distinct(t) /\ Len(ports[p]) = Len(t) + 1 /\ Len(t) \in Nat
      /\ Head(ports[p]) \in MemoryBurst /\ Head(ports[p]) \in Range(ports[p])
      /\ Head(ports[p]) \notin Range(t) /\ Range(ports[p]) = Range(t) \cup {Head(ports[p])}
  <2>1. ports[p] \in Seq(MemoryBurst) /\ Distinct(ports[p])
    BY <1>1 DEF PlacedInv
  <2> QED BY <2>1, TailParts
<1>3. ports' = [ports EXCEPT ![p] = t]
  BY <1>1 DEF pop
<1> HIDE DEF t
<1>4. PortsHold \in Nat /\ PortsHold' \in Nat /\ PortsHold' + Len(ports[p]) = PortsHold + Len(t)
  BY <1>2, <1>3, PortsHoldMore
<1>5. PortsHold' \in Nat /\ PortsHold = PortsHold' + 1
  BY <1>2, <1>4
<1>6. \A q \in PC : ports'[q] = IF q = p THEN t ELSE ports[q]
  BY <1>1, <1>3
<1>7. \A q \in PC : Distinct(ports'[q])
  BY <1>2, <1>6, Zenon DEF PlacedInv
<1>8. \A q \in PC : Range(ports[q]) = IF q = p THEN Range(ports'[q]) \cup {Head(ports[p])}
                                     ELSE Range(ports'[q])
  BY <1>2, <1>6, Zenon
<1>9. Head(ports[p]) \notin Range(ports'[p])
  BY <1>2, <1>6
<1> QED BY <1>2, <1>5, <1>7, <1>8, <1>9

(* The bursts that have not completed, place by place.                     *)
LEMMA UnfinishedPlaces ==
  /\ \A b : b \in Unfinished <=>
       \/ b \in Range(local_queue) \/ b \in Range(global_queue)
       \/ b \in Bursts(inflight) \/ \E p \in PC : b \in Range(ports[p])
  /\ \A b : b \in Unfinished' <=>
       \/ b \in Range(local_queue') \/ b \in Range(global_queue')
       \/ b \in Bursts(inflight') \/ \E p \in PC : b \in Range(ports'[p])
BY DEF Unfinished

(* A new burst has an address that no other burst was ever given.          *)
LEMMA FreshBurst ==
  ASSUME PlacesInv, created < MaxBursts, MaxBursts <= kGlobalAddressBoundary,
         NEW s \in Shape, NEW awaited \in BOOLEAN, NEW b, b = NewBurst(s, awaited),
         created' = created + 1
  PROVE  /\ b \in MemoryBurst /\ b.pc_id = s.pc_id /\ s.pc_id \in PC
         /\ b \notin Unfinished
         /\ ~ Issued(b.addr) /\ Issued(b.addr)'
         /\ \A a : Issued(a) => Issued(a)'
<1>1. created \in Nat /\ kGlobalAddressBoundary \in Nat /\ MaxBursts \in Nat
  BY RouterAssumption, SimulatorAssumption DEF PlacesInv, TypeOK
<1>2. b \in MemoryBurst /\ s.pc_id \in PC /\ b.pc_id = s.pc_id
  BY NewBurstType DEF PlacesInv, NewBurst
<1>3. b.addr = created \/ b.addr = kGlobalAddressBoundary + created
  BY <1>1 DEF NewBurst
<1>4. ~ Issued(b.addr)
  BY <1>1, <1>3 DEF Issued
<1>5. Issued(b.addr)'
  <2>1. created \in 0 .. created' - 1
    BY <1>1
  <2> QED BY <1>3, <2>1 DEF Issued
<1>6. \A a : Issued(a) => Issued(a)'
  BY <1>1 DEF Issued
<1>7. b \notin Unfinished
  BY <1>4 DEF PlacesInv, AddressInv
<1> QED BY <1>2, <1>4, <1>5, <1>6, <1>7

(* What one more burst does to the addresses and to the count.             *)
LEMMA OneMore ==
  ASSUME AddressInv, CountInv, NEW b, b \notin Unfinished, created \in Nat,
         ~ Issued(b.addr), Issued(b.addr)', \A a : Issued(a) => Issued(a)',
         Unfinished' = Unfinished \cup {b}, created' = created + 1,
         UNCHANGED <<inflight, finished>>, Places' = Places + 1, Places \in Nat
  PROVE  AddressInv' /\ CountInv'
<1>1. AddressInv'
  <2>1. \A c \in Unfinished : c.addr # b.addr
    BY DEF AddressInv
  <2>2. b.addr \notin finished
    BY DEF AddressInv
  <2> QED BY <2>1, <2>2 DEF AddressInv
<1>2. /\ IsFiniteSet(Unfinished') /\ Cardinality(Unfinished') = Cardinality(Unfinished) + 1
      /\ Cardinality(Unfinished) \in Nat /\ Cardinality(finished) \in Nat
  BY FS_AddElement, FS_CardinalityType DEF CountInv
<1> QED BY <1>1, <1>2 DEF CountInv

(* What a move from one place to another does to them: nothing.            *)
LEMMA OneMoved ==
  ASSUME AddressInv, CountInv, Unfinished' = Unfinished, UNCHANGED <<created, finished>>,
         IsFiniteSet(inflight'), Places' = Places
  PROVE  AddressInv' /\ CountInv'
BY DEF AddressInv, CountInv, Issued
(* The parts of Places.                                                    *)
LEMMA PlacesParts ==
  ASSUME TypeOK, CountInv
  PROVE  /\ Places = Len(local_queue) + Len(global_queue) + Cardinality(inflight) + PortsHold
         /\ Places' = Len(local_queue') + Len(global_queue') + Cardinality(inflight') + PortsHold'
         /\ Len(local_queue) \in Nat /\ Len(global_queue) \in Nat
         /\ Cardinality(inflight) \in Nat /\ created \in Nat
         /\ local_queue \in Seq(MemoryBurst) /\ global_queue \in Seq(MemoryBurst)
         /\ ports \in [PC -> Seq(MemoryBurst)]
<1>1. Cardinality(inflight) \in Nat
  BY FS_CardinalityType DEF CountInv
<1>2. /\ local_queue \in Seq(MemoryBurst) /\ global_queue \in Seq(MemoryBurst)
      /\ created \in Nat /\ ports \in [PC -> Seq(MemoryBurst)]
  BY DEF TypeOK, MuxTypeOK, RouterTypeOK
<1> QED BY <1>1, <1>2 DEF Places, PortsHold

(* A new burst in a port.                                                  *)
LEMMA NewInPort ==
  ASSUME PlacesInv, created < MaxBursts, MaxBursts <= kGlobalAddressBoundary,
         NEW s \in Shape, NEW awaited \in BOOLEAN,
         enqueue(s.pc_id, NewBurst(s, awaited)), created' = created + 1,
         UNCHANGED <<local_queue, global_queue, inflight, finished>>
  PROVE  PlacedInv' /\ AddressInv' /\ CountInv'
<1>1. PICK b : b = NewBurst(s, awaited)
  OBVIOUS
<1>2. /\ b \in MemoryBurst /\ b.pc_id = s.pc_id /\ s.pc_id \in PC /\ b \notin Unfinished
      /\ ~ Issued(b.addr) /\ Issued(b.addr)' /\ \A a : Issued(a) => Issued(a)'
  BY <1>1, FreshBurst
<1>3. PICK p \in PC : p = s.pc_id
  BY <1>2
<1>4. /\ b \notin Range(local_queue) \cup Range(global_queue) \cup Bursts(inflight)
      /\ \A q \in PC : b \notin Range(ports[q])
  BY <1>2, UnfinishedPlaces
<1>5. /\ PortsHold \in Nat /\ PortsHold' = PortsHold + 1
      /\ \A q \in PC : /\ Range(ports'[q]) = IF q = p THEN Range(ports[q]) \cup {b}
                                             ELSE Range(ports[q])
                       /\ Distinct(ports'[q])
  <2>1. enqueue(p, b) /\ b \notin Range(ports[p])
    BY <1>1, <1>3, <1>4
  <2> QED BY <1>2, <2>1, EnqueueParts DEF PlacesInv
<1>6. Unfinished' = Unfinished \cup {b}
  <2>1. \A c : (\E q \in PC : c \in Range(ports'[q]))
                 <=> (c = b \/ \E q \in PC : c \in Range(ports[q]))
    BY <1>5
  <2>2. \A c : c \in Unfinished' <=> c \in Unfinished \/ c = b
    BY <2>1, UnfinishedPlaces, Zenon
  <2> QED BY <2>2
<1>7. PlacedInv'
  <2>1. /\ Distinct(local_queue') /\ Distinct(global_queue')
        /\ \A q \in PC : Distinct(ports'[q])
        /\ \A x, y \in inflight' : x.burst = y.burst => x = y
        /\ Range(local_queue') \cap Range(global_queue') = {}
        /\ (Range(local_queue') \cup Range(global_queue')) \cap Bursts(inflight') = {}
    BY <1>5 DEF PlacesInv, PlacedInv
  <2>2. ASSUME NEW q \in PC, NEW c \in Range(ports'[q])
        PROVE  /\ c.pc_id = q
               /\ c \notin Range(local_queue') \cup Range(global_queue') \cup Bursts(inflight')
    <3>1. CASE c \in Range(ports[q])
      BY <3>1 DEF PlacesInv, PlacedInv
    <3>2. CASE c = b /\ q = p
      BY <1>2, <1>3, <1>4, <3>2
    <3> QED BY <1>5, <3>1, <3>2
  <2> QED BY <2>1, <2>2 DEF PlacedInv
<1>8. Places' = Places + 1 /\ Places \in Nat /\ created \in Nat
  BY <1>5, PlacesParts DEF PlacesInv
<1>9. AddressInv' /\ CountInv'
  BY <1>2, <1>6, <1>8, OneMore DEF PlacesInv
<1> QED BY <1>7, <1>9

(* A new burst in a queue of the router.                                   *)
LEMMA NewInQueue ==
  ASSUME PlacesInv, created < MaxBursts, MaxBursts <= kGlobalAddressBoundary,
         NEW s \in Shape, NEW awaited \in BOOLEAN,
         enqueue_request(NewBurst(s, awaited)), created' = created + 1,
         UNCHANGED <<ports, inflight, finished>>
  PROVE  PlacedInv' /\ AddressInv' /\ CountInv'
<1>1. PICK b : b = NewBurst(s, awaited)
  OBVIOUS
<1>2. /\ b \in MemoryBurst /\ b \notin Unfinished
      /\ ~ Issued(b.addr) /\ Issued(b.addr)' /\ \A a : Issued(a) => Issued(a)'
  BY <1>1, FreshBurst
<1>3. /\ b \notin Range(local_queue) /\ b \notin Range(global_queue)
      /\ b \notin Bursts(inflight) /\ \A q \in PC : b \notin Range(ports[q])
  BY <1>2, UnfinishedPlaces
<1>4. /\ local_queue \in Seq(MemoryBurst) /\ global_queue \in Seq(MemoryBurst)
      /\ Distinct(local_queue) /\ Distinct(global_queue)
  BY DEF PlacesInv, TypeOK, RouterTypeOK, PlacedInv
<1>5. \/ /\ global_queue' = global_queue
         /\ Range(local_queue') = Range(local_queue) \cup {b} /\ Distinct(local_queue')
         /\ Len(local_queue') = Len(local_queue) + 1
      \/ /\ local_queue' = local_queue
         /\ Range(global_queue') = Range(global_queue) \cup {b} /\ Distinct(global_queue')
         /\ Len(global_queue') = Len(global_queue) + 1
  <2>1. CASE IsGlobal(b)
    <3>1. local_queue' = local_queue /\ global_queue' = Append(global_queue, b)
      BY <1>1, <2>1 DEF enqueue_request
    <3> QED BY <1>2, <1>3, <1>4, <3>1, AppendParts
  <2>2. CASE ~ IsGlobal(b)
    <3>1. global_queue' = global_queue /\ local_queue' = Append(local_queue, b)
      BY <1>1, <2>2 DEF enqueue_request
    <3> QED BY <1>2, <1>3, <1>4, <3>1, AppendParts
  <2> QED BY <2>1, <2>2
<1>6. Unfinished' = Unfinished \cup {b}
  <2>1. \A c : c \in Range(local_queue') \/ c \in Range(global_queue')
                 <=> c = b \/ c \in Range(local_queue) \/ c \in Range(global_queue)
    BY <1>5
  <2>2. \A c : c \in Unfinished' <=> c \in Unfinished \/ c = b
    BY <2>1, UnfinishedPlaces
  <2> QED BY <2>2
<1>7. PlacedInv'
  BY <1>3, <1>4, <1>5 DEF PlacesInv, PlacedInv
<1>8. Places' = Places + 1 /\ Places \in Nat /\ created \in Nat
  <2>1. PortsHold' = PortsHold /\ PortsHold \in Nat
    BY PortsCount DEF PlacesInv, PortsHold
  <2> QED BY <1>5, <2>1, PlacesParts DEF PlacesInv
<1>9. AddressInv' /\ CountInv'
  BY <1>2, <1>6, <1>8, OneMore DEF PlacesInv
<1> QED BY <1>7, <1>9
(* A burst moves from the head of a queue into its port.                   *)
LEMMA MoveToPort ==
  ASSUME PlacesInv, ForwardLocal \/ ForwardGlobal,
         UNCHANGED <<created, inflight, finished>>
  PROVE  PlacedInv' /\ AddressInv' /\ CountInv'
<1>1. /\ local_queue \in Seq(MemoryBurst) /\ global_queue \in Seq(MemoryBurst)
      /\ Distinct(local_queue) /\ Distinct(global_queue)
  BY DEF PlacesInv, TypeOK, RouterTypeOK, PlacedInv
<1>2. PICK b : /\ b \in MemoryBurst /\ enqueue(b.pc_id, b)
               /\ \/ /\ global_queue' = global_queue /\ Distinct(local_queue')
                     /\ Range(local_queue) = Range(local_queue') \cup {b}
                     /\ b \notin Range(local_queue')
                     /\ Len(local_queue) = Len(local_queue') + 1
                     /\ Len(local_queue') \in Nat
                  \/ /\ local_queue' = local_queue /\ Distinct(global_queue')
                     /\ Range(global_queue) = Range(global_queue') \cup {b}
                     /\ b \notin Range(global_queue')
                     /\ Len(global_queue) = Len(global_queue') + 1
                     /\ Len(global_queue') \in Nat
  <2>1. CASE ForwardLocal
    <3>1. /\ local_queue # << >> /\ local_queue' = Tail(local_queue)
          /\ global_queue' = global_queue
          /\ enqueue(Head(local_queue).pc_id, Head(local_queue))
      BY <2>1 DEF ForwardLocal, CanPay
    <3> QED BY <1>1, <3>1, TailParts
  <2>2. CASE ForwardGlobal
    <3>1. /\ global_queue # << >> /\ global_queue' = Tail(global_queue)
          /\ local_queue' = local_queue
          /\ enqueue(Head(global_queue).pc_id, Head(global_queue))
      BY <2>2 DEF ForwardGlobal, CanPay
    <3> QED BY <1>1, <3>1, TailParts
  <2> QED BY <2>1, <2>2
<1>3. PICK p \in PC : p = b.pc_id
  BY <1>2 DEF MemoryBurst
<1>4. b \in Range(local_queue) \cup Range(global_queue)
  BY <1>2
<1>5. b \notin Bursts(inflight) /\ \A q \in PC : b \notin Range(ports[q])
  BY <1>4 DEF PlacesInv, PlacedInv
<1>6. /\ PortsHold \in Nat /\ PortsHold' = PortsHold + 1
      /\ \A q \in PC : /\ Range(ports'[q]) = IF q = p THEN Range(ports[q]) \cup {b}
                                             ELSE Range(ports[q])
                       /\ Distinct(ports'[q])
  <2>1. enqueue(p, b) /\ b \notin Range(ports[p])
    BY <1>2, <1>3, <1>5
  <2> QED BY <1>2, <2>1, EnqueueParts DEF PlacesInv
<1>7. /\ b \notin Range(local_queue') /\ b \notin Range(global_queue')
      /\ \A c : c \in Range(local_queue) <=>
                  c \in Range(local_queue') \/ (c = b /\ b \in Range(local_queue))
      /\ \A c : c \in Range(global_queue) <=>
                  c \in Range(global_queue') \/ (c = b /\ b \in Range(global_queue))
  BY <1>2 DEF PlacesInv, PlacedInv
<1>8. Unfinished' = Unfinished
  <2>1. \A c : (\E q \in PC : c \in Range(ports'[q]))
                 <=> (c = b \/ \E q \in PC : c \in Range(ports[q]))
    BY <1>6
  <2>2. \A c : c \in Unfinished' <=> c \in Unfinished
    BY <1>4, <1>7, <2>1, UnfinishedPlaces
  <2> QED BY <2>2
<1>9. PlacedInv'
  <2>1. /\ Distinct(local_queue') /\ Distinct(global_queue')
        /\ \A q \in PC : Distinct(ports'[q])
        /\ \A x, y \in inflight' : x.burst = y.burst => x = y
        /\ Range(local_queue') \cap Range(global_queue') = {}
        /\ (Range(local_queue') \cup Range(global_queue')) \cap Bursts(inflight') = {}
    BY <1>1, <1>2, <1>6, <1>7 DEF PlacesInv, PlacedInv
  <2>2. ASSUME NEW q \in PC, NEW c \in Range(ports'[q])
        PROVE  /\ c.pc_id = q
               /\ c \notin Range(local_queue') \cup Range(global_queue') \cup Bursts(inflight')
    <3>1. CASE c \in Range(ports[q])
      BY <1>7, <3>1 DEF PlacesInv, PlacedInv
    <3>2. CASE c = b /\ q = p
      BY <1>3, <1>5, <1>7, <3>2
    <3> QED BY <1>6, <3>1, <3>2
  <2> QED BY <2>1, <2>2 DEF PlacedInv
<1>10. Places' = Places
  <2>1. /\ Len(local_queue) + Len(global_queue) = Len(local_queue') + Len(global_queue') + 1
        /\ Len(local_queue') \in Nat /\ Len(global_queue') \in Nat
    <3>1. Len(local_queue) \in Nat /\ Len(global_queue) \in Nat
      BY <1>1
    <3>2. \/ /\ global_queue' = global_queue /\ Len(local_queue) = Len(local_queue') + 1
             /\ Len(local_queue') \in Nat
          \/ /\ local_queue' = local_queue /\ Len(global_queue) = Len(global_queue') + 1
             /\ Len(global_queue') \in Nat
      BY <1>2
    <3> QED BY <3>1, <3>2
  <2>2. Cardinality(inflight') = Cardinality(inflight)
    OBVIOUS
  <2> QED BY <1>6, <2>1, <2>2, PlacesParts DEF PlacesInv
<1>11. AddressInv' /\ CountInv'
  BY <1>8, <1>10, OneMoved DEF PlacesInv, CountInv
<1> QED BY <1>9, <1>11

(* A burst moves from the head of a port into the memory system.           *)
LEMMA MoveToMemory ==
  ASSUME PlacesInv, Admit
  PROVE  /\ PlacedInv' /\ AddressInv' /\ CountInv'
         /\ \E x : /\ x \notin inflight /\ inflight' = inflight \cup {x}
                   /\ x.run = run_id
                   /\ x.burst = Head(ports[Visited(sweep_start, k)])
<1> DEFINE p == Visited(sweep_start, k)
<1>1. p \in PC /\ ports[p] # << >> /\ pop(p)
  BY VisitedInPC, PseudoChannelAssumption DEF Admit, Admissible, PlacesInv, TypeOK, PC
<1>2. PICK x : /\ x.burst = Head(ports[p]) /\ x.run = run_id
               /\ inflight' = inflight \cup {x}
  BY DEF Admit
<1>3. UNCHANGED <<local_queue, global_queue, created, finished>>
  BY DEF Admit, routerVars
<1> HIDE DEF p
<1>4. PICK b : b = Head(ports[p])
  OBVIOUS
<1>5. /\ PortsHold' \in Nat /\ PortsHold = PortsHold' + 1
      /\ b \in Range(ports[p]) /\ b \notin Range(ports'[p])
      /\ \A q \in PC : /\ Range(ports[q]) = IF q = p THEN Range(ports'[q]) \cup {b}
                                            ELSE Range(ports'[q])
                       /\ Distinct(ports'[q])
  BY <1>1, <1>4, PopParts DEF PlacesInv
<1>6. /\ b.pc_id = p /\ b \notin Range(local_queue) /\ b \notin Range(global_queue)
      /\ b \notin Bursts(inflight)
  BY <1>1, <1>5 DEF PlacesInv, PlacedInv
<1>7. \A q \in PC : b \notin Range(ports'[q])
  <2> SUFFICES ASSUME NEW q \in PC, b \in Range(ports'[q]) PROVE FALSE
    OBVIOUS
  <2>1. b \in Range(ports[q])
    BY <1>5
  <2>2. b.pc_id = q
    BY <2>1 DEF PlacesInv, PlacedInv
  <2> QED BY <1>5, <1>6, <2>2
<1>8. Bursts(inflight') = Bursts(inflight) \cup {b} /\ x \notin inflight
  BY <1>2, <1>4, <1>6 DEF Bursts
<1>9. Unfinished' = Unfinished
  <2>1. \A c : (\E q \in PC : c \in Range(ports[q]))
                 <=> (c = b \/ \E q \in PC : c \in Range(ports'[q]))
    BY <1>1, <1>5
  <2>2. \A c : c \in Unfinished' <=> c \in Unfinished
    BY <1>3, <1>8, <2>1, UnfinishedPlaces
  <2> QED BY <2>2
<1>10. PlacedInv'
  <2>1. /\ Distinct(local_queue') /\ Distinct(global_queue')
        /\ \A q \in PC : Distinct(ports'[q])
        /\ Range(local_queue') \cap Range(global_queue') = {}
        /\ (Range(local_queue') \cup Range(global_queue')) \cap Bursts(inflight') = {}
    BY <1>3, <1>5, <1>6, <1>8 DEF PlacesInv, PlacedInv
  <2>2. \A y, z \in inflight' : y.burst = z.burst => y = z
    <3>1. \A y \in inflight : y.burst # x.burst
      BY <1>2, <1>4, <1>6 DEF Bursts
    <3> QED BY <1>2, <3>1 DEF PlacesInv, PlacedInv
  <2>3. ASSUME NEW q \in PC, NEW c \in Range(ports'[q])
        PROVE  /\ c.pc_id = q
               /\ c \notin Range(local_queue') \cup Range(global_queue') \cup Bursts(inflight')
    <3>1. c \in Range(ports[q]) /\ c # b
      BY <1>5, <1>7
    <3> QED BY <1>3, <1>8, <3>1 DEF PlacesInv, PlacedInv
  <2> QED BY <2>1, <2>2, <2>3 DEF PlacedInv
<1>11. /\ IsFiniteSet(inflight') /\ Cardinality(inflight') = Cardinality(inflight) + 1
  BY <1>2, <1>8, FS_AddElement DEF PlacesInv, CountInv
<1>12. Places' = Places
  BY <1>3, <1>5, <1>11, PlacesParts DEF PlacesInv
<1>13. AddressInv' /\ CountInv'
  BY <1>3, <1>9, <1>11, <1>12, OneMoved DEF PlacesInv
<1> QED BY <1>2, <1>8, <1>10, <1>13 DEF p

(* A burst completes: its address moves to the finished ones.              *)
LEMMA Finish ==
  ASSUME PlacesInv, NEW r \in inflight, inflight' = inflight \ {r},
         finished' = finished \cup {r.burst.addr},
         UNCHANGED <<ports, local_queue, global_queue, created>>
  PROVE  /\ PlacedInv' /\ AddressInv' /\ CountInv'
         /\ Cardinality(finished') = Cardinality(finished) + 1
<1>1. PICK b : b = r.burst
  OBVIOUS
<1>2. b \in Bursts(inflight) /\ Bursts(inflight') = Bursts(inflight) \ {b}
  BY <1>1 DEF Bursts, PlacesInv, PlacedInv
<1>3. /\ b \notin Range(local_queue) /\ b \notin Range(global_queue)
      /\ \A q \in PC : b \notin Range(ports[q])
  BY <1>2 DEF PlacesInv, PlacedInv
<1>4. Unfinished' = Unfinished \ {b} /\ b \in Unfinished
  <2>1. \A c : c \in Unfinished' <=> c \in Unfinished /\ c # b
    BY <1>2, <1>3, UnfinishedPlaces
  <2> QED BY <1>2, <2>1, UnfinishedPlaces
<1>5. PlacedInv'
  BY <1>2 DEF PlacesInv, PlacedInv
<1>6. AddressInv'
  BY <1>1, <1>4 DEF PlacesInv, AddressInv, Issued
<1>7. /\ IsFiniteSet(inflight') /\ Cardinality(inflight') = Cardinality(inflight) - 1
      /\ IsFiniteSet(Unfinished') /\ Cardinality(Unfinished') = Cardinality(Unfinished) - 1
      /\ Cardinality(Unfinished) \in Nat /\ Cardinality(finished) \in Nat
  BY <1>4, FS_RemoveElement, FS_CardinalityType DEF PlacesInv, CountInv
<1>8. IsFiniteSet(finished') /\ Cardinality(finished') = Cardinality(finished) + 1
  BY <1>1, <1>4, FS_AddElement DEF PlacesInv, CountInv, AddressInv
<1>9. Places = Places' + 1 /\ Places \in Int /\ Places' \in Int
  <2>1. PortsHold' = PortsHold /\ PortsHold \in Nat
    BY PortsCount DEF PlacesInv, PortsHold
  <2> QED BY <1>7, <2>1, PlacesParts DEF PlacesInv
<1>10. CountInv'
  <2>1. /\ Cardinality(Unfinished) + Cardinality(finished) = created
        /\ Places + Cardinality(finished) = created
    BY DEF PlacesInv, CountInv
  <2> QED BY <1>7, <1>8, <1>9, <2>1 DEF CountInv
<1> QED BY <1>5, <1>6, <1>8, <1>10

(* Ageing keeps the requests apart and their bursts in place.              *)
LEMMA Age ==
  ASSUME PlacesInv, inflight' = {Aged(r) : r \in inflight},
         UNCHANGED <<ports, local_queue, global_queue, created, finished>>
  PROVE  /\ PlacedInv' /\ AddressInv' /\ CountInv'
         /\ Cardinality(inflight') = Cardinality(inflight)
<1> DEFINE T == {Aged(r) : r \in inflight}
           m == [r \in inflight |-> Aged(r)]
<1>1. \A r \in inflight : Aged(r).burst = r.burst
  BY DEF Aged
<1>2. Bursts(inflight') = Bursts(inflight)
  BY <1>1 DEF Bursts
<1>3. Unfinished' = Unfinished
  BY <1>2 DEF Unfinished
<1>4. PlacedInv'
  <2>1. \A x, y \in inflight' : x.burst = y.burst => x = y
    BY <1>1 DEF PlacesInv, PlacedInv
  <2> QED BY <1>2, <2>1 DEF PlacesInv, PlacedInv
<1>5. m \in Surjection(inflight, T)
  BY DEF Surjection
<1>6. \A r, s \in inflight : m[r] = m[s] => r = s
  BY <1>1 DEF PlacesInv, PlacedInv
<1>7. m \in Injection(inflight, T)
  BY <1>6 DEF Injection, IsInjective
<1> HIDE DEF m, T
<1>8. IsFiniteSet(T) /\ Cardinality(T) = Cardinality(inflight)
  BY <1>5, <1>7, FS_Surjection DEF PlacesInv, CountInv
<1>9. Places' = Places
  BY <1>8 DEF Places, T
<1>10. AddressInv' /\ CountInv'
  BY <1>3, <1>8, <1>9, OneMoved DEF T, PlacesInv
<1> QED BY <1>4, <1>8, <1>10 DEF T
(* Nothing moves.                                                          *)
LEMMA PlacesFrame ==
  ASSUME PlacesInv,
         UNCHANGED <<ports, local_queue, global_queue, inflight, created, finished>>
  PROVE  PlacedInv' /\ AddressInv' /\ CountInv'
<1>1. Unfinished' = Unfinished /\ Places' = Places
  BY DEF Unfinished, Places
<1>2. PlacedInv'
  BY DEF PlacesInv, PlacedInv
<1> QED BY <1>1, <1>2, OneMoved DEF PlacesInv, CountInv

(* Before the first run there is no burst.                                 *)
LEMMA PlacesInit == Init => PlacesInv
<1> SUFFICES ASSUME Init PROVE PlacesInv
  OBVIOUS
<1>1. /\ local_queue = << >> /\ global_queue = << >> /\ inflight = {} /\ finished = {}
      /\ created = 0 /\ ports = [p \in PC |-> << >>]
  BY DEF Init, MuxInit, RouterInit
<1>2. TypeOK
  BY TypeInit
<1>3. Range(<< >>) = {} /\ Bursts({}) = {} /\ Distinct(<< >>)
  <2>1. \A i \in DOMAIN << >> : FALSE
    OBVIOUS
  <2> QED BY <2>1 DEF Range, Bursts, Distinct
<1>4. Unfinished = {}
  BY <1>1, <1>3, UnfinishedPlaces
<1>5. PlacedInv
  BY <1>1, <1>3 DEF PlacedInv
<1>6. AddressInv
  BY <1>1, <1>4 DEF AddressInv
<1>7. CountInv
  <2>1. PortsHold = 0
    <3> DEFINE f == [p \in PC |-> Len(ports[p])]
               z == [p \in {} |-> 0]
    <3>1. IsFiniteSet(PC)
      BY PseudoChannelAssumption, FS_Interval DEF PC
    <3>2. \A p \in PC : f[p] = 0
      BY <1>1
    <3>3. SumFunctionOnSet(f, PC) = 0
      <4> HIDE DEF f
      <4> QED BY <3>1, <3>2, SumOfZeros
    <3> QED BY <3>3 DEF PortsHold, SumFunction
  <2>2. Places = 0
    BY <1>1, <2>1, FS_EmptySet DEF Places, PortsHold
  <2> QED BY <1>1, <1>4, <2>2, FS_EmptySet DEF CountInv
<1> QED BY <1>2, <1>5, <1>6, <1>7 DEF PlacesInv

(* Every step moves at most one burst, and loses and copies none.          *)
LEMMA PlacesStep ==
  ASSUME MaxBursts <= kGlobalAddressBoundary
  PROVE  PlacesInv /\ [Next]_vars => PlacesInv'
<1> SUFFICES ASSUME PlacesInv, [Next]_vars PROVE PlacesInv'
  OBVIOUS
<1>1. TypeOK'
  BY TypeStep DEF PlacesInv
<1>2. CASE CallerEnqueue
  <2>1. PICK s \in CallerBursts :
          /\ created < MaxBursts /\ created' = created + 1
          /\ enqueue(s.pc_id, NewBurst(s, FALSE))
    BY <1>2 DEF CallerEnqueue
  <2>2. s \in Shape /\ UNCHANGED <<local_queue, global_queue, inflight, finished>>
    BY <1>2, SimulatorAssumption DEF CallerEnqueue, routerVars
  <2> QED BY <1>1, <2>1, <2>2, NewInPort DEF PlacesInv
<1>3. CASE BeginCycle
  <2>1. UNCHANGED <<local_queue, global_queue, inflight, finished>>
    BY <1>3 DEF BeginCycle, AddCredit
  <2>2. CASE UNCHANGED <<ports, created>>
    BY <1>1, <2>1, <2>2, PlacesFrame DEF PlacesInv
  <2>3. CASE ~ UNCHANGED <<ports, created>>
    <3>1. PICK s \in GatherBursts :
            /\ created < MaxBursts /\ created' = created + 1
            /\ enqueue(s.pc_id, NewBurst(s, TRUE))
      BY <1>3, <2>3 DEF BeginCycle, ClientsMayIssue
    <3>2. s \in Shape
      BY SimulatorAssumption
    <3> QED BY <1>1, <2>1, <3>1, <3>2, NewInPort DEF PlacesInv
  <2> QED BY <2>2, <2>3
<1>4. CASE RouterTick
  <2>1. CASE ForwardLocal \/ ForwardGlobal
    <3>1. UNCHANGED <<created, inflight, finished>>
      BY <1>4 DEF RouterTick
    <3> QED BY <1>1, <2>1, <3>1, MoveToPort DEF PlacesInv
  <2>2. CASE LocalDone \/ GlobalDone("vaults")
    BY <1>1, <1>4, <2>2, PlacesFrame
    DEF RouterTick, LocalDone, GlobalDone, muxVars, routerVars, PlacesInv
  <2> QED BY <1>4, <2>1, <2>2 DEF RouterTick
<1>5. CASE VaultRequest
  <2>1. PICK s \in CoreBursts \cup WritebackBursts, awaited \in BOOLEAN :
          enqueue_request(NewBurst(s, awaited))
    BY <1>5 DEF VaultRequest
  <2>2. /\ s \in Shape /\ created < MaxBursts /\ created' = created + 1
        /\ UNCHANGED <<ports, inflight, finished>>
    BY <1>5, SimulatorAssumption DEF VaultRequest, ClientsMayIssue, muxVars
  <2> QED BY <1>1, <2>1, <2>2, NewInQueue DEF PlacesInv
<1>6. CASE Admit
  BY <1>1, <1>6, MoveToMemory DEF PlacesInv
<1>7. CASE Complete
  <2>1. PICK r \in inflight :
          inflight' = inflight \ {r} /\ finished' = finished \cup {r.burst.addr}
    BY <1>7 DEF Complete
  <2>2. UNCHANGED <<ports, local_queue, global_queue, created>>
    BY <1>7 DEF Complete, muxVars, routerVars
  <2> QED BY <1>1, <2>1, <2>2, Finish DEF PlacesInv
<1>8. CASE EndCycle
  <2>1. /\ inflight' = {Aged(r) : r \in inflight}
        /\ UNCHANGED <<ports, local_queue, global_queue, created, finished>>
    BY <1>8 DEF EndCycle, muxVars, routerVars
  <2> QED BY <1>1, <2>1, Age DEF PlacesInv
<1>9. CASE \/ Call \/ Return \/ VaultsTicked \/ StartSweep \/ EndAdmission \/ Skip
           \/ UNCHANGED vars
  <2>1. UNCHANGED <<ports, local_queue, global_queue, inflight, created, finished>>
    BY <1>9 DEF Call, Return, VaultsTicked, StartSweep, EndAdmission, Skip, vars,
      muxVars, routerVars
  <2> QED BY <1>1, <2>1, PlacesFrame DEF PlacesInv
<1> QED BY <1>2, <1>3, <1>4, <1>5, <1>6, <1>7, <1>8, <1>9 DEF Next, RunStep

(* Whatever the clients, the caller and the memory system do, a burst that *)
(* was created is in exactly one place and one only until it completes, as *)
(* long as the numbers of the bursts stay below the boundary between the   *)
(* local and the global addresses (0x80000000 in the code).                *)
THEOREM BurstsConserved ==
  ASSUME MaxBursts <= kGlobalAddressBoundary
  PROVE  Spec => []NothingLostOrDuplicated
<1>1. PlacesInv => NothingLostOrDuplicated
  <2> SUFFICES ASSUME PlacesInv PROVE NothingLostOrDuplicated
    OBVIOUS
  <2>1. /\ Cardinality(Unfinished) + Cardinality(finished) = created
        /\ Places + Cardinality(finished) = created
        /\ Cardinality(Unfinished) \in Nat /\ Cardinality(finished) \in Nat
    BY FS_CardinalityType DEF PlacesInv, CountInv
  <2>2. Places \in Nat
    BY PlacesParts, PortsCount DEF PlacesInv
  <2>3. Cardinality(Unfinished) = Places
    BY <2>1, <2>2
  <2> QED BY <2>1, <2>3 DEF NothingLostOrDuplicated, PlacesInv, AddressInv
<1> QED BY <1>1, PlacesInit, PlacesStep, PTL DEF Spec
-----------------------------------------------------------------------------
(* The books of the first run.                                             *)

(* The bytes of the requests in the memory system.                         *)
BytesHeld == SumFunction([r \in inflight |-> r.burst.size_bytes])

(* The counters, exactly; before the first call there is nothing to count. *)
BooksInv ==
  run_id <= 1 =>
    /\ run_id = 0 => inflight = {} /\ finished = {}
    /\ outstanding_requests = Cardinality(inflight)
    /\ standard_sparse_inflight = Cardinality(StandardSparse)
    /\ completed = Cardinality(finished)
    /\ bytes_done + BytesHeld = tsv_bytes_admitted

(* An empty memory system holds no bytes.                                  *)
LEMMA NothingHeld ==
  ASSUME inflight = {}
  PROVE  Cardinality(inflight) = 0 /\ Cardinality(StandardSparse) = 0 /\ BytesHeld = 0
<1>1. StandardSparse = {}
  BY DEF StandardSparse
<1> DEFINE f == [r \in inflight |-> r.burst.size_bytes]
<1>2. DOMAIN f = {}
  OBVIOUS
<1>3. SumFunctionOnSet(f, {}) = 0
  <2> HIDE DEF f
  <2> QED BY FS_EmptySet, SumRecursion
<1>4. BytesHeld = SumFunctionOnSet(f, DOMAIN f)
  BY DEF BytesHeld, SumFunction
<1> HIDE DEF f
<1> QED BY <1>1, <1>2, <1>3, <1>4, FS_EmptySet

(* Nothing that the books are about changes.                               *)
LEMMA BooksFrame ==
  ASSUME BooksInv, UNCHANGED <<run_id, inflight, finished, outstanding_requests,
           standard_sparse_inflight, completed, bytes_done, tsv_bytes_admitted>>
  PROVE  BooksInv'
BY DEF BooksInv, StandardSparse, BytesHeld

(* The bytes of a set of requests grow by those of the request that joins. *)
LEMMA HeldMore ==
  ASSUME NEW S, IsFiniteSet(S), NEW x, x \notin S,
         \A r \in S \cup {x} : r.burst.size_bytes \in Nat
  PROVE  /\ SumFunction([r \in S |-> r.burst.size_bytes]) \in Nat
         /\ SumFunction([r \in S \cup {x} |-> r.burst.size_bytes])
              = SumFunction([r \in S |-> r.burst.size_bytes]) + x.burst.size_bytes
<1> DEFINE f == [r \in S |-> r.burst.size_bytes]
           g == [r \in S \cup {x} |-> r.burst.size_bytes]
<1>1. /\ DOMAIN f = S /\ DOMAIN g = S \cup {x} /\ g[x] \in Nat
      /\ \A y \in S : f[y] = g[y] /\ g[y] \in Nat
  OBVIOUS
<1>2. g[x] = x.burst.size_bytes
  OBVIOUS
<1>3. SumFunction(f) \in Nat /\ SumFunction(g) = SumFunction(f) + g[x]
  <2> HIDE DEF f, g
  <2> QED BY <1>1, SumExtended
<1> QED BY <1>2, <1>3

(* What one more request adds, exactly.                                    *)
LEMMA HoldOneMore ==
  ASSUME NEW S \in SUBSET [burst : MemoryBurst, run : Nat, left : 0 .. MaxLatency],
         IsFiniteSet(S), NEW x \in [burst : MemoryBurst, run : Nat, left : 0 .. MaxLatency],
         x \notin S
  PROVE  LET held(T) == SumFunction([r \in T |-> r.burst.size_bytes])
             sparse(T) == {r \in T : IsStandardSparse(r.burst)}
         IN  /\ held(S) \in Nat /\ held(S \cup {x}) = held(S) + x.burst.size_bytes
             /\ Cardinality(S) \in Nat /\ Cardinality(S \cup {x}) = Cardinality(S) + 1
             /\ Cardinality(sparse(S)) \in Nat
             /\ Cardinality(sparse(S \cup {x}))
                  = Cardinality(sparse(S)) + Track(x.burst)
<1> DEFINE f == [r \in S |-> r.burst.size_bytes]
           g == [r \in S \cup {x} |-> r.burst.size_bytes]
           A == {r \in S : IsStandardSparse(r.burst)}
           B == {r \in S \cup {x} : IsStandardSparse(r.burst)}
<1>1. \A r \in S \cup {x} : r.burst.size_bytes \in Nat
  <2>1. \A r \in S \cup {x} : r.burst \in MemoryBurst
    OBVIOUS
  <2> QED BY <2>1 DEF MemoryBurst
<1>2. SumFunction(f) \in Nat /\ SumFunction(g) = SumFunction(f) + x.burst.size_bytes
  BY <1>1, HeldMore
<1>3. Cardinality(S) \in Nat /\ Cardinality(S \cup {x}) = Cardinality(S) + 1
  BY FS_AddElement, FS_CardinalityType
<1>4. Cardinality(A) \in Nat /\ Cardinality(B) = Cardinality(A) + Track(x.burst)
  <2>1. IsFiniteSet(A) /\ Cardinality(A) \in Nat
    BY FS_Subset, FS_CardinalityType
  <2>2. CASE IsStandardSparse(x.burst)
    <3>1. B = A \cup {x} /\ x \notin A
      BY <2>2
    <3>2. Cardinality(B) = Cardinality(A) + 1
      <4> HIDE DEF A, B
      <4> QED BY <2>1, <3>1, FS_AddElement
    <3> QED BY <2>1, <2>2, <3>2 DEF Track
  <2>3. CASE ~ IsStandardSparse(x.burst)
    <3>1. B = A
      BY <2>3
    <3>2. Track(x.burst) = 0
      BY <2>3 DEF Track
    <3> HIDE DEF A, B
    <3> QED BY <2>1, <3>1, <3>2
  <2> QED BY <2>2, <2>3
<1> QED BY <1>2, <1>3, <1>4

(* The books after an admission.                                           *)
LEMMA BooksAdmit ==
  ASSUME TypeOK, LoopInv, PlacesInv, BooksInv, Admit, TypeOK'
  PROVE  BooksInv'
<1>1. PICK x : /\ x \notin inflight /\ inflight' = inflight \cup {x}
               /\ x.burst = Head(ports[Visited(sweep_start, k)])
  BY MoveToMemory
<1>2. PICK b : b = x.burst
  OBVIOUS
<1>3. /\ at = "admit" /\ UNCHANGED <<run_id, finished, completed, bytes_done>>
      /\ tsv_bytes_admitted' = tsv_bytes_admitted + b.size_bytes
      /\ outstanding_requests' = outstanding_requests + 1
      /\ standard_sparse_inflight' = standard_sparse_inflight + Track(b)
  BY <1>1, <1>2 DEF Admit
<1>4. /\ inflight \in SUBSET [burst : MemoryBurst, run : Nat, left : 0 .. MaxLatency]
      /\ x \in [burst : MemoryBurst, run : Nat, left : 0 .. MaxLatency]
      /\ IsFiniteSet(inflight)
  BY <1>1 DEF TypeOK, LoopInv
<1>5. /\ BytesHeld \in Nat /\ BytesHeld' = BytesHeld + b.size_bytes
      /\ Cardinality(inflight') = Cardinality(inflight) + 1
      /\ Cardinality(StandardSparse') = Cardinality(StandardSparse) + Track(b)
  BY <1>1, <1>2, <1>4, HoldOneMore DEF BytesHeld, StandardSparse
<1>6. b.size_bytes \in Nat /\ bytes_done \in Nat
  BY <1>2, <1>4 DEF MemoryBurst, TypeOK
<1>7. SUFFICES ASSUME run_id <= 1 PROVE BooksInv'
  BY <1>3 DEF BooksInv
<1>8. run_id # 0
  BY <1>3, <1>7 DEF LoopInv, CoverInv
<1> QED BY <1>3, <1>5, <1>6, <1>7, <1>8 DEF BooksInv

(* The books after a completion.                                           *)
LEMMA BooksComplete ==
  ASSUME TypeOK, LoopInv, PlacesInv, BooksInv, Complete
  PROVE  BooksInv'
<1>1. PICK r \in inflight : Complete!(r)
  BY DEF Complete
<1>2. /\ at = "memory" /\ run_id' = run_id /\ inflight' = inflight \ {r}
      /\ tsv_bytes_admitted' = tsv_bytes_admitted
      /\ finished' = finished \cup {r.burst.addr}
      /\ UNCHANGED <<ports, local_queue, global_queue, created>>
  BY <1>1 DEF muxVars, routerVars
<1>3. Cardinality(finished') = Cardinality(finished) + 1
  BY <1>2, Finish
<1>4. SUFFICES ASSUME run_id <= 1 PROVE BooksInv'
  BY <1>2 DEF BooksInv
<1>5. run_id # 0 /\ r.run = run_id
  BY <1>2, <1>4 DEF LoopInv, CoverInv
<1>6. Reply(r.burst)
  BY <1>1, <1>5
<1>7. /\ inflight' \in SUBSET [burst : MemoryBurst, run : Nat, left : 0 .. MaxLatency]
      /\ r \in [burst : MemoryBurst, run : Nat, left : 0 .. MaxLatency]
      /\ IsFiniteSet(inflight') /\ r \notin inflight' /\ inflight' \cup {r} = inflight
  BY <1>2, FS_RemoveElement DEF TypeOK, LoopInv
<1>8. /\ BytesHeld' \in Nat /\ BytesHeld = BytesHeld' + r.burst.size_bytes
      /\ Cardinality(inflight') \in Nat
      /\ Cardinality(inflight) = Cardinality(inflight') + 1
      /\ Cardinality(StandardSparse') \in Nat
      /\ Cardinality(StandardSparse) = Cardinality(StandardSparse') + Track(r.burst)
  <2> DEFINE S == inflight'
  <2>1. /\ S \in SUBSET [burst : MemoryBurst, run : Nat, left : 0 .. MaxLatency]
        /\ IsFiniteSet(S) /\ r \notin S /\ S \cup {r} = inflight
    BY <1>7
  <2>2. /\ BytesHeld' = SumFunction([q \in S |-> q.burst.size_bytes])
        /\ StandardSparse' = {q \in S : IsStandardSparse(q.burst)}
        /\ BytesHeld = SumFunction([q \in S \cup {r} |-> q.burst.size_bytes])
        /\ StandardSparse = {q \in S \cup {r} : IsStandardSparse(q.burst)}
    BY <2>1 DEF BytesHeld, StandardSparse
  <2> HIDE DEF S
  <2>3. /\ SumFunction([q \in S |-> q.burst.size_bytes]) \in Nat
        /\ SumFunction([q \in S \cup {r} |-> q.burst.size_bytes])
             = SumFunction([q \in S |-> q.burst.size_bytes]) + r.burst.size_bytes
        /\ Cardinality(S) \in Nat /\ Cardinality(S \cup {r}) = Cardinality(S) + 1
        /\ Cardinality({q \in S : IsStandardSparse(q.burst)}) \in Nat
        /\ Cardinality({q \in S \cup {r} : IsStandardSparse(q.burst)})
             = Cardinality({q \in S : IsStandardSparse(q.burst)}) + Track(r.burst)
    BY <1>7, <2>1, HoldOneMore, Zenon
  <2> QED BY <2>1, <2>2, <2>3 DEF S
<1>9. /\ outstanding_requests = Cardinality(inflight)
      /\ standard_sparse_inflight = Cardinality(StandardSparse)
      /\ completed = Cardinality(finished)
      /\ bytes_done + BytesHeld = tsv_bytes_admitted
  BY <1>4 DEF BooksInv
<1>10. r.burst.size_bytes \in Nat /\ bytes_done \in Nat
  BY <1>7 DEF MemoryBurst, TypeOK
<1>11. /\ outstanding_requests' = Cardinality(inflight')
       /\ completed' = Cardinality(finished')
       /\ bytes_done' + BytesHeld' = tsv_bytes_admitted'
  BY <1>2, <1>3, <1>6, <1>8, <1>9, <1>10 DEF Reply, CountDown
<1>12. standard_sparse_inflight' = Cardinality(StandardSparse')
  BY <1>6, <1>8, <1>9 DEF Reply, CountDown, Track
<1> QED BY <1>2, <1>5, <1>11, <1>12 DEF BooksInv

(* The books after a cycle.                                                *)
LEMMA BooksEndCycle ==
  ASSUME TypeOK, LoopInv, PlacesInv, BooksInv, EndCycle
  PROVE  BooksInv'
<1> DEFINE T == {Aged(r) : r \in inflight}
           m == [r \in inflight |-> Aged(r)]
           f == [r \in inflight |-> r.burst.size_bytes]
           e == [r \in T |-> r.burst.size_bytes]
<1>1. /\ inflight' = T
      /\ UNCHANGED <<ports, local_queue, global_queue, created, finished, run_id,
           outstanding_requests, standard_sparse_inflight, completed, bytes_done,
           tsv_bytes_admitted>>
  BY DEF EndCycle, muxVars, routerVars
<1>2. Cardinality(inflight') = Cardinality(inflight)
  BY <1>1, Age
<1>3. /\ m \in Surjection(inflight, T)
      /\ \A r \in inflight : m[r] \in T /\ m[r].burst = r.burst
  BY DEF Surjection, Aged
<1>4. IsInjective(m)
  BY <1>3 DEF IsInjective, PlacesInv, PlacedInv
<1>5. IsFiniteSet(inflight) /\ \A r \in inflight : f[r] \in Nat /\ e[m[r]] = f[r]
  <2>1. \A r \in inflight : r.burst \in MemoryBurst
    BY DEF TypeOK
  <2>2. \A r \in inflight : r.burst.size_bytes \in Nat
    BY <2>1 DEF MemoryBurst
  <2> QED BY <1>3, <2>2 DEF LoopInv
<1>6. BytesHeld' = BytesHeld
  <2>1. BytesHeld' = SumFunctionOnSet(e, T) /\ BytesHeld = SumFunctionOnSet(f, inflight)
    BY <1>1 DEF BytesHeld, SumFunction
  <2> HIDE DEF m, f, e, T
  <2> QED BY <1>3, <1>4, <1>5, <2>1, SumRenamed
<1>7. Cardinality(StandardSparse') = Cardinality(StandardSparse)
  <2> DEFINE A == StandardSparse
             B == {Aged(r) : r \in A}
             n == [r \in A |-> Aged(r)]
  <2>1. StandardSparse' = B /\ A \in SUBSET inflight
    BY <1>1 DEF StandardSparse, Aged
  <2>2. n \in Surjection(A, B) /\ IsInjective(n)
    <3>1. \A r, s \in A : Aged(r) = Aged(s) => r = s
      BY <2>1 DEF Aged, PlacesInv, PlacedInv
    <3> HIDE DEF A
    <3> QED BY <3>1 DEF Surjection, IsInjective
  <2>3. n \in Injection(A, B)
    BY <2>2 DEF Injection, Surjection
  <2>4. IsFiniteSet(A)
    BY <1>5, <2>1, FS_Subset
  <2> HIDE DEF A, B, n
  <2>5. Cardinality(B) = Cardinality(A)
    BY <2>2, <2>3, <2>4, FS_Surjection
  <2> QED BY <2>1, <2>5 DEF A
<1>8. UNCHANGED <<run_id, finished, completed, bytes_done, outstanding_requests,
                  standard_sparse_inflight, tsv_bytes_admitted>>
  BY <1>1
<1>9. inflight = {} => inflight' = {}
  BY <1>1
<1> QED BY <1>2, <1>6, <1>7, <1>8, <1>9, Zenon DEF BooksInv

(* Every step keeps the books.                                             *)
LEMMA BooksStep == LoopInv /\ PlacesInv /\ BooksInv /\ [Next]_vars => BooksInv'
<1> SUFFICES ASSUME LoopInv, PlacesInv, BooksInv, [Next]_vars PROVE BooksInv'
  OBVIOUS
<1>1. TypeOK /\ TypeOK'
  BY TypeStep DEF LoopInv
<1>2. CASE Call
  <2>1. /\ run_id' = run_id + 1 /\ completed' = 0 /\ bytes_done' = 0
        /\ outstanding_requests' = 0 /\ standard_sparse_inflight' = 0
        /\ tsv_bytes_admitted' = 0 /\ UNCHANGED <<inflight, finished>>
    BY <1>2 DEF Call
  <2>2. SUFFICES ASSUME run_id' <= 1 PROVE BooksInv'
    BY DEF BooksInv
  <2>3. run_id = 0 /\ run_id' = 1
    BY <1>1, <2>1, <2>2 DEF TypeOK
  <2>4. inflight = {} /\ finished = {}
    BY <2>3 DEF BooksInv
  <2>5. Cardinality(inflight) = 0 /\ Cardinality(StandardSparse) = 0 /\ BytesHeld = 0
    BY <2>4, NothingHeld
  <2>6. BytesHeld' = BytesHeld /\ StandardSparse' = StandardSparse
    BY <2>1 DEF BytesHeld, StandardSparse
  <2> QED BY <2>1, <2>3, <2>4, <2>5, <2>6, FS_EmptySet DEF BooksInv
<1>3. CASE Admit
  BY <1>1, <1>3, BooksAdmit
<1>4. CASE Complete
  BY <1>1, <1>4, BooksComplete
<1>5. CASE EndCycle
  BY <1>1, <1>5, BooksEndCycle
<1>6. CASE \/ CallerEnqueue \/ Return \/ BeginCycle \/ RouterTick \/ VaultRequest
           \/ VaultsTicked \/ StartSweep \/ EndAdmission \/ Skip \/ UNCHANGED vars
  <2>1. UNCHANGED <<run_id, inflight, finished, outstanding_requests,
           standard_sparse_inflight, completed, bytes_done, tsv_bytes_admitted>>
    BY <1>6 DEF CallerEnqueue, Return, BeginCycle, RouterTick, VaultRequest,
      VaultsTicked, StartSweep, EndAdmission, Skip, vars, runVars
  <2> QED BY <2>1, BooksFrame
<1> QED BY <1>2, <1>3, <1>4, <1>5, <1>6 DEF Next, RunStep

(* In the first run every counter of the loop is exact after every step:   *)
(* requests under way, standard reads under way, completions, and bytes    *)
(* admitted against bytes answered and bytes still held.                   *)
THEOREM BooksBalance ==
  ASSUME MaxBursts <= kGlobalAddressBoundary
  PROVE  Spec => []Accounting
<1>1. Init => BooksInv
  <2> SUFFICES ASSUME Init PROVE BooksInv
    OBVIOUS
  <2>1. inflight = {} /\ finished = {}
    BY DEF Init
  <2> QED BY <2>1, NothingHeld, FS_EmptySet DEF Init, BooksInv
<1>2. BooksInv => Accounting
  BY DEF BooksInv, Accounting, BytesHeld
<1> QED BY <1>1, <1>2, LoopInit, LoopStep, PlacesInit, PlacesStep, BooksStep, PTL DEF Spec
=============================================================================
