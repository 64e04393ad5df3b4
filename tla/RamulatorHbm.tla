----------------------------- MODULE RamulatorHbm -----------------------------
(***************************************************************************)
(* RamulatorHbmSimulator::run (src/src/ramulator_hbm.cpp): the cycle loop  *)
(* that lets the compute units issue requests, drains the router, admits   *)
(* bursts from the pseudo-channel ports into the memory system under the   *)
(* TSV byte cap, and counts completions.                                   *)
(*                                                                         *)
(* The compute units (Piccolo, SIMD cores, PSAU, vertex program) appear    *)
(* here as clients that may issue any request of their kind; modules of    *)
(* their own model what they really do.  The Ramulator memory system is    *)
(* external: a bounded queue whose requests complete, in any order, at     *)
(* most MaxLatency ticks after they were accepted.                         *)
(***************************************************************************)
EXTENDS HierarchicalRouter, Functions

CONSTANTS
  TsvLimitPerTick,    \* tsv_limit_per_tick in bytes; 0: tsv_peak_gbps_ is 0
  kMaxWavesPerTick,   \* 256 in the code
  Serialize,          \* serialize_standard_sparse_reads_
  QueueDepth,         \* external: requests the memory system holds
  MaxLatency,         \* external: ticks a request takes at most
  MaxCycles,          \* max_memory_cycles of every run() call
  CallerBursts,       \* shapes the caller puts into the ports before run()
  GatherBursts,       \* shapes Piccolo puts into the ports
  CoreBursts,         \* shapes the SIMD cores and the vertex program await
  WritebackBursts,    \* shapes of the PSAU's and vertex program's writebacks
  MaxBursts,          \* bound: bursts created
  ClientCycles,       \* bound: cycles of a run in which clients issue bursts
  MaxRuns             \* bound: calls of run()

(* The shape of a burst: its size, its port and the class of its address.  *)
Shape == [size_bytes : Nat, pc_id : PC, global : BOOLEAN]

ASSUME SimulatorAssumption ==
  /\ TsvLimitPerTick \in Nat
  /\ kMaxWavesPerTick \in Nat
  /\ Serialize \in BOOLEAN
  /\ QueueDepth \in Nat
  /\ MaxLatency \in Nat \ {0}
  /\ MaxCycles \in Nat
  /\ CallerBursts \subseteq Shape
  /\ GatherBursts \subseteq Shape
  /\ CoreBursts \subseteq Shape
  /\ WritebackBursts \subseteq Shape
  /\ MaxBursts \in Nat
  /\ ClientCycles \in Nat
  /\ MaxRuns \in Nat

VARIABLES
  \* locals of run()
  cycles, completed, bytes_done, outstanding_requests,
  standard_sparse_inflight, tsv_bytes_admitted,
  \* locals of one cycle's admission phase
  tsv_used_this_tick, wave_count, wave_progress, sweep_start, k,
  \* surroundings
  clients_done,   \* every attached client reports done()
  run_id,         \* number of run() calls so far; 0 before the first
  inflight,       \* external: accepted requests [burst, run, left]
  created,        \* bursts created so far; burst n has address n (+ boundary)
  finished        \* history: addresses of the bursts whose callback has run

runVars == <<cycles, completed, bytes_done, outstanding_requests,
             standard_sparse_inflight, tsv_bytes_admitted>>
tickVars == <<tsv_used_this_tick, wave_count, wave_progress, sweep_start, k>>
vars == <<muxVars, routerVars, at, runVars, tickVars,
          clients_done, run_id, inflight, created, finished>>

-----------------------------------------------------------------------------
(* is_standard_sparse_read, :204 *)
IsStandardSparse(b) == b.size_bytes >= 64 /\ ~ b.on_complete

NewBurst(s, awaited) ==
  [addr |-> created + IF s.global THEN kGlobalAddressBoundary ELSE 0,
   size_bytes |-> s.size_bytes, pc_id |-> s.pc_id, on_complete |-> awaited]

Bursts(reqs) == {r.burst : r \in reqs}

(* All bursts that exist and have not completed.                           *)
Unfinished ==
  Range(local_queue) \cup Range(global_queue)
    \cup (UNION {Range(ports[p]) : p \in PC}) \cup Bursts(inflight)

(* A client that waits for a reply is not done (SIMDCore::is_done,         *)
(* PiccoloGatherController::done, phase APPLY_UPDATE_LOAD_H).              *)
ReplyAwaited == \E b \in Unfinished : b.on_complete

(* Mutant: the loop ends while requests are still in the memory system.    *)
has_work_noOutstanding == ~ clients_done \/ ~ NoPendingBursts

has_work ==
  ~ clients_done \/ ~ NoPendingBursts \/ outstanding_requests > 0

Init ==
  /\ MuxInit /\ RouterInit
  /\ at = "idle"
  /\ cycles = 0 /\ completed = 0 /\ bytes_done = 0
  /\ outstanding_requests = 0 /\ standard_sparse_inflight = 0
  /\ tsv_bytes_admitted = 0
  /\ tsv_used_this_tick = 0 /\ wave_count = 0 /\ wave_progress = FALSE
  /\ sweep_start = 0 /\ k = kNumPseudoChannels
  /\ clients_done \in BOOLEAN
  /\ run_id = 0 /\ inflight = {} /\ created = 0 /\ finished = {}

(* Between runs the caller loads ports directly (load_sequential_workload, *)
(* port(pc).enqueue); such bursts carry no callback.                       *)
CallerEnqueue ==
  \E s \in CallerBursts :
    /\ at \in {"idle", "returned"}
    /\ created < MaxBursts
    /\ created' = created + 1
    /\ enqueue(s.pc_id, NewBurst(s, FALSE))
    /\ UNCHANGED <<rr_cursor, routerVars, at, runVars, tickVars,
                   clients_done, run_id, inflight, finished>>

(* The entry of run(): fresh counters, the old ones go out of scope.       *)
Call ==
  /\ at \in {"idle", "returned"}
  /\ run_id < MaxRuns
  /\ run_id' = run_id + 1
  /\ cycles' = 0 /\ completed' = 0 /\ bytes_done' = 0
  /\ outstanding_requests' = 0 /\ standard_sparse_inflight' = 0
  /\ tsv_bytes_admitted' = 0
  /\ at' = "while"
  /\ UNCHANGED <<muxVars, routerVars, tickVars, clients_done,
                 inflight, created, finished>>

Return ==
  /\ at = "while"
  /\ ~ (cycles < MaxCycles /\ has_work)
  /\ at' = "returned"
  /\ UNCHANGED <<muxVars, routerVars, runVars, tickVars, clients_done,
                 run_id, inflight, created, finished>>

ClientsMayIssue == created < MaxBursts /\ cycles < ClientCycles

(* The loop body up to the router's loops: piccolo_->tick_issue(), which   *)
(* enqueues at most one awaited element read, then router_->tick().        *)
BeginCycle ==
  /\ at = "while"
  /\ cycles < MaxCycles /\ has_work
  /\ AddCredit
  /\ at' = "router_local"
  /\ \/ UNCHANGED <<ports, created>>
     \/ \E s \in GatherBursts :
          /\ ~ clients_done /\ ClientsMayIssue
          /\ enqueue(s.pc_id, NewBurst(s, TRUE))
          /\ created' = created + 1
  /\ UNCHANGED <<rr_cursor, runVars, tickVars, clients_done,
                 run_id, inflight, finished>>

(* The router's tick, :89.                                                 *)
RouterTick ==
  /\ ForwardLocal \/ LocalDone \/ ForwardGlobal \/ GlobalDone("vaults")
  /\ UNCHANGED <<runVars, tickVars, clients_done, run_id,
                 inflight, created, finished>>

(* One request of the vault loop, the PSAU stage or the vertex program     *)
(* stage, :95-184.  A core or the vertex program awaits its reply; a       *)
(* writeback has no callback, and the PSAU may emit one when every client  *)
(* is done.                                                                *)
VaultRequest ==
  /\ at = "vaults"
  /\ ClientsMayIssue
  /\ \/ \E s \in CoreBursts : ~ clients_done /\ enqueue_request(NewBurst(s, TRUE))
     \/ \E s \in WritebackBursts : enqueue_request(NewBurst(s, FALSE))
  /\ created' = created + 1
  /\ UNCHANGED <<muxVars, at, runVars, tickVars, clients_done,
                 run_id, inflight, finished>>

(* The end of the vault, PSAU and vertex program stages.  Clients become   *)
(* done at any time when they await nothing, and do so once ClientCycles   *)
(* have passed.  Then the wave loop is set up, :185-188.                   *)
VaultsTicked ==
  /\ at = "vaults"
  /\ \E d \in BOOLEAN :
       /\ clients_done => d
       /\ ReplyAwaited => d = clients_done
       /\ ~ ReplyAwaited /\ cycles >= ClientCycles => d
       /\ clients_done' = d
  /\ tsv_used_this_tick' = 0
  /\ wave_count' = 0
  /\ wave_progress' = TRUE
  /\ k' = kNumPseudoChannels
  /\ at' = "admit"
  /\ UNCHANGED <<muxVars, routerVars, runVars, sweep_start, run_id,
                 inflight, created, finished>>

-----------------------------------------------------------------------------
(* The admission phase, :189-244.                                          *)

(* Mutant: one sweep only.                                                 *)
NextWave_once == wave_progress /\ wave_count < 1

NextWave == wave_progress /\ wave_count < kMaxWavesPerTick

StartSweep ==
  /\ at = "admit" /\ k = kNumPseudoChannels
  /\ NextWave
  /\ wave_count' = wave_count + 1
  /\ wave_progress' = FALSE
  /\ sweep_start' = rr_cursor
  /\ k' = 0
  /\ UNCHANGED <<muxVars, routerVars, at, runVars, tsv_used_this_tick,
                 clients_done, run_id, inflight, created, finished>>

EndAdmission ==
  /\ at = "admit" /\ k = kNumPseudoChannels
  /\ ~ NextWave
  /\ at' = "memory"
  /\ UNCHANGED <<muxVars, routerVars, runVars, tickVars, clients_done,
                 run_id, inflight, created, finished>>

(* Mutant: a second read is let through (`> 1' for `> 0').                 *)
SerializeBlocks_late(b) ==
  Serialize /\ IsStandardSparse(b) /\ standard_sparse_inflight > 1

SerializeBlocks(b) ==
  Serialize /\ IsStandardSparse(b) /\ standard_sparse_inflight > 0

(* Mutant: the cap is tested without the burst that is about to be charged.*)
TsvBlocks_before(b) == TsvLimitPerTick > 0 /\ tsv_used_this_tick > TsvLimitPerTick

TsvBlocks(b) ==
  TsvLimitPerTick > 0 /\ tsv_used_this_tick + b.size_bytes > TsvLimitPerTick

(* external: send() accepts while the controller has room *)
SendAccepts == Cardinality(inflight) < QueueDepth

Admissible(p) ==
  /\ ports[p] # <<>>
  /\ ~ SerializeBlocks(Head(ports[p]))
  /\ ~ TsvBlocks(Head(ports[p]))
  /\ SendAccepts

(* Mutant: a blocked port ends the sweep (`break' for `continue').         *)
Skip_break ==
  /\ at = "admit" /\ k < kNumPseudoChannels
  /\ ~ Admissible(Visited(sweep_start, k))
  /\ k' = kNumPseudoChannels
  /\ UNCHANGED <<muxVars, routerVars, at, runVars, tsv_used_this_tick,
                 wave_count, wave_progress, sweep_start, clients_done,
                 run_id, inflight, created, finished>>

Skip ==
  /\ at = "admit" /\ k < kNumPseudoChannels
  /\ ~ Admissible(Visited(sweep_start, k))
  /\ k' = k + 1
  /\ UNCHANGED <<muxVars, routerVars, at, runVars, tsv_used_this_tick,
                 wave_count, wave_progress, sweep_start, clients_done,
                 run_id, inflight, created, finished>>

Track(b) == IF IsStandardSparse(b) THEN 1 ELSE 0

Admit ==
  /\ at = "admit" /\ k < kNumPseudoChannels
  /\ LET p == Visited(sweep_start, k)
         b == Head(ports[p])
     IN /\ Admissible(p)
        /\ \E l \in 1 .. MaxLatency :
             inflight' = inflight \cup {[burst |-> b, run |-> run_id, left |-> l]}
        /\ pop(p)
        /\ advance_after_issue(p)
        /\ tsv_used_this_tick' = tsv_used_this_tick + b.size_bytes
        /\ tsv_bytes_admitted' = tsv_bytes_admitted + b.size_bytes
        /\ outstanding_requests' = outstanding_requests + 1
        /\ standard_sparse_inflight' = standard_sparse_inflight + Track(b)
  /\ wave_progress' = TRUE
  /\ k' = k + 1
  /\ UNCHANGED <<routerVars, at, cycles, completed, bytes_done, wave_count,
                 sweep_start, clients_done, run_id, created, finished>>

-----------------------------------------------------------------------------
(* memory_system_->tick(), :246.                                           *)

CountDown(n) == IF n > 0 THEN n - 1 ELSE n

(* Mutant: the callback leaves the counters of waiting requests alone.     *)
Reply_noDecrement(b) ==
  /\ completed' = completed + 1
  /\ bytes_done' = bytes_done + b.size_bytes
  /\ UNCHANGED <<outstanding_requests, standard_sparse_inflight>>

(* The request's callback on the counters of the run that created it,      *)
(* :218-226.                                                               *)
Reply(b) ==
  /\ completed' = completed + 1
  /\ bytes_done' = bytes_done + b.size_bytes
  /\ outstanding_requests' = CountDown(outstanding_requests)
  /\ standard_sparse_inflight' =
       IF IsStandardSparse(b) THEN CountDown(standard_sparse_inflight)
       ELSE standard_sparse_inflight

(* A request whose time has come completes.  The callback holds references *)
(* to locals of the run() call that sent it; when that call has returned   *)
(* they dangle, and the writes land on the counters of the current call    *)
(* or elsewhere.                                                           *)
Complete ==
  \E r \in inflight :
    /\ at = "memory"
    /\ r.left = 0
    /\ inflight' = inflight \ {r}
    /\ finished' = finished \cup {r.burst.addr}
    /\ \/ Reply(r.burst)
       \/ r.run # run_id /\ UNCHANGED <<completed, bytes_done,
                              outstanding_requests, standard_sparse_inflight>>
    /\ UNCHANGED <<muxVars, routerVars, at, cycles, tsv_bytes_admitted,
                   tickVars, clients_done, run_id, created>>

Aged(r) == [burst |-> r.burst, run |-> r.run, left |-> r.left - 1]

EndCycle ==
  /\ at = "memory"
  /\ \A r \in inflight : r.left # 0
  /\ inflight' = {Aged(r) : r \in inflight}
  /\ cycles' = cycles + 1
  /\ at' = "while"
  /\ UNCHANGED <<muxVars, routerVars, completed, bytes_done,
                 outstanding_requests, standard_sparse_inflight,
                 tsv_bytes_admitted, tickVars, clients_done, run_id,
                 created, finished>>

-----------------------------------------------------------------------------
RunStep ==
  \/ Return \/ BeginCycle \/ RouterTick \/ VaultRequest \/ VaultsTicked
  \/ StartSweep \/ EndAdmission \/ Skip \/ Admit \/ Complete \/ EndCycle

Next == CallerEnqueue \/ Call \/ RunStep

Spec == Init /\ [][Next]_vars

(* run() is a loop on one thread: once called it keeps taking steps.       *)
FairSpec == Spec /\ WF_vars(RunStep)

-----------------------------------------------------------------------------
(* Types of the loop, its clients and the memory system.                   *)
TypeOK ==
  /\ MuxTypeOK /\ RouterTypeOK
  /\ at \in {"idle", "while", "router_local", "router_global", "vaults",
             "admit", "memory", "returned"}
  /\ cycles \in Nat /\ completed \in Nat /\ bytes_done \in Nat
  /\ outstanding_requests \in Nat /\ standard_sparse_inflight \in Nat
  /\ tsv_bytes_admitted \in Nat /\ tsv_used_this_tick \in Nat
  /\ wave_count \in 0 .. kMaxWavesPerTick /\ wave_progress \in BOOLEAN
  /\ sweep_start \in PC /\ k \in 0 .. kNumPseudoChannels
  /\ clients_done \in BOOLEAN /\ run_id \in 0 .. MaxRuns
  /\ inflight \subseteq [burst : MemoryBurst, run : Nat, left : 0 .. MaxLatency]
  /\ created \in 0 .. MaxBursts /\ finished \subseteq Nat

StandardSparse == {r \in inflight : IsStandardSparse(r.burst)}

(* In the first run the loop's counters agree with what the memory system  *)
(* really holds and has answered, at every step of the loop: nothing is    *)
(* counted twice, and no completion is missed (:58-61, :217-230).          *)
Accounting ==
  run_id <= 1 =>
    /\ outstanding_requests = Cardinality(inflight)
    /\ standard_sparse_inflight = Cardinality(StandardSparse)
    /\ completed = Cardinality(finished)
    /\ bytes_done + SumFunction([r \in inflight |-> r.burst.size_bytes])
         = tsv_bytes_admitted

(* With serialization on, the memory system never holds two standard       *)
(* sparse reads (:206-209), whichever ports they came from.                *)
SerializedReads ==
  Serialize /\ run_id <= 1 => Cardinality(StandardSparse) <= 1

(* The cycles that have begun to admit.                                    *)
AdmittingCycles == cycles + IF at \in {"admit", "memory"} THEN 1 ELSE 0

(* No run admits more bytes than the TSV peak allows in its cycles: the    *)
(* cap of every tick, over any pattern of waves and rejections, adds up to *)
(* the bandwidth oracle's bound (bandwidth_oracle.hpp).  With Accounting,  *)
(* effective_gbps of a first run never exceeds tsv_peak_gbps.              *)
OracleBound ==
  TsvLimitPerTick > 0 => tsv_bytes_admitted <= TsvLimitPerTick * AdmittingCycles

(* What the queues, the ports and the memory system hold, one by one.      *)
Places ==
  Len(local_queue) + Len(global_queue) + Cardinality(inflight)
    + SumFunction([p \in PC |-> Len(ports[p])])

(* Every burst ever created is in exactly one place: a router queue, a     *)
(* port, the memory system, or finished.                                   *)
NothingLostOrDuplicated ==
  /\ Places + Cardinality(finished) = created
  /\ Cardinality(Unfinished) = Places
  /\ \A b \in Unfinished : b.addr \notin finished

(* The step that returns before max_memory_cycles.                         *)
FinishedEarly == at = "while" /\ at' = "returned" /\ cycles < MaxCycles

(* A first run that ends before max_memory_cycles has emptied the ports    *)
(* and the memory system: no completion is left to come.                   *)
ReturnedDrained ==
  [][ FinishedEarly /\ run_id = 1 => NoPendingBursts /\ inflight = {} ]_vars

(* The admission phase ends only when no port has a burst that could still *)
(* be admitted, unless it ran out of waves (HBM_SPEC.md, "Repeat waves     *)
(* until a full round-robin sweep over all 16 PCs produces no new send()   *)
(* success").                                                              *)
WavesExhaustAdmission ==
  [][ at = "admit" /\ at' = "memory" =>
        wave_count = kMaxWavesPerTick \/ \A p \in PC : ~ Admissible(p)
    ]_vars

(* A burst that can ever pass the TSV cap.                                 *)
Fits(b) == TsvLimitPerTick = 0 \/ b.size_bytes <= TsvLimitPerTick

(* A fitting burst at the head of a port completes in a run that is long   *)
(* enough, whatever waits in the other ports, oversized bursts included    *)
(* (the wave loop skips a blocked port, :206-213).                         *)
HeadsComplete ==
  \A p \in PC, n \in 0 .. MaxBursts - 1, boundary \in {0, kGlobalAddressBoundary} :
    (/\ at \notin {"idle", "returned"}
     /\ ports[p] # <<>>
     /\ Fits(Head(ports[p]))
     /\ Head(ports[p]).addr = boundary + n)
      ~> (boundary + n \in finished)

(* A run that ends before max_memory_cycles has completed every burst: "Run*)
(* until all bursts are completed or `max_memory_cycles` reached"          *)
(* (ramulator_hbm.hpp:65).                                                 *)
AllCompletedOnReturn ==
  [][ FinishedEarly => Unfinished = {} ]_vars
=============================================================================
