# TLA+ models of the PIM simulator

The program simulates a processing-in-memory accelerator for temporal graph
networks: an HBM stack with sixteen pseudo-channels, and on each of them a
vault with a SIMD core, a gather controller (Piccolo), a systolic array with
its feeder, a GRU cell, and one adder tree (PSAU) that sums what all vaults
produce.  `RamulatorHbmSimulator::run` is the heart: a cycle loop that ticks
every unit, moves requests through the router and the ports into Ramulator,
and counts completions.  It runs on one thread.  What makes it hard is the
order in which one cycle calls units that share state, replies that arrive in
any order and long after the request, byte budgets that are carried from
cycle to cycle, and hand-counted latencies.

Paths below are relative to the repository's root, where the implementation is
`src/src/`, its tests `src/tests/` and its specification
`src/docs/HBM_SPEC.md`.

Contents: 1 the system, 2 the modules, 3 the runs, 4 fairness, 5 what is
proved, 6 what the models show about the code, 7 what is not modelled,
8 plan.

## 1. The system

| Component | State | Operations | Hard behaviour | What makes it correct |
|---|---|---|---|---|
| Pseudo-channel multiplexer (`pseudo_channel.hpp`) | a queue per port, the cursor | `enqueue`, `pop`, `pick_next_round_robin`, `advance_after_issue`, `load_sequential_workload` | the cursor moves only on an issue | no port is passed over; streams do not overlap |
| Router (`hierarchical_router.hpp`) | local and global queue, byte credit of each | `enqueue_request`, `tick` | unspent credit is kept | rates hold, nothing payable waits, order within a class, every request gets through |
| Simulator loop (`ramulator_hbm.cpp`) | counters of a run; per cycle: bytes charged, waves, the sweep | `run`, the completion callbacks | up to 256 waves over 16 ports under a TSV byte cap, rejections, serialization of sparse reads; completions out of order | counters exact, caps hold, an early return leaves nothing behind |
| Ramulator (external) | accepted requests | `send`, `tick`, callback | rejects when full, answers in any order | - |
| Systolic array, feeder (`systolic_array.hpp`, `array_feeder.hpp`) | weights, activations and sums in flight; sixteen delay lines | `load_weights`, `tick`, `push_vector`, `get_next_activations` | the wavefront is right only if it starts from empty lanes | a product leaves whole, on time, and apart from others |
| GRU cell (`gru.hpp`) | phase, drain count, gates | `start`, `tick` | borrows an array that others tick and a feeder that others push into; may be started again half-way, and clears neither; outputs are read on one counted tick | an evaluation that begins with an empty feeder reads its own products only; every evaluation ends |
| PSAU (`psau.hpp`) | three stages with valid flags, the result | `tick` | two owners tick it in one cycle | a delay line of four ticks that sums its input |
| Gather controller (`piccolo_controller.hpp`) | offset and data ring buffers, counters | `reset_for_new_batch`, `tick_issue`, `on_read_complete`, `done` | full buffers drop silently; replies of a batch that was given up; two users that do not know of each other | `done()` means gathered; no user waits for ever |
| Vertex program (`tgn_twophase.hpp`) | phase, message, hidden state, drain counts | `start_vertex`, `tick`, the load callback | seven phases, each ended by another unit; ticks units that the loop ticks too | message and hidden state are the vertex's own; every vertex ends and is written once |
| SIMD core (`simd_core.hpp`) | instruction queue, 256 registers, one stall flag, one pending destination, a flag for each unit it waits for | `tick` (twelve opcodes), `load_program`, `on_memory_reply`, `write_register`, `attach_sa_and_feeder_for_gru` | LOAD, GATHER and GRU_UPDATE end in other units, whose answers do not say which instruction they belong to | instructions take effect in program order, each as a whole; every program ends |
| Feature partitioner (`feature_partitioner.hpp`) | none; a loop over chunks | `make_feature_partition`, `make_hybrid_partition`, `dims_per_vault` | unsigned arithmetic, a last chunk that is shorter | every dimension has the vault of its chunk; vaults are balanced; calls return |
| Bandwidth oracle, bindings, configuration | none | formulas, marshalling | - | - |

How they interact.  The caller fills ports or starts programs, then calls
`run`.  Each cycle of `run` first ticks the router, which moves requests into
the ports (`ramulator_hbm.cpp:67-70`); then every vault: gather controller,
SIMD core, feeder and array; then the PSAU with what the arrays show; then the
vertex program, which ticks arrays, GRU cells and PSAU again; then it issues
the vertex's hidden-state read and writeback; then it admits bursts from the
ports in waves; last it ticks Ramulator, whose callbacks deliver replies.
Piccolo puts its reads straight into its port; SIMD cores, PSAU and vertex
program go through the router.  A GATHER of a vault's core and the gather phase
of the vertex program use the same gather controller.

The hazards that follow from this, each with the line where it bites and the
properties that would catch it, are listed in `PROJECT.json`.

## 2. The modules

| Module | Models | State and actions in terms of the code |
|---|---|---|
| `PseudoChannel` | ports, round robin | `ports`, `rr_cursor`; `enqueue`, `pop` and `advance_after_issue` are used by whoever drives the ports |
| `SequentialWorkload` | loader and arbiter, driven by a caller | `Load` = `load_sequential_workload`, `Issue` = pick, pop and advance; `bypass` counts issues a pending port has seen |
| `HierarchicalRouter` | the router | one step per iteration of the two `while` loops of `tick` (`ForwardLocal`, `LocalDone`, ...); `at` is the place of the thread |
| `RouterTraffic` | router with requesters and consumers | adds histories of bytes sent |
| `RamulatorHbm` | `run` with router, ports and memory | `at` is the place in the loop; `StartSweep`, `Skip`, `Admit`, `EndAdmission` are the wave loop, one port a step; `Complete`, `EndCycle` are Ramulator's tick; `Call`, `Return` begin and end a run |
| `FairAdmission` | the same loop seen from the ports | adds the bypass count of every port |
| `SystolicArray`, `ArrayFeeder` | array and feeder | numbers are symbolic: an activation is a vector (its row is the lane), a sum is the set of its terms <<vector, matrix, row, column>>, so that "the right product" is an equality of sets |
| `Wavefront` | vectors pushed by a program, ticked by the loop | `PushArr`, `LoadWeights`, `VaultTick` |
| `GRUCell` | the cell's sixteen phases on the array | `Start` in any phase; `Load(g)`, `Settle(g)`, `Drain(g)` for the four gates; `LoopTick` is the simulator's tick of the same array when a SIMD core is attached; `OwnerTurns`: the owner stops ticking the cell, or ticks it again; `OthersPush`: somebody else uses the feeder; `own_feeder` remembers whether the evaluation began with an empty feeder and had it to itself |
| `Psau`, `ReductionLine` | adder tree; a delay line of four ticks | addition is any operator on a set of vectors |
| `RingBuffer`, `BoundedFifo` | both buffers of the gather controller; a FIFO | `Push`, `Pop`, `Clear`, `Read` |
| `PiccoloGather` | the controller, on FIFO buffers | `reset_for_new_batch`, `tick_issue`, `on_read_complete`, `done` |
| `GatherClient` | controller, port, memory and its two users | `StartBatch`, `Send`, `ReadComplete` in any order, `Drain` on a successful poll, `Abandon` when a new program is loaded over a waiting one; element e of batch b is <<b, e>> |
| `InstructionSet` | what a program means, strictly from the comments of the opcodes (`simd_core.hpp:19-34`): vectors are added and multiplied in every lane, STORE stores | one instruction after the other: `Execute` for those of the core, `Begin` and `End` for those that another unit carries out; `Disturbed` and `Departs` end the promise |
| `SIMDCore` | the core with controller, memory and caller | `IssueLoad`, `IssueGather`, `IssueGru` stall it; `Compute` (lane by lane, as the loops do), `TimeEncode`, `PushArr`, `Skip`; `PollGather`, `GruDone`, `on_memory_reply` end a stall; `load_program` replaces a program at any time; `foreign` says that the feeder holds elements of others (`PushArr`, `VertexTakes`, `VertexCellLoads`, a GRU_UPDATE given up half-way) until `FeederEmpties` |
| `FeaturePartitioner` | the two layouts and the choice between them | `Call`, `AssignChunk` (an iteration of the loop, modulo `Word`), `Return` |
| `Placement` | what a caller does before a run | partitions dimensions, then loads streams |
| `VertexProgram` | the phases of one vertex | one action per phase and outcome; a vector is followed by what it is made of: nothing, column c of vertex v, or a mixture |
| `TwoPhase` | vertex program in the simulator loop | `stage` is the place in the cycle; the loop and the program tick the same `array_age` and the same tree; `CutOff` is the cycle limit |

`RamulatorHbm` composes `PseudoChannel` and `HierarchicalRouter` (by
`EXTENDS`), `GRUCell` and `Wavefront` compose array and feeder, `GatherClient`
composes controller, port and memory, `SIMDCore` adds the core, `TwoPhase`
composes vertex program and `Psau`, `Placement` puts `SequentialWorkload` and
`FeaturePartitioner` side by side.

Three refinements tie detailed to abstract modules.  `Psau` implements
`ReductionLine` (`DelaysByFour`), also when the loop and the vertex program
both tick it; `RingBuffer` implements `BoundedFifo`, and it is this FIFO that
`PiccoloGather` uses; `SIMDCore` implements `InstructionSet` (`FollowsISA`).
In the last, an instruction that the core has popped and waits for is still
the first of the abstract program (`program <- <<executing>> \o program`) and
its operands are those of its issue.  The abstract machine promises nothing any
more as soon as

* a program is replaced in the middle of a LOAD or GATHER, or the vertex program
  takes the gather controller from a GATHER: the code then has no means to
  tell replies apart;
* a GRU_UPDATE starts on a feeder that holds elements of others, or somebody
  pushes into it while the GRU_UPDATE is under way: `start()` clears neither
  feeder nor array (`gru.hpp:142-150`), nor does `load_program`
  (`simd_core.hpp:63-72`);
* ADD_VEC, MUL_VEC or STORE is executed (`Deviating`): the code does not do
  what their comments say (section 6).

Replacing a program in the middle of a GRU_UPDATE is inside the promise until
the next GRU_UPDATE starts on what the first has left; one that starts when the
feeder has run empty is inside it.  Whatever happens between instructions is.

In `RamulatorHbm` the units appear as clients that may issue any request of
their kind; the unit modules say what they really do.  In `TwoPhase`, gathering
and the GRU cells are reduced to their ends, and a product in the array to its
age (the fact about ages is `OutputsOnTime` of `Wavefront`).  In `SIMDCore` the
GRU cell is reduced to its end: with the feeder to itself its result is a
function of the operands, which `CellReadsExactly` of `ArrayProofs` justifies,
and otherwise it may also be any of `Garbled`.  Arithmetic is any operator, and
a loaded value stands for the place it was read from.

Each `MC*` module gives the constants of its module finite values.  Operators
named `<definition>_<word>` are mutants: plausible wrong versions of the
definition, kept beside it to show that the properties notice them.

## 3. The runs

| Run | Question | Instance | Why the bounds suffice |
|---|---|---|---|
| `placement_ok` | Does every dimension get the vault of its chunk, do calls return; is the multiplexer fair and are its streams disjoint? | integers of four bits: every dimension and chunk size from 0 to 15, 0, 1, 3 or 4 vaults, two thresholds; 4 ports, regions of 256 bytes, at most 3 reads a port, workloads of several sizes | four bits are enough for chunks that end exactly at, below and above the largest integer, so that the loop wraps; wrap-around of the cursor, empty ports between full ones and repeated loads all occur; the proofs cover the rest |
| `router_ok` | Does the router keep rates and order, and forward everything? | 256 and 32 bytes a tick (the code's ratio of 512 : 64 GB/s), 3 requests, 8 ticks | a line costs the global queue two ticks, so credit is carried over; three requests cover two in one queue and one in the other |
| `hbm_clients` | Do the loop's counters, caps and returns hold under all kinds of traffic? | 2 ports, cap of 68 bytes (a line and a gather of 4 bytes, but not one of 8), serialized reads, queue of 2, latency up to 2, 6 cycles, 3 bursts, 2 runs | rejection by a full memory, a cap reached in mid-wave, a blocked sparse read and completions out of order all happen; a run is long enough to end by itself and short enough to be cut off, so that the second may begin with requests of the first under way |
| `hbm_ports` | Are ports served in turn when the cap cuts sweeps short? | 3 ports, cap of two lines, one burst that never fits, 4 bursts | three ports are the least number at which one can be passed over by two others |
| `hbm_stranded` | Has a run that ends early completed every burst? No | as `hbm_clients`, loads and writebacks only, 12 cycles, 1 run | - |
| `wavefront_spaced` | Do well-spaced vectors leave whole and on time? | `kDimension` 5, 3 vectors, 2 matrices | with 5 lanes two vectors are in the array at once |
| `wavefront_back_to_back` | Does the feeder align any two pushes? No | `kDimension` 4 | - |
| `gru_ok` | Do evaluations end; are those with an empty feeder of their own unmixed, with a whole last column, whatever was given up before them? | `kDimension` 3, evaluations without end and started in any phase, array ticked by the loop or not, the owner turns away or somebody else pushes twice | phases and their counts depend on `kDimension` only, and three lanes already hold parts of a vector given up half-way; two vectors show a leak from one evaluation to the next; two turns leave an evaluation and come back to it, or leave it, push and start anew |
| `gru_columns` | Is every column of every gate a product? No | `kDimension` 4, nobody else at the feeder | - |
| `core_ok` | Does a core follow its instruction set, do its programs end; does `done()` mean gathered, and does no user wait for ever? | 4 registers, vectors of 2, four programs, 2 of them loaded at any time, so that every instruction that stalls meets every other in its own program or in the next, buffers of 2, 2 reads in flight, a vertex program that takes 1 value of 2 batches | the second program meets every reply of the first and the feeder as a GRU_UPDATE given up, a PUSH_ARR or the vertex program has left it; destinations reach over the end of the register file; full buffers, values left behind, too few offsets and replies of an abandoned batch all occur |
| `two_phase_ok` | Are message and hidden state the vertex's own, does every vertex end, is the tree under two owners a delay line? | `kDimension` 16 and the tree of the code, 2 vertices, 1 cut-off run, cores attached or not | with two vertices anything left over from an earlier one shows; 16 is the real dimension, because which column is caught depends on it |
| `two_phase_written_once` | Is a vertex written back once? No | as `two_phase_ok` | - |

The properties.

*Placement.*  `RoundRobinChunks`: the result puts chunk after chunk into vault
after vault, the last, shorter one too.  `Balanced`: no vault owns more than
one chunk more than another, and none that does not exist owns anything.
`PartitionReturns`.  All but the existence of the vaults are claimed if the
ends of the chunks can be represented (`EndsFit`; see section 6).

*Ports and router.*  `BoundedBypass`: a port with a pending burst sees at most
one issue of every other port before its own.  `StreamsDisjoint`: reads of
different ports do not overlap (as long as a stream fits its region).
`RateBound`: neither queue ever forwards more than its rate
times the ticks.  `WorkConserving`: a tick leaves nothing it could have paid
for.  `ClassOrder`: no request overtakes one of its class.
`EveryRequestForwarded`.

*Loop.*  `Accounting`: the counters equal what the memory system holds and has
answered.  `SerializedReads`: at most one standard sparse read in the memory.
`OracleBound`: admitted bytes stay below cap times cycles.
`NothingLostOrDuplicated`: every burst is in exactly one place.
`ReturnedDrained`: an early return leaves ports and memory empty.
`WavesExhaustAdmission`: admission ends only when no port can go on.
`HeadsComplete`: a head that fits completes, whatever blocks the other ports.
`Accounting`, `SerializedReads` and `ReturnedDrained` speak of a first run; see
section 6 for the second.

*Array and GRU cell.*  `OutputsOnTime`: column c of a vector leaves
kDimension + c + 1 ticks after its push, whole, and nothing else ever leaves.
`GatesUnmixed`: what an evaluation reads for a gate is only of its operand and
weights, if it began with an empty feeder and nobody else pushed meanwhile,
also when earlier evaluations were given up half-way.  `LastColumnWhole`:
without an attached core the last column of such an evaluation is the product.
`EveryStartFinishes`: or its owner turns away from it.

*Gather controller.*  `CountersExact` and `GatheredAll` hold until a batch is
given up half-way or its controller is taken by the other user; `TypeOK` (the
counter of reads in flight stays between 0 and its limit) and `BatchCompletes`
hold also after that.

*SIMD core.*  `FollowsISA`: the refinement described in section 2, with the ends
of the promise listed there.  It says
that a reply reaches the instruction that asked for it, that operands are those
of the issue, that lanes beyond the register file are dropped and that lanes
computed one after the other do not disturb each other.  `EveryProgramEnds`
has no such premise: with stale replies, shared controllers and programs
replaced half-way a core still comes to the end of its program, unless it waits
for an array that nobody attaches or for offsets that were never given.

*Vertex program.*  `MessageIsOwn`, `HiddenIsOwn` (if no run was cut off),
`LoadedOnce` (the hidden state of a vertex is read at most once in each run;
after a cut-off it is read again, see section 6), `ValveUnused` (the drain phase ends by
a valid result, not by its safety valve), `EveryVertexFinishes`,
`DelaysByFour`.

`CHECK_DEADLOCK FALSE` is given where the system may stop: when the bounded
requests, runs, batches or vertices are used up.

Every bound is a constant of its own (`MaxBursts`, `ClientCycles`, `MaxRuns`,
`MaxRequests`, `RequestTicks`, `MaxTicks`, `MaxPerPort`, `MaxBatches`,
`MaxPrograms`, `MaxTurns`, `MaxVertices`, `MaxCutoffs`) and is marked as a bound where it is
declared.  `MaxCycles` (`max_memory_cycles`), `max_outstanding`,
`kMaxWavesPerTick`, `VertexLanes` (16) and `Word` (2^32) are limits of the code.

## 4. Fairness

There is one thread, and `run` is a loop: weak fairness of its steps says that
a call of `run` goes on (`RamulatorHbm`, `FairAdmission`, `RouterTraffic`,
`GRUCell`).  Ramulator answers every accepted request in
bounded time, so `RamulatorHbm` needs no more.

`GRUCell` has the cell's owner besides: weak fairness of `tick` says that an owner
that waits for the cell ticks it.  Starting an evaluation, turning away from
one and pushes of others are not fair.

`SIMDCore` has the units that one cycle calls one after the other as actions
of their own.  One weak fairness of all of them together says that the loop
goes on; nothing is assumed about their order.  Loading a program, attaching an
array and starting a batch are not fair.

`Placement` has weak fairness of the partitioner's loop: a call goes on.

`TwoPhase` has weak fairness of the cycle.  Inside a cycle the end of the
gather, the end of the GRU cells, the router and the memory system are free
choices; strong fairness says that they come in the end.  These are the
conclusions of other modules: `BatchCompletes`, `EveryStartFinishes`,
`EveryRequestForwarded`, and the bounded latency of Ramulator.  The cycle
limit (`CutOff`), new runs and new vertices are not fair.

## 5. What is proved

The proof modules are checked by TLAPS, for every value of the constants that
satisfies the assumptions named in the modules.  Those assumptions are types
(`N \in Nat`, shapes of bursts) and nothing else, unless said here.

* `PlacementProofs`.  `RoundRobinFair`: `BoundedBypass` is not inductive,
  because it does not say how close the cursor is to the waiting port.
  `BypassInv` adds this: the issues a port q has seen plus the distance from the
  cursor to q is at most N - 1.  Each issue of another port brings the cursor
  strictly closer (`DistanceShrinks`).  `StreamsNeverOverlap`: every pending
  read lies in the region of its port (`RegionInv`), under the hypothesis
  `WorkloadFits`, that no stream is longer than a region.  The code does not
  check it.  `ChunksInTurn`: `RoundRobinChunks` for integers of any width; by
  `LoopInv` the loop's `start` is the begin of chunk number `chunk_id`, and all
  dimensions before it are right.  `CallComesToItsEnd`: each turn advances
  `start` by a chunk without wrapping, so that the call returns.
  `VaultsBalanced`: `Balanced` follows from the layout by an injection
  (`ShiftDown`).  With m the number of chunks by which v's lies behind the last
  one of w, moving a dimension of v down by m chunks gives one of w, and no two
  the same one; only v's first chunk may have nothing below it
  (`ChunkBehind`), hence the one chunk more.
  `PlacementProjects`: a behaviour of
  `Placement` is one of each part, so the theorems about the parts hold in it.
* `RamulatorHbmProofs`.  The inductive invariant is `LoopInv`: types;
  `ChargedInv`, that bytes admitted are at most the cap times the cycles that
  ended plus those charged in this cycle, which the cap bounds; `SlotInv`,
  that the counter of sparse reads is at most one; and `CoverInv`, that in a
  first run the two counters are at least the number of requests in the memory
  system and of sparse reads among them.
  `NeverAboveOracle` (for runs that have a cap), `AtMostOneStandardRead` and
  `EarlyReturnIsDrained` follow.  `CoverInv` is where finite sets come in: admission adds one request
  (`AddRequest`), a completion removes one (`RemoveRequest`), ageing keeps the
  number (`AgeRequests`).
  `PortsServedInTurn` is `BoundedBypass` in the loop, for any number of ports
  and any cap.  A sweep visits every port once, from the place where the cursor
  was when it began; `SweepInv` says that a waiting port which the sweep has
  passed was refused for want of room or bytes, so that no other burst of the
  same size is admitted in this cycle either.  Hence the hypotheses: bursts that
  fit the cap are all of one size (`OneSize`), and there is no serialization.
  With bursts of two sizes a large one may be passed over in every cycle, and a
  serialized one while another is under way; the code then promises no more.
  `AdmissionEndsExhausted` is `WavesExhaustAdmission`.  Admission ends when a
  whole sweep made no progress; `RefusedInv` says that no port which such a
  sweep has passed has an admissible burst, and that stays so, because only
  an admission changes what admissibility depends on (`AdmissibleFrame`).
  `BurstsConserved` is `NothingLostOrDuplicated`.  Its invariant `PlacesInv`
  has `PlacedInv`, that no burst is twice in a queue or port or in two places;
  `AddressInv`, that the address tells bursts apart, completed ones included;
  and `CountInv`, that places and completions add up to the bursts created.
  The first two are what makes the last inductive: only because a burst is in
  one place does its removal there remove it from `Unfinished`.  The hypothesis
  `MaxBursts <= kGlobalAddressBoundary` is about the model, which numbers
  bursts by their addresses (the boundary is 0x80000000 in the code).
  `BooksBalance` is `Accounting`, under the same hypothesis.  `BooksInv` makes
  the counters exact from the first call on; it needs `PlacesInv`, because a
  completion that were counted before would leave `finished` as it is.
  Both rest on lemmas about sums over functions (`SumExtended`, `SumRenamed`,
  `SumChanged`, ...).  The library defines a sum by recursion over finite sets
  and offers for it only an induction theorem that takes an operator, which
  the provers cannot use; here the recursion is justified by a smallest set
  without a table of partial sums (`MinimalSubset`, `TableExists`).
* `RouterTrafficProofs`.  `RatesHold`: for each queue, credit plus bytes sent
  is rate times ticks (`CreditInv`), and credit is never negative.
  `OrderKept`: what is issued next is younger than all of its class that is
  under way, and each queue holds one class only (`OrderInv`).
  `TicksConserveWork` is an action property.  The assumption that `MaxRequests`
  is at most `kGlobalAddressBoundary` is about the model: it numbers requests in
  their addresses, and the address has to tell the class.
* `ArrayProofs`.  `WavefrontOnTime`: `OutputsOnTime` for an array of any
  size and any vectors and matrices, under the hypothesis `PushWhenEmpty`.  The
  inductive invariant `WaveInv` places everything by the age a of its vector:
  in lane i it is i + 1 - a from the end, row r and column c hold it at
  a = r + c + 1, with the products of the rows above.  This is the wavefront
  argument that the comments of feeder and array make for sixteen rows.
  For the GRU cell the same argument is made for the one vector it has in the
  array (`InLanes`, `InGrid`), with the ticks since its push computed from phase
  and drain count (`Ticks`), because the cell counts its own cycles and not the
  array's.  The cell may be started in any phase, its owner may leave it, and
  others may push; so `CellInv` claims two things only while `own_feeder` holds:
  the vector is where its age says, and the lanes are empty whenever no gate is
  being computed, so that the next push meets empty ones (`ArrayInv`); and what
  has been read for the gates so far (`ReadInv`).  A push of others, or a start
  on lanes that are not empty, ends `own_feeder` for that evaluation; the next
  one that begins with an empty feeder has it again.  `CellReadsExactly` is the
  result for every such evaluation, and what justifies the result that
  `SIMDCore` gives the cell (`GruResults`): a gate is read after
  2 * kDimension ticks of the array if the cell alone ticks it, when exactly the
  last column is there, and after 4 * kDimension + 1 if the loop ticks it as
  well, when nothing is left.  `GatesUnmixed`
  (`GatesOwn`) and `LastColumnWhole` (`LastColumnRead`) follow from it.
  `CellTypeCorrect` is the type invariant.  `EvaluationLength`: an
  evaluation takes exactly 4 * (kGEMMLatency + 2) + 1 ticks of its owner, 137
  for the code's sixteen columns, loop or not; `CyclesLeft` is a variant that
  every such tick decreases by one, that a new start sets back to its first
  value, and that nothing else changes.  Of the new constants only the names of the
  matrices are assumed to be among `Matrix`.
* `TwoPhaseProofs`.  `AdderTreeDelays`: the tree implements the delay line.  Of
  addition only closure and 0 + 0 = 0 are assumed, so no order of summation is
  taken for granted that the code does not use.  `TreeOfTwoOwners`: so does the
  tree in the loop, where two owners tick it.  `LoopTypeCorrect`,
  `ReadOncePerRun` and `HiddenStateIsOwn` are about any number of vertices and
  cut-offs.  `LoadInv` counts the reads of each vertex in each run
  and ties those of the present ones to the phase and the flag `load_h_issued`; `HiddenInv` says that before the
  first cut-off at most one read is on its way, that of the vertex, which waits
  for it.  `MessageOfItsOwn`: while a vertex's vectors are in the arrays, each of
  the loop's ticks cleans one more stage of the tree of what an earlier vertex
  left there (`MessageInv`), so that at the drain phase all four are its own.
  Hence the hypothesis that the arrays have at least four rows; the other,
  `SameKind`, says that a vector is followed by the kind of its data, which the
  sum of two of a kind shares.  `ValveNeverNeeded`: the valid input of the first
  drain tick is two stages further at every later one, because the loop ticks
  the tree in between, and comes out at the third (`ValveInv`).
* `RingBufferProofs`.  `RingIsFifo`: head, size and the slots between them are
  the FIFO, for any capacity.  The core is that distinct offsets below the
  capacity are distinct slots (`SlotWraps`, `SlotsDiffer`).  The capacity and
  element assumption is a hypothesis of each theorem.
* `GatherClientProofs`, for a controller whose users start, drain and give up
  whatever they like.  `TypeCorrect` holds with batches given up.
  `CountersAgree` and `DoneIsGathered` hold while `intact`: `CountInv` ties the
  counters to the reads in flight, and `GatherInv` says that data buffer, port,
  memory and offset buffer together hold each element of the batch once.
  Both need the data buffer to be at least as large as the offset buffer, as in
  the code (256 both), because the data buffer is tested when a read is issued
  and filled when it completes.  `GatherNeverStuck` and `WorkRunsOut` hold with
  batches given up as well: `WayInv` says that no read is on its way twice and
  that the memory system and the port hold at least as many reads as the batch
  counts as outstanding, so a completion that is missing is always still to
  come; every step of a read takes one unit of `Work`, which only a new batch
  raises.
* `SIMDCoreProofs`.  `CoreTypeCorrect`; `CoreFollowsISA`, the refinement, for
  any register file, vector length, programs, values and order of replies.  Its
  invariant `Inv` has the types and, as long as `clean`, a `Promise`: the one
  reply on its way is that of the LOAD the core waits for, the batch is that of
  its GATHER and `GatherInv` holds of it, the operands of the GRU cell are those
  at the issue and its feeder holds nothing of others.  A step that breaks the
  promise is one of those that the instruction set lists (`Disturbs`,
  `ExecuteDeparts`), and the loop over the lanes gives what the instruction set
  computes from the old registers (`LanesIndependent`, `LanesKept`).  The hypothesis `Closed` says that arithmetic on register values
  gives register values; `WellFormed`, an assumption on programs, that operands
  lie inside the register file and that a destination does not overlap the
  lanes behind a source.  `CoreCountersExact` and `CoreGatheredAll` carry the
  controller's theorems over to these users.  `CoreNeverDeserted` holds with
  replaced programs and disturbed gathers: a late reply ends the stall of a
  later instruction, but the answer to the instruction that stalls the core now
  has never been used up (`Answerable`), and the controller is not stuck.

Only model-checked: the liveness properties (`PartitionReturns`,
`EveryRequestForwarded`, `HeadsComplete`, `EveryStartFinishes`,
`BatchCompletes`, `EveryProgramEnds`, `EveryVertexFinishes`), because temporal
proofs under fairness are out of the prover's reach here.  For three of them the
variant that makes them true is proved (`CallComesToItsEnd`,
`EvaluationLength`, `WorkRunsOut` with `GatherNeverStuck`), and for
`EveryProgramEnds` that a stalled core always has an answer to come
(`CoreNeverDeserted`); what is left to TLC there is that a step is enabled and
is taken.  Every invariant and every action property that a passing run checks
is also a theorem.

## 6. What the models show about the code

Four statements of the repository are refuted by a run:

* `hbm_stranded`: "Run until all bursts are completed or `max_memory_cycles`
  reached" (`ramulator_hbm.hpp:65`).  The loop condition does not look at the
  router's queues, so a writeback that waits for credit is left behind.
* `wavefront_back_to_back`: "Pad with i zeros to create the spatial skew"
  (`array_feeder.hpp:15`).  The zeros are appended to what the lane still
  holds; a second vector pushed before the lanes are empty is sheared.
* `gru_columns`: the result in every dimension (`tgn_test.cpp:159-166`).
  Column c leaves on drain tick 17 + c, but all columns are read on tick 32,
  when only the last shows the product.
* `two_phase_written_once`: "NoDoubleWriteback" (`tgn_test.cpp:190`).  While
  other bursts keep the run going, the writeback is issued in every cycle after
  the vertex is done.

Comments that the code contradicts without a run of its own.  The models contain
the behaviour; the properties say, in their hypotheses or their ends, that they
do not claim what the comment does:

* "Element-wise vector addition", "... multiplication", "Store from local
  register to HBM" (`simd_core.hpp:22-24`).  ADD_VEC and MUL_VEC compute one
  register, STORE does nothing.  The instruction set does what the comments say;
  these opcodes end the promise of `FollowsISA`, which is violated without that.
* "Each GEMM: 15 cycles of feeder wavefront + 16 SA rows = 31 active cycles"
  (`gru.hpp:103`) holds of an evaluation that begins with an empty feeder.
  `start()` (`:142-150`) is possible in any phase and clears neither feeder nor
  array; `load_program` (`simd_core.hpp:63-72`) gives up a GRU_UPDATE half-way,
  and the next one (`:252`) pushes behind the old vector and reads sums of it.
  The same happens after a PUSH_ARR or a push of the vertex program.  Without
  `own_feeder` `GatesUnmixed` and `LastColumnWhole` are violated, and
  `FollowsISA` without the end of its promise at such a GRU_UPDATE.
* "We only issue once per vertex (`load_h_issued` flag)"
  (`ramulator_hbm.cpp:136-138`).  The flag is a local of `run`: after a cut-off
  the hidden state of the same vertex is read again, and the late reply of the
  first read may reach a later vertex.  `LoadedOnce` is therefore about a vertex
  in one run, and `HiddenIsOwn` about the time before the first cut-off.
* "the bottom-row outputs of each SA represent that vault's partial message
  vector" at the end of the drain (`tgn_twophase.hpp:285-287`).  Never more than
  one column of the product reaches the message, and with SIMD cores attached
  possibly nothing but zeros; `MessageIsOwn` lets both pass and claims only that
  nothing of another vertex is in it.
* "each vault owns a contiguous slice" (`tgn_twophase.hpp:155`).  The
  partitioner gives out chunks in turn, by default of one dimension
  (`RoundRobinChunks`, as `test_partitioner` has it).
* Array and feeder are injected by an attachment "called by the vertex program
  before issuing this instruction" (`simd_core.hpp:236-238`).  Only tests attach them, and they are
  detached after every GRU_UPDATE, so that a second one waits for ever
  (`GruMissing` in `EveryProgramEnds`).
* "for this core's pending request" (`simd_core.hpp:266`).  A reply to a LOAD of
  an earlier program is taken for the one that the core waits for, even if that
  is a gather or a GRU cell: it writes lanes into the wrong register and lets
  the core go on.  It cannot make the core hang (`CoreNeverDeserted`).

Behaviour that the models contain and about which the repository says nothing:

* A sequential stream longer than its region reaches into the next port's.
* Credit of an idle router queue accumulates without a limit; the rate holds
  over the queue's life (`RateBound`), not over a window.
* A run that follows one that was cut off does not wait for the earlier one's
  requests, whose callbacks refer to locals of a call that has returned.  In
  the model such a callback changes the present counters or nothing, and
  `Accounting`, `SerializedReads` and `ReturnedDrained` claim nothing about
  second runs.
* `tick_issue` issues one read per call.
* Replies of a batch that was given up are counted for the next one, whose
  `done()` may come early; the values it then drains are not all its own.  The
  same happens to a GATHER of a core when the vertex program starts to gather
  on the same controller, and the other way round.
* Where a destination overlaps the lanes behind a source, later lanes read
  what earlier ones wrote; a destination or source outside the register file
  reads or writes past its end.  `WellFormed` excludes both.
* When the last chunk of a partition ends at or above 2^32, `start` wraps: the
  loop overwrites low dimensions with other vaults, or never ends.  In four bits,
  a dimension of 10 and a chunk of 9 show it.
* The vertex program takes at most sixteen values of a gather.
* With SIMD cores attached the loop ticks the arrays too, one tick of the
  owner is two of the array, and outputs that appear on the loop's tick are
  lost to the GRU cell and the vertex program.  The products that a cell then
  reads are all zero (`CellReadsExactly`).

## 7. What is not modelled

* Arithmetic: activation functions, biases, the blend of the GRU, addresses
  and payloads of gathers (mock data in the code).
* Byte rates are natural numbers; the code computes with doubles.  Counters
  have no width: 64-bit counters do not overflow in a simulation.
* `finalize`, `effective_gbps`, the constructor, statistics, the bandwidth
  oracle, the Python bindings, the configuration: reporting and parameters.
* Arithmetic of the SIMD core, and programs that leave its register file.
* More than one gather burst in a cycle, and gather bursts of the vertex
  program's stage: in `RamulatorHbm` the attached controller puts at most one
  burst straight into its port per cycle (`BeginCycle`), and the vault stages
  issue through the router only (`VaultRequest`), where the vertex program may
  tick sixteen controllers that put reads into their ports.  Ports fill faster
  in the code.  Both places lie ahead of the admission of the same cycle, so
  what the loop then finds in a port could also have come from
  `CallerEnqueue`, the router or earlier cycles; no property depends on the
  stage, or on how many bursts come in a cycle.
* Averages and printing of partition statistics.
* Starting a vertex in the middle of another, and the PSAU's own writeback
  when no vertex program is attached, except as a request of its kind in
  `RamulatorHbm`.
* Exceptions for arguments of the wrong size.

## 8. Plan

Done, in this order: ports and arbiter; router; simulator loop; arrays and GRU
cell; adder tree; gather controller; vertex program in the loop; SIMD core and
its instruction set; feature partitioner; proofs for router, ports in the loop,
array, vertex program and core; proofs of the loop's books, of the conservation
of bursts, of the balance of the partition and of the GRU cell.

Next, the most important first:

1. Variants behind the remaining liveness properties, as action properties:
   the phases of a vertex in `TwoPhase`, the programs of a `SIMDCore`, the
   heads of the router's queues.
2. `SIMDCore` with the GRU cell itself instead of its end, in a vault that the
   loop ticks.
3. `PiccoloGather` on the ring buffers themselves, through the refinement that
   is proved.
