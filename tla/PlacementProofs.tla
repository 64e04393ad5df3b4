---------------------------- MODULE PlacementProofs ----------------------------
(***************************************************************************)
(* Proofs about the round-robin arbiter and the sequential workload, for   *)
(* any number of ports, region size, workload and queue bound; about the   *)
(* feature partitioner, for integers of any width and any configuration;   *)
(* and about the caller that uses both.                                    *)
(***************************************************************************)
EXTENDS Placement, FiniteSetTheorems, WellFoundedInduction, TLAPS

USE DEF PC

-----------------------------------------------------------------------------
(* The arbiter and the sequential workload.                                *)

(* A rotation step as an addition that wraps once.                         *)
LEMMA VisitedWraps ==
  ASSUME NEW s \in PC, NEW j \in 0 .. kNumPseudoChannels
  PROVE  Visited(s, j) = IF s + j < kNumPseudoChannels THEN s + j
                         ELSE s + j - kNumPseudoChannels
<1>1. kNumPseudoChannels \in Nat \ {0}
  BY PseudoChannelAssumption
<1>2. CASE s + j < kNumPseudoChannels
  BY <1>1, <1>2 DEF Visited
<1>3. CASE s + j >= kNumPseudoChannels /\ s + j < 2 * kNumPseudoChannels
  <2> DEFINE r == s + j - kNumPseudoChannels
  <2>1. r \in 0 .. kNumPseudoChannels - 1 /\ s + j = kNumPseudoChannels * 1 + r
    BY <1>1, <1>3
  <2>2. (s + j) % kNumPseudoChannels = r
    BY <1>1, <2>1
  <2> QED BY <1>1, <1>3, <2>2 DEF Visited
<1>4. s + j < 2 * kNumPseudoChannels
  BY <1>1
<1> QED BY <1>1, <1>2, <1>3, <1>4

(* A scan visits existing ports.                                           *)
LEMMA VisitedInPC ==
  ASSUME NEW s \in PC, NEW j \in 0 .. kNumPseudoChannels
  PROVE  Visited(s, j) \in PC
BY VisitedWraps, PseudoChannelAssumption

(* How many ports a scan from c visits before it reaches q.                *)
Distance(c, q) == IF c <= q THEN q - c ELSE q + kNumPseudoChannels - c

(* The distance from the cursor to a port, as an addition that wraps once. *)
LEMMA DistanceProperties ==
  ASSUME NEW c \in PC, NEW q \in PC
  PROVE  /\ Distance(c, q) \in 0 .. kNumPseudoChannels - 1
         /\ Visited(c, Distance(c, q)) = q
BY VisitedWraps, PseudoChannelAssumption DEF Distance

(* The ports pick_next_round_robin scans and finds pending.                *)
Pending == {j \in 0 .. kNumPseudoChannels - 1 : ports[Visited(rr_cursor, j)] # <<>>}

(* A non-empty set of scan positions has a first one.                      *)
LEMMA FirstPosition ==
  ASSUME NEW S \in SUBSET Nat, S # {}
  PROVE  \E m \in S : \A j \in S : m <= j
<1> DEFINE R == {ss \in Nat \X Nat : ss[1] < ss[2]}
<1>1. IsWellFoundedOn(R, Nat)
  BY NatLessThanWellFounded, Zenon DEF OpToRel
<1>2. PICK m \in S : \A j \in S : <<j, m>> \notin R
  <2> HIDE DEF R
  <2> QED BY <1>1, WFMin
<1>3. \A j \in S : j \in Nat
  OBVIOUS
<1>4. ASSUME NEW j \in S
      PROVE  m <= j
  <2>1. <<j, m>> \in Nat \X Nat /\ <<j, m>> \notin R
    BY <1>2, <1>3
  <2>2. ~ (<<j, m>>[1] < <<j, m>>[2])
    BY <2>1, Zenon
  <2> QED BY <1>3, <2>2
<1> QED BY <1>4

-----------------------------------------------------------------------------
(* Type correctness.                                                       *)

(* A read of a sequential load is well typed.                              *)
LEMMA SequentialReadType ==
  ASSUME NEW p \in PC, NEW i \in Nat, NEW bytes \in Nat
  PROVE  SequentialRead(p, i, bytes) \in MemoryBurst
<1>1. p * kRegionSize \in Nat /\ i * bytes \in Nat
  BY PseudoChannelAssumption
<1>2. p * kRegionSize + i * bytes \in Nat
  BY <1>1
<1> QED BY <1>2 DEF SequentialRead, MemoryBurst

(* The port that pick_next_round_robin returns is the first pending one    *)
(* of the scan.                                                            *)
LEMMA PickNext ==
  ASSUME MuxTypeOK, pick_next_round_robin # -1
  PROVE  \E d \in 0 .. kNumPseudoChannels - 1 :
           /\ pick_next_round_robin = Visited(rr_cursor, d)
           /\ ports[Visited(rr_cursor, d)] # <<>>
           /\ \A j \in 0 .. d - 1 : ports[Visited(rr_cursor, j)] = <<>>
<1>1. Pending # {} /\ Pending \in SUBSET Nat
  BY PseudoChannelAssumption DEF pick_next_round_robin, Pending
<1> DEFINE d == CHOOSE m \in Pending : \A j \in Pending : m <= j
<1>2. d \in Pending /\ \A j \in Pending : d <= j
  BY <1>1, FirstPosition
<1>3. pick_next_round_robin = Visited(rr_cursor, d)
  BY <1>1 DEF pick_next_round_robin, Pending
<1>4. d \in 0 .. kNumPseudoChannels - 1 /\ ports[Visited(rr_cursor, d)] # <<>>
  BY <1>2 DEF Pending
<1>5. ASSUME NEW j \in 0 .. d - 1
      PROVE  ports[Visited(rr_cursor, j)] = <<>>
  <2>1. j \in 0 .. kNumPseudoChannels - 1 /\ ~ (d <= j)
    BY <1>4, PseudoChannelAssumption
  <2>2. j \notin Pending
    BY <1>2, <2>1
  <2> QED BY <2>1, <2>2 DEF Pending
<1> HIDE DEF d
<1> QED BY <1>3, <1>4, <1>5

(* The initial state is well typed.                                        *)
LEMMA TypeInit == Init => TypeOK
BY PseudoChannelAssumption DEF Init, MuxInit, TypeOK, MuxTypeOK

(* Loading and issuing keep the types.                                     *)
LEMMA TypeStep == TypeOK /\ [Next]_vars => TypeOK'
<1> SUFFICES ASSUME TypeOK, [Next]_vars
             PROVE  TypeOK'
  OBVIOUS
<1>1. CASE Load
  <2>1. PICK n \in BurstsPerPc, bytes \in BurstBytes :
          load_sequential_workload(n, bytes) /\ UNCHANGED <<rr_cursor, bypass>>
    BY <1>1 DEF Load
  <2>2. n \in Nat /\ bytes \in Nat
    BY WorkloadAssumption
  <2>3. ASSUME NEW p \in PC
        PROVE  [i \in 1 .. n |-> SequentialRead(p, i - 1, bytes)] \in Seq(MemoryBurst)
    <3>1. \A i \in 1 .. n : SequentialRead(p, i - 1, bytes) \in MemoryBurst
      BY <2>2, SequentialReadType
    <3> QED BY <2>2, <3>1
  <2> DEFINE reads(p) == [i \in 1 .. n |-> SequentialRead(p, i - 1, bytes)]
  <2>4. \A p \in PC : ports[p] \o reads(p) \in Seq(MemoryBurst)
    <3> HIDE DEF reads
    <3>1. \A p \in PC : reads(p) \in Seq(MemoryBurst)
      BY <2>3 DEF reads
    <3> QED BY <3>1 DEF TypeOK, MuxTypeOK
  <2>5. ports' \in [PC -> Seq(MemoryBurst)]
    <3>1. ports' = [p \in PC |-> ports[p] \o reads(p)]
      BY <2>1 DEF load_sequential_workload
    <3> HIDE DEF reads
    <3> QED BY <2>4, <3>1
  <2> QED BY <2>1, <2>5 DEF TypeOK, MuxTypeOK
<1>2. CASE Issue
  <2> DEFINE p == pick_next_round_robin
  <2>1. p # -1 /\ pop(p) /\ advance_after_issue(p)
    BY <1>2 DEF Issue
  <2>2. PICK d \in 0 .. kNumPseudoChannels - 1 :
          p = Visited(rr_cursor, d) /\ ports[p] # <<>>
    BY <2>1, PickNext DEF TypeOK
  <2>3. p \in PC /\ 1 \in 0 .. kNumPseudoChannels
    BY <2>2, VisitedInPC, PseudoChannelAssumption DEF TypeOK, MuxTypeOK
  <2>4. ports' \in [PC -> Seq(MemoryBurst)]
    BY <2>1, <2>2, <2>3 DEF pop, TypeOK, MuxTypeOK
  <2>5. rr_cursor' \in PC
    BY <2>1, <2>3, VisitedInPC DEF advance_after_issue
  <2>6. bypass' \in [PC -> Nat]
    BY <1>2 DEF Issue, TypeOK
  <2> QED BY <2>4, <2>5, <2>6 DEF TypeOK, MuxTypeOK
<1>3. CASE UNCHANGED vars
  BY <1>3 DEF vars, TypeOK, MuxTypeOK
<1> QED BY <1>1, <1>2, <1>3 DEF Next

(* The state keeps its type, for every workload.                           *)
THEOREM TypeCorrect == Spec => []TypeOK
BY TypeInit, TypeStep, PTL DEF Spec

-----------------------------------------------------------------------------
(* Round-robin fairness.  The number of issues a port has waited for and   *)
(* the number of ports the scan visits before it add up to less than the   *)
(* number of ports: an issue that passes the port over moves the cursor    *)
(* towards it, by at least the one position it adds to the wait.           *)

BypassInv ==
  \A q \in PC : bypass[q] + Distance(rr_cursor, q) <= kNumPseudoChannels - 1

(* Before the first issue no port has been passed over.                    *)
LEMMA BypassInit == Init => BypassInv
BY PseudoChannelAssumption DEF Init, MuxInit, BypassInv, Distance

(* A pending port that the scan reaches after the one served.              *)
LEMMA DistanceShrinks ==
  ASSUME NEW c \in PC, NEW q \in PC, NEW d \in 0 .. kNumPseudoChannels - 1,
         d < Distance(c, q)
  PROVE  Distance(Visited(Visited(c, d), 1), q) = Distance(c, q) - d - 1
<1>1. Visited(c, d) \in PC /\ 1 \in 0 .. kNumPseudoChannels
  BY VisitedInPC, PseudoChannelAssumption
<1> QED BY <1>1, VisitedWraps, PseudoChannelAssumption DEF Distance

(* An issue brings the cursor past the issuing port and closer to every    *)
(* port it passes over.                                                    *)
LEMMA BypassStep == TypeOK /\ BypassInv /\ [Next]_vars => BypassInv'
<1> SUFFICES ASSUME TypeOK, BypassInv, [Next]_vars
             PROVE  BypassInv'
  OBVIOUS
<1>1. CASE Load
  BY <1>1 DEF Load, BypassInv, Distance
<1>2. CASE Issue
  <2> DEFINE p == pick_next_round_robin
  <2>1. PICK d \in 0 .. kNumPseudoChannels - 1 :
          /\ p = Visited(rr_cursor, d)
          /\ \A j \in 0 .. d - 1 : ports[Visited(rr_cursor, j)] = <<>>
    BY <1>2, PickNext DEF Issue, TypeOK
  <2>2. rr_cursor \in PC /\ p \in PC /\ 1 \in 0 .. kNumPseudoChannels
    BY <2>1, VisitedInPC, PseudoChannelAssumption DEF TypeOK, MuxTypeOK
  <2>3. rr_cursor' = Visited(p, 1) /\ rr_cursor' \in PC
    BY <1>2, <2>2, VisitedInPC DEF Issue, advance_after_issue
  <2>4. ASSUME NEW q \in PC
        PROVE  bypass'[q] + Distance(rr_cursor', q) <= kNumPseudoChannels - 1
    <3>1. CASE q = p \/ ports[q] = <<>>
      <4>1. bypass'[q] = 0
        BY <1>2, <3>1 DEF Issue
      <4> QED BY <2>3, <4>1, DistanceProperties, PseudoChannelAssumption
    <3>2. CASE q # p /\ ports[q] # <<>>
      <4>1. bypass'[q] = bypass[q] + 1
        BY <1>2, <3>2 DEF Issue
      <4>2. /\ Distance(rr_cursor, q) \in 0 .. kNumPseudoChannels - 1
            /\ Visited(rr_cursor, Distance(rr_cursor, q)) = q
        BY <2>2, DistanceProperties
      <4>3. d < Distance(rr_cursor, q)
        <5>1. Distance(rr_cursor, q) \notin 0 .. d - 1
          BY <2>1, <3>2, <4>2
        <5>2. Distance(rr_cursor, q) # d
          BY <2>1, <3>2, <4>2
        <5> QED BY <4>2, <5>1, <5>2
      <4>4. Distance(rr_cursor', q) = Distance(rr_cursor, q) - d - 1
        BY <2>1, <2>2, <2>3, <4>3, DistanceShrinks
      <4>5. bypass[q] \in Nat
               /\ bypass[q] + Distance(rr_cursor, q) <= kNumPseudoChannels - 1
        BY DEF BypassInv, TypeOK
      <4> QED BY <4>1, <4>2, <4>4, <4>5, PseudoChannelAssumption
    <3> QED BY <3>1, <3>2
  <2> QED BY <2>4 DEF BypassInv
<1>3. CASE UNCHANGED vars
  BY <1>3 DEF vars, BypassInv, Distance
<1> QED BY <1>1, <1>2, <1>3 DEF Next

(* A pending port waits for at most one issue of every other port.         *)
THEOREM RoundRobinFair == Spec => []BoundedBypass
<1>1. TypeOK /\ BypassInv => BoundedBypass
  <2> SUFFICES ASSUME TypeOK, BypassInv, NEW p \in PC
               PROVE  bypass[p] <= kNumPseudoChannels - 1
    BY DEF BoundedBypass
  <2>1. rr_cursor \in PC /\ bypass[p] \in Nat
    BY DEF TypeOK, MuxTypeOK
  <2>2. Distance(rr_cursor, p) \in 0 .. kNumPseudoChannels - 1
    BY <2>1, DistanceProperties
  <2> QED BY <2>1, <2>2, PseudoChannelAssumption DEF BypassInv
<1> QED BY <1>1, TypeInit, TypeStep, BypassInit, BypassStep, PTL DEF Spec

-----------------------------------------------------------------------------
(* Disjoint streams.                                                       *)

(* Every workload the driver loads fits into a region.                     *)
WorkloadFits ==
  \A n \in BurstsPerPc, bytes \in BurstBytes : n * bytes <= kRegionSize

(* A burst that lies inside the region of port p.                          *)
InRegion(p, b) ==
  /\ b.addr \in Nat /\ b.size_bytes \in Nat
  /\ p * kRegionSize <= b.addr
  /\ b.addr + b.size_bytes <= p * kRegionSize + kRegionSize

RegionInv == \A p \in PC : \A i \in DOMAIN ports[p] : InRegion(p, ports[p][i])

(* A read of a load that fits lies within the region of its port.          *)
LEMMA ReadInRegion ==
  ASSUME NEW p \in PC, NEW n \in Nat, NEW bytes \in Nat, NEW i \in 0 .. n - 1,
         n * bytes <= kRegionSize
  PROVE  InRegion(p, SequentialRead(p, i, bytes))
<1> DEFINE base == p * kRegionSize
           offset == i * bytes
<1>1. base \in Nat /\ offset \in Nat
  BY PseudoChannelAssumption
<1>2. offset + bytes <= kRegionSize
  <2>1. offset + bytes = (i + 1) * bytes
    OBVIOUS
  <2>2. (i + 1) * bytes <= n * bytes
    OBVIOUS
  <2>3. (i + 1) * bytes \in Nat /\ n * bytes \in Nat
    OBVIOUS
  <2> QED BY <2>1, <2>2, <2>3, PseudoChannelAssumption
<1>3. /\ SequentialRead(p, i, bytes).addr = base + offset
      /\ SequentialRead(p, i, bytes).size_bytes = bytes
  BY DEF SequentialRead
<1> HIDE DEF base, offset
<1>4. base <= base + offset /\ base + offset + bytes <= base + kRegionSize
  BY <1>1, <1>2, PseudoChannelAssumption
<1> QED BY <1>1, <1>3, <1>4 DEF InRegion, base

(* Loading and issuing keep every pending read within its region.          *)
LEMMA RegionStep ==
  ASSUME WorkloadFits
  PROVE  TypeOK /\ RegionInv /\ [Next]_vars => RegionInv'
<1> SUFFICES ASSUME TypeOK, RegionInv, [Next]_vars
             PROVE  RegionInv'
  OBVIOUS
<1>1. CASE Load
  <2>1. PICK n \in BurstsPerPc, bytes \in BurstBytes :
          load_sequential_workload(n, bytes)
    BY <1>1 DEF Load
  <2>2. n \in Nat /\ bytes \in Nat /\ n * bytes <= kRegionSize
    BY WorkloadAssumption DEF WorkloadFits
  <2>3. ASSUME NEW p \in PC, NEW i \in DOMAIN ports'[p]
        PROVE  InRegion(p, ports'[p][i])
    <3> DEFINE reads == [j \in 1 .. n |-> SequentialRead(p, j - 1, bytes)]
    <3>1. ports'[p] = ports[p] \o reads
      BY <2>1 DEF load_sequential_workload
    <3>2. \A j \in 1 .. n : InRegion(p, reads[j])
      BY <2>2, ReadInRegion
    <3>3. ports[p] \in Seq(MemoryBurst)
      BY DEF TypeOK, MuxTypeOK
    <3>4. reads \in Seq(MemoryBurst) /\ Len(reads) = n
      <4>1. \A j \in 1 .. n : SequentialRead(p, j - 1, bytes) \in MemoryBurst
        BY <2>2, SequentialReadType
      <4> QED BY <2>2, <4>1
    <3> HIDE DEF reads
    <3>5. i \in 1 .. Len(ports[p]) + n
      BY <3>1, <3>3, <3>4
    <3>6. CASE i <= Len(ports[p])
      <4>1. ports'[p][i] = ports[p][i] /\ i \in DOMAIN ports[p]
        BY <3>1, <3>3, <3>4, <3>5, <3>6
      <4> QED BY <4>1 DEF RegionInv
    <3>7. CASE i > Len(ports[p])
      <4>1. /\ ports'[p][i] = reads[i - Len(ports[p])]
            /\ i - Len(ports[p]) \in 1 .. n
        BY <3>1, <3>3, <3>4, <3>5, <3>7, <2>2
      <4> QED BY <3>2, <4>1
    <3> QED BY <3>3, <3>5, <3>6, <3>7
  <2> QED BY <2>3 DEF RegionInv
<1>2. CASE Issue
  <2>1. PICK p \in PC : ports[p] # <<>> /\ pop(p)
    <3> DEFINE r == pick_next_round_robin
    <3>1. r # -1 /\ pop(r)
      BY <1>2 DEF Issue
    <3>2. PICK d \in 0 .. kNumPseudoChannels - 1 :
            r = Visited(rr_cursor, d) /\ ports[Visited(rr_cursor, d)] # <<>>
      BY <3>1, PickNext DEF TypeOK
    <3>3. d \in 0 .. kNumPseudoChannels /\ rr_cursor \in PC
      BY PseudoChannelAssumption DEF TypeOK, MuxTypeOK
    <3> HIDE DEF r
    <3> QED BY <3>1, <3>2, <3>3, VisitedInPC
  <2>2. ASSUME NEW q \in PC, NEW i \in DOMAIN ports'[q]
        PROVE  InRegion(q, ports'[q][i])
    <3>1. ports[q] \in Seq(MemoryBurst)
      BY DEF TypeOK, MuxTypeOK
    <3>2. ports'[q] = IF q = p THEN Tail(ports[q]) ELSE ports[q]
      BY <2>1 DEF pop, TypeOK, MuxTypeOK
    <3>3. \E j \in DOMAIN ports[q] : ports'[q][i] = ports[q][j]
      BY <2>1, <3>1, <3>2
    <3> QED BY <3>3 DEF RegionInv
  <2> QED BY <2>2 DEF RegionInv
<1>3. CASE UNCHANGED vars
  BY <1>3 DEF vars, RegionInv
<1> QED BY <1>1, <1>2, <1>3 DEF Next

(* Addresses of different regions are different.                           *)
LEMMA RegionsDisjoint ==
  ASSUME NEW p \in PC, NEW q \in PC, p < q, NEW a, NEW b,
         InRegion(p, a), InRegion(q, b)
  PROVE  a.addr + a.size_bytes <= b.addr
<1>1. p * kRegionSize + kRegionSize = (p + 1) * kRegionSize
  BY PseudoChannelAssumption
<1>2. (p + 1) * kRegionSize <= q * kRegionSize
  BY PseudoChannelAssumption
<1>3. p * kRegionSize \in Nat /\ (p + 1) * kRegionSize \in Nat /\ q * kRegionSize \in Nat
  BY PseudoChannelAssumption
<1> QED BY <1>1, <1>2, <1>3, PseudoChannelAssumption DEF InRegion

(* Streams never share bytes when every workload fits into a region; the   *)
(* code neither states nor enforces the premise.                           *)
THEOREM StreamsNeverOverlap ==
  ASSUME WorkloadFits
  PROVE  Spec => []StreamsDisjoint
<1>1. Init => RegionInv
  BY DEF Init, MuxInit, RegionInv
<1>2. RegionInv => StreamsDisjoint
  <2> SUFFICES ASSUME RegionInv, NEW p \in PC, NEW q \in PC, p # q,
                      NEW i \in DOMAIN ports[p], NEW j \in DOMAIN ports[q]
               PROVE  ~ Overlap(ports[p][i], ports[q][j])
    BY DEF StreamsDisjoint
  <2>1. InRegion(p, ports[p][i]) /\ InRegion(q, ports[q][j])
    BY DEF RegionInv
  <2>2. p < q \/ q < p
    BY PseudoChannelAssumption
  <2>3. \/ ports[p][i].addr + ports[p][i].size_bytes <= ports[q][j].addr
        \/ ports[q][j].addr + ports[q][j].size_bytes <= ports[p][i].addr
    BY <2>1, <2>2, RegionsDisjoint
  <2> QED BY <2>1, <2>3 DEF Overlap, InRegion
<1> QED BY <1>1, <1>2, TypeInit, TypeStep, RegionStep, PTL DEF Spec

-----------------------------------------------------------------------------
(* The feature partitioner.                                                *)

(* In the loop, the dimensions before `start' have the vaults of their     *)
(* chunks, and as long as the ends of chunks can be represented `start' is *)
(* where chunk number chunk_id begins.                                     *)
LoopInv ==
  /\ stage \in {"idle", "chunks", "returned"}
  /\ out = [num_vaults |-> out.num_vaults, feature_dim |-> out.feature_dim,
            chunk_size |-> out.chunk_size, dim_to_vault |-> out.dim_to_vault]
  /\ stage # "idle" =>
       /\ out.num_vaults \in Nat \ {0} /\ out.feature_dim \in Nat \ {0}
       /\ out.chunk_size \in Nat \ {0}
       /\ out.dim_to_vault \in [Dim -> 0 .. out.num_vaults - 1]
  /\ stage = "chunks" => start \in Nat /\ chunk_id \in Nat /\ out.chunk_size < Word
  /\ stage = "chunks" /\ EndsFit =>
       /\ start = chunk_id * out.chunk_size
       /\ \A d \in Dim : d < start =>
            out.dim_to_vault[d] = (d \div out.chunk_size) % out.num_vaults
  /\ RoundRobinChunks

(* A chunk's dimensions.                                                   *)
LEMMA ChunkOf ==
  ASSUME NEW c \in Nat \ {0}, NEW k \in Nat, NEW d \in Nat, k * c <= d, d < (k + 1) * c
  PROVE  d \div c = k
<1>1. d = c * (d \div c) + (d % c) /\ d % c \in 0 .. c - 1 /\ d \div c \in Nat
  OBVIOUS
<1> DEFINE q == d \div c
<1> DEFINE r == d % c
<1>2. q \in Nat /\ r \in 0 .. c - 1 /\ d = c * q + r
  BY <1>1
<1> HIDE DEF q, r
<1>3. CASE q < k
  <2>1. q + 1 <= k
    BY <1>2, <1>3
  <2>2. c * (q + 1) <= c * k
    BY <1>2, <2>1
  <2> QED BY <1>2, <2>2
<1>4. CASE q > k
  <2>1. k + 1 <= q
    BY <1>2, <1>4
  <2>2. c * (k + 1) <= c * q
    BY <1>2, <2>1
  <2> QED BY <1>2, <2>2
<1> QED BY <1>2, <1>3, <1>4 DEF q

LEMMA LoopInit == PartitionInit => LoopInv
BY DEF PartitionInit, LoopInv, RoundRobinChunks, Nothing

(* The row-interleaved layout has chunks of one dimension.                 *)
LEMMA RowInterleaved ==
  ASSUME NEW cfg \in Configs, make_row_interleaved_partition(cfg)
  PROVE  LoopInv'
<1>1. cfg.feature_dim \in Nat \ {0} /\ cfg.num_vaults \in Nat \ {0}
  BY PartitionAssumption DEF FeaturePartitionConfig, UInt, make_row_interleaved_partition
<1>2. /\ stage' = "returned" /\ out'.num_vaults = cfg.num_vaults
      /\ out'.feature_dim = cfg.feature_dim /\ out'.chunk_size = 1
      /\ out'.dim_to_vault = [d \in 0 .. cfg.feature_dim - 1 |-> d % cfg.num_vaults]
  BY DEF make_row_interleaved_partition
<1>3. ASSUME NEW d \in 0 .. cfg.feature_dim - 1
      PROVE  /\ out'.dim_to_vault[d] = (d \div 1) % cfg.num_vaults
             /\ d % cfg.num_vaults \in 0 .. cfg.num_vaults - 1
  <2>1. d \div 1 = d
    BY <1>1
  <2> QED BY <1>1, <1>2, <2>1
<1>4. out' = [num_vaults |-> out'.num_vaults, feature_dim |-> out'.feature_dim,
              chunk_size |-> out'.chunk_size, dim_to_vault |-> out'.dim_to_vault]
  BY DEF make_row_interleaved_partition
<1> QED BY <1>1, <1>2, <1>3, <1>4 DEF LoopInv, RoundRobinChunks, Dim

(* The chunk loop begins with every dimension in vault 0.                  *)
LEMMA ChunksBegin ==
  ASSUME NEW cfg \in Configs, make_feature_partition(cfg)
  PROVE  LoopInv'
<1>1. /\ cfg.feature_dim \in Nat \ {0} /\ cfg.num_vaults \in Nat \ {0}
      /\ cfg.chunk_size \in Nat \ {0} /\ cfg.chunk_size < Word
  BY PartitionAssumption DEF FeaturePartitionConfig, UInt, make_feature_partition
<1>2. /\ stage' = "chunks" /\ start' = 0 /\ chunk_id' = 0
      /\ out'.num_vaults = cfg.num_vaults
      /\ out'.feature_dim = cfg.feature_dim /\ out'.chunk_size = cfg.chunk_size
      /\ out'.dim_to_vault = [d \in 0 .. cfg.feature_dim - 1 |-> 0]
  BY DEF make_feature_partition
<1>3. out'.dim_to_vault \in [0 .. cfg.feature_dim - 1 -> 0 .. cfg.num_vaults - 1]
  BY <1>1, <1>2
<1>4. start' = chunk_id' * out'.chunk_size /\ \A d \in 0 .. cfg.feature_dim - 1 : ~ (d < start')
  BY <1>1, <1>2
<1>5. out' = [num_vaults |-> out'.num_vaults, feature_dim |-> out'.feature_dim,
              chunk_size |-> out'.chunk_size, dim_to_vault |-> out'.dim_to_vault]
  BY DEF make_feature_partition
<1> QED BY <1>1, <1>2, <1>3, <1>4, <1>5 DEF LoopInv, RoundRobinChunks, Dim

(* As long as the ends of chunks can be represented, a turn goes on by a   *)
(* chunk.                                                                  *)
LEMMA TurnAdvances ==
  ASSUME LoopInv, AssignChunk, EndsFit
  PROVE  /\ start = chunk_id * out.chunk_size
         /\ (chunk_id + 1) * out.chunk_size = start + out.chunk_size
         /\ start' = start + out.chunk_size /\ chunk_id' = chunk_id + 1
<1> DEFINE c == out.chunk_size
<1>1. /\ start < out.feature_dim /\ c \in Nat \ {0} /\ out.feature_dim \in Nat \ {0}
      /\ start \in Nat /\ chunk_id \in Nat /\ c < Word /\ Word \in Nat \ {0}
      /\ start = chunk_id * c
      /\ chunk_id' = (chunk_id + 1) % Word /\ start' = (start + c) % Word
  BY PartitionAssumption DEF AssignChunk, InLoop, LoopInv
<1>2. chunk_id <= chunk_id * c /\ (chunk_id + 1) * c = start + c
      /\ chunk_id + 1 <= (chunk_id + 1) * c
  <2> HIDE DEF c
  <2> QED BY <1>1
<1>3. (chunk_id + 1) * c < Word
  <2>1. chunk_id \in Dim
    BY <1>1, <1>2 DEF Dim
  <2> QED BY <1>1, <2>1 DEF EndsFit
<1>4. start' = start + c /\ chunk_id' = chunk_id + 1
  <2>1. start + c < Word /\ chunk_id + 1 < Word
    BY <1>1, <1>2, <1>3
  <2> HIDE DEF c
  <2> QED BY <1>1, <2>1
<1> QED BY <1>1, <1>2, <1>4

(* One turn of the loop.                                                   *)
LEMMA TurnKeeps ==
  ASSUME LoopInv, AssignChunk
  PROVE  LoopInv'
<1> DEFINE c == out.chunk_size
<1> DEFINE n == out.feature_dim
<1> DEFINE w == out.num_vaults
<1> DEFINE next == (start + c) % Word
<1> DEFINE end == Least(n, next)
<1>1. /\ stage = "chunks" /\ start < n
      /\ c \in Nat \ {0} /\ n \in Nat \ {0} /\ w \in Nat \ {0}
      /\ start \in Nat /\ chunk_id \in Nat /\ c < Word /\ Word \in Nat \ {0}
      /\ out.dim_to_vault \in [Dim -> 0 .. w - 1]
  BY PartitionAssumption DEF AssignChunk, InLoop, LoopInv
<1>2. /\ out' = [out EXCEPT !.dim_to_vault =
                   [d \in DOMAIN @ |-> IF d \in start .. end - 1 THEN Vault ELSE @[d]]]
      /\ chunk_id' = (chunk_id + 1) % Word /\ start' = next /\ stage' = stage
  BY DEF AssignChunk
<1>3. /\ out'.num_vaults = w /\ out'.feature_dim = n /\ out'.chunk_size = c
      /\ out'.dim_to_vault = [d \in Dim |-> IF d \in start .. end - 1 THEN Vault
                                           ELSE out.dim_to_vault[d]]
      /\ out' = [num_vaults |-> out'.num_vaults, feature_dim |-> out'.feature_dim,
                 chunk_size |-> out'.chunk_size, dim_to_vault |-> out'.dim_to_vault]
  <2>1. DOMAIN out.dim_to_vault = Dim
    BY <1>1
  <2>2. out = [num_vaults |-> w, feature_dim |-> n, chunk_size |-> c,
               dim_to_vault |-> out.dim_to_vault]
    BY DEF LoopInv
  <2> HIDE DEF c, n, w, end, Vault, Dim
  <2> QED BY <1>2, <2>1, <2>2
<1>4. Vault \in 0 .. w - 1 /\ start' \in Nat /\ chunk_id' \in Nat
  BY <1>1, <1>2 DEF Vault
<1>5. Dim' = Dim /\ (EndsFit' <=> EndsFit) /\ Dim = 0 .. n - 1
  BY <1>3 DEF Dim, EndsFit
<1>6. out'.dim_to_vault \in [Dim -> 0 .. w - 1]
  <2> HIDE DEF end, w
  <2> QED BY <1>1, <1>3, <1>4
<1>7. ASSUME EndsFit
      PROVE  /\ start' = chunk_id' * c
             /\ \A d \in Dim : d < start' => out'.dim_to_vault[d] = (d \div c) % w
  <2>1. start = chunk_id * c /\ \A d \in Dim : d < start =>
                                   out.dim_to_vault[d] = (d \div c) % w
    BY <1>1, <1>7 DEF LoopInv
  <2>2. (chunk_id + 1) * c = start + c /\ start' = start + c /\ chunk_id' = chunk_id + 1
    BY <1>7, TurnAdvances
  <2>3. start' = chunk_id' * c
    BY <2>2
  <2>4. ASSUME NEW d \in Dim, d < start'
        PROVE  out'.dim_to_vault[d] = (d \div c) % w
    <3>1. CASE d < start
      BY <1>1, <1>3, <1>5, <2>1, <3>1
    <3>2. CASE start <= d
      <4>1. d \in start .. end - 1
        BY <1>1, <1>2, <1>5, <2>2, <2>4, <3>2 DEF Least
      <4>2. d \div c = chunk_id
        <5>1. chunk_id * c <= d /\ d < (chunk_id + 1) * c /\ d \in Nat
          BY <1>1, <1>5, <2>1, <2>2, <2>4, <3>2
        <5> HIDE DEF c
        <5> QED BY <1>1, <5>1, ChunkOf
      <4> QED BY <1>3, <4>1, <4>2 DEF Vault
    <3> QED BY <1>1, <1>5, <3>1, <3>2
  <2> QED BY <2>3, <2>4
<1> HIDE DEF c, n, w, next, end
<1>8. /\ out'.num_vaults \in Nat \ {0} /\ out'.feature_dim \in Nat \ {0}
      /\ out'.chunk_size \in Nat \ {0} /\ out'.chunk_size < Word
  BY <1>1, <1>3
<1>9. RoundRobinChunks'
  BY <1>1, <1>2 DEF RoundRobinChunks
<1> QED BY <1>1, <1>2, <1>3, <1>4, <1>5, <1>6, <1>7, <1>8, <1>9 DEF LoopInv

LEMMA LoopStep == LoopInv /\ [PartitionNext]_partitionVars => LoopInv'
<1> SUFFICES ASSUME LoopInv, [PartitionNext]_partitionVars
             PROVE  LoopInv'
  OBVIOUS
<1>1. CASE Call
  BY <1>1, RowInterleaved, ChunksBegin DEF Call, make_hybrid_partition
<1>2. CASE AssignChunk
  BY <1>2, TurnKeeps
<1>3. CASE Return
  <2>1. stage = "chunks" /\ ~ InLoop /\ stage' = "returned" /\ UNCHANGED <<out, start, chunk_id>>
    BY <1>3 DEF Return
  <2>2. \A d \in Dim : d < start
    BY <2>1 DEF InLoop, Dim, LoopInv
  <2> QED BY <2>1, <2>2 DEF LoopInv, RoundRobinChunks, EndsFit, Dim
<1>4. CASE Forget
  BY <1>4 DEF Forget, LoopInv, RoundRobinChunks, Nothing
<1>5. CASE UNCHANGED partitionVars
  BY <1>5 DEF partitionVars, LoopInv, RoundRobinChunks, EndsFit, Dim
<1> QED BY <1>1, <1>2, <1>3, <1>4, <1>5 DEF PartitionNext

(* For integers of any width, a call that returns has put chunk after      *)
(* chunk into vault after vault, if the ends of the chunks are integers of *)
(* that width.                                                             *)
THEOREM ChunksInTurn == PartitionSpec => []RoundRobinChunks
<1>1. LoopInv => RoundRobinChunks
  BY DEF LoopInv
<1> QED BY <1>1, LoopInit, LoopStep, PTL DEF PartitionSpec

(* If the ends of the chunks can be represented, a call comes to its end:  *)
(* a turn of its loop brings `start' closer to the number of dimensions by *)
(* a chunk, and when it is reached the call returns.                       *)
THEOREM CallComesToItsEnd ==
  PartitionSpec =>
    [][ stage = "chunks" /\ EndsFit =>
          /\ out.chunk_size >= 1 /\ out'.feature_dim = out.feature_dim
          /\ IF start < out.feature_dim
             THEN stage' = "chunks" /\ start' = start + out.chunk_size
             ELSE stage' = "returned"
      ]_partitionVars
<1> DEFINE Advance ==
      stage = "chunks" /\ EndsFit =>
        /\ out.chunk_size >= 1 /\ out'.feature_dim = out.feature_dim
        /\ IF start < out.feature_dim
           THEN stage' = "chunks" /\ start' = start + out.chunk_size
           ELSE stage' = "returned"
<1>1. LoopInv /\ [PartitionNext]_partitionVars => [Advance]_partitionVars
  <2> SUFFICES ASSUME LoopInv, PartitionNext, stage = "chunks", EndsFit
               PROVE  Advance
    OBVIOUS
  <2>1. out.chunk_size >= 1
    BY DEF LoopInv
  <2>2. CASE AssignChunk
    <3>1. out'.feature_dim = out.feature_dim
      <4>1. out = [num_vaults |-> out.num_vaults, feature_dim |-> out.feature_dim,
                   chunk_size |-> out.chunk_size, dim_to_vault |-> out.dim_to_vault]
        BY DEF LoopInv
      <4> QED BY <2>2, <4>1 DEF AssignChunk
    <3>2. start' = start + out.chunk_size
      BY <2>2, TurnAdvances
    <3> QED BY <2>1, <2>2, <3>1, <3>2 DEF AssignChunk, InLoop
  <2>3. CASE Return
    BY <2>1, <2>3 DEF Return, InLoop
  <2> QED BY <2>2, <2>3 DEF PartitionNext, Call, Forget
<1> QED BY <1>1, LoopInit, LoopStep, PTL DEF PartitionSpec

-----------------------------------------------------------------------------
(* How evenly the dimensions are spread.                                   *)

(* A dimension is that many chunks and a place within its chunk.           *)
LEMMA ChunkAndPlace ==
  ASSUME NEW c \in Nat \ {0}, NEW d \in Nat
  PROVE  /\ d \div c \in Nat /\ d % c \in 0 .. c - 1
         /\ d = (d \div c) * c + (d % c)
OBVIOUS

LEMMA RemainderOf ==
  ASSUME NEW n \in Nat \ {0}, NEW k \in Nat, NEW r \in 0 .. n - 1
  PROVE  (k * n + r) % n = r
<1> DEFINE d == k * n + r
<1>1. d \in Nat /\ k * n <= d /\ d < (k + 1) * n
  <2>1. (k + 1) * n = k * n + n /\ k * n \in Nat
    OBVIOUS
  <2> QED BY <2>1
<1>2. d \div n = k
  <2> HIDE DEF d
  <2> QED BY <1>1, ChunkOf
<1>3. d = (d \div n) * n + (d % n) /\ d % n \in 0 .. n - 1
  BY <1>1, ChunkAndPlace
<1>4. d = k * n + (d % n) /\ d = k * n + r
  BY <1>2, <1>3
<1>5. k * n \in Nat
  OBVIOUS
<1> HIDE DEF d
<1>6. d % n = r
  <2> DEFINE z == k * n
  <2>1. d = z + (d % n) /\ d = z + r /\ z \in Nat
    BY <1>4, <1>5
  <2> HIDE DEF z
  <2> QED BY <1>3, <2>1
<1> QED BY <1>6 DEF d

(* By how many chunks vault v's chunk lies behind vault w's before it.     *)
Behind(n, v, w) == IF w <= v THEN v - w ELSE v - w + n

(* That many chunks before a chunk of v there is one of w, unless v comes  *)
(* before w and the chunk is v's first.                                    *)
LEMMA ChunkBehind ==
  ASSUME NEW n \in Nat \ {0}, NEW v \in 0 .. n - 1, NEW w \in 0 .. n - 1,
         NEW k \in Nat, k % n = v, w <= v \/ n <= k
  PROVE  /\ Behind(n, v, w) \in 0 .. k
         /\ (k - Behind(n, v, w)) % n = w
<1> DEFINE a == k \div n
<1>1. a \in Nat /\ k = a * n + v
  BY ChunkAndPlace
<1> HIDE DEF a
<1>2. CASE w <= v
  <2>1. a * n \in Nat
    BY <1>1
  <2>2. Behind(n, v, w) \in 0 .. k /\ k - Behind(n, v, w) = a * n + w
    <3> DEFINE z == a * n
    <3>1. k = z + v /\ z \in Nat
      BY <1>1, <2>1
    <3> HIDE DEF z
    <3>2. Behind(n, v, w) = v - w
      BY <1>2 DEF Behind
    <3>3. v - w \in 0 .. k /\ k - (v - w) = z + w
      BY <1>2, <3>1
    <3> QED BY <3>2, <3>3 DEF z
  <2> QED BY <1>1, <2>2, RemainderOf
<1>3. CASE v < w
  <2>1. n <= k
    BY <1>3
  <2>2. a # 0
    <3>1. CASE a = 0
      <4>1. k = v
        BY <1>1, <3>1
      <4> QED BY <2>1, <4>1
    <3> QED BY <3>1
  <2>3. a - 1 \in Nat /\ (a - 1) * n \in Nat /\ a * n = (a - 1) * n + n
    BY <1>1, <2>2
  <2>4. Behind(n, v, w) \in 0 .. k /\ k - Behind(n, v, w) = (a - 1) * n + w
    <3> DEFINE z == (a - 1) * n
    <3>1. k = z + n + v /\ z \in Nat
      BY <1>1, <2>3
    <3> HIDE DEF z
    <3>2. Behind(n, v, w) = v - w + n
      BY <1>3 DEF Behind
    <3>3. v - w + n \in 0 .. k /\ k - (v - w + n) = z + w
      BY <1>3, <3>1
    <3> QED BY <3>2, <3>3 DEF z
  <2> QED BY <2>3, <2>4, RemainderOf
<1> QED BY <1>2, <1>3

(* The dimensions of vault v when N dimensions go round n vaults in chunks *)
(* of c.                                                                   *)
Owned(c, n, N, v) == {d \in 0 .. N - 1 : (d \div c) % n = v}

(* A vault's dimensions that have a counterpart among those of w: all, or  *)
(* all but its first chunk.                                                *)
Matched(c, n, N, v, w) == {d \in Owned(c, n, N, v) : w <= v \/ n <= d \div c}

LEMMA ShiftDown ==
  ASSUME NEW c \in Nat \ {0}, NEW n \in Nat \ {0}, NEW N \in Nat,
         NEW v \in 0 .. n - 1, NEW w \in 0 .. n - 1, NEW d \in Matched(c, n, N, v, w)
  PROVE  /\ Behind(n, v, w) * c \in Int
         /\ d - Behind(n, v, w) * c \in Owned(c, n, N, w)
<1> DEFINE k == d \div c
<1> DEFINE r == d % c
<1> DEFINE m == Behind(n, v, w)
<1>1. d \in 0 .. N - 1 /\ k % n = v /\ (w <= v \/ n <= k)
  BY DEF Matched, Owned
<1>2. k \in Nat /\ r \in 0 .. c - 1 /\ d = k * c + r
  <2>1. d \in Nat
    BY <1>1
  <2> QED BY <2>1, ChunkAndPlace
<1> HIDE DEF k, r
<1>3. m \in 0 .. k /\ (k - m) % n = w
  BY <1>1, <1>2, ChunkBehind
<1> HIDE DEF m
<1>4. k - m \in Nat /\ (k - m) * c \in Nat /\ m * c \in Nat /\ k * c = (k - m) * c + m * c
      /\ (k - m + 1) * c = (k - m) * c + c
  BY <1>2, <1>3
<1> DEFINE e == d - m * c
<1>5. /\ e \in Nat /\ e <= d
      /\ (k - m) * c <= e /\ e < (k - m + 1) * c
  <2> DEFINE y == (k - m) * c
  <2> DEFINE z == m * c
  <2> DEFINE x == (k - m + 1) * c
  <2>1. /\ y \in Nat /\ z \in Nat /\ d = y + z + r /\ x = y + c
        /\ e = d - z
    BY <1>2, <1>4
  <2> HIDE DEF x, y, z, e
  <2>2. e \in Nat /\ e <= d /\ y <= e /\ e < x
    BY <1>2, <2>1
  <2> QED BY <2>2 DEF x, y
<1>6. e \div c = k - m
  <2> HIDE DEF e
  <2> QED BY <1>4, <1>5, ChunkOf
<1>7. e \in 0 .. N - 1
  <2> HIDE DEF e
  <2> QED BY <1>1, <1>5
<1>8. e \in Owned(c, n, N, w)
  BY <1>3, <1>6, <1>7 DEF Owned
<1> QED BY <1>4, <1>8 DEF m

(* Chunks that go round are spread evenly.                                 *)
LEMMA SpreadEvenly ==
  ASSUME NEW c \in Nat \ {0}, NEW n \in Nat \ {0}, NEW N \in Nat,
         NEW v \in 0 .. n - 1, NEW w \in 0 .. n - 1
  PROVE  Cardinality(Owned(c, n, N, v)) <= Cardinality(Owned(c, n, N, w)) + c
<1> DEFINE A == Owned(c, n, N, v)
<1> DEFINE B == Owned(c, n, N, w)
<1> DEFINE M == Matched(c, n, N, v, w)
<1> DEFINE F == v * c .. v * c + (c - 1)
<1> DEFINE m == Behind(n, v, w)
<1>1. IsFiniteSet(A) /\ IsFiniteSet(B) /\ IsFiniteSet(M)
  <2>1. IsFiniteSet(0 .. N - 1)
    BY FS_Interval
  <2>2. A \in SUBSET (0 .. N - 1) /\ B \in SUBSET (0 .. N - 1) /\ M \in SUBSET (0 .. N - 1)
    BY DEF Owned, Matched
  <2> QED BY <2>1, <2>2, FS_Subset
<1>2. Cardinality(M) <= Cardinality(B)
  <2> DEFINE f == [d \in M |-> d - m * c]
  <2>1. ASSUME NEW d \in M
        PROVE  d \in Int /\ m * c \in Int /\ d - m * c \in B
    <3>1. d \in Int
      BY DEF Matched, Owned
    <3> HIDE DEF M
    <3>2. m * c \in Int /\ d - m * c \in B
      BY ShiftDown DEF M
    <3> QED BY <3>1, <3>2
  <2>2. f \in [M -> B] /\ \A d, e \in M : f[d] = f[e] => d = e
    <3> DEFINE z == m * c
    <3> HIDE DEF M, B, m
    <3> QED BY <2>1
  <2>3. f \in Injection(M, B)
    <3> HIDE DEF f, M, B
    <3> QED BY <2>2 DEF Injection, IsInjective
  <2> HIDE DEF f, M, B
  <2> QED BY <1>1, <2>3, FS_Injection
<1>3. IsFiniteSet(F) /\ Cardinality(F) = c
  <2>1. v * c \in Int /\ v * c + (c - 1) \in Int
    OBVIOUS
  <2> DEFINE z == v * c
  <2>2. IsFiniteSet(z .. z + (c - 1))
        /\ Cardinality(z .. z + (c - 1)) = IF z > z + (c - 1) THEN 0 ELSE z + (c - 1) - z + 1
    BY <2>1, FS_Interval
  <2> HIDE DEF z
  <2>3. z \in Int
    BY <2>1 DEF z
  <2>4. Cardinality(z .. z + (c - 1)) = c
    BY <2>2, <2>3
  <2> QED BY <2>2, <2>4 DEF z
<1>4. A \subseteq M \cup F
  <2> SUFFICES ASSUME NEW d \in A, d \notin M
               PROVE  d \in F
    OBVIOUS
  <2> DEFINE k == d \div c
  <2>1. d \in Nat /\ k % n = v /\ k < n
    <3>1. d \in Nat /\ k % n = v /\ ~ (n <= k)
      BY DEF Owned, Matched
    <3>2. k \in Nat
      BY <3>1, ChunkAndPlace
    <3> HIDE DEF k
    <3> QED BY <3>1, <3>2
  <2>2. k \in Nat /\ d % c \in 0 .. c - 1 /\ d = k * c + (d % c)
    BY <2>1, ChunkAndPlace
  <2> HIDE DEF k
  <2>3. k = v
    <3>1. (0 * n + k) % n = k
      BY <2>1, <2>2, RemainderOf
    <3>2. 0 * n + k = k
      BY <2>2
    <3> QED BY <2>1, <3>1, <3>2
  <2>4. v * c \in Int /\ d = v * c + (d % c)
    BY <2>2, <2>3
  <2> DEFINE z == v * c
  <2> DEFINE r == d % c
  <2>5. z \in Int /\ d = z + r /\ r \in 0 .. c - 1
    BY <2>2, <2>4
  <2> HIDE DEF z, r
  <2>6. d \in z .. z + (c - 1)
    BY <2>5
  <2> QED BY <2>6 DEF z
<1> HIDE DEF A, B, M, F
<1>5. /\ IsFiniteSet(M \cup F)
      /\ Cardinality(M \cup F) <= Cardinality(M) + Cardinality(F)
      /\ Cardinality(A) <= Cardinality(M \cup F)
  <2>1. IsFiniteSet(M \cup F) /\ IsFiniteSet(M \cap F)
        /\ Cardinality(M \cup F) = Cardinality(M) + Cardinality(F) - Cardinality(M \cap F)
    BY <1>1, <1>3, FS_Union, FS_Subset
  <2>2. Cardinality(A) <= Cardinality(M \cup F)
    BY <1>4, <2>1, FS_Subset
  <2>3. Cardinality(M) \in Nat /\ Cardinality(F) \in Nat /\ Cardinality(M \cap F) \in Nat
    BY <1>1, <1>3, <2>1, FS_CardinalityType
  <2> QED BY <2>1, <2>2, <2>3
<1>6. /\ Cardinality(A) \in Nat /\ Cardinality(B) \in Nat /\ Cardinality(M) \in Nat
      /\ Cardinality(M \cup F) \in Nat
  BY <1>1, <1>5, FS_CardinalityType
<1>7. Cardinality(A) <= Cardinality(B) + c
  BY <1>2, <1>3, <1>5, <1>6
<1> QED BY <1>7 DEF A, B

(* A call that returns has given every dimension to an existing vault, and *)
(* no vault has more than one chunk more than another.                     *)
THEOREM VaultsBalanced == PartitionSpec => []Balanced
<1>1. LoopInv => Balanced
  <2> SUFFICES ASSUME LoopInv, stage = "returned"
               PROVE  /\ \A d \in Dim : out.dim_to_vault[d] \in 0 .. out.num_vaults - 1
                      /\ EndsFit => \A v, w \in 0 .. out.num_vaults - 1 :
                                      dims_per_vault(v) <= dims_per_vault(w) + out.chunk_size
    BY DEF Balanced
  <2>1. /\ out.num_vaults \in Nat \ {0} /\ out.feature_dim \in Nat /\ out.chunk_size \in Nat \ {0}
        /\ out.dim_to_vault \in [Dim -> 0 .. out.num_vaults - 1]
        /\ RoundRobinChunks
    BY DEF LoopInv
  <2>2. \A d \in Dim : out.dim_to_vault[d] \in 0 .. out.num_vaults - 1
    BY <2>1
  <2>3. ASSUME EndsFit, NEW v \in 0 .. out.num_vaults - 1, NEW w \in 0 .. out.num_vaults - 1
        PROVE  dims_per_vault(v) <= dims_per_vault(w) + out.chunk_size
    <3>1. \A d \in Dim : out.dim_to_vault[d] = (d \div out.chunk_size) % out.num_vaults
      BY <2>1, <2>3 DEF RoundRobinChunks
    <3>2. ASSUME NEW u
          PROVE  dims_per_vault(u)
                   = Cardinality(Owned(out.chunk_size, out.num_vaults, out.feature_dim, u))
      <4>1. {d \in Dim : out.dim_to_vault[d] = u}
              = Owned(out.chunk_size, out.num_vaults, out.feature_dim, u)
        BY <3>1 DEF Dim, Owned
      <4> QED BY <4>1 DEF dims_per_vault
    <3> QED BY <2>1, <3>2, SpreadEvenly
  <2> QED BY <2>2, <2>3
<1> QED BY <1>1, LoopInit, LoopStep, PTL DEF PartitionSpec

(* Whatever holds of the multiplexer or of the partitioner on its own      *)
(* holds of the caller that uses both.                                     *)
THEOREM PlacementProjects == PlacementSpec => Spec /\ PartitionSpec
<1>1. PlacementInit => Init /\ PartitionInit
  BY DEF PlacementInit
<1>2. [PlacementNext]_<<vars, partitionVars>> => [Next]_vars /\ [PartitionNext]_partitionVars
  BY DEF PlacementNext
<1> QED BY <1>1, <1>2, PTL DEF PlacementSpec, Spec, PartitionSpec
=============================================================================
