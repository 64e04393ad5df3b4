---------------------------- MODULE SIMDCoreProofs -----------------------------
(***************************************************************************)
(* Proofs about the SIMD core with its controller and its memory, for      *)
(* register files, vectors, programs and buffers of any size.              *)
(***************************************************************************)
EXTENDS SIMDCore, GatherClientProofs

(* The operations on values return values.                                 *)
Closed ==
  /\ \A a \in Addr, i \in Lane : Loaded(a, i) \in Val /\ TimeCode(a, i) \in Val
  /\ \A a \in Addr, x \in Val : Fetched(a, x) \in Val
  /\ \A op \in ISA!Elementwise : \A x, y \in Val : Combine(op, x, y) \in Val
  /\ \A h, m \in [Lane -> Val] : \A i \in Lane : GruLane(h, m, i) \in Val

Good == {i \in Instruction : WellFormed(i)}

Vector == [Lane -> Val]

Types ==
  /\ program \in Seq(Good) /\ regs \in [Reg -> Val]
  /\ is_stalled \in BOOLEAN /\ waiting_gru \in BOOLEAN /\ gru_attached \in BOOLEAN
  /\ pending_dest_reg = IF is_stalled THEN executing.dest ELSE -1
  /\ is_stalled => executing \in Good
  /\ waiting_gru => gru_attached
  /\ loads \in [Addr -> Nat] /\ loaded \in 0 .. MaxPrograms
  /\ gru_operands \in Vector \X Vector
  /\ asked \in Seq(Seq(Addr \X Val)) /\ Len(asked) = batch
  /\ foreign \in BOOLEAN /\ clean \in BOOLEAN

(* The programs that can be loaded consist of good instructions.           *)
LEMMA ProgramsGood == ASSUME NEW p \in Programs PROVE p \in Seq(Good)
<1> DEFINE Raw == [op : STRING, dest : Nat, src1 : Nat, src2 : Nat, addr : Addr, elems : Nat]
<1>1. p \in Seq(Raw) /\ \A i \in DOMAIN p : WellFormed(p[i])
  BY CoreAssumption
<1>2. /\ Len(p) \in Nat /\ p = [i \in 1 .. Len(p) |-> p[i]] /\ DOMAIN p = 1 .. Len(p)
      /\ \A i \in 1 .. Len(p) : p[i] \in Raw
  <2> HIDE DEF Raw
  <2> QED BY <1>1
<1>3. ASSUME NEW i \in 1 .. Len(p)
      PROVE  p[i] \in Good
  <2>1. p[i] \in Raw
    BY <1>2
  <2>2. WellFormed(p[i])
    BY <1>1, <1>2
  <2>3. p[i].dest \in Reg /\ p[i].src1 \in Reg /\ p[i].src2 \in Reg
    BY <2>2 DEF WellFormed
  <2> QED BY <2>1, <2>2, <2>3 DEF Good, Instruction
<1> DEFINE n == Len(p)
<1> HIDE DEF n
<1>4. n \in Nat /\ p \in [1 .. n -> Good]
  BY <1>2, <1>3 DEF n
<1> QED BY <1>4

(* Types implies the type invariant.                                       *)
LEMMA TypesImply == GatherTypeOK /\ Types => TypeOK
<1> SUFFICES ASSUME GatherTypeOK, Types
             PROVE  TypeOK
  OBVIOUS
<1>1. Good \subseteq Instruction
  BY DEF Good
<1>2. program \in Seq(Instruction)
  <2> DEFINE n == Len(program)
  <2> HIDE DEF n, Good, Instruction
  <2>1. n \in Nat /\ program \in [1 .. n -> Good]
    BY DEF Types, n
  <2>2. program \in [1 .. n -> Instruction]
    BY <1>1, <2>1
  <2> QED BY <2>1, <2>2
<1>3. is_stalled => executing \in Instruction /\ executing.dest \in Reg
  BY <1>1 DEF Types, Good, WellFormed
<1>4. Reg = 0 .. NumRegs - 1 /\ NumRegs \in Nat
  BY CoreAssumption DEF Reg, ISA!Reg
<1>5. pending_dest_reg \in Reg \union {-1} /\ (is_stalled <=> pending_dest_reg # -1)
  BY <1>3, <1>4 DEF Types
<1> QED BY <1>2, <1>3, <1>5 DEF Types, TypeOK

(* A vector of values in a register file of values.                        *)
LEMMA WrittenType ==
  ASSUME NEW file \in [Reg -> Val], NEW dest, NEW vector,
         \A k \in DOMAIN vector : vector[k] \in Val
  PROVE  ISA!Written(file, dest, vector) \in [Reg -> Val]
BY DEF ISA!Written, Reg

LEMMA SliceType ==
  ASSUME NEW file \in [Reg -> Val], NEW src
  PROVE  ISA!Slice(file, src) \in Vector
BY CoreAssumption DEF ISA!Slice, Reg, Lane, Vector

(* A loop over the lanes computes what an operation on whole vectors does: *)
(* a well-formed instruction never reads a lane that it has written.       *)
LEMMA LanesIndependent ==
  ASSUME NEW i \in Good, i.op \in ISA!Elementwise
  PROVE  Result(i) = [k \in Lanes(i) |->
                        Combine(i.op, regs[i.src1 + k], regs[ISA!Second(i) + k])]
<1> DEFINE Whole == [k \in Lanes(i) |->
                       Combine(i.op, regs[i.src1 + k], regs[ISA!Second(i) + k])]
<1> DEFINE Step(g) ==
      [k \in Lanes(i) |->
         LET Operand(src) == IF src + k - i.dest \in 0 .. k - 1 THEN g[src + k - i.dest]
                             ELSE regs[src + k]
         IN  Combine(i.op, Operand(i.src1), Operand(ISA!Second(i)))]
<1>1. Result(i) = CHOOSE g : g = Step(g)
  BY DEF Result
<1>2. i.dest \in Int /\ i.src1 \in Int /\ ISA!Second(i) \in Int
  BY CoreAssumption DEF Good, WellFormed, Reg, ISA!Reg, ISA!Second
<1>3. ASSUME NEW k \in Lanes(i)
      PROVE  /\ k \in Nat
             /\ i.src1 + k - i.dest \notin 0 .. k - 1
             /\ ISA!Second(i) + k - i.dest \notin 0 .. k - 1
  <2>1. CASE i.op \in {"ADD_VEC", "MUL_VEC"}
    BY <1>2, <2>1 DEF Lanes
  <2>2. CASE i.op \in {"SIGMOID", "TANH", "HADAMARD"}
    <3>1. k \in 0 .. kLanes - 1 /\ kLanes \in Nat
      BY <2>2, CoreAssumption DEF Lanes, ISA!Lanes, ISA!Lane
    <3>2. i.dest - i.src1 \notin 1 .. kLanes - 1 /\ i.dest - ISA!Second(i) \notin 1 .. kLanes - 1
      BY <2>2 DEF Good, WellFormed
    <3> QED BY <1>2, <3>1, <3>2
  <2> QED BY <2>1, <2>2 DEF ISA!Elementwise
<1>4. ASSUME NEW g
      PROVE  Step(g) = Whole
  BY <1>3
<1> HIDE DEF Step, Whole
<1>5. Result(i) = CHOOSE g : g = Whole
  BY <1>1, <1>4
<1>6. Result(i) = Whole
  BY <1>5
<1> QED BY <1>6 DEF Whole

(* Where the core does what the comments say, over the same lanes.         *)
LEMMA LanesKept ==
  ASSUME NEW i \in Good, i.op \in ISA!Elementwise, i.op \notin Deviating
  PROVE  Result(i) = ISA!Result(i)
<1>1. Lanes(i) = ISA!Lanes(i)
  BY DEF Lanes, Deviating
<1> QED BY <1>1, LanesIndependent DEF ISA!Result

(* The head of the program, and the rest of it.                            *)
LEMMA HeadGood ==
  ASSUME Types, program # <<>>
  PROVE  /\ inst \in Good /\ Tail(program) \in Seq(Good)
         /\ <<inst>> \o Tail(program) = program
         /\ inst.dest \in Reg /\ inst.src1 \in Reg /\ inst.src2 \in Reg /\ inst.addr \in Addr
         /\ inst.elems \in Nat
<1>1. program \in Seq(Good)
  BY DEF Types
<1>2. inst \in Good /\ Tail(program) \in Seq(Good) /\ <<inst>> \o Tail(program) = program
  <2> HIDE DEF Good
  <2> QED BY <1>1 DEF inst
<1> QED BY <1>2 DEF Good, WellFormed

(* The part of the data buffer that a finished gather takes.               *)
Taken == Lesser(Len(db), Lesser(num_elems, NumRegs - pending_dest_reg))

LEMMA TakenFits ==
  ASSUME GatherTypeOK, Types, is_stalled
  PROVE  Taken \in 0 .. Len(db)
<1>1. pending_dest_reg \in 0 .. NumRegs - 1 /\ NumRegs \in Nat
  BY CoreAssumption DEF Types, Good, WellFormed, Reg, ISA!Reg
<1>2. Len(db) \in Nat /\ num_elems \in Nat
  BY DEF GatherTypeOK
<1> QED BY <1>1, <1>2 DEF Taken, Lesser

(* Every step of the core and its surroundings is a step of the gather     *)
(* controller or leaves it alone.                                          *)
LEMMA StepsGather ==
  ASSUME GatherTypeOK, Types, [Next]_vars
  PROVE  [GatherNext]_gatherVars
<1>1. CASE IssueLoad
  BY <1>1 DEF IssueLoad
<1>2. CASE IssueGather
  <2>1. StartBatch("core", inst.elems, inst.elems) /\ inst.elems \in Nat
    BY <1>2, HeadGood DEF IssueGather, Ready
  <2> QED BY <2>1 DEF GatherNext
<1>3. CASE IssueGru
  BY <1>3 DEF IssueGru
<1>4. CASE Execute
  BY <1>4 DEF Execute
<1>5. CASE PollGather
  <2>1. Drain("core", Taken) /\ Taken \in 0 .. Len(db)
    BY <1>5, TakenFits DEF PollGather, Taken
  <2> QED BY <2>1 DEF GatherNext
<1>6. CASE GruDone
  BY <1>6 DEF GruDone
<1>7. CASE MemoryReply
  BY <1>7 DEF MemoryReply
<1>8. CASE load_program
  BY <1>8 DEF load_program, GatherNext
<1>9. CASE attach_sa_and_feeder_for_gru
  BY <1>9 DEF attach_sa_and_feeder_for_gru
<1>10. CASE write_register
  BY <1>10 DEF write_register
<1>11. CASE VertexGathers
  <2>1. PICK b \in VertexBatches : StartBatch("vertex", b.elems, b.offsets)
    BY <1>11 DEF VertexGathers, StartVertexGather
  <2>2. b.elems \in Nat /\ b.offsets \in Nat
    BY ClientAssumption
  <2> QED BY <2>1, <2>2 DEF GatherNext
<1>12. CASE ControllerStep
  <2>1. CASE VertexTakes /\ VertexPushes
    <3>1. Lesser(VertexLanes, Len(db)) \in 0 .. Len(db)
      BY ClientAssumption DEF GatherTypeOK, Lesser
    <3> QED BY <2>1, <3>1 DEF VertexTakes, GatherNext
  <2> QED BY <1>12, <2>1 DEF ControllerStep, GatherNext
<1>13. CASE VertexCellLoads \/ FeederEmpties
  BY <1>13 DEF VertexCellLoads, FeederEmpties
<1>14. CASE UNCHANGED vars
  BY <1>14 DEF vars
<1> QED BY <1>1, <1>2, <1>3, <1>4, <1>5, <1>6, <1>7, <1>8, <1>9, <1>10, <1>11, <1>12, <1>13,
           <1>14
        DEF Next, Tick

-----------------------------------------------------------------------------
(* Type correctness.                                                       *)

LEMMA TypesInit == Init => Types
<1> SUFFICES ASSUME Init
             PROVE  Types
  OBVIOUS
<1>1. regs \in [Reg -> Val]
  BY CoreAssumption DEF Init
<1>2. gru_operands \in Vector \X Vector
  BY <1>1, SliceType DEF Init, Slice
<1>3. program \in Seq(Good) /\ asked \in Seq(Seq(Addr \X Val)) /\ Len(asked) = batch
  <2> HIDE DEF Good
  <2> QED BY DEF Init, GatherInit
<1>4. loaded \in 0 .. MaxPrograms /\ loads \in [Addr -> Nat]
  BY CoreAssumption DEF Init
<1> QED BY <1>1, <1>2, <1>3, <1>4 DEF Init, Types

(* What the core was given to gather.                                      *)
LEMMA ValueType ==
  ASSUME Closed, Types, NEW read \in Element
  PROVE  Value(read) \in Val
<1>1. read[1] \in 1 .. Len(asked) /\ asked \in Seq(Seq(Addr \X Val))
  BY DEF Element, Types
<1>2. asked[read[1]] \in Seq(Addr \X Val)
  BY <1>1
<1>3. read[2] \in DOMAIN asked[read[1]] => asked[read[1]][read[2]] \in Addr \X Val
  BY <1>2
<1> QED BY <1>3, CoreAssumption DEF Value, Closed

(* A vector of values ends a stall.                                        *)
LEMMA UnstallTypes ==
  ASSUME Types, NEW vector, \A k \in DOMAIN vector : vector[k] \in Val, Unstall(vector),
         gru_attached' \in BOOLEAN, waiting_gru' \in BOOLEAN, waiting_gru' => gru_attached',
         loads' \in [Addr -> Nat], foreign' \in BOOLEAN, batch' = batch
  PROVE  Types'
<1>1. regs' \in [Reg -> Val]
  BY WrittenType DEF Types, Unstall, Written
<1>2. is_stalled' = FALSE /\ pending_dest_reg' = -1
      /\ UNCHANGED <<program, gru_operands, asked, loaded, clean>>
  BY DEF Unstall
<1> QED BY <1>1, <1>2 DEF Types

(* An instruction that stalls the core.                                    *)
LEMMA StallTypes ==
  ASSUME Types, program # <<>>, Stall
  PROVE  /\ program' \in Seq(Good) /\ regs' \in [Reg -> Val] /\ is_stalled' = TRUE
         /\ pending_dest_reg' = executing'.dest /\ executing' \in Good
         /\ gru_attached' = gru_attached /\ loaded' = loaded
BY HeadGood DEF Stall, Types

(* The vertex program's pushes touch nothing of the core but the feeder.   *)
LEMMA VertexPushesTypes ==
  ASSUME Types, VertexPushes, batch' = batch
  PROVE  Types'
<1>1. clean' \in BOOLEAN /\ foreign' = TRUE
  BY DEF VertexPushes
<1> QED BY <1>1 DEF VertexPushes, Types

LEMMA TypesStep == ASSUME Closed PROVE GatherTypeOK /\ Types /\ [Next]_vars => Types'
<1> SUFFICES ASSUME GatherTypeOK, Types, [Next]_vars
             PROVE  Types'
  OBVIOUS
<1>1. CASE IssueLoad
  <2>1. /\ program # <<>> /\ Stall
        /\ UNCHANGED <<batch, waiting_gru, gru_operands, asked, foreign, clean>>
    BY <1>1 DEF IssueLoad, Ready, gatherVars
  <2>2. loads' \in [Addr -> Nat]
    <3>1. loads' = [loads EXCEPT ![inst.addr] = @ + 1] /\ loads \in [Addr -> Nat]
      BY <1>1 DEF IssueLoad, Types
    <3>2. inst.addr \in Addr
      BY <2>1, HeadGood
    <3> QED BY <3>1, <3>2
  <2> QED BY <2>1, <2>2, StallTypes DEF Types
<1>2. CASE IssueGather
  <2>1. /\ program # <<>> /\ inst.op = "GATHER" /\ Stall
        /\ UNCHANGED <<waiting_gru, gru_operands, loads, foreign>>
        /\ batch' = batch + 1 /\ clean' = (clean /\ intact')
        /\ asked' = Append(asked, [e \in 1 .. inst.elems |->
                                     <<inst.addr, regs[inst.src1 + e - 1]>>])
    BY <1>2 DEF IssueGather, Ready, StartBatch
  <2>2. [e \in 1 .. inst.elems |-> <<inst.addr, regs[inst.src1 + e - 1]>>] \in Seq(Addr \X Val)
    <3>1. inst.src1 + inst.elems <= NumRegs
      BY <2>1, HeadGood DEF Good, WellFormed
    <3>2. inst.elems \in Nat /\ inst.src1 \in Nat /\ inst.addr \in Addr
      BY <2>1, HeadGood, CoreAssumption DEF Reg, ISA!Reg
    <3>3. \A e \in 1 .. inst.elems : inst.src1 + e - 1 \in Reg
      BY <3>1, <3>2, CoreAssumption DEF Reg, ISA!Reg
    <3>4. \A e \in 1 .. inst.elems : <<inst.addr, regs[inst.src1 + e - 1]>> \in Addr \X Val
      BY <3>2, <3>3 DEF Types
    <3> QED BY <3>2, <3>4
  <2>3. asked' \in Seq(Seq(Addr \X Val)) /\ Len(asked') = batch'
    BY <2>1, <2>2 DEF Types
  <2>4. clean' \in BOOLEAN
    BY <2>1
  <2> QED BY <2>1, <2>3, <2>4, StallTypes DEF Types
<1>3. CASE IssueGru
  <2>1. /\ program # <<>> /\ Stall /\ UNCHANGED <<batch, loads, asked>>
        /\ foreign' = (foreign \/ waiting_gru) /\ clean' = (clean /\ ~ foreign')
        /\ gru_attached /\ waiting_gru' = TRUE
        /\ gru_operands' = <<ISA!Slice(regs, inst.src1), ISA!Slice(regs, inst.src2)>>
    BY <1>3 DEF IssueGru, Ready, Slice, gatherVars
  <2>2. gru_operands' \in Vector \X Vector
    BY <2>1, SliceType DEF Types
  <2>3. foreign' \in BOOLEAN /\ clean' \in BOOLEAN
    BY <2>1
  <2> QED BY <2>1, <2>2, <2>3, StallTypes DEF Types
<1>4. CASE Execute
  <2>1. /\ program # <<>> /\ program' = Tail(program)
        /\ UNCHANGED <<batch, is_stalled, pending_dest_reg, waiting_gru, gru_attached,
                       gru_operands, loads, asked, loaded, executing>>
    BY <1>4 DEF Execute, Compute, TimeEncode, PushArr, Skip, Ready, gatherVars
  <2>2. regs' \in [Reg -> Val]
    <3>1. CASE Compute
      <4>1. inst \in Good /\ inst.op \in ISA!Elementwise
        BY <2>1, <3>1, HeadGood DEF Compute, Ready
      <4>2. regs' = ISA!Written(regs, inst.dest, Result(inst))
        BY <3>1 DEF Compute, Written
      <4>3. \A k \in Lanes(inst) : inst.src1 + k \in Reg /\ ISA!Second(inst) + k \in Reg
        <5>1. CASE inst.op \in {"ADD_VEC", "MUL_VEC"}
          BY <4>1, <5>1, CoreAssumption
             DEF Lanes, Good, WellFormed, ISA!Second, Reg, ISA!Reg
        <5>2. CASE inst.op \notin {"ADD_VEC", "MUL_VEC"}
          BY <5>2 DEF Lanes, ISA!Lanes, Reg
        <5> QED BY <5>1, <5>2
      <4>4. \A k \in DOMAIN Result(inst) : Result(inst)[k] \in Val
        BY <4>1, <4>3, LanesIndependent DEF Closed, Types
      <4> QED BY <4>2, <4>4, WrittenType DEF Types
    <3>2. CASE TimeEncode
      <4>1. regs' = ISA!Written(regs, inst.dest, [i \in Lane |-> TimeCode(inst.addr, i)])
        BY <3>2 DEF TimeEncode, Written
      <4> QED BY <2>1, <4>1, HeadGood, WrittenType DEF Types, Closed
    <3> QED BY <1>4, <3>1, <3>2 DEF Execute, PushArr, Skip, Types
  <2>3. clean' \in BOOLEAN
    <3>1. clean' = (clean /\ inst.op \notin Deviating)
      BY <1>4 DEF Execute
    <3> QED BY <3>1
  <2>4. foreign' \in BOOLEAN
    BY <1>4 DEF Execute, Compute, TimeEncode, PushArr, Skip, Types
  <2> QED BY <2>1, <2>2, <2>3, <2>4, HeadGood DEF Types
<1>5. CASE PollGather
  <2>1. /\ Unstall([i \in 0 .. Taken - 1 |-> Value(db[i + 1])]) /\ is_stalled
        /\ UNCHANGED <<batch, waiting_gru, gru_attached, loads, foreign>>
    BY <1>5 DEF PollGather, Drain, Taken
  <2>2. \A i \in 0 .. Taken - 1 : Value(db[i + 1]) \in Val
    <3>1. \A i \in 0 .. Taken - 1 : i + 1 \in 1 .. Len(db)
      BY <2>1, TakenFits DEF GatherTypeOK
    <3>2. \A i \in 1 .. Len(db) : db[i] \in Element
      BY DEF GatherTypeOK
    <3> QED BY <3>1, <3>2, ValueType
  <2> QED BY <2>1, <2>2, UnstallTypes DEF Types
<1>6. CASE GruDone
  <2>1. PICK vector \in GruResults : Unstall(vector)
    BY <1>6 DEF GruDone
  <2>2. waiting_gru' = FALSE /\ gru_attached' = FALSE /\ UNCHANGED <<batch, loads, foreign>>
    BY <1>6 DEF GruDone, gatherVars
  <2>3. \A k \in DOMAIN vector : vector[k] \in Val
    <3>1. CASE vector = [i \in Lane |-> GruLane(gru_operands[1], gru_operands[2], i)]
      BY <3>1 DEF Closed, Types, Vector
    <3>2. CASE vector \in Garbled
      BY <3>2, CoreAssumption
    <3> QED BY <3>1, <3>2 DEF GruResults
  <2> QED BY <2>1, <2>2, <2>3, UnstallTypes DEF Types
<1>7. CASE MemoryReply
  <2>1. PICK a \in Addr : /\ loads[a] > 0 /\ loads' = [loads EXCEPT ![a] = @ - 1]
                          /\ on_memory_reply(a)
                          /\ UNCHANGED <<batch, waiting_gru, gru_attached, foreign>>
    BY <1>7 DEF MemoryReply, gatherVars
  <2>2. loads' \in [Addr -> Nat]
    BY <2>1 DEF Types
  <2>3. \A i \in Lane : Loaded(a, i) \in Val
    BY DEF Closed
  <2>4. CASE Unstall([i \in Lane |-> Loaded(a, i)])
    BY <2>1, <2>2, <2>3, <2>4, UnstallTypes DEF Types
  <2>5. CASE UNCHANGED <<program, regs, pushed, is_stalled, pending_dest_reg, gru_operands, asked,
                         loaded, executing, operands, clean>>
    BY <2>1, <2>2, <2>5 DEF Types
  <2> QED BY <2>1, <2>4, <2>5 DEF on_memory_reply
<1>8. CASE load_program
  <2>1. /\ program' \in Programs /\ is_stalled' = FALSE /\ pending_dest_reg' = -1
        /\ waiting_gru' = FALSE /\ loaded' = loaded + 1 /\ loaded < MaxPrograms
        /\ UNCHANGED <<regs, gru_attached, gru_operands, loads, asked, batch>>
        /\ clean' = (clean /\ ~ (is_stalled /\ executing.op \in {"LOAD", "GATHER"}))
        /\ foreign' = (foreign \/ waiting_gru)
    BY <1>8 DEF load_program, Abandon
  <2>2. program' \in Seq(Good)
    BY <2>1, ProgramsGood
  <2>3. loaded' \in 0 .. MaxPrograms
    BY <2>1, CoreAssumption DEF Types
  <2>4. clean' \in BOOLEAN /\ foreign' \in BOOLEAN
    BY <2>1
  <2> QED BY <2>1, <2>2, <2>3, <2>4 DEF Types
<1>9. CASE attach_sa_and_feeder_for_gru
  BY <1>9 DEF attach_sa_and_feeder_for_gru, Types, gatherVars
<1>10. CASE write_register
  <2>1. PICK w \in Writes : regs' = [regs EXCEPT ![w[1]] = w[2]]
    BY <1>10 DEF write_register
  <2>2. regs' \in [Reg -> Val]
    BY <2>1, CoreAssumption DEF Types
  <2> QED BY <1>10, <2>2 DEF write_register, Types, gatherVars
<1>11. CASE VertexGathers
  <2>1. /\ batch' = batch + 1 /\ asked' = Append(asked, <<>>)
        /\ clean' = (clean /\ "core" \notin waiting)
        /\ UNCHANGED <<program, regs, is_stalled, pending_dest_reg, waiting_gru, gru_attached,
                       gru_operands, loads, loaded, executing, foreign>>
    BY <1>11 DEF VertexGathers, StartVertexGather, StartBatch
  <2>2. asked' \in Seq(Seq(Addr \X Val)) /\ Len(asked') = batch'
    BY <2>1 DEF Types
  <2>3. clean' \in BOOLEAN
    BY <2>1
  <2> QED BY <2>1, <2>2, <2>3 DEF Types
<1>12. CASE ControllerStep
  <2>1. batch' = batch
    BY <1>12 DEF ControllerStep, TickIssue, Send, ReadComplete, VertexTakes, Drain
  <2>2. CASE VertexPushes
    BY <2>1, <2>2, VertexPushesTypes
  <2> QED BY <1>12, <2>1, <2>2 DEF ControllerStep, coreVars, Types
<1>13. CASE VertexCellLoads
  BY <1>13, VertexPushesTypes DEF VertexCellLoads, gatherVars
<1>14. CASE FeederEmpties
  BY <1>14 DEF FeederEmpties, gatherVars, Types
<1>15. CASE UNCHANGED vars
  BY <1>15 DEF vars, gatherVars, coreVars, Types
<1> QED BY <1>1, <1>2, <1>3, <1>4, <1>5, <1>6, <1>7, <1>8, <1>9, <1>10, <1>11, <1>12, <1>13,
           <1>14, <1>15
        DEF Next, Tick

(* The core's state stays well typed, whatever is loaded, replaced or      *)
(* answered late.                                                          *)
THEOREM CoreTypeCorrect ==
  ASSUME Closed
  PROVE  Spec => []TypeOK
<1>1. Init => GatherTypeOK /\ Types
  BY TypeInit, TypesInit DEF Init
<1>2. GatherTypeOK /\ Types /\ [Next]_vars => GatherTypeOK' /\ Types'
  BY TypesStep, StepsGather, TypeStep
<1> QED BY <1>1, <1>2, TypesImply, PTL DEF Spec

-----------------------------------------------------------------------------
(* The core implements the instruction set.  While it keeps its promise,   *)
(* whatever another unit will answer belongs to the instruction that       *)
(* stalled the core.                                                       *)

Promise ==
  /\ is_stalled => executing.op \in ISA!Delegated
  /\ loads = [a \in Addr |-> IF is_stalled /\ executing.op = "LOAD" /\ executing.addr = a
                             THEN 1 ELSE 0]
  /\ waiting_gru <=> is_stalled /\ executing.op = "GRU_UPDATE"
  /\ waiting_gru =>
       /\ ~ foreign
       /\ gru_operands = <<ISA!Slice(operands, executing.src1),
                           ISA!Slice(operands, executing.src2)>>
  /\ "core" \in waiting <=> is_stalled /\ executing.op = "GATHER"
  /\ "core" \in waiting =>
       /\ intact /\ num_elems = executing.elems
       /\ asked[batch] = [e \in 1 .. executing.elems |->
                            <<executing.addr, operands[executing.src1 + e - 1]>>]

LEMMA PromiseInit == Init => Promise
BY DEF Init, GatherInit, Promise

(* A promise that was broken stays broken.                                 *)
LEMMA CleanFalls == Types /\ [Next]_vars /\ clean' => clean
BY DEF Types, Next, Tick, vars, coreVars, IssueLoad, IssueGather, IssueGru, Execute, PollGather,
       GruDone, MemoryReply, on_memory_reply, Unstall, load_program, ControllerStep, VertexPushes,
       attach_sa_and_feeder_for_gru, write_register, VertexGathers, VertexCellLoads, FeederEmpties

LEMMA PromiseStep ==
  ASSUME GatherTypeOK, Types, clean => Promise, [Next]_vars, clean'
  PROVE  Promise'
<1>0. clean /\ Promise
  BY CleanFalls
<1>1. CASE IssueLoad
  <2>1. /\ ~ is_stalled /\ is_stalled' = TRUE /\ executing' = inst /\ inst.op = "LOAD"
        /\ inst.addr \in Addr
        /\ loads' = [loads EXCEPT ![inst.addr] = @ + 1]
        /\ waiting_gru' = waiting_gru /\ waiting' = waiting
    BY <1>1, HeadGood DEF IssueLoad, Ready, Stall, gatherVars
  <2>2. loads = [a \in Addr |-> 0] /\ ~ waiting_gru /\ "core" \notin waiting
    BY <1>0, <2>1 DEF Promise
  <2>3. loads' = [a \in Addr |-> IF is_stalled' /\ executing'.op = "LOAD" /\ executing'.addr = a
                                 THEN 1 ELSE 0]
    BY <2>1, <2>2
  <2> QED BY <2>1, <2>2, <2>3 DEF Promise, ISA!Delegated
<1>2. CASE IssueGather
  <2>1. /\ ~ is_stalled /\ is_stalled' = TRUE /\ executing' = inst /\ inst.op = "GATHER"
        /\ operands' = regs /\ intact' /\ waiting' = waiting \union {"core"}
        /\ num_elems' = inst.elems /\ batch' = batch + 1
        /\ asked' = Append(asked, [e \in 1 .. inst.elems |->
                                     <<inst.addr, regs[inst.src1 + e - 1]>>])
        /\ loads' = loads /\ waiting_gru' = waiting_gru
    BY <1>2 DEF IssueGather, Ready, Stall, StartBatch, reset_for_new_batch
  <2>2. loads = [a \in Addr |-> 0] /\ ~ waiting_gru
    BY <1>0, <2>1 DEF Promise
  <2>3. asked'[batch'] = [e \in 1 .. inst.elems |-> <<inst.addr, regs[inst.src1 + e - 1]>>]
    <3>1. asked \in Seq(Seq(Addr \X Val)) /\ batch' = Len(asked) + 1
      BY <2>1 DEF Types
    <3> QED BY <2>1, <3>1
  <2> QED BY <2>1, <2>2, <2>3 DEF Promise, ISA!Delegated
<1>3. CASE IssueGru
  <2>1. /\ ~ is_stalled /\ is_stalled' = TRUE /\ executing' = inst /\ inst.op = "GRU_UPDATE"
        /\ operands' = regs /\ waiting_gru' = TRUE
        /\ gru_operands' = <<ISA!Slice(regs, inst.src1), ISA!Slice(regs, inst.src2)>>
        /\ loads' = loads /\ waiting' = waiting /\ ~ foreign'
    BY <1>3 DEF IssueGru, Ready, Stall, Slice, gatherVars
  <2>2. loads = [a \in Addr |-> 0] /\ "core" \notin waiting
    BY <1>0, <2>1 DEF Promise
  <2> QED BY <2>1, <2>2 DEF Promise, ISA!Delegated
<1>4. CASE Execute
  <2>1. /\ ~ is_stalled
        /\ UNCHANGED <<is_stalled, executing, waiting_gru, gru_operands, loads, waiting>>
    BY <1>4 DEF Execute, Compute, TimeEncode, PushArr, Skip, Ready, gatherVars
  <2>2. loads' = [a \in Addr |-> 0] /\ ~ waiting_gru' /\ "core" \notin waiting'
    BY <1>0, <2>1 DEF Promise
  <2> QED BY <2>1, <2>2 DEF Promise
<1>5. CASE PollGather
  <2>1. /\ "core" \in waiting /\ waiting' = waiting \ {"core"} /\ is_stalled' = FALSE
        /\ loads' = loads /\ waiting_gru' = waiting_gru
    BY <1>5 DEF PollGather, Drain, Unstall
  <2>2. executing.op = "GATHER"
    BY <1>0, <2>1 DEF Promise
  <2>3. loads = [a \in Addr |-> 0] /\ ~ waiting_gru
    BY <1>0, <2>2 DEF Promise
  <2> QED BY <2>1, <2>3 DEF Promise
<1>6. CASE GruDone
  <2>1. /\ waiting_gru /\ waiting_gru' = FALSE /\ is_stalled' = FALSE
        /\ loads' = loads /\ waiting' = waiting /\ "core" \notin waiting
    BY <1>6 DEF GruDone, Unstall, gatherVars
  <2>2. executing.op = "GRU_UPDATE"
    BY <1>0, <2>1 DEF Promise
  <2>3. loads = [a \in Addr |-> 0]
    BY <1>0, <2>2 DEF Promise
  <2> QED BY <2>1, <2>3 DEF Promise
<1>7. CASE MemoryReply
  <2>1. PICK a \in Addr : /\ loads[a] > 0 /\ loads' = [loads EXCEPT ![a] = @ - 1]
                          /\ on_memory_reply(a)
                          /\ waiting_gru' = waiting_gru /\ waiting' = waiting
    BY <1>7 DEF MemoryReply, gatherVars
  <2>2. is_stalled /\ executing.op = "LOAD" /\ executing.addr = a
    BY <1>0, <2>1 DEF Promise
  <2>3. loads' = [b \in Addr |-> 0] /\ ~ waiting_gru /\ "core" \notin waiting
    BY <1>0, <2>1, <2>2 DEF Promise
  <2>4. is_stalled' = FALSE
    <3>1. pending_dest_reg \in Reg /\ -1 \notin Reg
      BY <2>2, CoreAssumption DEF Types, Good, WellFormed, Reg, ISA!Reg
    <3> QED BY <2>1, <2>2, <3>1 DEF on_memory_reply, Unstall
  <2> QED BY <2>1, <2>3, <2>4 DEF Promise
<1>8. CASE load_program
  <2>1. /\ is_stalled' = FALSE /\ waiting_gru' = FALSE /\ waiting' = waiting \ {"core"}
        /\ loads' = loads /\ ~ (is_stalled /\ executing.op \in {"LOAD", "GATHER"})
    BY <1>8 DEF load_program, Abandon
  <2>2. loads = [a \in Addr |-> 0]
    BY <1>0, <2>1 DEF Promise
  <2> QED BY <2>1, <2>2 DEF Promise
<1>9. CASE attach_sa_and_feeder_for_gru
  BY <1>0, <1>9 DEF attach_sa_and_feeder_for_gru, Promise, gatherVars, piccoloVars
<1>10. CASE write_register
  BY <1>0, <1>10 DEF write_register, Promise, gatherVars, piccoloVars
<1>11. CASE VertexGathers
  <2>1. /\ "core" \notin waiting /\ waiting' = waiting \union {"vertex"}
        /\ UNCHANGED <<is_stalled, executing, operands, waiting_gru, gru_operands, loads, foreign>>
    BY <1>11 DEF VertexGathers, StartVertexGather, StartBatch
  <2> QED BY <1>0, <2>1 DEF Promise
<1>12. CASE ControllerStep
  <2>1. ("core" \in waiting' <=> "core" \in waiting) /\ UNCHANGED <<intact, num_elems, batch>>
    BY <1>12 DEF ControllerStep, TickIssue, Send, ReadComplete, VertexTakes, Drain, tick_issue,
                 on_read_complete
  <2>2. UNCHANGED <<is_stalled, executing, operands, waiting_gru, gru_operands, loads, asked>>
    BY <1>12 DEF ControllerStep, VertexPushes, coreVars
  <2>3. foreign' = foreign \/ ~ waiting_gru
    BY <1>12 DEF ControllerStep, VertexPushes, coreVars
  <2> QED BY <1>0, <2>1, <2>2, <2>3 DEF Promise
<1>13. CASE VertexCellLoads \/ FeederEmpties
  <2>1. UNCHANGED <<is_stalled, executing, operands, waiting_gru, gru_operands, loads, asked,
                    waiting, intact, num_elems, batch>>
    BY <1>13 DEF VertexCellLoads, VertexPushes, FeederEmpties, gatherVars, piccoloVars
  <2>2. ~ waiting_gru
    BY <1>13 DEF VertexCellLoads, VertexPushes, FeederEmpties
  <2> QED BY <1>0, <2>1, <2>2 DEF Promise
<1>14. CASE UNCHANGED vars
  BY <1>0, <1>14 DEF vars, coreVars, gatherVars, piccoloVars, Promise
<1> QED BY <1>1, <1>2, <1>3, <1>4, <1>5, <1>6, <1>7, <1>8, <1>9, <1>10, <1>11, <1>12, <1>13,
           <1>14
        DEF Next, Tick

Inv ==
  /\ GatherTypeOK /\ Types
  /\ intact => GatherInv
  /\ clean => Promise

LEMMA InvHolds ==
  ASSUME Closed, ObCap <= DbCap
  PROVE  Spec => []Inv
<1>1. Init => Inv
  BY TypeInit, TypesInit, GatherFirst, PromiseInit DEF Init, Inv
<1>2. Inv /\ [Next]_vars => Inv'
  BY TypesStep, StepsGather, TypeStep, GatherStep, PromiseStep, CleanFalls DEF Inv
<1> QED BY <1>1, <1>2, PTL DEF Spec

(* What the core still has to do, as the instruction set sees it.          *)
ToDo == IF is_stalled THEN <<executing>> \o program ELSE program

LEMMA ToDoHead ==
  ASSUME Types, is_stalled
  PROVE  ToDo # <<>> /\ Head(ToDo) = executing /\ Tail(ToDo) = program
<1>1. program \in Seq(Good) /\ executing \in Good
  BY DEF Types
<1> HIDE DEF Good
<1> QED BY <1>1 DEF ToDo

(* A stall begins with the instruction at the head of the program.         *)
LEMMA StallBegins ==
  ASSUME Types, Ready(ISA!Delegated), Stall, clean' = clean
  PROVE  ISA!Begin
<1>1. /\ ~ is_stalled /\ program # <<>> /\ inst.op \in ISA!Delegated
      /\ is_stalled' /\ executing' = inst /\ program' = Tail(program) /\ operands' = regs
      /\ UNCHANGED <<regs, pushed, clean>>
  BY DEF Ready, Stall
<1>2. ToDo = program
  BY <1>1 DEF ToDo
<1>3. ToDo' = program
  BY <1>1, HeadGood DEF ToDo
<1> QED BY <1>1, <1>2, <1>3 DEF ISA!Begin, ISA!inst, inst, ToDo

(* The end of a stall puts a vector into the destination.                  *)
LEMMA UnstallEnds ==
  ASSUME Types, is_stalled, NEW vector, Unstall(vector),
         NEW delivered \in ISA!Delivered,
         ISA!Written(regs, executing.dest, vector) = ISA!Written(regs, executing.dest, delivered)
  PROVE  ISA!End
<1>1. /\ regs' = ISA!Written(regs, executing.dest, vector)
      /\ is_stalled' = FALSE /\ UNCHANGED <<program, pushed, clean>>
  BY DEF Unstall, Written, Types
<1>2. ToDo' = Tail(ToDo) /\ Head(ToDo) = executing
  BY <1>1, ToDoHead DEF ToDo
<1> QED BY <1>1, <1>2 DEF ISA!End, ISA!inst, ToDo

(* The values of a finished gather are those that its offsets name.        *)
LEMMA GatherDelivers ==
  ASSUME GatherTypeOK, Types, GatherInv, Promise, PollGather
  PROVE  ISA!End
<1> DEFINE E == executing.elems
<1> DEFINE D == executing.dest
<1> DEFINE order == [i \in 0 .. E - 1 |-> db[i + 1][2] - 1]
<1> DEFINE delivered == [i \in 0 .. E - 1 |->
                           Fetched(executing.addr, operands[executing.src1 + order[i]])]
<1> DEFINE vector == [i \in 0 .. Taken - 1 |-> Value(db[i + 1])]
<1>1. /\ "core" \in waiting /\ done /\ is_stalled /\ Unstall(vector)
      /\ executing.op = "GATHER" /\ num_elems = E
      /\ asked[batch] = [e \in 1 .. E |->
                           <<executing.addr, operands[executing.src1 + e - 1]>>]
  BY DEF PollGather, Drain, Promise, Taken
<1>2. Gathered
  BY <1>1, DoneGathered
<1>3. /\ E \in Nat /\ Len(db) = E
      /\ D \in Int /\ executing.src1 \in Int /\ pending_dest_reg = D
      /\ NumRegs \in Nat /\ Reg = 0 .. NumRegs - 1
  BY <1>1, <1>2, CoreAssumption DEF Gathered, Types, Good, WellFormed, Reg, ISA!Reg
<1>4. ASSUME NEW i \in 0 .. E - 1
      PROVE  \E e \in 1 .. E : db[i + 1] = <<batch, e>> /\ order[i] = e - 1
  <2>1. i + 1 \in 1 .. Len(db)
    BY <1>3
  <2>2. PICK e \in 1 .. E : db[i + 1] = <<batch, e>>
    BY <1>1, <1>2, <2>1 DEF Gathered
  <2> QED BY <1>3, <2>2
<1>5. order \in ISA!Orders(E)
  <2>1. order \in [0 .. E - 1 -> 0 .. E - 1]
    <3>1. ASSUME NEW i \in 0 .. E - 1
          PROVE  db[i + 1][2] - 1 \in 0 .. E - 1
      <4>1. PICK e \in 1 .. E : order[i] = e - 1
        BY <1>4
      <4> HIDE DEF E
      <4> QED BY <1>3, <4>1
    <3> HIDE DEF E
    <3> QED BY <3>1
  <2>2. ASSUME NEW e \in 0 .. E - 1
        PROVE  \E i \in 0 .. E - 1 : order[i] = e
    <3>1. e + 1 \in 1 .. num_elems
      BY <1>1, <1>3
    <3>2. PICK i \in 1 .. Len(db) : db[i] = <<batch, e + 1>>
      BY <1>2, <3>1 DEF Gathered
    <3>3. i - 1 \in 0 .. E - 1 /\ order[i - 1] = e
      BY <1>3, <3>2
    <3> QED BY <3>3
  <2> QED BY <2>1, <2>2 DEF ISA!Orders
<1>6. ASSUME NEW i \in 0 .. E - 1
      PROVE  Value(db[i + 1]) = delivered[i]
  <2>1. PICK e \in 1 .. E : db[i + 1] = <<batch, e>> /\ order[i] = e - 1
    BY <1>4
  <2>2. executing.src1 + e - 1 = executing.src1 + order[i]
    BY <1>3, <2>1
  <2>3. asked[batch][e] = <<executing.addr, operands[executing.src1 + e - 1]>>
        /\ e \in DOMAIN asked[batch]
    BY <1>1
  <2>4. Value(<<batch, e>>) = Fetched(executing.addr, operands[executing.src1 + e - 1])
    BY <2>3 DEF Value
  <2>5. delivered[i] = Fetched(executing.addr, operands[executing.src1 + order[i]])
    OBVIOUS
  <2> HIDE DEF order, delivered
  <2> QED BY <2>1, <2>2, <2>4, <2>5
<1>7. ISA!Written(regs, D, vector) = ISA!Written(regs, D, delivered)
  <2>1. ASSUME NEW r \in Reg
        PROVE  /\ r - D \in 0 .. Taken - 1 <=> r - D \in 0 .. E - 1
               /\ r - D \in 0 .. E - 1 => vector[r - D] = delivered[r - D]
    <3>1. r - D \in 0 .. Taken - 1 <=> r - D \in 0 .. E - 1
      BY <1>1, <1>3 DEF Taken, Lesser
    <3> HIDE DEF delivered
    <3> QED BY <1>6, <3>1
  <2> HIDE DEF E, D
  <2> QED BY <2>1 DEF ISA!Written, Reg
<1>8. delivered \in ISA!Delivered
  <2>1. ISA!inst = executing
    BY <1>1, ToDoHead DEF ISA!inst, ToDo
  <2> HIDE DEF order
  <2> QED BY <1>1, <1>5, <2>1 DEF ISA!Delivered
<1> HIDE DEF delivered, vector
<1> QED BY <1>1, <1>7, <1>8, UnstallEnds

(* Instructions of the core itself.                                        *)
LEMMA ExecuteRefines ==
  ASSUME Types, Execute, clean, inst.op \notin Deviating
  PROVE  ISA!Execute
<1>1. /\ ~ is_stalled /\ program # <<>> /\ program' = Tail(program)
      /\ UNCHANGED <<is_stalled, operands>> /\ clean' = clean
  BY DEF Execute, Compute, TimeEncode, PushArr, Skip, Ready
<1>2. ToDo = program /\ ToDo' = Tail(program) /\ ISA!inst = inst
  BY <1>1 DEF ToDo, ISA!inst, inst
<1>3. inst \in Good
  BY <1>1, HeadGood
<1>4. /\ inst.op \notin ISA!Delegated
      /\ regs' = IF inst.op \in ISA!Elementwise
                   THEN ISA!Written(regs, inst.dest, ISA!Result(inst))
                 ELSE IF inst.op = "TIME_ENCODE"
                   THEN ISA!Written(regs, inst.dest, [i \in Lane |-> TimeCode(inst.addr, i)])
                 ELSE regs
      /\ pushed' = IF inst.op = "PUSH_ARR" THEN ISA!Slice(regs, inst.src1) ELSE pushed
  <2>1. CASE Compute
    <3>1. inst.op \in ISA!Elementwise /\ pushed' = pushed
      BY <2>1 DEF Compute, Ready
    <3>2. regs' = ISA!Written(regs, inst.dest, ISA!Result(inst))
      BY <1>3, <2>1, <3>1, LanesKept DEF Compute, Written
    <3> QED BY <3>1, <3>2 DEF ISA!Elementwise, ISA!Delegated
  <2>2. CASE TimeEncode
    BY <2>2 DEF TimeEncode, Ready, Written, ISA!Elementwise, ISA!Delegated
  <2>3. CASE PushArr
    BY <2>3 DEF PushArr, Ready, Slice, ISA!Elementwise, ISA!Delegated
  <2>4. CASE Skip
    BY <2>4 DEF Skip, Ready, ISA!Elementwise, ISA!Delegated
  <2> QED BY <2>1, <2>2, <2>3, <2>4 DEF Execute
<1>5. inst.op # "STORE"
  BY DEF Deviating
<1> QED BY <1>1, <1>2, <1>4, <1>5 DEF ISA!Execute, ToDo, Lane

(* An instruction that does not do what its comment says.                  *)
LEMMA ExecuteDeparts ==
  ASSUME Types, Execute, inst.op \in Deviating
  PROVE  ISA!Departs
<1>1. ~ is_stalled /\ program # <<>> /\ ~ clean'
  BY DEF Execute, Compute, TimeEncode, PushArr, Skip, Ready
<1>2. ToDo = program /\ ISA!inst = inst
  BY <1>1 DEF ToDo, ISA!inst, inst
<1> QED BY <1>1, <1>2 DEF ISA!Departs, ToDo

(* The cell's result is computed from the operands it was given.           *)
LEMMA GruRefines ==
  ASSUME Types, Promise, GruDone
  PROVE  ISA!End
<1> DEFINE vector == [i \in Lane |-> GruLane(gru_operands[1], gru_operands[2], i)]
<1>1. is_stalled /\ waiting_gru /\ Unstall(vector)
  <2>1. is_stalled /\ waiting_gru /\ ~ foreign
    BY DEF GruDone, Promise
  <2>2. GruResults = {vector}
    BY <2>1 DEF GruResults
  <2> QED BY <2>1, <2>2 DEF GruDone
<1>2. /\ executing.op = "GRU_UPDATE"
      /\ gru_operands = <<ISA!Slice(operands, executing.src1), ISA!Slice(operands, executing.src2)>>
  BY <1>1 DEF Promise
<1>3. vector \in ISA!Delivered
  <2>1. ISA!inst = executing
    BY <1>1, ToDoHead DEF ISA!inst, ToDo
  <2> QED BY <1>2, <2>1 DEF ISA!Delivered, Lane
<1> HIDE DEF vector
<1> QED BY <1>1, <1>3, UnstallEnds

(* A reply is the burst that the core has asked for.                       *)
LEMMA ReplyRefines ==
  ASSUME Types, Promise, MemoryReply
  PROVE  ISA!End
<1>1. PICK a \in Addr : loads[a] > 0 /\ on_memory_reply(a)
  BY DEF MemoryReply
<1> DEFINE vector == [i \in Lane |-> Loaded(a, i)]
<1>2. is_stalled /\ executing.op = "LOAD" /\ executing.addr = a
  BY <1>1 DEF Promise
<1>3. Unstall(vector)
  <2>1. pending_dest_reg \in Reg /\ -1 \notin Reg
    BY <1>2, CoreAssumption DEF Types, Good, WellFormed, Reg, ISA!Reg
  <2> QED BY <1>1, <1>2, <2>1 DEF on_memory_reply
<1>4. vector \in ISA!Delivered
  <2>1. ISA!inst = executing
    BY <1>2, ToDoHead DEF ISA!inst, ToDo
  <2> QED BY <1>2, <2>1 DEF ISA!Delivered, Lane
<1> HIDE DEF vector
<1> QED BY <1>2, <1>3, <1>4, UnstallEnds

(* The core and others get into each other's way.                          *)
LEMMA Disturbs ==
  ASSUME Types, Promise, clean, ~ clean',
         IssueGather \/ IssueGru \/ VertexGathers \/ VertexPushes
  PROVE  ISA!Disturbed
<1>1. CASE IssueGather \/ IssueGru
  <2>1. /\ ~ is_stalled /\ program # <<>> /\ inst.op \in {"GATHER", "GRU_UPDATE"}
        /\ is_stalled' /\ executing' = inst /\ program' = Tail(program)
        /\ UNCHANGED <<regs, pushed>>
    BY <1>1 DEF IssueGather, IssueGru, Ready, Stall
  <2>2. ToDo = program /\ ToDo' = program
    BY <2>1, HeadGood DEF ToDo
  <2> QED BY <2>1, <2>2 DEF ISA!Disturbed, ISA!inst, inst, ToDo
<1>2. CASE VertexGathers \/ VertexPushes
  <2>1. /\ UNCHANGED <<is_stalled, executing, program, regs, pushed>>
        /\ "core" \in waiting \/ waiting_gru
    BY <1>2 DEF VertexGathers, VertexPushes
  <2>2. is_stalled /\ executing.op \in {"GATHER", "GRU_UPDATE"}
    BY <2>1 DEF Promise
  <2>3. ToDo' = ToDo /\ ToDo # <<>> /\ Head(ToDo) = executing
    BY <2>1, <2>2, ToDoHead DEF ToDo
  <2> QED BY <2>1, <2>2, <2>3 DEF ISA!Disturbed, ISA!inst, ToDo
<1> QED BY <1>1, <1>2

LEMMA LoadRefines ==
  ASSUME Types, clean, load_program
  PROVE  ISA!Load
<1>1. /\ program' \in Programs /\ is_stalled' = FALSE /\ UNCHANGED <<regs, pushed>>
      /\ clean' = ~ (is_stalled /\ executing.op \in {"LOAD", "GATHER"})
  BY DEF load_program
<1>2. ToDo' = program'
  BY <1>1 DEF ToDo
<1>3. is_stalled => Head(ToDo) = executing
  BY ToDoHead
<1> QED BY <1>1, <1>2, <1>3 DEF ISA!Load, ISA!inst, ToDo

LEMMA RefinesStep ==
  ASSUME Inv, [Next]_vars
  PROVE  [ISA!Next]_(ISA!vars)
<1>1. CASE ~ clean
  <2>1. ~ clean'
    BY <1>1, CleanFalls DEF Inv
  <2> QED BY <1>1, <2>1 DEF ISA!Next
<1>2. CASE clean
  <2> USE <1>2
  <2>0. GatherTypeOK /\ Types /\ Promise
    BY DEF Inv
  <2>1. CASE IssueLoad
    BY <2>0, <2>1, StallBegins DEF IssueLoad, Ready, ISA!Delegated, ISA!Next
  <2>2. CASE IssueGather
    <3>1. CASE clean'
      BY <2>0, <2>2, <3>1, StallBegins DEF IssueGather, Ready, ISA!Delegated, ISA!Next
    <3>2. CASE ~ clean'
      BY <2>0, <2>2, <3>2, Disturbs DEF ISA!Next
    <3> QED BY <3>1, <3>2
  <2>3. CASE IssueGru
    <3>1. CASE clean'
      BY <2>0, <2>3, <3>1, StallBegins DEF IssueGru, Ready, ISA!Delegated, ISA!Next
    <3>2. CASE ~ clean'
      BY <2>0, <2>3, <3>2, Disturbs DEF ISA!Next
    <3> QED BY <3>1, <3>2
  <2>4. CASE Execute
    BY <2>0, <2>4, ExecuteRefines, ExecuteDeparts DEF ISA!Next
  <2>5. CASE PollGather
    <3>1. "core" \in waiting
      BY <2>5 DEF PollGather, Drain
    <3>2. GatherInv
      BY <2>0, <3>1 DEF Inv, Promise
    <3> QED BY <2>0, <2>5, <3>2, GatherDelivers DEF ISA!Next
  <2>6. CASE GruDone
    BY <2>0, <2>6, GruRefines DEF ISA!Next
  <2>7. CASE MemoryReply
    BY <2>0, <2>7, ReplyRefines DEF ISA!Next
  <2>8. CASE load_program
    BY <2>0, <2>8, LoadRefines DEF ISA!Next
  <2>9. CASE attach_sa_and_feeder_for_gru
    BY <2>9 DEF attach_sa_and_feeder_for_gru, ISA!vars
  <2>10. CASE write_register
    <3>1. PICK w \in Writes : regs' = [regs EXCEPT ![w[1]] = w[2]]
      BY <2>10 DEF write_register
    <3>2. w[1] \in ISA!Reg /\ w[2] \in Val
      BY CoreAssumption DEF Reg
    <3> QED BY <2>10, <3>1, <3>2 DEF write_register, ISA!WriteRegister, ISA!Next
  <2>11. CASE VertexGathers
    <3>1. CASE clean'
      BY <2>11, <3>1 DEF VertexGathers, ISA!vars
    <3>2. CASE ~ clean'
      BY <2>0, <2>11, <3>2, Disturbs DEF ISA!Next
    <3> QED BY <3>1, <3>2
  <2>12. CASE VertexPushes
    <3>1. CASE clean'
      BY <2>12, <3>1 DEF VertexPushes, ISA!vars
    <3>2. CASE ~ clean'
      BY <2>0, <2>12, <3>2, Disturbs DEF ISA!Next
    <3> QED BY <3>1, <3>2
  <2>13. CASE UNCHANGED coreVars
    BY <2>13 DEF coreVars, ISA!vars
  <2>14. CASE FeederEmpties
    BY <2>14 DEF FeederEmpties, ISA!vars
  <2>15. ControllerStep \/ VertexCellLoads \/ UNCHANGED vars => VertexPushes \/ UNCHANGED coreVars
    BY DEF ControllerStep, VertexCellLoads, vars
  <2> QED BY <2>1, <2>2, <2>3, <2>4, <2>5, <2>6, <2>7, <2>8, <2>9, <2>10, <2>11, <2>12, <2>13,
             <2>14, <2>15
          DEF Next, Tick
<1> QED BY <1>1, <1>2

(* With a data buffer at least as large as the offset buffer, the core     *)
(* implements the instruction set until a caller replaces a program while  *)
(* a LOAD or GATHER of it is under way, somebody else takes the gather     *)
(* controller or the feeder from under an instruction, a GRU_UPDATE begins *)
(* on a feeder that holds something of others, or one of the three         *)
(* instructions is executed that do not do what their comments say.        *)
THEOREM CoreFollowsISA ==
  ASSUME Closed, ObCap <= DbCap
  PROVE  Spec => FollowsISA
<1>1. Init => ISA!Init
  BY DEF Init, ISA!Init, Reg, ISA!Reg
<1>2. Inv /\ [Next]_vars => [ISA!Next]_(ISA!vars)
  BY RefinesStep
<1> QED BY <1>1, <1>2, InvHolds, PTL DEF Spec, FollowsISA, ISA!Spec

(* The controller keeps its guarantees with the core and the vertex        *)
(* program as its users.                                                   *)
THEOREM CoreCountersExact ==
  ASSUME Closed, ObCap <= DbCap
  PROVE  Spec => []CountersExact
BY InvHolds, CountersFollow, PTL DEF Inv

THEOREM CoreGatheredAll ==
  ASSUME Closed, ObCap <= DbCap
  PROVE  Spec => []GatheredAll
BY InvHolds, GatheredFollows, PTL DEF Inv

-----------------------------------------------------------------------------
(* Why every program comes to its end, programs that were replaced or not: *)
(* whatever may have ended the stalls before, the answer to the            *)
(* instruction that stalls the core now is still to come.                  *)

Answerable ==
  is_stalled =>
    \/ executing.op = "LOAD" /\ executing.addr \in Addr /\ loads[executing.addr] > 0
    \/ executing.op = "GATHER" /\ "core" \in waiting
    \/ executing.op = "GRU_UPDATE" /\ waiting_gru

(* An answer is used up only by the end of the stall.                      *)
LEMMA AnswerableStep == GatherTypeOK /\ Types /\ Answerable /\ [Next]_vars => Answerable'
<1> SUFFICES ASSUME GatherTypeOK, Types, Answerable, [Next]_vars
             PROVE  Answerable'
  OBVIOUS
<1>1. CASE IssueLoad
  <2>1. /\ executing' = inst /\ inst.op = "LOAD" /\ inst.addr \in Addr
        /\ loads' = [loads EXCEPT ![inst.addr] = @ + 1] /\ loads \in [Addr -> Nat]
    BY <1>1, HeadGood DEF IssueLoad, Stall, Ready, Good, WellFormed, Types
  <2>2. loads'[inst.addr] > 0
    BY <2>1
  <2> QED BY <2>1, <2>2 DEF Answerable
<1>2. CASE IssueGather
  BY <1>2 DEF IssueGather, Stall, Ready, StartBatch, Answerable
<1>3. CASE IssueGru
  BY <1>3 DEF IssueGru, Stall, Ready, Answerable
<1>4. CASE Execute
  <2>1. ~ is_stalled /\ is_stalled' = is_stalled
    BY <1>4 DEF Execute, Compute, TimeEncode, PushArr, Skip, Ready
  <2> QED BY <2>1 DEF Answerable
<1>5. CASE PollGather \/ GruDone \/ load_program
  <2>1. is_stalled' = FALSE
    BY <1>5 DEF PollGather, GruDone, load_program, Unstall
  <2> QED BY <2>1 DEF Answerable
<1>6. CASE MemoryReply
  <2>1. CASE is_stalled /\ pending_dest_reg # -1
    <3>1. is_stalled' = FALSE
      BY <1>6, <2>1 DEF MemoryReply, on_memory_reply, Unstall
    <3> QED BY <3>1 DEF Answerable
  <2>2. CASE ~ (is_stalled /\ pending_dest_reg # -1)
    <3>1. ~ is_stalled
      BY <2>2 DEF Types, Good, WellFormed, Reg, ISA!Reg
    <3>2. is_stalled' = is_stalled
      BY <1>6, <2>2 DEF MemoryReply, on_memory_reply
    <3> QED BY <3>1, <3>2 DEF Answerable
  <2> QED BY <2>1, <2>2
<1>7. CASE attach_sa_and_feeder_for_gru \/ write_register
  <2>1. UNCHANGED <<is_stalled, executing, loads, waiting_gru, waiting>>
    BY <1>7 DEF attach_sa_and_feeder_for_gru, write_register, gatherVars
  <2> QED BY <2>1 DEF Answerable
<1>8. CASE VertexGathers
  <2>1. UNCHANGED <<is_stalled, executing, loads, waiting_gru>>
    BY <1>8 DEF VertexGathers
  <2>2. "core" \in waiting => "core" \in waiting'
    BY <1>8 DEF VertexGathers, StartVertexGather, StartBatch
  <2> QED BY <2>1, <2>2 DEF Answerable
<1>9. CASE ControllerStep
  <2>1. UNCHANGED <<is_stalled, executing, loads, waiting_gru>>
    BY <1>9 DEF ControllerStep, VertexPushes, coreVars
  <2>2. "core" \in waiting => "core" \in waiting'
    BY <1>9 DEF ControllerStep, TickIssue, Send, ReadComplete, VertexTakes, Drain
  <2> QED BY <2>1, <2>2 DEF Answerable
<1>10. CASE VertexCellLoads \/ FeederEmpties \/ UNCHANGED vars
  <2>1. UNCHANGED <<is_stalled, executing, loads, waiting_gru, waiting>>
    BY <1>10 DEF VertexCellLoads, VertexPushes, FeederEmpties, vars, coreVars, gatherVars
  <2> QED BY <2>1 DEF Answerable
<1> QED BY <1>1, <1>2, <1>3, <1>4, <1>5, <1>6, <1>7, <1>8, <1>9, <1>10 DEF Next, Tick

(* A core that is stalled waits for a reply on its way, for a cell with an *)
(* array to work on, or for a batch that is done, lacks offsets or can go  *)
(* on.                                                                     *)
NeverDeserted ==
  is_stalled =>
    \/ \E a \in Addr : loads[a] > 0
    \/ "core" \notin waiting /\ waiting_gru /\ gru_attached
    \/ "core" \in waiting
         /\ (done \/ Starved \/ CanIssue \/ port # <<>> \/ memory # {})

(* No core is ever left stalled with nobody to answer it, although a reply *)
(* that is late for its own program may end the stall of the next one, and *)
(* the vertex program may take the gather controller: every answer taken   *)
(* from an instruction has ended its stall.                                *)
THEOREM CoreNeverDeserted ==
  ASSUME Closed, ObCap <= DbCap
  PROVE  Spec => []NeverDeserted
<1> DEFINE I == GatherTypeOK /\ Types /\ WayInv /\ Answerable
<1>1. Init => I
  BY TypeInit, TypesInit, WayInit DEF Init, Answerable
<1>2. I /\ [Next]_vars => I'
  BY TypesStep, StepsGather, TypeStep, WayStep, AnswerableStep
<1>3. I => NeverDeserted
  BY NotStuck DEF NeverStuck, NeverDeserted, Answerable, Types
<1> HIDE DEF I
<1> QED BY <1>1, <1>2, <1>3, PTL DEF Spec
=============================================================================
