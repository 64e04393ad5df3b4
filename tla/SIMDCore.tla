-------------------------------- MODULE SIMDCore --------------------------------
(***************************************************************************)
(* SIMDCore (src/src/simd_core.hpp) with the gather controller, the memory *)
(* system and the caller.  A LOAD, a GATHER or a GRU_UPDATE stalls the     *)
(* core until another unit answers; the answers do not say to which        *)
(* instruction they belong.                                                *)
(*                                                                         *)
(* Payloads are mock data in the code: a value stands for where it was     *)
(* read from (Loaded, Fetched).  The GRU cell is reduced to its end, and   *)
(* the feeder that it shares with PUSH_ARR and the vertex program to       *)
(* whether anything of others is in it: what the cell reads is a function  *)
(* of its operands if not (ArrayProofs, CellReadsExactly), and anything at *)
(* all otherwise.                                                          *)
(***************************************************************************)
EXTENDS GatherClient

CONSTANTS
  NumRegs, kLanes, Programs, Val, Zero,
  Loaded(_, _), Fetched(_, _), Combine(_, _, _), TimeCode(_, _), GruLane(_, _, _),
  Addr,        \* base addresses
  Garbled,     \* what a cell may come to when its feeder held something else
  Writes,      \* what a caller writes into registers: <<register, value>>
  MaxPrograms  \* bound: programs loaded

VARIABLES
  program,      \* instruction_queue_
  regs,         \* registers_
  pushed,       \* the vector handed to the feeder last
  is_stalled, pending_dest_reg,
  waiting_gru,  \* is_waiting_for_gru_; is_waiting_for_piccolo_ is "core" \in waiting
  gru_attached, \* gru_sa_, gru_feeder_ are set
  gru_operands, \* h_prev and msg of the cell
  foreign,      \* the feeder holds, or has held during the evaluation under way,
                \* elements that are not that evaluation's
  loads,        \* LOAD bursts on their way, by address
  asked,        \* what the elements of each batch are: <<base, offset>>
  loaded,       \* programs loaded
  executing,    \* history: the instruction that the core waits for
  operands,     \* history: the register file at its issue
  clean         \* history: the core keeps the promise of its instruction set

coreVars == <<program, regs, pushed, is_stalled, pending_dest_reg, waiting_gru, gru_attached,
              gru_operands, foreign, loads, asked, loaded, executing, operands, clean>>
vars == <<gatherVars, coreVars>>

(* ADD_VEC and MUL_VEC ("Element-wise vector addition", :23-24) compute    *)
(* one register, and STORE ("Store from local register to HBM", :22) does  *)
(* nothing.                                                                *)
Deviating == {"ADD_VEC", "MUL_VEC", "STORE"}

(* What the core does is specified by the instruction set; an instruction  *)
(* that stalls the core has not ended, and nothing is ever stored.         *)
ISA == INSTANCE InstructionSet WITH
  Unkept <- Deviating,
  memory <- [a \in Addr |-> <<>>],
  program <- IF is_stalled THEN <<executing>> \o program ELSE program,
  begun <- is_stalled,
  promised <- clean

Reg == ISA!Reg
Lane == ISA!Lane
Slice(src) == ISA!Slice(regs, src)
Written(dest, vector) == ISA!Written(regs, dest, vector)

(* The code reads and writes only registers that exist if operands do not  *)
(* run over the end; a destination that overlaps the lanes behind a source *)
(* would be read after it was written.                                     *)
WellFormed(i) ==
  /\ i.dest \in Reg /\ i.src1 \in Reg /\ i.src2 \in Reg /\ i.addr \in Addr /\ i.elems \in Nat
  /\ i.op = "GATHER" => i.src1 + i.elems <= NumRegs
  /\ i.op = "PUSH_ARR" => i.src1 + kLanes <= NumRegs
  /\ i.op \in {"SIGMOID", "TANH", "HADAMARD"} =>
       i.dest - i.src1 \notin 1 .. kLanes - 1 /\ i.dest - ISA!Second(i) \notin 1 .. kLanes - 1

ASSUME CoreAssumption ==
  /\ NumRegs \in Nat \ {0} /\ kLanes \in Nat \ {0} /\ MaxPrograms \in Nat /\ Zero \in Val
  /\ Programs \subseteq Seq([op : STRING, dest : Nat, src1 : Nat, src2 : Nat, addr : Addr,
                             elems : Nat])
  /\ \A p \in Programs : \A i \in DOMAIN p : WellFormed(p[i])
  /\ Writes \subseteq Reg \X Val
  /\ Garbled \subseteq [Lane -> Val]

Init ==
  /\ GatherInit
  /\ program = <<>> /\ regs = [r \in Reg |-> Zero] /\ pushed = <<>>
  /\ is_stalled = FALSE /\ pending_dest_reg = -1
  /\ waiting_gru = FALSE /\ gru_attached = FALSE /\ gru_operands = <<Slice(0), Slice(0)>>
  /\ loads = [a \in Addr |-> 0] /\ asked = <<>>
  /\ loaded = 0 /\ executing = <<>> /\ operands = [r \in Reg |-> Zero]
  /\ foreign = FALSE /\ clean = TRUE

-----------------------------------------------------------------------------
inst == Head(program)

Ready(ops) == ~ is_stalled /\ program # <<>> /\ inst.op \in ops

(* A stalling instruction is popped when it is issued.                     *)
Stall ==
  /\ is_stalled' = TRUE /\ pending_dest_reg' = inst.dest
  /\ program' = Tail(program)
  /\ executing' = inst /\ operands' = regs
  /\ UNCHANGED <<regs, pushed, gru_attached, loaded>>

IssueLoad ==
  /\ Ready({"LOAD"}) /\ Stall
  /\ loads' = [loads EXCEPT ![inst.addr] = @ + 1]
  /\ UNCHANGED <<gatherVars, waiting_gru, gru_operands, asked, foreign, clean>>

IssueGather ==
  /\ Ready({"GATHER"}) /\ Stall
  /\ StartBatch("core", inst.elems, inst.elems)
  /\ asked' = Append(asked, [e \in 1 .. inst.elems |->
                                <<inst.addr, regs[inst.src1 + e - 1]>>])
  /\ clean' = (clean /\ intact')
  /\ UNCHANGED <<waiting_gru, gru_operands, loads, foreign>>

(* Retried in every tick until an array is attached.  The feeder is taken  *)
(* as it is: start() does not clear it (gru.hpp:142-150), and nor does     *)
(* load_program or a late reply that gives up a GRU_UPDATE half-way.       *)
IssueGru ==
  /\ Ready({"GRU_UPDATE"}) /\ gru_attached /\ Stall
  /\ waiting_gru' = TRUE
  /\ gru_operands' = <<Slice(inst.src1), Slice(inst.src2)>>
  /\ foreign' = (foreign \/ waiting_gru) /\ clean' = (clean /\ ~ foreign')
  /\ UNCHANGED <<gatherVars, loads, asked>>

Lanes(i) == IF i.op \in {"ADD_VEC", "MUL_VEC"} THEN {0} ELSE ISA!Lanes(i)

(* The loop over the lanes, one after the other: a lane reads what earlier *)
(* ones have written.                                                      *)
Result(i) ==
  LET value[k \in Lanes(i)] ==
        LET Operand(src) == IF src + k - i.dest \in 0 .. k - 1 THEN value[src + k - i.dest]
                            ELSE regs[src + k]
        IN  Combine(i.op, Operand(i.src1), Operand(ISA!Second(i)))
  IN  value

Compute ==
  /\ Ready(ISA!Elementwise)
  /\ regs' = Written(inst.dest, Result(inst))
  /\ UNCHANGED <<pushed, foreign>>

TimeEncode ==
  /\ Ready({"TIME_ENCODE"})
  /\ regs' = Written(inst.dest, [i \in Lane |-> TimeCode(inst.addr, i)])
  /\ UNCHANGED <<pushed, foreign>>

PushArr ==
  /\ Ready({"PUSH_ARR"})
  /\ pushed' = Slice(inst.src1)
  /\ foreign' = TRUE
  /\ UNCHANGED regs

(* STORE does nothing.                                                     *)
Skip == Ready({"NOP", "STORE"}) /\ UNCHANGED <<regs, pushed, foreign>>

Execute ==
  /\ Compute \/ TimeEncode \/ PushArr \/ Skip
  /\ program' = Tail(program)
  /\ clean' = (clean /\ inst.op \notin Deviating)
  /\ UNCHANGED <<gatherVars, is_stalled, pending_dest_reg, waiting_gru, gru_attached,
                 gru_operands, loads, asked, loaded, executing, operands>>

(* What a value in the data buffer was asked for; 0 for another's batch.   *)
Value(read) ==
  IF read[2] \in DOMAIN asked[read[1]] THEN Fetched(asked[read[1]][read[2]][1],
                                                     asked[read[1]][read[2]][2])
  ELSE Zero

Unstall(vector) ==
  /\ regs' = Written(pending_dest_reg, vector)
  /\ is_stalled' = FALSE /\ pending_dest_reg' = -1
  /\ executing' = <<>> /\ operands' = [r \in Reg |-> Zero]
  /\ UNCHANGED <<program, pushed, gru_operands, asked, loaded, clean>>

PollGather ==
  /\ is_stalled
  /\ LET n == Lesser(Len(db), Lesser(num_elems, NumRegs - pending_dest_reg))
     IN  /\ Drain("core", n)
         /\ Unstall([i \in 0 .. n - 1 |-> Value(db[i + 1])])
  /\ UNCHANGED <<waiting_gru, gru_attached, loads, foreign>>

(* What the cell may come to.                                              *)
GruResults ==
  {[i \in Lane |-> GruLane(gru_operands[1], gru_operands[2], i)]}
    \union (IF foreign THEN Garbled ELSE {})

(* The cell's last tick; its array and feeder have to be attached anew.    *)
(* All of its own elements have left the feeder.                           *)
GruDone ==
  /\ is_stalled /\ "core" \notin waiting /\ waiting_gru /\ gru_attached
  /\ \E vector \in GruResults : Unstall(vector)
  /\ waiting_gru' = FALSE /\ gru_attached' = FALSE
  /\ UNCHANGED <<gatherVars, foreign, loads>>

(* The loop's ticks of the array take one element after the other.         *)
FeederEmpties ==
  /\ foreign /\ ~ waiting_gru
  /\ foreign' = FALSE
  /\ UNCHANGED <<gatherVars, program, regs, pushed, is_stalled, pending_dest_reg, waiting_gru,
                 gru_attached, gru_operands, loads, asked, loaded, executing, operands, clean>>

(* A reply is taken for the one that the core waits for, if it is stalled. *)
on_memory_reply(a) ==
  IF is_stalled /\ pending_dest_reg # -1 THEN Unstall([i \in Lane |-> Loaded(a, i)])
  ELSE UNCHANGED <<program, regs, pushed, is_stalled, pending_dest_reg, gru_operands, asked,
                   loaded, executing, operands, clean>>

MemoryReply ==
  \E a \in Addr :
    /\ loads[a] > 0 /\ loads' = [loads EXCEPT ![a] = @ - 1]
    /\ on_memory_reply(a)
    /\ UNCHANGED <<gatherVars, waiting_gru, gru_attached, foreign>>

-----------------------------------------------------------------------------
(* Mutant: the wait for the GRU cell outlives the program.                 *)
load_program_keepsGru ==
  /\ loaded < MaxPrograms /\ loaded' = loaded + 1
  /\ program' \in Programs
  /\ is_stalled' = FALSE /\ pending_dest_reg' = -1 /\ UNCHANGED waiting_gru
  /\ Abandon("core")
  /\ clean' = (clean /\ ~ (is_stalled /\ executing.op \in {"LOAD", "GATHER"}))
  /\ executing' = <<>> /\ operands' = [r \in Reg |-> Zero]
  /\ foreign' = (foreign \/ waiting_gru)
  /\ UNCHANGED <<regs, pushed, gru_attached, gru_operands, loads, asked>>

(* Mutant: the stall outlives the program.                                 *)
load_program_keepsStall ==
  /\ loaded < MaxPrograms /\ loaded' = loaded + 1
  /\ program' \in Programs
  /\ UNCHANGED is_stalled /\ pending_dest_reg' = -1 /\ waiting_gru' = FALSE
  /\ Abandon("core")
  /\ clean' = (clean /\ ~ (is_stalled /\ executing.op \in {"LOAD", "GATHER"}))
  /\ executing' = <<>> /\ operands' = [r \in Reg |-> Zero]
  /\ foreign' = (foreign \/ waiting_gru)
  /\ UNCHANGED <<regs, pushed, gru_attached, gru_operands, loads, asked>>

(* The caller, before a run or after one that was cut off.                 *)
load_program ==
  /\ loaded < MaxPrograms /\ loaded' = loaded + 1
  /\ program' \in Programs
  /\ is_stalled' = FALSE /\ pending_dest_reg' = -1 /\ waiting_gru' = FALSE
  /\ Abandon("core")
  /\ clean' = (clean /\ ~ (is_stalled /\ executing.op \in {"LOAD", "GATHER"}))
  /\ executing' = <<>> /\ operands' = [r \in Reg |-> Zero]
  /\ foreign' = (foreign \/ waiting_gru)
  /\ UNCHANGED <<regs, pushed, gru_attached, gru_operands, loads, asked>>

attach_sa_and_feeder_for_gru ==
  /\ gru_attached' = TRUE
  /\ UNCHANGED <<gatherVars, program, regs, pushed, is_stalled, pending_dest_reg, waiting_gru,
                 gru_operands, foreign, loads, asked, loaded, executing, operands, clean>>

write_register ==
  /\ \E w \in Writes : regs' = [regs EXCEPT ![w[1]] = w[2]]
  /\ UNCHANGED <<gatherVars, program, pushed, is_stalled, pending_dest_reg, waiting_gru,
                 gru_attached, gru_operands, foreign, loads, asked, loaded, executing, operands,
                 clean>>

(* The rest of the vault, and the vertex program on the same controller.   *)
VertexGathers ==
  /\ StartVertexGather
  /\ asked' = Append(asked, <<>>)
  /\ clean' = (clean /\ "core" \notin waiting)
  /\ UNCHANGED <<program, regs, pushed, is_stalled, pending_dest_reg, waiting_gru, gru_attached,
                 gru_operands, foreign, loads, loaded, executing, operands>>

(* The vertex program pushes into the same feeder: what it has gathered    *)
(* (tgn_twophase.hpp:277), or the operand of a gate of its own cell (:390).*)
VertexPushes ==
  /\ foreign' = TRUE /\ clean' = (clean /\ ~ waiting_gru)
  /\ UNCHANGED <<program, regs, pushed, is_stalled, pending_dest_reg, waiting_gru, gru_attached,
                 gru_operands, loads, asked, loaded, executing, operands>>

VertexCellLoads == VertexPushes /\ UNCHANGED gatherVars

ControllerStep ==
  \/ (TickIssue \/ Send \/ ReadComplete) /\ UNCHANGED coreVars
  \/ VertexTakes /\ VertexPushes

Tick == IssueLoad \/ IssueGather \/ IssueGru \/ Execute \/ PollGather \/ GruDone

Next ==
  \/ Tick \/ MemoryReply
  \/ load_program \/ attach_sa_and_feeder_for_gru \/ write_register
  \/ VertexGathers \/ ControllerStep \/ VertexCellLoads \/ FeederEmpties

(* The loop goes on: it ticks core and controller, the memory system       *)
(* answers what it holds, and a GRU cell that is ticked comes to its end.  *)
(* No order among them is assumed.  The caller and the vertex program need *)
(* never start anything.                                                   *)
Fairness == WF_vars(Tick \/ MemoryReply \/ ControllerStep)

Spec == Init /\ [][Next]_vars /\ Fairness

-----------------------------------------------------------------------------
Instruction == [op : STRING, dest : Reg, src1 : Reg, src2 : Reg, addr : Addr, elems : Nat]

(* A stalled core knows where its data go, and the replies on their way    *)
(* are counted.                                                            *)
TypeOK ==
  /\ GatherTypeOK
  /\ program \in Seq(Instruction) /\ regs \in [Reg -> Val]
  /\ is_stalled \in BOOLEAN /\ pending_dest_reg \in Reg \union {-1}
  /\ (is_stalled <=> pending_dest_reg # -1)
  /\ waiting_gru \in BOOLEAN /\ gru_attached \in BOOLEAN /\ (waiting_gru => gru_attached)
  /\ loads \in [Addr -> Nat] /\ loaded \in 0 .. MaxPrograms
  /\ is_stalled => executing \in Instruction
  /\ foreign \in BOOLEAN /\ clean \in BOOLEAN

(* The core implements the instruction set: every instruction has the      *)
(* effect that a sequential machine would give it, however late and in     *)
(* whatever order reads complete and also when a GRU_UPDATE is replaced    *)
(* half-way, until a program is replaced while a LOAD or GATHER is under   *)
(* way, another user takes the gather controller or the feeder from under  *)
(* an instruction, a GRU_UPDATE begins on a feeder that still holds the    *)
(* elements of a replaced one or of a PUSH_ARR, or ADD_VEC, MUL_VEC or     *)
(* STORE is executed, which do not do what their comments say.             *)
FollowsISA == ISA!Spec

GruMissing == Ready({"GRU_UPDATE"}) /\ ~ gru_attached

GatherStarved ==
  "core" \in waiting /\ (Starved \/ ~ (attached \/ "vertex" \in waiting))

(* Every program comes to its end, also with replies of an earlier one     *)
(* taken for its own, unless it waits for an array that nobody attaches    *)
(* (the cell detaches it after every GRU_UPDATE) or for a gather that      *)
(* lacks offsets or is not ticked.                                         *)
EveryProgramEnds ==
  TRUE ~> (program = <<>> /\ ~ is_stalled) \/ GruMissing \/ GatherStarved
=============================================================================
