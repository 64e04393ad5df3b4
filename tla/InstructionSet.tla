---------------------------- MODULE InstructionSet -----------------------------
(***************************************************************************)
(* What a program of a SIMD core means (the comments of SIMDOpcode,        *)
(* src/src/simd_core.hpp:19-34): instructions take effect one after the    *)
(* other, in program order, each as a whole.  Those that other units carry *)
(* out begin, capture their operands, and end later.                       *)
(*                                                                         *)
(* Nothing is promised any more once a program is replaced while a LOAD or *)
(* GATHER of it is under way, somebody else uses the gather controller or  *)
(* the feeder at the same time, a GRU_UPDATE begins while the feeder holds *)
(* something else, or an instruction is executed of which the core is      *)
(* known not to do what its comment says (Unkept).                         *)
(***************************************************************************)
EXTENDS Integers, Sequences

CONSTANTS
  Addr,              \* base addresses
  NumRegs,           \* registers: 256
  kLanes,            \* 16: lanes of a vector, and kDimension of the array
  Programs,          \* programs a caller may load: sequences of instructions
  Val,               \* register values
  Zero,              \* 0.0f
  Loaded(_, _),      \* value of lane i of the burst at an address
  Fetched(_, _),     \* value at an offset from a base address
  Combine(_, _, _),  \* result of an arithmetic instruction in one lane
  TimeCode(_, _),    \* TIME_ENCODE of a time in one lane
  GruLane(_, _, _),  \* the GRU cell's result in one lane
  Unkept             \* opcodes with which the promise ends

VARIABLES
  program,   \* instructions that have not ended
  regs,      \* the register file
  pushed,    \* the vector handed to the array last
  begun,     \* the first instruction is under way
  operands,  \* the register file when it began; means nothing otherwise
  memory,    \* the vector stored last at each address
  promised   \* the core promises to follow this specification

vars == <<program, regs, pushed, begun, operands, memory, promised>>

Reg == 0 .. NumRegs - 1
Lane == 0 .. kLanes - 1
Delegated == {"LOAD", "GATHER", "GRU_UPDATE"}
Elementwise == {"ADD_VEC", "MUL_VEC", "SIGMOID", "TANH", "HADAMARD"}

(* A register file with a vector in it; lanes past the end are dropped.    *)
Written(file, dest, vector) ==
  [r \in Reg |-> IF r - dest \in DOMAIN vector THEN vector[r - dest] ELSE file[r]]

Second(i) == IF i.op \in {"SIGMOID", "TANH"} THEN i.src1 ELSE i.src2

Lanes(i) == {k \in Lane : {i.src1 + k, Second(i) + k, i.dest + k} \subseteq Reg}

Result(i) ==
  [k \in Lanes(i) |-> Combine(i.op, regs[i.src1 + k], regs[Second(i) + k])]

Slice(file, src) ==
  [i \in Lane |-> IF src + i \in Reg THEN file[src + i] ELSE Zero]

Init ==
  /\ program = <<>> /\ regs = [r \in Reg |-> Zero] /\ pushed = <<>>
  /\ begun = FALSE /\ operands = regs
  /\ memory = [a \in Addr |-> <<>>] /\ promised = TRUE

inst == Head(program)

(* Instructions of the core itself.                                        *)
Execute ==
  /\ ~ begun /\ program # <<>> /\ inst.op \notin Delegated
  /\ regs' = IF inst.op \in Elementwise THEN Written(regs, inst.dest, Result(inst))
             ELSE IF inst.op = "TIME_ENCODE"
                    THEN Written(regs, inst.dest, [i \in Lane |-> TimeCode(inst.addr, i)])
             ELSE regs
  /\ pushed' = IF inst.op = "PUSH_ARR" THEN Slice(regs, inst.src1) ELSE pushed
  /\ memory' = IF inst.op = "STORE" THEN [memory EXCEPT ![inst.addr] = Slice(regs, inst.src1)]
               ELSE memory
  /\ program' = Tail(program)
  /\ UNCHANGED <<begun, operands, promised>>

Begin ==
  /\ ~ begun /\ program # <<>> /\ inst.op \in Delegated
  /\ begun' = TRUE /\ operands' = regs
  /\ UNCHANGED <<program, regs, pushed, memory, promised>>

(* The elements of a gather arrive in any order, each once.                *)
Orders(n) ==
  {f \in [0 .. n - 1 -> 0 .. n - 1] : \A e \in 0 .. n - 1 : \E i \in 0 .. n - 1 : f[i] = e}

Delivered ==
  CASE inst.op = "LOAD" -> {[i \in Lane |-> Loaded(inst.addr, i)]}
    [] inst.op = "GATHER" ->
         {[i \in 0 .. inst.elems - 1 |-> Fetched(inst.addr, operands[inst.src1 + f[i]])] :
            f \in Orders(inst.elems)}
    [] inst.op = "GRU_UPDATE" ->
         {[i \in Lane |-> GruLane(Slice(operands, inst.src1), Slice(operands, inst.src2), i)]}

End ==
  /\ begun
  /\ \E vector \in Delivered : regs' = Written(regs, inst.dest, vector)
  /\ program' = Tail(program) /\ begun' = FALSE
  /\ UNCHANGED <<pushed, memory, promised>>

(* The caller: a new program, a register written from outside.             *)
Load ==
  /\ program' \in Programs /\ begun' = FALSE
  /\ promised' = ~ (begun /\ inst.op \in {"LOAD", "GATHER"})
  /\ UNCHANGED <<regs, pushed, memory>>

WriteRegister ==
  /\ \E r \in Reg, x \in Val : regs' = [regs EXCEPT ![r] = x]
  /\ UNCHANGED <<program, pushed, begun, operands, memory, promised>>

(* Somebody else's data are in the gather controller or in the feeder.     *)
Disturbed ==
  /\ program # <<>> /\ inst.op \in {"GATHER", "GRU_UPDATE"} /\ ~ promised'
  /\ UNCHANGED <<program, regs, pushed, memory>>

(* An instruction that has some other effect.                              *)
Departs == ~ begun /\ program # <<>> /\ inst.op \in Unkept /\ ~ promised'

Next ==
  \/ promised /\ (Execute \/ Begin \/ End \/ Load \/ WriteRegister \/ Disturbed \/ Departs)
  \/ ~ promised /\ ~ promised'

Spec == Init /\ [][Next]_vars
=============================================================================
