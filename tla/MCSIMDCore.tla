------------------------------ MODULE MCSIMDCore -------------------------------
EXTENDS SIMDCore

(* Register values are numbers; every operation mixes its operands into    *)
(* one, so that a wrong operand shows.                                     *)
MCVal == 0 .. 250
Mix(n) == n % 251
MCLoaded(a, i) == Mix(101 * a + 13 * i + 7)
MCFetched(a, offset) == Mix(57 * a + 29 * offset + 11)
MCCombine(op, x, y) ==
  Mix(CASE op = "ADD_VEC" -> x + y [] op = "MUL_VEC" -> x * y [] op = "HADAMARD" -> x * y
        [] op = "SIGMOID" -> 3 * x + 1 [] op = "TANH" -> 5 * x + 2)
MCTimeCode(t, i) == Mix(19 * t + 37 * i + 3)
MCGruLane(h, m, i) == Mix(7 * h[i] + 23 * m[i] + 41 * i + 1)

Do(op, dest, src1, src2, addr, elems) ==
  [op |-> op, dest |-> dest, src1 |-> src1, src2 |-> src2, addr |-> addr, elems |-> elems]

(* Four registers and vectors of two.  An instruction that stalls the core *)
(* meets every other in its own program or in the next, destinations reach *)
(* over the end of the register file, and operands come from what was      *)
(* delivered.  STORE and ADD_VEC, which end the promise, come last.        *)
MCPrograms ==
  {<<Do("LOAD", 0, 0, 0, 1, 0), Do("GATHER", 3, 0, 0, 2, 2)>>,
   <<Do("GRU_UPDATE", 2, 1, 3, 1, 0), Do("LOAD", 3, 0, 0, 2, 0)>>,
   <<Do("TIME_ENCODE", 0, 0, 0, 2, 0), Do("PUSH_ARR", 0, 2, 0, 1, 0), Do("TANH", 2, 0, 0, 1, 0),
     Do("HADAMARD", 0, 2, 1, 1, 0), Do("STORE", 0, 0, 0, 1, 0)>>,
   <<Do("ADD_VEC", 1, 0, 2, 1, 0)>>}

(* The result of a cell whose feeder held something else.                  *)
MCGarbled == {[i \in Lane |-> 250]}

(* The caller clears the register that the GRU cell and the gather read.   *)
MCWrites == {<<2, 0>>}

(* A batch that gets done and one that lacks its offset.                   *)
MCVertexBatches == {[elems |-> 1, offsets |-> 1], [elems |-> 1, offsets |-> 0]}
=============================================================================
