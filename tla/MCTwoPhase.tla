------------------------------ MODULE MCTwoPhase ------------------------------
EXTENDS TwoPhase

MCZero == <<0, 0>>
Mixed == <<0, 1>>

MCValue == {MCZero, Mixed} \union ((1 .. MaxVertices) \X (0 .. kDimension))

(* Nothing adds nothing, and data of one kind stays of that kind.          *)
MCPlus(a, b) ==
  IF a = MCZero THEN b ELSE IF b = MCZero \/ a = b THEN a ELSE Mixed
=============================================================================
