------------------------------ MODULE MCFrame -------------------------------
(* Types whose sizes and alignments leave every kind of gap between slots.  *)
EXTENDS Frame

Ty(shape, size, align) == [shape |-> shape, size |-> size, align |-> align]

Char == Ty("scalar", 1, 1)
Int == Ty("scalar", 4, 4)

MCParams == {Char, Ty("struct", 12, 4)}
MCMemParams == {Ty("struct", 20, 4)}
MCLocals == {Char, Int, Ty("array", 3, 1), Ty("array", 8, 8), Ty("struct", 16, 8),
             Ty("static", 8, 8)}
MCLiterals == {Ty("struct", 24, 8)}
MCCalls == {3, 20}

MCMaxNodes == [param |-> 2, mem_param |-> 1, call |-> 2, literal |-> 1, decl |-> 3]
=============================================================================
