----------------------------- MODULE MCPeephole -----------------------------
(* Peephole on every file of up to four lines over two registers and a slot  *)
(* of two words; one label is so long that its first characters are the      *)
(* other one.                                                                *)
EXTENDS Peephole

MCCode ==
    {Zero("a", 64), Zero("a", 32), Mov("a", "a", 64),
     PushReg("a"), PushReg("b"), PopReg("a"),
     Store(8, "a", 64), Store(8, "a", 32), Store(4, "b", 32),
     Load("a", 8, 64), Load("a", 8, 32),
     Cmp("a"), Jcc("M"), Jmp("L"), Jmp("LL"), Label("L"), Data(2)}

MCCut == [l \in {"LL"} |-> "L"]
=============================================================================
