--------------------------- MODULE MCCodegenStmt ----------------------------
(* Bodies of up to MaxStmts statements over one variable and one label.     *)
EXTENDS CodegenStmt
=============================================================================
