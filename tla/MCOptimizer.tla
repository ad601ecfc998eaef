---------------------------- MODULE MCOptimizer ----------------------------
\* Optimizer on types of 3, 4 and 6 bits: expressions of up to three nodes
\* around every leaf, and functions of up to MAX_STMTS statements.
EXTENDS Optimizer

X == Var("x")
Y == Var("y")
K == Var("k")
I(v) == Lit(v, TInt)

MCLeaves == {I(0), I(1), I(2), Lit(2, TUInt), X, Y, K}
MCOps == {"+", "-", "*", "/", "&", ">>", "<", "==", "&&", "||"}

\* k is the constant of the table, x an int and y an unsigned one.
MCConsts == <<[x |-> "k", v |-> 2, t |-> TInt]>>

Is(v, t, c) == [ok |-> TRUE, v |-> v, t |-> t, is_const |-> c]
MCEnvs == {[x |-> Is(p[1], TInt, FALSE), y |-> Is(p[2], TUInt, FALSE),
            k |-> Is(2, TInt, TRUE)] : p \in {<<-3, 5>>, <<0, 3>>}}

MCSimple == {Out(K), Return(X), Break, Continue, GotoL("L"),
             LabelStmt("L", Out(X)),
             Decl("k", TRUE, I(0)), Decl("k", FALSE, I(1)),
             DeclList(<<Decl("x", TRUE, I(1)), Decl("k", FALSE, X)>>),
             Case(0, Out(I(1))), Default(Out(I(2)))}

\* A function starts with nothing, or with a constant that folds conditions.
MCPrologues == {<<>>, <<Decl("k", TRUE, I(0))>>}

MCOpens == {If(K, None, None), While(K, None), Do(I(0), None), Switch(X, None),
            For(None, K, I(1), None),
            For(Decl("x", FALSE, I(0)), K, X, None),
            For(Decl("k", TRUE, I(0)), X, K, None)}
=============================================================================
