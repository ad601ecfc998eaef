----------------------------- MODULE Optimizer ------------------------------
(***************************************************************************)
(* The AST optimizer (src/optimize.c): optimize_expr, optimize_stmt and    *)
(* the table of constants g_const_table they share.                        *)
(*                                                                         *)
(* The passes are operators on trees, compared with what C99 gives the     *)
(* tree before them: an evaluator for expressions, and for statements a    *)
(* run of the function.  Trees are grown a node at a time.                 *)
(*                                                                         *)
(* Widths are scaled down (INT_BITS, LONG_BITS): strtol and the host's     *)
(* arithmetic work in long, the widest type, as they do in the code.       *)
(***************************************************************************)
EXTENDS Integers, Sequences, FiniteSets, Bitwise

CONSTANTS
    CHAR_BITS, INT_BITS, LONG_BITS,
    CONST_PROP_MAX,   \* entries of g_const_table
    Leaves,           \* expressions to build from
    Ops,              \* binary operators used
    Consts,           \* the table an expression is optimized with
    Envs,             \* the variables' values, types and is_const
    MAX_GROWTH,       \* nodes put around a leaf (model bound)
    Simple,           \* statements without a body
    Opens,            \* statements with a body, the body still empty
    Prologues,        \* what a function starts with
    MAX_STMTS,        \* statements of a function behind it (model bound)
    FUEL              \* steps of a run (model bound)

VARIABLES
    tree,     \* the expression
    growth,   \* nodes put around its first leaf
    open      \* the statement lists being built, the function's first

vars == <<tree, growth, open>>

(***************************************************************************)
(* Types and values.                                                       *)
(***************************************************************************)
TChar  == [k |-> "char", u |-> FALSE]
TInt   == [k |-> "int",  u |-> FALSE]
TUInt  == [k |-> "int",  u |-> TRUE]
TLong  == [k |-> "long", u |-> FALSE]
TULong == [k |-> "long", u |-> TRUE]
TVoid  == [k |-> "void", u |-> FALSE]   \* what a node has that no pass typed

Bits(k) == CASE k = "char" -> CHAR_BITS [] k = "int" -> INT_BITS
             [] k = "long" -> LONG_BITS [] k = "void" -> INT_BITS

Fits(v, t) == IF t.u THEN v >= 0 /\ v < 2^Bits(t.k)
              ELSE v >= -(2^(Bits(t.k) - 1)) /\ v < 2^(Bits(t.k) - 1)

Wrap(v, t) == LET m == v % 2^Bits(t.k)
              IN  IF t.u \/ m < 2^(Bits(t.k) - 1) THEN m ELSE m - 2^Bits(t.k)

\* The integer promotions; a literal no pass typed is loaded into eax.
Promote(t) == IF t.k \in {"char", "void"} THEN TInt ELSE t

Common(s, t) == LET both == {Promote(s), Promote(t)}
                IN  IF TULong \in both THEN TULong
                    ELSE IF TLong \in both THEN TLong
                    ELSE IF TUInt \in both THEN TUInt ELSE TInt

Abs(n) == IF n < 0 THEN -n ELSE n
Quot(a, b) == (IF (a < 0) = (b < 0) THEN 1 ELSE -1) * (Abs(a) \div Abs(b))
Rem(a, b) == a - b * Quot(a, b)
Pattern(v) == v % 2^LONG_BITS

Truth(b) == IF b THEN 1 ELSE 0

Comparisons == {"<", "<=", ">", ">=", "==", "!="}
Logical == {"&&", "||"}
Shifts == {"<<", ">>"}

\* The value of an operator on whole numbers; the types come in around it.
Compute(op, a, b) ==
    CASE op = "+"  -> a + b
      [] op = "-"  -> a - b
      [] op = "*"  -> a * b
      [] op = "/"  -> Quot(a, b)
      [] op = "%"  -> Rem(a, b)
      [] op = "&"  -> Wrap(Pattern(a) & Pattern(b), TLong)
      [] op = "|"  -> Wrap(Pattern(a) | Pattern(b), TLong)
      [] op = "^"  -> Wrap(Pattern(a) ^^ Pattern(b), TLong)
      [] op = "<<" -> a * 2^b
      [] op = ">>" -> a \div 2^b
      [] op = "<"  -> Truth(a < b)
      [] op = "<=" -> Truth(a <= b)
      [] op = ">"  -> Truth(a > b)
      [] op = ">=" -> Truth(a >= b)
      [] op = "==" -> Truth(a = b)
      [] op = "!=" -> Truth(a # b)

(***************************************************************************)
(* Expression nodes, with the decl_type that the parser gives them.        *)
(***************************************************************************)
Lit(v, t)      == [op |-> "lit", v |-> v, t |-> t]
Var(x)         == [op |-> "var", x |-> x, t |-> TVoid]
Bin(f, l, r)   == [op |-> "bin", f |-> f, l |-> l, r |-> r, t |-> TVoid]
Un(f, a)       == [op |-> "un", f |-> f, a |-> a, t |-> TVoid]
Cast(t, a)     == [op |-> "cast", a |-> a, t |-> t]
Cond(c, a, b)  == [op |-> "cond", c |-> c, a |-> a, b |-> b, t |-> TVoid]
SizeofType(t)  == [op |-> "sizeoftype", t |-> t]
Sizeof(a)      == [op |-> "sizeof", a |-> a, t |-> TVoid]
AddrOf(a)      == [op |-> "addr", a |-> a, t |-> TVoid]

IsLit(e) == e.op = "lit"
IsConst(e, v) == IsLit(e) /\ e.v = v

(***************************************************************************)
(* The rules of optimize_expr, in its order.  A rule gives the set of the  *)
(* tree it puts in place of e: nothing when it does not apply.             *)
(***************************************************************************)
const_prop_lookup(tab, x) ==
    LET hits == {j \in DOMAIN tab : tab[j].x = x}
    IN  IF hits = {} THEN {} ELSE {tab[CHOOSE j \in hits : \A k \in hits : k <= j]}

FoldBinary(e) ==
    IF /\ e.op = "bin" /\ IsLit(e.l) /\ IsLit(e.r)
       /\ e.f \notin Logical
       /\ ~(e.f \in {"/", "%"} /\ e.r.v = 0)
       /\ e.f \in Shifts => e.r.v \in 0..(LONG_BITS - 1)   \* else undefined
    THEN {Lit(Wrap(Compute(e.f, e.l.v, e.r.v), TLong),
              IF e.f \in Comparisons THEN TInt ELSE e.l.t)}
    ELSE {}

FoldLogical(e) ==
    IF e.op # "bin" \/ e.f \notin Logical \/ ~IsLit(e.l) THEN {}
    ELSE IF (e.f = "&&") = (e.l.v = 0) THEN {Lit(Truth(e.l.v # 0), TInt)}
    ELSE IF IsLit(e.r) THEN {Lit(Truth(e.r.v # 0), TInt)} ELSE {}

FoldUnary(e) ==
    IF e.op # "un" \/ ~IsLit(e.a) THEN {}
    ELSE {CASE e.f = "-" -> Lit(Wrap(-e.a.v, TLong), e.a.t)
            [] e.f = "+" -> e.a
            [] e.f = "!" -> Lit(Truth(e.a.v = 0), TInt)
            [] e.f = "~" -> Lit(Wrap(-e.a.v - 1, TLong), e.a.t)}

Twice(e, f) == e.op = "un" /\ e.f = f /\ e.a.op = "un" /\ e.a.f = f
                 /\ ~IsLit(e.a.a)

DoubleNot(e) == IF Twice(e, "!")
                THEN {[Bin("!=", e.a.a, Lit(0, TInt)) EXCEPT !.t = TInt]} ELSE {}

DoubleNegation(e) == IF Twice(e, "-") THEN {e.a.a} ELSE {}

\* An operand that leaves the other one as it is.
Identity(e) ==
    IF e.op # "bin" THEN {}
    ELSE IF \/ e.f \in {"+", "-", "|"} /\ IsConst(e.r, 0)
            \/ e.f \in {"*", "/"} /\ IsConst(e.r, 1)
            \/ e.f = "&" /\ IsConst(e.r, -1)
         THEN {e.l}
    ELSE IF \/ e.f \in {"+", "|"} /\ IsConst(e.l, 0)
            \/ e.f = "*" /\ IsConst(e.l, 1)
            \/ e.f = "&" /\ IsConst(e.l, -1)
         THEN {e.r}
    ELSE {}

\* An operand that makes the result zero, and x - x and x ^ x.
Annihilate(e) ==
    IF e.op # "bin" THEN {}
    ELSE IF \/ e.f \in {"*", "&"} /\ IsConst(e.r, 0)
            \/ e.f \in {"-", "^"} /\ e.l.op = "var" /\ e.l = e.r
         THEN {Lit(0, e.l.t)}
    ELSE IF e.f \in {"*", "/", "&"} /\ IsConst(e.l, 0) THEN {Lit(0, e.r.t)}
    ELSE {}

Pow2(e) == IsLit(e) /\ \E n \in 1..(LONG_BITS - 2) : e.v = 2^n
Log2(v) == CHOOSE n \in 1..(LONG_BITS - 2) : v = 2^n

\* Mutant: a signed dividend is shifted as well.
ShiftsDivision_Always(l) == TRUE

ShiftsDivision(l) == l.t.u \/ (IsLit(l) /\ l.v >= 0)

StrengthReduce(e) ==
    IF e.op # "bin" THEN {}
    ELSE IF e.f = "*" /\ Pow2(e.r) THEN {Bin("<<", e.l, Lit(Log2(e.r.v), TInt))}
    ELSE IF e.f = "*" /\ Pow2(e.l) THEN {Bin("<<", e.r, Lit(Log2(e.l.v), TInt))}
    ELSE IF e.f = "/" /\ Pow2(e.r) /\ ShiftsDivision(e.l)
         THEN {Bin(">>", e.l, Lit(Log2(e.r.v), TInt))}
    ELSE {}

SimplifyLogical(e) ==
    IF e.op # "bin" \/ e.f \notin Logical \/ ~IsLit(e.r) THEN {}
    ELSE IF (e.f = "&&") = (e.r.v = 0) THEN {Lit(Truth(e.r.v # 0), TInt)}
    ELSE {[Bin("!=", e.l, Lit(0, TInt)) EXCEPT !.t = TInt]}

FoldConditional(e) ==
    IF e.op = "cond" /\ IsLit(e.c) THEN {IF e.c.v # 0 THEN e.a ELSE e.b} ELSE {}

sizeof_scalar_size(t) == Bits(t.k)

FoldSizeof(e) ==
    IF e.op = "sizeoftype" THEN {Lit(sizeof_scalar_size(e.t), TULong)}
    ELSE IF e.op = "sizeof" /\ IsLit(e.a)
         THEN {Lit(sizeof_scalar_size(e.a.t), TULong)}
    ELSE {}

cast_value_safe(v, t) == IF t = TULong THEN v >= 0 ELSE Fits(v, t)

FoldCast(e) ==
    IF e.op = "cast" /\ IsLit(e.a) /\ cast_value_safe(e.a.v, e.t)
    THEN {Lit(e.a.v, e.t)} ELSE {}

Propagate(e, tab) ==
    IF e.op # "var" THEN {}
    ELSE {Lit(c.v, c.t) : c \in const_prop_lookup(tab, e.x)}

\* The node itself, once its children are done.
Rewrite(e, tab) ==
    LET rules == <<FoldBinary(e), FoldLogical(e), FoldUnary(e), DoubleNot(e),
                   DoubleNegation(e), Identity(e), Annihilate(e),
                   StrengthReduce(e), SimplifyLogical(e), FoldConditional(e),
                   FoldSizeof(e), FoldCast(e), Propagate(e, tab)>>
        hits == {k \in DOMAIN rules : rules[k] # {}}
    IN  IF hits = {} THEN e
        ELSE CHOOSE r \in rules[CHOOSE k \in hits : \A j \in hits : k <= j] : TRUE

RECURSIVE optimize_expr(_, _)
optimize_expr(e, tab) ==
    LET o(c) == optimize_expr(c, tab)
    IN  Rewrite(CASE e.op = "bin" -> [e EXCEPT !.l = o(@), !.r = o(@)]
                  [] e.op \in {"un", "cast", "sizeof", "addr"} ->
                        [e EXCEPT !.a = o(@)]
                  [] e.op = "cond" -> [e EXCEPT !.c = o(@), !.a = o(@), !.b = o(@)]
                  [] OTHER -> e, tab)

(***************************************************************************)
(* Statement nodes.                                                        *)
(***************************************************************************)
None             == [s |-> "none"]
Out(e)           == [s |-> "expr", e |-> e]      \* a call that shows e
Return(e)        == [s |-> "return", e |-> e]
GotoL(l)         == [s |-> "goto", l |-> l]
Break            == [s |-> "break"]
Continue         == [s |-> "continue"]
Decl(x, c, e)    == [s |-> "decl", x |-> x, is_const |-> c, e |-> e]
DeclList(ds)     == [s |-> "decllist", b |-> ds]
LabelStmt(l, a)  == [s |-> "label", l |-> l, a |-> a]
Case(v, a)       == [s |-> "case", v |-> v, a |-> a]
Default(a)       == [s |-> "default", a |-> a]
Block(b)         == [s |-> "block", b |-> b]
If(c, a, b)      == [s |-> "if", c |-> c, a |-> a, b |-> b]
While(c, a)      == [s |-> "while", c |-> c, a |-> a]
Do(c, a)         == [s |-> "do", c |-> c, a |-> a]
For(i, c, u, a)  == [s |-> "for", i |-> i, c |-> c, u |-> u, a |-> a]
Switch(c, a)     == [s |-> "switch", c |-> c, a |-> a]

is_terminal_stmt(n) == n.s \in {"return", "break", "continue", "goto"}

\* Mutant: only a label ends the unreachable statements.
EndsDeadCode_Label(n) == n.s = "label"

Labelled(n) == n.s \in {"label", "case", "default"}

EndsDeadCode(n) == Labelled(n)

\* The statements that stay of those behind a terminal one.
SkipDead(list) ==
    LET stops == {k \in DOMAIN list : EndsDeadCode(list[k])}
    IN  IF stops = {} THEN <<>>
        ELSE SubSeq(list, CHOOSE k \in stops : \A j \in stops : k <= j, Len(list))

\* A declaration is recorded while the table has room.
Record(n, e, st) ==
    IF n.is_const /\ IsLit(e) /\ Len(st.tab) < CONST_PROP_MAX
    THEN [st EXCEPT !.tab = Append(@, [x |-> n.x, v |-> e.v, t |-> TInt])]
    ELSE [st EXCEPT !.stale = @ \/ const_prop_lookup(st.tab, n.x) # {}]

\* st is the state of the pass: the table, and what a statement may suffer from
\* it (history).  stale: a recorded constant goes on standing for a name that
\* was declared again.  leaked: the names that loops declare and that are seen
\* behind them in the block; captured: one of them is used there.  lost: a label
\* inside a statement that was dropped.
Done(n, st) == [n |-> n, st |-> st]
Fresh == [tab |-> <<>>, stale |-> FALSE, leaked |-> {}, captured |-> FALSE,
          lost |-> FALSE]

RECURSIVE Vars(_)
Vars(e) == CASE e.op = "var" -> {e.x}
             [] e.op = "bin" -> Vars(e.l) \cup Vars(e.r)
             [] e.op = "cond" -> Vars(e.c) \cup Vars(e.a) \cup Vars(e.b)
             [] e.op \in {"lit", "sizeoftype"} -> {}
             [] OTHER -> Vars(e.a)

IsList(n) == n.s \in {"block", "decllist"}
Fields(n, fs) == fs \cap DOMAIN n

\* The names a statement uses or declares.
RECURSIVE Names(_)
Names(n) ==
    UNION {Vars(n[f]) : f \in Fields(n, {"e", "c", "u"})}
      \cup (IF n.s = "decl" THEN {n.x} ELSE {})
      \cup (IF IsList(n) THEN UNION {Names(n.b[k]) : k \in DOMAIN n.b}
            ELSE UNION {Names(n[f]) : f \in Fields(n, {"i", "a", "b"})})

\* Whether n holds a label, or (inside) a case of the switch around it.
RECURSIVE Holds(_, _)
Holds(n, inside) ==
    \/ Labelled(n) /\ (inside \/ n.s = "label")
    \/ IF IsList(n) THEN \E k \in DOMAIN n.b : Holds(n.b[k], inside)
       ELSE \E f \in Fields(n, {"a", "b"}) : Holds(n[f], inside /\ n.s # "switch")

HoldsLabel(n) == Holds(n, TRUE)

Drop(st, n) == [st EXCEPT !.lost = @ \/ HoldsLabel(n)]

RECURSIVE optimize_stmt(_, _)
RECURSIVE optimize_children(_, _, _)
optimize_children(done, rest, st) ==
    IF rest = <<>> THEN Done(done, st)
    ELSE LET r == optimize_stmt(Head(rest), st)
             live == IF is_terminal_stmt(r.n) THEN SkipDead(Tail(rest))
                     ELSE Tail(rest)
             dead == SubSeq(rest, 2, Len(rest) - Len(live))
         IN  optimize_children(Append(done, r.n), live, [r.st EXCEPT
                 !.captured = @ \/ Names(Head(rest)) \cap st.leaked # {},
                 !.lost = @ \/ \E k \in DOMAIN dead :
                              ~Labelled(dead[k]) /\ HoldsLabel(dead[k])])

optimize_stmt(n, st) ==
    LET oe(e) == optimize_expr(e, st.tab)
    IN  CASE n.s = "block" ->
               LET r == optimize_children(<<>>, n.b, st)
               IN  Done(Block(r.n), [r.st EXCEPT !.tab = st.tab, !.leaked = st.leaked])
          [] n.s = "if" ->
               LET c == oe(n.c)
                   a == optimize_stmt(n.a, st)
                   b == optimize_stmt(n.b, a.st)
               IN  Done(IF ~IsLit(c) THEN If(c, a.n, b.n)
                        ELSE IF c.v # 0 THEN a.n
                        ELSE IF n.b = None THEN Block(<<>>) ELSE b.n,
                        IF ~IsLit(c) THEN b.st
                        ELSE Drop(b.st, IF c.v # 0 THEN n.b ELSE n.a))
          [] n.s = "while" ->
               LET c == oe(n.c)
                   a == optimize_stmt(n.a, st)
               IN  IF IsConst(c, 0) THEN Done(Block(<<>>), Drop(a.st, n.a))
                   ELSE Done(While(c, a.n), a.st)
          [] n.s = "do" ->
               LET a == optimize_stmt(n.a, st)
               IN  Done(Do(optimize_expr(n.c, a.st.tab), a.n), a.st)
          [] n.s = "for" ->
               LET i == optimize_stmt(n.i, st)
                   c == optimize_expr(n.c, i.st.tab)
                   u == optimize_expr(n.u, i.st.tab)
                   a == optimize_stmt(n.a, i.st)
                   \* the loop is gone, or what it declares stays in the table
                   leak == [a.st EXCEPT !.leaked = @ \cup
                              (IF n.i.s = "decl" /\ (n.i.is_const \/ IsConst(c, 0))
                               THEN {n.i.x} ELSE {})]
               IN  IF ~IsConst(c, 0) THEN Done(For(i.n, c, u, a.n), leak)
                   ELSE Done(IF n.i = None THEN Block(<<>>) ELSE i.n,
                             Drop(leak, n.a))
          [] n.s = "switch" ->
               LET a == optimize_stmt(n.a, st)
               IN  Done(Switch(oe(n.c), a.n), a.st)
          [] n.s \in {"return", "expr"} -> Done([n EXCEPT !.e = oe(@)], st)
          [] n.s = "decl" -> Done([n EXCEPT !.e = oe(@)], Record(n, oe(n.e), st))
          [] n.s = "decllist" ->
               \* none of them is recorded
               Done([n EXCEPT !.b = [k \in DOMAIN @ |-> [@[k] EXCEPT !.e = oe(@)]]],
                    [st EXCEPT !.stale = @ \/ \E k \in DOMAIN n.b :
                        const_prop_lookup(st.tab, n.b[k].x) # {}])
          [] n.s \in {"label", "case", "default"} ->
               LET a == optimize_stmt(n.a, st)
               IN  Done([n EXCEPT !.a = a.n], a.st)
          [] OTHER -> Done(n, st)

\* The body of one function; the table is emptied before it.
optimize_translation_unit(body) ==
    optimize_stmt(body, Fresh)

(***************************************************************************)
(* C99's value of an expression.  env gives each variable its value and    *)
(* type; ok is FALSE where the standard gives no value, except that a      *)
(* negative number shifts left as the generated shl does it.               *)
(***************************************************************************)
RECURSIVE TypeOf(_, _)
TypeOf(e, env) ==
    CASE e.op = "var" -> env[e.x].t
      [] e.op = "bin" -> IF e.f \in Comparisons \cup Logical THEN TInt
                         ELSE IF e.f \in Shifts THEN Promote(TypeOf(e.l, env))
                         ELSE Common(TypeOf(e.l, env), TypeOf(e.r, env))
      [] e.op = "un"   -> IF e.f = "!" THEN TInt ELSE Promote(TypeOf(e.a, env))
      [] e.op = "cond" -> Common(TypeOf(e.a, env), TypeOf(e.b, env))
      [] e.op \in {"sizeof", "sizeoftype"} -> TULong
      [] e.op = "addr" -> TULong
      [] OTHER -> e.t

Value(v) == [ok |-> TRUE, v |-> v]
NoValue  == [ok |-> FALSE, v |-> 0]

\* The result v of an operation of type t.
InType(v, t) == IF t.u \/ Fits(v, t) THEN Value(Wrap(v, t)) ELSE NoValue

RECURSIVE Eval(_, _)
Eval(e, env) ==
    LET T(x) == Promote(TypeOf(x, env))
    IN  CASE e.op = "lit" -> Value(Wrap(e.v, Promote(e.t)))
          [] e.op = "var" -> [ok |-> env[e.x].ok, v |-> env[e.x].v]
          [] e.op = "bin" /\ e.f \in Logical ->
               LET l == Eval(e.l, env)
               IN  IF ~l.ok \/ (e.f = "&&") = (l.v = 0)
                   THEN [l EXCEPT !.v = Truth(l.v # 0)]
                   ELSE LET r == Eval(e.r, env) IN [r EXCEPT !.v = Truth(r.v # 0)]
          [] e.op = "bin" /\ e.f \notin Logical ->
               LET l == Eval(e.l, env)
                   r == Eval(e.r, env)
                   t == Common(TypeOf(e.l, env), TypeOf(e.r, env))
                   lv == IF e.f \in Shifts THEN l.v ELSE Wrap(l.v, t)
                   rv == IF e.f \in Shifts THEN r.v ELSE Wrap(r.v, t)
               IN  IF \/ ~l.ok \/ ~r.ok
                      \/ e.f \in {"/", "%"} /\ rv = 0
                      \/ e.f \in Shifts /\ rv \notin 0..(Bits(T(e.l).k) - 1)
                   THEN NoValue
                   ELSE InType(Compute(e.f, lv, rv), TypeOf(e, env))
          [] e.op = "un" ->
               LET a == Eval(e.a, env)
               IN  IF ~a.ok THEN a
                   ELSE (CASE e.f = "-" -> InType(-a.v, T(e.a))
                           [] e.f = "+" -> a
                           [] e.f = "~" -> Value(Wrap(-a.v - 1, T(e.a)))
                           [] e.f = "!" -> Value(Truth(a.v = 0)))
          [] e.op = "cast" ->
               LET a == Eval(e.a, env) IN [a EXCEPT !.v = Wrap(@, e.t)]
          [] e.op = "cond" ->
               LET c == Eval(e.c, env)
                   k == Eval(IF c.v # 0 THEN e.a ELSE e.b, env)
               IN  IF c.ok /\ k.ok THEN InType(k.v, TypeOf(e, env)) ELSE NoValue
          [] e.op = "sizeoftype" -> Value(sizeof_scalar_size(e.t))
          [] e.op = "sizeof" -> Value(sizeof_scalar_size(TypeOf(e.a, env)))
          [] e.op = "addr" -> IF e.a.op = "var" THEN Value(1) ELSE NoValue

\* What the folds rely on in the part of e that is evaluated: operands of one
\* type, so that none is converted; results that neither overflow nor wrap;
\* no folded constant measured by sizeof or asked for its address.
RECURSIVE Plain(_, _)
Plain(e, env) ==
    LET P(x) == Plain(x, env)
        T(x) == Promote(TypeOf(x, env))
    IN  CASE e.op = "bin" /\ e.f \in Logical ->
               /\ P(e.l)
               /\ (e.f = "&&") = (Eval(e.l, env).v = 0) \/ P(e.r)
          [] e.op = "bin" /\ e.f \notin Logical ->
               /\ P(e.l) /\ P(e.r)
               /\ e.f \in Shifts \/ T(e.l) = T(e.r)
               /\ Fits(Compute(e.f, Eval(e.l, env).v, Eval(e.r, env).v),
                       TypeOf(e, env))
          [] e.op = "un" -> P(e.a) /\ (e.f \in {"-", "~"} => ~T(e.a).u)
          [] e.op = "cast" -> P(e.a)
          [] e.op = "cond" -> /\ P(e.c) /\ T(e.a) = T(e.b)
                              /\ P(IF Eval(e.c, env).v # 0 THEN e.a ELSE e.b)
          [] e.op = "sizeof" -> e.a.op \in {"lit", "var"}
          [] e.op = "addr" -> ~env[e.a.x].is_const
          [] OTHER -> TRUE

(***************************************************************************)
(* A run of a function: its statements as code with jumps.  sc gives each  *)
(* name the declaration it stands for, a position in the tree (<<>>: the   *)
(* global of that name); ctx the places break, continue and case lead to.  *)
(***************************************************************************)
RECURSIVE Flat(_, _, _, _)
RECURSIVE FlatList(_, _, _, _, _)
FlatList(list, k, sc, ctx, at) ==
    IF k > Len(list) THEN [code |-> <<>>, sc |-> sc]
    ELSE LET first == Flat(list[k], sc, ctx, Append(at, k))
             rest  == FlatList(list, k + 1, first.sc, ctx, at)
         IN  [code |-> first.code \o rest.code, sc |-> rest.sc]

Flat(n, sc, ctx, at) ==
    LET Code(c) == [code |-> c, sc |-> sc]
        Lab(l) == <<[op |-> "lab", l |-> l]>>
        Jump(l) == <<[op |-> "jmp", l |-> l]>>
        Test(c, l) == <<[op |-> "jz", e |-> c, sc |-> sc, l |-> l]>>
        brk == <<"break", at>>
        cnt == <<"continue", at>>
        top == <<"top", at>>
        Body(a, s, c) == Flat(a, s, c, Append(at, 1)).code
        loop == [ctx EXCEPT !.brk = brk, !.cnt = cnt]
    IN  CASE n.s = "block" -> Code(FlatList(n.b, 1, sc, ctx, at).code)
          [] n.s = "decllist" -> FlatList(n.b, 1, sc, ctx, at)
          [] n.s = "decl" ->
               [code |-> <<[op |-> "let", id |-> at, e |-> n.e, sc |-> sc]>>,
                sc |-> [sc EXCEPT ![n.x] = at]]
          [] n.s \in {"expr", "return"} ->
               Code(<<[op |-> n.s, e |-> n.e, sc |-> sc]>>)
          [] n.s = "if" ->
               Code(Test(n.c, cnt) \o Body(n.a, sc, ctx) \o Jump(brk) \o Lab(cnt)
                      \o Flat(n.b, sc, ctx, Append(at, 2)).code \o Lab(brk))
          [] n.s = "while" ->
               Code(Lab(cnt) \o Test(n.c, brk) \o Body(n.a, sc, loop)
                      \o Jump(cnt) \o Lab(brk))
          [] n.s = "do" ->
               Code(Lab(top) \o Body(n.a, sc, loop) \o Lab(cnt)
                      \o Test(n.c, brk) \o Jump(top) \o Lab(brk))
          [] n.s = "for" ->
               LET i == Flat(n.i, sc, ctx, Append(at, 2))
               IN  Code(i.code \o Lab(top)
                          \o <<[op |-> "jz", e |-> n.c, sc |-> i.sc, l |-> brk]>>
                          \o Body(n.a, i.sc, loop) \o Lab(cnt)
                          \o <<[op |-> "expr", e |-> n.u, sc |-> i.sc]>>
                          \o Jump(top) \o Lab(brk))
          [] n.s = "switch" ->
               Code(<<[op |-> "switch", e |-> n.c, sc |-> sc, l |-> at]>>
                      \o Body(n.a, sc, [ctx EXCEPT !.brk = brk, !.sw = at])
                      \o Lab(brk))
          [] n.s = "case" -> Code(Lab(<<"case", ctx.sw, n.v>>) \o Body(n.a, sc, ctx))
          [] n.s = "default" -> Code(Lab(<<"default", ctx.sw>>) \o Body(n.a, sc, ctx))
          [] n.s = "label" -> Code(Lab(<<"user", n.l>>) \o Body(n.a, sc, ctx))
          [] n.s = "goto" -> Code(Jump(<<"user", n.l>>))
          [] n.s = "break" -> Code(Jump(ctx.brk))
          [] n.s = "continue" -> Code(Jump(ctx.cnt))
          [] n.s = "none" -> Code(<<>>)

CodeOf(body) ==
    Flat(body, [x \in UNION {DOMAIN env : env \in Envs} |-> <<>>],
         [brk |-> <<"none">>, cnt |-> <<"none">>, sw |-> <<"none">>], <<>>).code

LabelAt(code, l) == {k \in DOMAIN code : code[k].op = "lab" /\ code[k].l = l}

\* Every jump has one place to go to.
Accepted(code) ==
    /\ \A k \in DOMAIN code : code[k].op = "jmp" =>
            Cardinality(LabelAt(code, code[k].l)) = 1
    /\ \A k \in DOMAIN code : code[k].op = "lab" =>
            Cardinality(LabelAt(code, code[k].l)) = 1

\* FUEL steps of code with the globals' values given by glob.
Run(code, glob) ==
    LET Env(sc, mem) ==
            [x \in DOMAIN sc |->
                IF sc[x] = <<>> THEN glob[x]
                ELSE IF sc[x] \in DOMAIN mem
                     THEN [ok |-> TRUE, v |-> mem[sc[x]], t |-> TInt]
                     ELSE [ok |-> FALSE, v |-> 0, t |-> TInt]]
        To(s, l) == [s EXCEPT !.pc = CHOOSE k \in LabelAt(code, l) : TRUE]
        Step(s) ==
            LET c == code[s.pc]
                n == [s EXCEPT !.pc = @ + 1]
                r == Eval(c.e, Env(c.sc, s.mem))
                hit == <<"case", c.l, r.v>>
            IN  CASE c.op = "lab" -> n
                  [] c.op = "jmp" -> To(s, c.l)
                  [] c.op \notin {"lab", "jmp"} /\ ~r.ok -> [s EXCEPT !.end = "undefined"]
                  [] c.op = "let" /\ r.ok ->
                       [n EXCEPT !.mem = [i \in DOMAIN @ \cup {c.id} |->
                                            IF i = c.id THEN r.v ELSE @[i]]]
                  [] c.op = "expr" /\ r.ok -> [n EXCEPT !.out = Append(@, r.v)]
                  [] c.op = "return" /\ r.ok ->
                       [n EXCEPT !.out = Append(@, r.v), !.end = "return"]
                  [] c.op = "jz" /\ r.ok -> IF r.v = 0 THEN To(s, c.l) ELSE n
                  [] c.op = "switch" /\ r.ok ->
                       IF LabelAt(code, hit) # {} THEN To(s, hit)
                       ELSE IF LabelAt(code, <<"default", c.l>>) # {}
                            THEN To(s, <<"default", c.l>>)
                       ELSE To(s, <<"break", c.l>>)
        after[k \in 0..FUEL] ==
            IF k = 0 THEN [pc |-> 1, mem |-> <<>>, out |-> <<>>, end |-> "no"]
            ELSE LET s == after[k - 1]
                 IN  IF s.end # "no" THEN s
                     ELSE IF s.pc > Len(code) THEN [s EXCEPT !.end = "end"]
                     ELSE Step(s)
    IN  after[FUEL]

\* What the first run shows the second one shows, as far as both got.
SameRun(a, b) ==
    LET Prefix(s, t) == Len(s) <= Len(t) /\ SubSeq(t, 1, Len(s)) = s
    IN  \/ a.end = "undefined"
        \/ "no" \in {a.end, b.end} /\ (Prefix(a.out, b.out) \/ Prefix(b.out, a.out))
        \/ a.end = b.end /\ a.out = b.out

(***************************************************************************)
(* The trees: an expression gets a node around it; a function gets a       *)
(* statement, or opens or closes a body, as the parser builds them.        *)
(***************************************************************************)
Function == Block(<<>>)

Init ==
    /\ growth = 0
    /\ \/ tree \in Leaves /\ open = <<>>
       \/ /\ tree = Lit(0, TInt)
          /\ \E p \in Prologues : open = <<[head |-> Function, body |-> p]>>

Around(e) ==
    {Bin(f, e, l) : f \in Ops, l \in Leaves} \cup
    {Bin(f, l, e) : f \in Ops, l \in Leaves} \cup
    {Un(f, e) : f \in {"-", "+", "!", "~"}} \cup
    {Cast(t, e) : t \in {TChar, TInt, TLong, TUInt}} \cup
    {Cond(e, l, m) : l, m \in Leaves} \cup {Cond(l, e, e) : l \in Leaves} \cup
    {Sizeof(e), SizeofType(TLong)} \cup
    {AddrOf(l) : l \in {e} \cap {x \in Leaves : x.op = "var"}}

Grow ==
    /\ open = <<>> /\ growth < MAX_GROWTH
    /\ tree' \in Around(tree)
    /\ growth' = growth + 1
    /\ UNCHANGED open

Inner == open[Len(open)]
Heads == {open[k].head.s : k \in DOMAIN open}

Allowed(n) ==
    /\ n.s = "break" => Heads \cap {"while", "do", "for", "switch"} # {}
    /\ n.s = "continue" => Heads \cap {"while", "do", "for"} # {}
    /\ n.s \in {"case", "default"} => "switch" \in Heads

Add(n) == open' = [open EXCEPT ![Len(open)].body = Append(@, n)]

Statement(n) ==
    /\ open # <<>> /\ growth < MAX_STMTS
    /\ Allowed(n)
    /\ Add(n)
    /\ growth' = growth + 1
    /\ UNCHANGED tree

Open(h) ==
    /\ open # <<>> /\ growth < MAX_STMTS
    /\ open' = Append(open, [head |-> h, body |-> <<>>])
    /\ growth' = growth + 1
    /\ UNCHANGED tree

Else ==
    /\ open # <<>> /\ Inner.head.s = "if" /\ Inner.head.a = None
    /\ open' = [open EXCEPT ![Len(open)] =
                   [head |-> [@.head EXCEPT !.a = Block(Inner.body)], body |-> <<>>]]
    /\ UNCHANGED <<tree, growth>>

\* The head with its body put in.
Filled(f) ==
    CASE f.head.s = "block" -> Block(f.body)
      [] f.head.s = "if" /\ f.head.a = None -> [f.head EXCEPT !.a = Block(f.body)]
      [] f.head.s = "if" /\ f.head.a # None -> [f.head EXCEPT !.b = Block(f.body)]
      [] OTHER -> [f.head EXCEPT !.a = Block(f.body)]

Close ==
    /\ Len(open) > 1
    /\ open' = [SubSeq(open, 1, Len(open) - 1) EXCEPT
                  ![Len(open) - 1].body = Append(@, Filled(Inner))]
    /\ UNCHANGED <<tree, growth>>

Next ==
    \/ Grow
    \/ \E n \in Simple : Statement(n)
    \/ \E h \in Opens : Open(h)
    \/ Else
    \/ Close

Spec == Init /\ [][Next]_vars

(***************************************************************************)
(* Properties.                                                             *)
(***************************************************************************)

\* A function built completely.
Complete == Len(open) = 1

\* optimize_expr: where C99 gives an expression a value, and its operands have
\* the one type the folds take them to have, the expression it makes of it has
\* that value, whatever the variables hold.
SameValue ==
    open = <<>> =>
        LET opt == optimize_expr(tree, Consts)
        IN  \A env \in Envs :
                LET was == Eval(tree, env)
                IN  was.ok /\ Plain(tree, env) => Eval(opt, env) = was

\* What spoils the pass, each a mistake of it: a statement it drops holds a label
\* or a case (lost); it leaves what a loop declares in the enclosing block, where
\* that is used or declared again (captured); a recorded constant stands for
\* another variable of its name (stale).
Spoilt(st) == st.lost \/ st.captured \/ st.stale

SameRuns(was, new) ==
    /\ Accepted(new)
    /\ \A env \in Envs : SameRun(Run(was, env), Run(new, env))

Preserved(was, opt) ==
    Accepted(was) /\ ~Spoilt(opt.st) => SameRuns(was, CodeOf(opt.n))

\* optimize_stmt: dead code removal, the folded conditions and the propagated
\* constants leave a function that can still be compiled, every jump, case and
\* label at any depth with its place, and that shows what it showed before,
\* whatever the globals hold, unless it is spoilt in one of the three ways named.
SameBehaviour ==
    Complete => LET body == Block(open[1].body)
                IN  Preserved(CodeOf(body), optimize_translation_unit(body))
=============================================================================
