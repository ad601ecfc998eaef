----------------------------- MODULE CodegenStmt ----------------------------
(***************************************************************************)
(* codegen_statement: one function body is turned into assembly, statement *)
(* by statement, and the assembly is then run.                             *)
(*                                                                         *)
(* codegen_statement recurses over the AST; the open calls are ctx.  The   *)
(* CodeGen object mirrors them in tables of its own: break_stack,          *)
(* switch_stack, locals with scope_start, and push_depth, the words pushed *)
(* on the run-time stack where the next instruction will execute.  Code    *)
(* that follows pads its calls to 16 bytes from push_depth, so push_depth  *)
(* has to be true on every path that reaches the instruction.              *)
(*                                                                         *)
(* Of the code only what moves ip or rsp is kept.  Every expression is a   *)
(* call that leaves rsp as it was.  The AST is chosen while it is walked;  *)
(* the two pre-walks that look ahead (collect_user_labels and              *)
(* collect_switch_labels) choose what they find, and the walk that follows *)
(* has to contain it.                                                      *)
(***************************************************************************)
EXTENDS Integers, Sequences, FiniteSets, SequencesExt

CONSTANTS
    Names,     \* local variables
    Labels,    \* user labels
    MaxStmts,  \* model bound: statements of the body
    MaxCases,  \* model bound: case and default labels of one switch
    MaxLeak    \* model bound: how far rsp may stray while the code runs

ASSUME CodegenStmtAssumption ==
    /\ MaxStmts \in Nat /\ MaxCases \in Nat /\ MaxLeak \in Nat

VARIABLES
    pc,            \* "stmt", "return", "run", "halt" or "error"
    ctx,           \* the open calls of codegen_statement, innermost last
    label_count, break_stack, switch_stack, locals, scope_start, push_depth,
    user_labels,
    code,          \* the instructions emitted
    last_is_return,
    stmts,         \* statements met
    decls,         \* history: declarations met
    ip, rsp        \* the running code; rsp counts words pushed

emitter == <<ctx, label_count, break_stack, switch_stack, locals, scope_start,
             push_depth, user_labels, code, last_is_return, stmts, decls>>
vars == <<pc, emitter, ip, rsp>>

(***************************************************************************)
(* Instructions.  A label is named by its prefix and number; "owner" is    *)
(* the number of the statement that C says the jump or the label belongs   *)
(* to, and "depth" is push_depth where the instruction is emitted.         *)
(***************************************************************************)
Ins(op, prefix, id, owner, depth) ==
    [op |-> op, to |-> <<prefix, id>>, owner |-> owner, depth |-> depth]

Lab(prefix, id, d) == Ins("label", prefix, id, id, d)
Jmp(prefix, id, d) == Ins("jmp", prefix, id, id, d)
Jcc(prefix, id, d) == Ins("jcc", prefix, id, id, d)
Op(op, d) == Ins(op, "", 0, 0, d)

\* codegen_expression: a call, made at the given depth.
Expr(d) == <<Op("call", d)>>

\* An expression tested by emit_cond_cmp_zero and a conditional jump.
Cond(prefix, id, d) == Expr(d) \o <<Jcc(prefix, id, d)>>

(***************************************************************************)
(* The open calls.                                                         *)
(***************************************************************************)
Frame(kind, id, opt) ==
    [kind |-> kind, id |-> id, opt |-> opt,
     saved_scope_start |-> scope_start, saved_local_count |-> Len(locals),
     names |-> [n \in Names |-> 0], cases |-> 0]

Top == Last(ctx)
Outer == Front(ctx)

Loops == {"while", "do", "for"}
Scopes == {"block", "for"}

\* Positions of the open calls of some kinds; the innermost one.
Open(kinds) == {i \in DOMAIN ctx : ctx[i].kind \in kinds}
Innermost(kinds) == Max(Open(kinds) \cup {0})

\* C's meaning of break and continue: the statement they belong to.
BreakOwner == ctx[Innermost(Loops \cup {"switch"})].id
ContinueOwner == ctx[Innermost(Loops)].id

Init ==
    /\ pc = "return"
    /\ ctx = <<>>
    /\ label_count = 1
    /\ break_stack = <<>> /\ switch_stack = <<>>
    /\ locals = <<>> /\ scope_start = 0
    /\ push_depth = 0
    /\ user_labels \in BoundedSeq(Labels, 2)
    /\ code = <<>>
    /\ last_is_return = FALSE
    /\ stmts = 0 /\ decls = 0
    /\ ip = 0 /\ rsp = 0

\* compile_error during code generation exits.
CompileError == pc' = "error" /\ UNCHANGED <<emitter, ip, rsp>>

\* collect_user_labels rejects a duplicate before anything is emitted.
collect_user_labels ==
    /\ stmts = 0 /\ pc = "return"
    /\ ~IsInjective(user_labels)
    /\ CompileError

\* codegen_statement is entered for one more statement.
Visit ==
    /\ pc = "stmt"
    /\ stmts < MaxStmts
    /\ stmts' = stmts + 1
    /\ UNCHANGED <<user_labels, ip, rsp>>

Emit(is) == code' = code \o is

\* The next child of a block or of the function body is visited.
NextStatement ==
    /\ pc = "return"
    /\ ctx # <<>> => Top.kind = "block"
    /\ IsInjective(user_labels)
    /\ stmts < MaxStmts
    /\ pc' = "stmt"
    /\ UNCHANGED <<emitter, ip, rsp>>

(***************************************************************************)
(* Statements without a body.                                              *)
(***************************************************************************)

\* Mutant: the oldest of several variables of one name wins.
codegen_find_var_Oldest(n) ==
    CHOOSE i \in DOMAIN locals :
        locals[i].name = n /\ \A j \in 1..(i - 1) : locals[j].name # n

\* The innermost shadow wins.
codegen_find_var(n) ==
    CHOOSE i \in DOMAIN locals :
        locals[i].name = n /\ \A j \in (i + 1)..Len(locals) : locals[j].name # n

\* The name is declared in the current scope.
Redeclared(n) == \E i \in (scope_start + 1)..Len(locals) : locals[i].name = n

\* The declaration is noted in the scope it belongs to (a history: names[n] is
\* its number), and in locals.
AddVar(frames, n) ==
    /\ decls' = decls + 1
    /\ locals' = Append(locals, [name |-> n, decl |-> decls'])
    /\ LET scopes == {i \in DOMAIN frames : frames[i].kind \in Scopes}
       IN ctx' = IF scopes = {} THEN frames
                 ELSE [frames EXCEPT ![Max(scopes)].names[n] = decls + 1]

Declaration(n) ==
    /\ Visit
    /\ \/ /\ Redeclared(n)
          /\ pc' = "error"
          /\ UNCHANGED <<ctx, label_count, break_stack, switch_stack, locals,
                         scope_start, push_depth, code, last_is_return, decls>>
       \/ /\ ~Redeclared(n)
          /\ AddVar(ctx, n)
          /\ Emit(Expr(push_depth))
          /\ pc' = "return"
          /\ last_is_return' = FALSE
          /\ UNCHANGED <<label_count, break_stack, switch_stack, scope_start,
                         push_depth>>

\* A statement that emits its code and is done.
Simple(is, is_return) ==
    /\ Visit
    /\ Emit(is)
    /\ pc' = "return"
    /\ last_is_return' = is_return
    /\ UNCHANGED <<ctx, label_count, break_stack, switch_stack, locals, scope_start,
                   push_depth, decls>>

Expression == Simple(Expr(push_depth), FALSE)

\* The epilogue that a return emits resets rsp from rbp.
Return == Simple(Expr(push_depth) \o <<Op("ret", push_depth)>>, TRUE)

Break ==
    /\ Open(Loops \cup {"switch"}) # {}
    /\ Simple(<<Ins("jmp", "break", Last(break_stack).break_label, BreakOwner,
                    push_depth)>>, FALSE)

\* Mutant: the innermost entry is taken, a switch or not.
ContinueTarget_Innermost == Last(break_stack).continue_label

\* The nearest entry of break_stack that is a loop.
ContinueTarget ==
    break_stack[Max({i \in DOMAIN break_stack :
                        break_stack[i].continue_label # -1})].continue_label

Continue ==
    /\ Open(Loops) # {}
    /\ Simple(<<Ins("jmp", "continue", ContinueTarget, ContinueOwner, push_depth)>>,
              FALSE)

Goto(l) ==
    \/ /\ Contains(user_labels, l)
       /\ Simple(<<Jmp("usr", l, push_depth)>>, FALSE)
    \/ /\ ~Contains(user_labels, l)
       /\ pc = "stmt"
       /\ CompileError

(***************************************************************************)
(* Statements with a body: what is emitted before it.                      *)
(***************************************************************************)
Enter(frame, is) ==
    /\ Visit
    /\ Emit(is)
    /\ ctx' = Append(ctx, frame)
    /\ pc' = "stmt"
    /\ UNCHANGED last_is_return

id == label_count

Block ==
    /\ Visit
    /\ ctx' = Append(ctx, Frame("block", 0, FALSE))
    /\ scope_start' = Len(locals)
    /\ pc' = "return"
    /\ UNCHANGED <<label_count, break_stack, switch_stack, locals, push_depth, code,
                   last_is_return, decls>>

If(has_else) ==
    /\ Enter(Frame("if", id, has_else),
             Cond(IF has_else THEN "else" ELSE "end", id, push_depth))
    /\ label_count' = label_count + 1
    /\ UNCHANGED <<break_stack, switch_stack, locals, scope_start, push_depth, decls>>

\* A loop's break_stack entry has both labels.
PushLoop == break_stack' = Append(break_stack, [break_label |-> id, continue_label |-> id])

While ==
    /\ Enter(Frame("while", id, FALSE),
             <<Lab("start", id, push_depth), Lab("continue", id, push_depth)>>
                \o Cond("stop", id, push_depth))
    /\ label_count' = label_count + 1
    /\ PushLoop
    /\ UNCHANGED <<switch_stack, locals, scope_start, push_depth, decls>>

Do ==
    /\ Enter(Frame("do", id, FALSE), <<Lab("start", id, push_depth)>>)
    /\ label_count' = label_count + 1
    /\ PushLoop
    /\ UNCHANGED <<switch_stack, locals, scope_start, push_depth, decls>>

\* The for statement is a scope of its own, for the variable n it may declare.
For(decl, n, has_cond, has_update) ==
    /\ Visit
    /\ Emit((IF decl THEN Expr(push_depth) ELSE <<>>)
               \o <<Lab("start", id, push_depth)>>
               \o (IF has_cond THEN Cond("stop", id, push_depth) ELSE <<>>))
    /\ scope_start' = Len(locals)
    /\ IF decl THEN AddVar(Append(ctx, Frame("for", id, has_update)), n)
       ELSE /\ ctx' = Append(ctx, Frame("for", id, has_update))
            /\ UNCHANGED <<locals, decls>>
    /\ label_count' = label_count + 1
    /\ PushLoop
    /\ pc' = "stmt"
    /\ UNCHANGED <<switch_stack, push_depth, last_is_return>>

\* collect_switch_labels finds these case and default labels in the body, in
\* order; each gets the next number.
collect_switch_labels(kinds) ==
    [entries |-> [k \in DOMAIN kinds |-> [kind |-> kinds[k], label |-> id + k]],
     default_label |-> LET ds == {k \in DOMAIN kinds : kinds[k] = "default"}
                       IN IF ds = {} THEN -1 ELSE id + Max(ds)]

\* The i-th of a set of positions, in order.
Nth(S, i) == CHOOSE x \in S : Cardinality({y \in S : y <= x}) = i

\* The discriminant is pushed, compared with every case, and stays pushed while
\* the body runs.
Switch(kinds) ==
    LET sc == collect_switch_labels(kinds)
        d == push_depth + 1
        cases == {k \in DOMAIN kinds : kinds[k] = "case"}
        tests == [i \in 1..Cardinality(cases) |->
                     Ins("jcc", "sec", id + Nth(cases, i), id, d)]
        default == IF sc.default_label # -1
                   THEN <<Ins("jmp", "sec", sc.default_label, id, d)>>
                   ELSE <<Jmp("stop", id, d)>>
    IN /\ Enter(Frame("switch", id, FALSE),
                Expr(push_depth) \o <<Op("push", push_depth)>>
                   \o tests \o default)
       /\ label_count' = label_count + 1 + Len(kinds)
       /\ switch_stack' = Append(switch_stack, sc)
       /\ break_stack' = Append(break_stack,
                                [break_label |-> id, continue_label |-> -1])
       /\ push_depth' = push_depth + 1
       /\ UNCHANGED <<locals, scope_start, decls>>

\* A case or default label: its number is looked up in the innermost switch.
Case(kind) ==
    LET s == Innermost({"switch"})
        k == ctx[s].cases + 1
    IN /\ s # 0
       /\ k <= Len(Last(switch_stack).entries)
       /\ Last(switch_stack).entries[k].kind = kind
       /\ Visit
       /\ Emit(<<Ins("label", "sec", Last(switch_stack).entries[k].label, ctx[s].id,
                     push_depth)>>)
       /\ ctx' = Append([ctx EXCEPT ![s].cases = k], Frame("label", 0, FALSE))
       /\ pc' = "stmt"
       /\ UNCHANGED <<label_count, break_stack, switch_stack, locals, scope_start,
                      push_depth, last_is_return, decls>>

Emitted(l) == \E i \in DOMAIN code : code[i].op = "label" /\ code[i].to = <<"usr", l>>

UserLabel(l) ==
    /\ Contains(user_labels, l) /\ ~Emitted(l)
    /\ Enter(Frame("label", 0, FALSE), <<Lab("usr", l, push_depth)>>)
    /\ UNCHANGED <<label_count, break_stack, switch_stack, locals, scope_start,
                   push_depth, decls>>

(***************************************************************************)
(* Statements with a body: what follows it.                                *)
(***************************************************************************)

\* The variables of a block or for statement are forgotten.
LeaveScope ==
    /\ locals' = SubSeq(locals, 1, Top.saved_local_count)
    /\ scope_start' = Top.saved_scope_start

\* What a loop emits after its body.
LoopTail(kind, i, has_update, d) ==
    CASE kind = "while" -> <<Jmp("start", i, d)>>
      [] kind = "do" -> <<Lab("continue", i, d)>> \o Expr(d) \o <<Jcc("start", i, d)>>
      [] kind = "for" -> <<Lab("continue", i, d)>>
                            \o (IF has_update THEN Expr(d) ELSE <<>>)
                            \o <<Jmp("start", i, d)>>

\* Mutant: the discriminant is dropped before the end label.
SwitchTail_Swapped(i, d) ==
    <<Op("pop", d), Lab("stop", i, d - 1), Lab("break", i, d - 1)>>

\* Both ways out of the switch drop the discriminant.
SwitchTail(i, d) == <<Lab("stop", i, d), Lab("break", i, d), Op("pop", d)>>

\* Mutant: a do statement keeps its break_stack entry.
PopBreak_NotDo(kind) == IF kind = "do" THEN break_stack ELSE Front(break_stack)

PopBreak(kind) == Front(break_stack)

\* The innermost open statement is completed.
Leave ==
    /\ pc = "return"
    /\ ctx # <<>>
    /\ last_is_return' = FALSE
    /\ \/ /\ Top.kind = "block"
          /\ LeaveScope
          /\ ctx' = Outer
          /\ UNCHANGED <<pc, code, break_stack, switch_stack, push_depth>>
       \/ /\ Top.kind = "label"
          /\ ctx' = Outer
          /\ UNCHANGED <<pc, code, break_stack, switch_stack, locals, scope_start,
                         push_depth>>
       \/ /\ Top.kind = "if" /\ Top.opt
          /\ ctx' = Outer \o <<[Top EXCEPT !.opt = FALSE]>>
          /\ Emit(<<Jmp("end", Top.id, push_depth), Lab("else", Top.id, push_depth)>>)
          /\ pc' = "stmt"
          /\ UNCHANGED <<break_stack, switch_stack, locals, scope_start, push_depth>>
       \/ /\ Top.kind = "if" /\ ~Top.opt
          /\ ctx' = Outer
          /\ Emit(<<Lab("end", Top.id, push_depth)>>)
          /\ UNCHANGED <<pc, break_stack, switch_stack, locals, scope_start, push_depth>>
       \/ /\ Top.kind \in Loops
          /\ ctx' = Outer
          /\ Emit(LoopTail(Top.kind, Top.id, Top.opt, push_depth)
                     \o <<Lab("stop", Top.id, push_depth),
                          Lab("break", Top.id, push_depth)>>)
          /\ break_stack' = PopBreak(Top.kind)
          /\ IF Top.kind = "for" THEN LeaveScope ELSE UNCHANGED <<locals, scope_start>>
          /\ UNCHANGED <<pc, switch_stack, push_depth>>
       \/ /\ Top.kind = "switch"
          /\ Top.cases = Len(Last(switch_stack).entries)
          /\ ctx' = Outer
          /\ switch_stack' = Front(switch_stack)
          /\ break_stack' = PopBreak(Top.kind)
          /\ Emit(SwitchTail(Top.id, push_depth))
          /\ push_depth' = push_depth - 1
          /\ UNCHANGED <<pc, locals, scope_start>>
    /\ UNCHANGED <<label_count, user_labels, stmts, decls, ip, rsp>>

\* Mutant: any return in the body makes the epilogue superfluous.
NeedsEpilogue_AnyReturn == \A i \in DOMAIN code : code[i].op # "ret"

\* A void function whose last statement is not a return gets an epilogue.
NeedsEpilogue == ~last_is_return

\* The end of codegen_function, for a void function; the code is then entered.
FunctionEnd ==
    /\ pc = "return"
    /\ ctx = <<>>
    /\ \A l \in ToSet(user_labels) : Emitted(l)
    /\ IsInjective(user_labels)
    /\ IF NeedsEpilogue THEN Emit(<<Op("ret", push_depth)>>) ELSE UNCHANGED code
    /\ pc' = "run"
    /\ ip' = 1
    /\ UNCHANGED <<ctx, label_count, break_stack, switch_stack, locals, scope_start,
                   push_depth, user_labels, last_is_return, stmts, decls, rsp>>

(***************************************************************************)
(* The machine that runs the code: a conditional jump may go either way.   *)
(***************************************************************************)
Target(to) == CHOOSE i \in DOMAIN code : code[i].op = "label" /\ code[i].to = to

Run ==
    /\ pc = "run"
    /\ ip \in DOMAIN code
    /\ rsp \in -MaxLeak..MaxLeak
    /\ LET i == code[ip]
       IN /\ ip' \in CASE i.op = "jmp" -> {Target(i.to)}
                       [] i.op = "jcc" -> {ip + 1, Target(i.to)}
                       [] OTHER -> {ip + 1}
          /\ rsp' = CASE i.op = "push" -> rsp + 1 [] i.op = "pop" -> rsp - 1
                      [] i.op = "ret" -> 0 [] OTHER -> rsp
          /\ pc' = IF i.op = "ret" THEN "halt" ELSE "run"
    /\ UNCHANGED emitter

Next ==
    \/ collect_user_labels \/ NextStatement
    \/ \E n \in Names : Declaration(n)
    \/ Expression \/ Return \/ Break \/ Continue
    \/ \E l \in Labels : Goto(l) \/ UserLabel(l)
    \/ Block \/ While \/ Do
    \/ \E b \in BOOLEAN : If(b)
    \/ \E n \in Names, decl, has_cond, has_update \in BOOLEAN :
          For(decl, n, has_cond, has_update)
    \/ \E kinds \in BoundedSeq({"case", "default"}, MaxCases) : Switch(kinds)
    \/ \E kind \in {"case", "default"} : Case(kind)
    \/ Leave \/ FunctionEnd \/ Run

Spec == Init /\ [][Next]_vars

(***************************************************************************)
(* Properties.                                                             *)
(***************************************************************************)
\* break_stack and switch_stack list the enclosing statements, outermost first,
\* and push_depth counts the discriminants of the enclosing switches; at the
\* end of the function nothing is left of any of them for the next function.
StacksMatchNesting ==
    LET enclosing == Open(Loops \cup {"switch"})
    IN pc \in {"stmt", "return", "run"} =>
        /\ Len(break_stack) = Cardinality(enclosing)
        /\ \A i \in enclosing :
              LET entry == break_stack[Cardinality({j \in enclosing : j <= i})]
              IN /\ entry.break_label = ctx[i].id
                 /\ entry.continue_label = IF ctx[i].kind = "switch" THEN -1 ELSE ctx[i].id
        /\ Len(switch_stack) = Cardinality(Open({"switch"}))
        /\ push_depth = Cardinality(Open({"switch"}))

\* C's scope rule for variables: a name means the declaration of the innermost
\* enclosing scope that has one, and a scope that ended has no effect.
VarScoping ==
    \A n \in Names :
        LET declaring == {i \in DOMAIN ctx : ctx[i].names[n] # 0}
        IN declaring # {} =>
              /\ \E i \in DOMAIN locals : locals[i].name = n
              /\ locals[codegen_find_var(n)].decl = ctx[Max(declaring)].names[n]

Jumps == {i \in DOMAIN code : code[i].op \in {"jmp", "jcc"}}

\* Every jump of a finished function has exactly one label to go to, and it is
\* the label of the statement that C says the jump belongs to: a break and a
\* continue their innermost statement, a case its own switch and no nested one.
JumpsResolved ==
    pc \in {"run", "halt"} =>
        \A j \in Jumps :
            LET targets == {i \in DOMAIN code :
                              code[i].op = "label" /\ code[i].to = code[j].to}
            IN /\ Cardinality(targets) = 1
               /\ \A i \in targets : code[i].owner = code[j].owner

\* A continue or goto of the body leaves or enters a switch.
CrossesSwitch ==
    \E j \in Jumps :
        /\ code[j].to[1] \in {"continue", "usr"}
        /\ code[Target(code[j].to)].depth # code[j].depth

\* While the code runs, rsp is where codegen assumed it, on every path through
\* loops, switches, breaks and fallthrough, unless a continue or a goto crosses
\* the border of a switch.
RspAsAssumed ==
    pc = "run" /\ ip \in DOMAIN code /\ ~CrossesSwitch => rsp = code[ip].depth

\* Control never runs past the last instruction of a void function.
StaysInFunction == pc = "run" => ip \in DOMAIN code

\* "16-byte alignment that SysV AMD64 requires at every internal call site": a
\* call is padded by a word when push_depth is odd, and is then aligned.
CallsAligned ==
    pc = "run" /\ ip \in DOMAIN code /\ code[ip].op = "call"
        => (rsp + (code[ip].depth % 2)) % 2 = 0
=============================================================================
