-------------------------------- MODULE Calls -------------------------------
(***************************************************************************)
(* How codegen_expression evaluates nested expressions: the operands it    *)
(* spills to the run-time stack, argument marshalling at a call site, and  *)
(* the registers and stack words that the prologue of the callee reads.    *)
(*                                                                         *)
(* Only forward jumps occur in the code of an expression, so an action     *)
(* both emits an instruction (push_depth is codegen's own count of the     *)
(* words it pushed) and executes it (stack, regs and r10 are the machine). *)
(* An operand is evaluated into rax or xmm0, which is acc; a word is named *)
(* by the expression and the operand it belongs to.                        *)
(***************************************************************************)
EXTENDS Naturals, Sequences, FiniteSets

CONSTANTS
    NGP,        \* general argument registers: 6
    NXMM,       \* floating-point argument registers: 8
    OuterCalls, \* the expressions evaluated: calls with their signature, operators
    InnerCalls, \* the expressions nested in their operands
    MaxCalls    \* model bound: expressions nested in one

\* gp: an integer or pointer; fp: a floating-point value; s1, s2: a struct of one
\* or two eightbytes; sm: a struct of more than 16 bytes.
Classes == {"gp", "fp", "s1", "s2", "sm"}
Structs == {"s1", "s2", "sm"}

\* Words of a value of the class; three stand for the size of an sm.
Words(c) == CASE c = "s2" -> 2 [] c = "sm" -> 3 [] OTHER -> 1

\* The other expressions with operands that are evaluated, and their number.
Operators == [unary |-> 1, inc_dec |-> 1, address_of |-> 1, deref |-> 1, member |-> 1,
              binary |-> 2, index |-> 2, logical |-> 2, comma |-> 2,
              assign_var |-> 1, assign_member |-> 2, assign_deref |-> 2,
              assign_element |-> 3, conditional |-> 3, literal |-> 3]

\* named is the number of declared parameters: args holds more in a call of a
\* variadic function.
IsSig(s) ==
    /\ s.kind \in {"direct", "indirect"} \cup DOMAIN Operators
    /\ s.ret \in Classes
    /\ s.args \in Seq(Classes)
    /\ s.named \in 0..Len(s.args)
    /\ s.named < Len(s.args) => s.kind = "direct" /\ s.named > 0
    /\ s.kind \in DOMAIN Operators =>
          Len(s.args) = Operators[s.kind] /\ s.ret \notin Structs

ASSUME CallsAssumption ==
    /\ NGP \in Nat \ {0} /\ NXMM \in Nat
    /\ MaxCalls \in Nat
    /\ \A s \in OuterCalls \cup InnerCalls : IsSig(s)

VARIABLES
    stack,       \* words on the run-time stack above the frame, top last
    push_depth,
    regs,        \* argument registers
    r10,         \* the callee's address of an indirect call; also the popped
                 \* left operand of a binary expression
    acc,         \* the operand evaluated last
    open,        \* the calls being emitted, innermost last
    calls        \* calls begun

call_vars == <<stack, push_depth, regs, r10, acc, open, calls>>

Registers == [bank : {"gp"}, no : 0..(NGP - 1)] \cup [bank : {"fp"}, no : 0..(NXMM - 1)]
GP(i) == [bank |-> "gp", no |-> i]

\* Word w of argument i of a call; argument 0 is the hidden result pointer of a
\* direct call and the callee's address of an indirect one.
Word(c, i, w) == [call |-> c, arg |-> i, word |-> w]
Junk == Word(0, 0, 0)

(***************************************************************************)
(* compute_call_layout: where each argument goes.                          *)
(***************************************************************************)
ArgSlot(bank, at) == [bank |-> bank, at |-> at]

FitsInRegs(gp_next, n) == gp_next + n <= NGP

\* The counters and slot after each argument.
compute_call_layout(args, sret) ==
    LET st[i \in 0..Len(args)] ==
          IF i = 0
          THEN [gp_next |-> IF sret THEN 1 ELSE 0, xmm_next |-> 0, stack_off |-> 0,
                slot |-> ArgSlot("none", 0)]
          ELSE LET p == st[i - 1]
                   n == Words(args[i])
               IN CASE args[i] = "fp" /\ p.xmm_next < NXMM ->
                          [p EXCEPT !.xmm_next = @ + 1, !.slot = ArgSlot("fp", p.xmm_next)]
                    [] args[i] \in {"gp", "s1", "s2"} /\ FitsInRegs(p.gp_next, n) ->
                          [p EXCEPT !.gp_next = @ + n, !.slot = ArgSlot("gp", p.gp_next)]
                    [] OTHER ->
                          [p EXCEPT !.stack_off = @ + n, !.slot = ArgSlot("stack", p.stack_off)]
    IN [items |-> [i \in 1..Len(args) |-> st[i].slot],
        stack_words |-> st[Len(args)].stack_off]

\* The plain convention of scalar calls.
ScalarLayout(n) ==
    [items |-> [i \in 1..n |-> IF i <= NGP THEN ArgSlot("gp", i - 1)
                                           ELSE ArgSlot("stack", i - 1 - NGP)],
     stack_words |-> IF n > NGP THEN n - NGP ELSE 0]

Sret(sig) == sig.ret = "sm"
HasSpecial(args) == \E i \in DOMAIN args : args[i] # "gp"

\* What the prologue of the callee reads its parameters from.
PrologueLayout(sig) ==
    LET params == SubSeq(sig.args, 1, sig.named)
    IN IF Sret(sig) \/ HasSpecial(params)
       THEN compute_call_layout(params, Sret(sig))
       ELSE ScalarLayout(sig.named)

(***************************************************************************)
(* How a variadic callee finds the arguments after its parameters.  The    *)
(* prologue saves the argument registers: one word for each general one,   *)
(* then two for each floating-point one.  A va_list holds the offsets of   *)
(* the next saved register of each bank and of the next stack argument.    *)
(***************************************************************************)
AtMost(n, max) == IF n < max THEN n ELSE max

\* The parameters are counted, a struct as one general word and the hidden
\* result pointer not at all.
VaStart(sig) ==
    LET named_xmm == Cardinality({i \in 1..sig.named : sig.args[i] = "fp"})
        named_gp == sig.named - named_xmm
    IN [gp_offset |-> AtMost(named_gp, NGP),
        fp_offset |-> NGP + 2 * AtMost(named_xmm, NXMM),
        overflow |-> named_gp - AtMost(named_gp, NGP)]

\* Mutant: a struct of two words is taken from the registers when one is left.
InSaveArea_OneLeft(ap, c) ==
    CASE c = "fp" -> ap.fp_offset < NGP + 2 * NXMM
      [] c = "sm" -> FALSE
      [] OTHER -> ap.gp_offset < NGP

\* va_arg takes a value of class c from the saved registers.
InSaveArea(ap, c) ==
    CASE c = "fp" -> ap.fp_offset < NGP + 2 * NXMM
      [] c = "sm" -> FALSE
      [] OTHER -> ap.gp_offset + Words(c) <= NGP

\* Where va_arg reads its value, and the va_list it leaves.
VaArg(ap, c) ==
    CASE ~InSaveArea(ap, c) ->
           [from |-> ArgSlot("stack", ap.overflow), ap |-> [ap EXCEPT !.overflow = @ + Words(c)]]
      [] InSaveArea(ap, c) /\ c = "fp" ->
           [from |-> ArgSlot("saved", ap.fp_offset), ap |-> [ap EXCEPT !.fp_offset = @ + 2]]
      [] OTHER ->
           [from |-> ArgSlot("saved", ap.gp_offset), ap |-> [ap EXCEPT !.gp_offset = @ + Words(c)]]

\* What va_arg reads argument i from when the function asks for the arguments
\* in order, each by its own type; va_copy keeps all of the va_list.
VaSlot(sig, i) ==
    LET walk[k \in sig.named..i] ==
          IF k = sig.named THEN [from |-> ArgSlot("none", 0), ap |-> VaStart(sig)]
                           ELSE VaArg(walk[k - 1].ap, sig.args[k])
    IN walk[i].from

(***************************************************************************)
(* The instructions of a call site.                                        *)
(***************************************************************************)
I(op, n) == [op |-> op, n |-> n, reg |-> GP(0)]
R(op, n, reg) == [op |-> op, n |-> n, reg |-> reg]

Sub(n) == IF n = 0 THEN <<>> ELSE <<I("sub", n)>>
Add(n) == IF n = 0 THEN <<>> ELSE <<I("add", n)>>

\* The concatenation of f[1], ..., f[n].
Concat(f) ==
    LET c[i \in 0..Len(f)] == IF i = 0 THEN <<>> ELSE c[i - 1] \o f[i]
    IN c[Len(f)]

\* Mutant: outstanding pushes are not counted.
Padded_NoDepth(words, depth) == words + (words % 2)

\* An area of words is padded so that rsp is 16-byte aligned with the words
\* already pushed.
Padded(words, depth) == words + ((depth + words) % 2)

\* Mutant: the first spill is looked for at the top of the stack.
SpillOffset_PopOrder(j, nspill) == j - 1

\* The j-th spill, in words above rsp.
SpillOffset(j, nspill) == nspill - j

\* The layout-driven path: stack arguments first, then the register arguments,
\* spilled in order and loaded from the spills.  Structs are only known to it
\* in direct calls.
LayoutPath(sig, L, region) ==
    LET n == Len(sig.args)
        words(i) == IF sig.kind = "direct" THEN Words(sig.args[i]) ELSE 1
        mem(i) == L.items[i].bank = "stack"
        stored(i) == IF mem(i)
                     THEN <<I("eval", i)>> \o
                          [w \in 1..words(i) |-> R("store", L.items[i].at + w - 1, GP(w - 1))]
                     ELSE <<>>
        spills(i) == IF mem(i) THEN <<>>
                     ELSE <<I("eval", i)>> \o [w \in 1..words(i) |-> I("push", w)]
        regsOf(i) == IF mem(i) THEN <<>>
                     ELSE [w \in 1..words(i) |->
                             [bank |-> L.items[i].bank, no |-> L.items[i].at + w - 1]]
        sret == sig.kind = "direct" /\ Sret(sig)
        spilled == (IF sret THEN <<GP(0)>> ELSE <<>>) \o Concat([i \in 1..n |-> regsOf(i)])
        nspill == Len(spilled)
    IN Sub(region) \o Concat([i \in 1..n |-> stored(i)])
         \o (IF sret THEN <<I("eval", 0), I("push", 0)>> ELSE <<>>)
         \o Concat([i \in 1..n |-> spills(i)])
         \o [j \in 1..nspill |-> R("load", SpillOffset(j, nspill), spilled[j])]
         \o Add(nspill)

\* Operands, evaluated and pushed in order; registers popped.
EvalPush(i) == <<I("eval", i), I("push", 1)>>
PushAll(n) == Concat([i \in 1..n |-> EvalPush(i)])
PopAll(n) == [i \in 1..n |-> R("pop", 0, GP(n - i))]

\* Arguments after the NGP-th are pushed right to left.
PushStackArgs(n) == Concat([k \in 1..(n - NGP) |-> EvalPush(n + 1 - k)])

\* The scalar path with more arguments than registers.
StackPath(n, pad) == Sub(pad) \o PushStackArgs(n) \o PushAll(NGP) \o PopAll(NGP)

DirectCall(sig, depth) ==
    LET n == Len(sig.args)
        L == compute_call_layout(sig.args, Sret(sig))
        region == Padded(L.stack_words, depth)
        area == Padded(n - NGP, depth)
    IN CASE sig.ret # "gp" \/ HasSpecial(sig.args) ->
              LayoutPath(sig, L, region) \o <<I("call", 0)>> \o Add(region)
         [] sig.ret = "gp" /\ ~HasSpecial(sig.args) /\ n <= NGP ->
              PushAll(n) \o PopAll(n) \o <<I("padcall", 0)>>
         [] OTHER -> StackPath(n, area - (n - NGP)) \o <<I("call", 0)>> \o Add(area)

\* Mutant: the padding below the callee's address is forgotten.
CalleeSlot_NoPad(n, area) == n - NGP

\* Where the callee's address lies above the stack arguments.
CalleeSlot(n, area) == area

\* Mutant: the callee's address is left on the stack.
Cleanup_KeepsCallee(area) == area

\* The stack arguments, their padding and the callee's address.
Cleanup(area) == area + 1

\* A call through a pointer: the address is pushed below the arguments.  Only
\* floating-point parameters select the layout path, and a struct counts as one
\* general word.
IndirectCall(sig, depth) ==
    LET n == Len(sig.args)
        d == depth + 1
        kinds == [i \in 1..n |-> IF sig.args[i] = "fp" THEN "fp" ELSE "gp"]
        L == compute_call_layout(kinds, FALSE)
        region == Padded(L.stack_words, d)
        area == Padded(n - NGP, d)
        fp == \E i \in 1..n : kinds[i] = "fp"
    IN <<I("eval", 0), I("push", 0)>> \o
       CASE fp -> LayoutPath(sig, L, region)
                     \o <<I("loadfn", region), I("call", 0)>> \o Add(region + 1)
         [] ~fp /\ n <= NGP ->
              PushAll(n) \o PopAll(n) \o <<I("popfn", 0), I("padcall", 0)>>
         [] OTHER ->
              StackPath(n, area - (n - NGP))
                 \o <<I("loadfn", CalleeSlot(n, area)), I("call", 0)>>
                 \o Add(Cleanup(area))

(***************************************************************************)
(* The instructions of the other expressions.  An operand or an address    *)
(* that has to survive the evaluation of the next one is pushed, and       *)
(* popped into rcx, rbx or rdi; of a floating-point operand xmm0 is        *)
(* stored below rsp and loaded back.                                       *)
(***************************************************************************)

\* Operand i, evaluated while word a lies on the stack.
Above(a, i) == <<I("push", 1), I("eval", i), I("popleft", a)>>

Binary == <<I("eval", 1)>> \o Above(1, 2)

\* The base, the index scaled and added: the address of an element.
emit_array_index_addr == <<I("eval", 1)>> \o Above(1, 2)

\* Through a member of an object, a pointer or an array element; a struct is
\* copied to the popped address, a bit-field updated there.
AssignMember == <<I("eval", 2)>> \o Above(2, 1)
AssignDeref == <<I("eval", 1)>> \o Above(1, 2)
AssignElement == emit_array_index_addr \o <<I("addr", 4)>> \o Above(4, 3)

\* To a variable, which needs no address on the stack.
AssignVariable == <<I("eval", 1)>>

\* One operand, or the address it designates, is evaluated and worked on in
\* registers; ++ and -- keep the address in rbx, which no call changes, and use
\* it before the next evaluation.
Unary == <<I("eval", 1)>>
IncDec == <<I("eval", 1)>>
AddressOf == <<I("eval", 1)>>
Deref == <<I("eval", 1)>>
MemberAccess == <<I("eval", 1)>>

\* A conditional jump over n instructions, and an unconditional one.
Logical == <<I("eval", 1), I("jcc", 1), I("eval", 2)>>
Conditional == <<I("eval", 1), I("jcc", 2), I("eval", 2), I("jmp", 1), I("eval", 3)>>
Comma == <<I("eval", 1), I("eval", 2)>>

\* The elements of an initializer list, each stored to the frame.
CompoundLiteral == <<I("eval", 1), I("eval", 2), I("eval", 3)>>

Emission(sig, depth) ==
    CASE sig.kind = "direct" -> DirectCall(sig, depth)
      [] sig.kind = "indirect" -> IndirectCall(sig, depth)
      [] sig.kind = "binary" -> Binary
      [] sig.kind = "index" -> emit_array_index_addr
      [] sig.kind = "assign_member" -> AssignMember
      [] sig.kind = "assign_deref" -> AssignDeref
      [] sig.kind = "assign_element" -> AssignElement
      [] sig.kind = "assign_var" -> AssignVariable
      [] sig.kind = "unary" -> Unary
      [] sig.kind = "inc_dec" -> IncDec
      [] sig.kind = "address_of" -> AddressOf
      [] sig.kind = "deref" -> Deref
      [] sig.kind = "member" -> MemberAccess
      [] sig.kind = "logical" -> Logical
      [] sig.kind = "conditional" -> Conditional
      [] sig.kind = "comma" -> Comma
      [] sig.kind = "literal" -> CompoundLiteral

(***************************************************************************)
(* Behaviour.                                                              *)
(***************************************************************************)
Init_Calls ==
    \* inside a switch the discriminant is on the stack
    /\ \E d \in 0..1 : push_depth = d /\ stack = [i \in 1..d |-> Junk]
    /\ regs = [r \in Registers |-> Junk]
    /\ r10 = Junk
    /\ acc = Junk
    /\ open = <<>>
    /\ calls = 0

Top == open[Len(open)]
Outer == SubSeq(open, 1, Len(open) - 1)
Head0 == Head(Top.todo)
At(op) == open # <<>> /\ Top.todo # <<>> /\ Head0.op = op

Consume == [open EXCEPT ![Len(open)].todo = Tail(@)]

\* codegen_expression reaches a call, whose value will be the operand "value".
Begin(sig, frames, value) ==
    /\ calls < MaxCalls
    /\ calls' = calls + 1
    /\ open' = Append(frames, [id |-> calls + 1, sig |-> sig, value |-> value,
                               words |-> Len(stack),
                               todo |-> Emission(sig, push_depth)])
    /\ UNCHANGED <<stack, push_depth, regs, r10, acc>>

Start == open = <<>> /\ calls = 0 /\ \E sig \in OuterCalls : Begin(sig, <<>>, Junk)

\* What an operand's evaluation leaves in rax or xmm0.  A struct operand yields
\* its address on the layout path of a direct call, and elsewhere a part of it.
Operand(i) ==
    IF i > 0 /\ Top.sig.args[i] \in Structs /\ Top.sig.kind # "direct"
    THEN Junk ELSE Word(Top.id, i, 0)

\* A struct that is passed after the parameters is a variable: the type of any
\* other expression is not looked up when it is placed.
HoldsExpression(i) ==
    i > 0 /\ (i > Top.sig.named => Top.sig.args[i] \notin Structs)

\* An operand without calls, or one that contains a call.
Eval ==
    /\ At("eval")
    /\ \/ /\ acc' = Operand(Head0.n)
          /\ open' = Consume
          /\ UNCHANGED <<stack, push_depth, regs, r10, calls>>
       \/ /\ HoldsExpression(Head0.n)
          /\ \E sig \in InnerCalls : Begin(sig, Consume, Operand(Head0.n))

\* lea rax: an address computed from what is in rax or in the frame.
Address ==
    /\ At("addr")
    /\ acc' = Word(Top.id, Head0.n, 0)
    /\ open' = Consume
    /\ UNCHANGED <<stack, push_depth, regs, r10, calls>>

\* The code jumps over n instructions or goes on.
Jump ==
    /\ At("jcc") \/ At("jmp")
    /\ LET over == [open EXCEPT ![Len(open)].todo = SubSeq(@, 2 + Head0.n, Len(@))]
       IN open' = over \/ (At("jcc") /\ open' = Consume)
    /\ UNCHANGED <<stack, push_depth, regs, r10, acc, calls>>

Of(w) == [acc EXCEPT !.word = w]

Push ==
    /\ \/ At("push") /\ stack' = Append(stack, Of(Head0.n)) /\ push_depth' = push_depth + 1
       \/ /\ At("sub")
          /\ stack' = stack \o [k \in 1..Head0.n |-> Junk]
          /\ push_depth' = push_depth + Head0.n
    /\ open' = Consume
    /\ UNCHANGED <<regs, r10, acc, calls>>

\* mov [rsp + 8 n], rax, for the word the register number selects.
Store ==
    /\ At("store")
    /\ stack' = [stack EXCEPT ![Len(stack) - Head0.n] = Of(Head0.reg.no + 1)]
    /\ open' = Consume
    /\ UNCHANGED <<push_depth, regs, r10, acc, calls>>

Shrink(n) == stack' = SubSeq(stack, 1, Len(stack) - n) /\ push_depth' = push_depth - n

Pop ==
    /\ \/ /\ At("pop")
          /\ regs' = [regs EXCEPT ![Head0.reg] = stack[Len(stack)]]
          /\ Shrink(1) /\ UNCHANGED r10
       \/ /\ At("popfn") \/ At("popleft")
          /\ r10' = stack[Len(stack)]
          /\ Shrink(1) /\ UNCHANGED regs
       \/ At("add") /\ Shrink(Head0.n) /\ UNCHANGED <<regs, r10>>
    /\ open' = Consume
    /\ UNCHANGED <<acc, calls>>

Load ==
    /\ \/ /\ At("load")
          /\ regs' = [regs EXCEPT ![Head0.reg] = stack[Len(stack) - Head0.n]]
          /\ UNCHANGED r10
       \/ At("loadfn") /\ r10' = stack[Len(stack) - Head0.n] /\ UNCHANGED regs
    /\ open' = Consume
    /\ UNCHANGED <<stack, push_depth, acc, calls>>

\* The callee runs: every argument register and r10 is its own.
Call ==
    /\ At("call") \/ At("padcall")
    /\ regs' = [r \in Registers |-> Junk]
    /\ r10' = Junk
    /\ open' = Consume
    /\ UNCHANGED <<stack, push_depth, acc, calls>>

\* The value of a completed call is the operand of the one around it.
End ==
    /\ open # <<>> /\ Top.todo = <<>>
    /\ open' = Outer
    /\ acc' = Top.value
    /\ UNCHANGED <<stack, push_depth, regs, r10, calls>>

Next_Calls == Start \/ Eval \/ Address \/ Jump \/ Push \/ Store \/ Pop \/ Load \/ Call \/ End

Spec_Calls == Init_Calls /\ [][Next_Calls]_call_vars

(***************************************************************************)
(* Properties.                                                             *)
(***************************************************************************)
\* push_depth is the number of words on the run-time stack at every instruction
\* of every nested call, and a completed call leaves the stack as it was.
DepthIsTrue ==
    /\ push_depth = Len(stack)
    /\ open # <<>> /\ Top.todo = <<>> => Len(stack) = Top.words

AtCall == At("call") \/ At("padcall")

\* rsp is 16-byte aligned at every call instruction, whatever is spilled around
\* it.
CallsAligned ==
    AtCall => (Len(stack) + (IF At("padcall") THEN push_depth % 2 ELSE 0)) % 2 = 0

\* The saved register at an offset of the register save area.
Saved(at) == regs[IF at < NGP THEN GP(at) ELSE [bank |-> "fp", no |-> (at - NGP) \div 2]]

\* What the callee finds in word w of a slot: stack arguments start at
\* [rbp + 16], just above the return address.
Found(s, w) ==
    LET at == s.at + w - 1
    IN CASE s.bank = "stack" -> IF at < Len(stack) THEN stack[Len(stack) - at] ELSE Junk
         [] s.bank = "saved" -> Saved(at)
         [] OTHER -> regs[[bank |-> s.bank, no |-> at]]

\* The callee finds argument i, as a parameter or with va_arg.
Arrives(i) ==
    LET s == IF i <= Top.sig.named THEN PrologueLayout(Top.sig).items[i]
                                   ELSE VaSlot(Top.sig, i)
    IN \A w \in 1..Words(Top.sig.args[i]) : Found(s, w) = Word(Top.id, i, w)

ArgumentsArrive ==
    /\ \A i \in 1..Top.sig.named : Arrives(i)
    /\ Sret(Top.sig) => regs[GP(0)] = Word(Top.id, 0, 0)

PassesStruct(sig) == sig.ret \in Structs \/ \E i \in DOMAIN sig.args : sig.args[i] \in Structs

\* Every call passes its arguments, and the hidden result pointer, where the
\* callee's prologue reads them, although calls nested in the arguments use the
\* same registers and the same stack; for calls through a pointer, as long as
\* no struct is passed or returned by value.
CallerMeetsCallee ==
    AtCall /\ (Top.sig.kind = "indirect" => ~PassesStruct(Top.sig)) => ArgumentsArrive

\* The parameters that va_start counts as the caller does: no hidden pointer, no
\* struct of several words, no more floating-point ones than registers.
CountedRight(sig) ==
    /\ ~Sret(sig)
    /\ \A i \in 1..sig.named : Words(sig.args[i]) = 1
    /\ Cardinality({i \in 1..sig.named : sig.args[i] = "fp"}) <= NXMM

\* Every argument that a variadic function gets after its parameters is what
\* va_arg reads, in the order they were passed, although the caller places all
\* arguments at once and the callee walks three cursors: a struct that did not
\* fit leaves a register to a later argument, and stack words are shared by the
\* two banks.
VaArgsArrive ==
    AtCall /\ CountedRight(Top.sig) =>
        \A i \in (Top.sig.named + 1)..Len(Top.sig.args) : Arrives(i)

\* An indirect call jumps to the address that was evaluated before its
\* arguments, a binary operator gets its left operand back, and an assignment
\* the address it stores to, whatever was evaluated in between.
SpillsIntact ==
    /\ AtCall /\ Top.sig.kind = "indirect" => r10 = Word(Top.id, 0, 0)
    /\ At("popleft") => stack[Len(stack)] = Word(Top.id, Head0.n, 1)
=============================================================================
