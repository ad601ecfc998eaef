----------------------------- MODULE Peephole -------------------------------
(***************************************************************************)
(* The peephole pass (src/peephole.c) over the lines of an assembly file:  *)
(* read_lines, the window engine peephole_apply with its six patterns, and *)
(* write_lines.  A line is the instruction it holds; the matchers compare  *)
(* text, so two lines with the same fields are the same text.              *)
(*                                                                         *)
(* What a program does is one run of a small machine on symbols: registers *)
(* in two 32-bit halves, the frame in 4-byte words, the stack, the flags.  *)
(***************************************************************************)
EXTENDS Integers, Sequences

CONSTANTS
    Code,         \* the lines the code generator may write
    MAX_LINES,    \* lines of a file (model bound)
    Regs,         \* registers
    Words,        \* frame offsets N of the words [rbp - N]
    LongLabels,   \* labels longer than the buffers of the parsers
    Cut           \* what is left of a long label in such a buffer

ASSUME PeepholeAssumption == MAX_LINES \in Nat /\ Words \subseteq Nat

VARIABLES
    file,      \* the lines of the file at path
    source,    \* history: the file as the code generator left it
    lines,     \* the array lines
    i,         \* the index of the window (from 1)
    status     \* "codegen", "scan", "write", "done", "failed", "lost"

vars == <<file, source, lines, i, status>>

(***************************************************************************)
(* Lines.  w is the width of the operand, 32 or 64 bits; "xor" always names *)
(* the 32-bit register.  "data" is a line of the data sections of n buffers *)
(* of read_lines.                                                          *)
(***************************************************************************)
Zero(r, w)     == [op |-> "zero", r |-> r, w |-> w]
Xor(r)         == [op |-> "xor", r |-> r]
Mov(d, s, w)   == [op |-> "mov", r |-> d, s |-> s, w |-> w]
PushReg(r)     == [op |-> "push", r |-> r]
PopReg(r)      == [op |-> "pop", r |-> r]
Store(n, r, w) == [op |-> "store", n |-> n, r |-> r, w |-> w]
Load(r, n, w)  == [op |-> "load", r |-> r, n |-> n, w |-> w]
Cmp(r)         == [op |-> "cmp", r |-> r]
Jcc(l)         == [op |-> "jcc", l |-> l]
Jmp(l)         == [op |-> "jmp", l |-> l]
Label(l)       == [op |-> "label", l |-> l]
Data(n)        == [op |-> "data", n |-> n]
Rest           == [op |-> "rest"]      \* the second part of a line cut in two

\* fgets fills a buffer: a longer line becomes several.
read_lines(f) ==
    LET part(l) == IF l.op = "data" /\ l.n > 1 THEN <<Data(1), Rest>> ELSE <<l>>
        upto[k \in 0..Len(f)] ==
            IF k = 0 THEN <<>> ELSE upto[k - 1] \o part(f[k])
    IN  upto[Len(f)]

(***************************************************************************)
(* The patterns.                                                           *)
(***************************************************************************)
match_zero_reg(win) == win[1].op = "zero"
replace_zero_reg(win) == <<Xor(win[1].r)>>

match_nop_move(win) == win[1].op = "mov" /\ win[1].r = win[1].s
replace_nop_move(win) == <<>>

match_push_pop(win) == win[1].op = "push" /\ win[2].op = "pop"
replace_push_pop(win) ==
    IF win[1].r = win[2].r THEN <<>> ELSE <<Mov(win[2].r, win[1].r, 64)>>

\* The register names are compared as text, which has their width.
match_redundant_reload(win) ==
    /\ win[1].op = "store" /\ win[2].op = "load"
    /\ win[1].r = win[2].r /\ win[1].w = win[2].w
    /\ win[1].n = win[2].n
replace_redundant_reload(win) == <<win[1]>>

\* Mutant: the offsets are not compared.
match_redundant_store_AnyOffset(win) ==
    win[1].op = "store" /\ win[2].op = "store"

match_redundant_store(win) ==
    /\ win[1].op = "store" /\ win[2].op = "store"
    /\ win[1].n = win[2].n
replace_redundant_store(win) == <<win[2]>>

\* A jump target is cut to its buffer; a label definition that does not fit
\* its buffer is no match.
pp_parse_jmp_label(line) == IF line.l \in LongLabels THEN Cut[line.l] ELSE line.l

match_dead_jump(win) ==
    /\ win[1].op = "jmp" /\ win[2].op = "label"
    /\ win[2].l \notin LongLabels
    /\ pp_parse_jmp_label(win[1]) = win[2].l
replace_dead_jump(win) == <<win[2]>>

window_size == <<1, 1, 2, 2, 2, 2>>

matcher(p, win) ==
    CASE p = 1 -> match_zero_reg(win)
      [] p = 2 -> match_nop_move(win)
      [] p = 3 -> match_push_pop(win)
      [] p = 4 -> match_redundant_reload(win)
      [] p = 5 -> match_redundant_store(win)
      [] p = 6 -> match_dead_jump(win)

replacer(p, win) ==
    CASE p = 1 -> replace_zero_reg(win)
      [] p = 2 -> replace_nop_move(win)
      [] p = 3 -> replace_push_pop(win)
      [] p = 4 -> replace_redundant_reload(win)
      [] p = 5 -> replace_redundant_store(win)
      [] p = 6 -> replace_dead_jump(win)

Window(p) == SubSeq(lines, i, i + window_size[p] - 1)

Matches(p) == /\ i + window_size[p] - 1 <= Len(lines)
              /\ matcher(p, Window(p))

FirstMatch(p) == Matches(p) /\ \A q \in 1..(p - 1) : ~Matches(q)

(***************************************************************************)
(* The pass.                                                               *)
(***************************************************************************)
Init ==
    /\ file = <<>> /\ source = <<>>
    /\ lines = <<>> /\ i = 1
    /\ status = "codegen"

\* The code generator writes the file, a line at a time.
Emit(line) ==
    /\ status = "codegen"
    /\ Len(file) < MAX_LINES
    /\ file' = Append(file, line)
    /\ source' = file'
    /\ UNCHANGED <<lines, i, status>>

Read ==
    /\ status = "codegen"
    /\ \/ /\ lines' = read_lines(file)
          /\ i' = 1
          /\ status' = "scan"
       \/ /\ status' = "failed"
          /\ UNCHANGED <<lines, i>>
    /\ UNCHANGED <<file, source>>

\* The first pattern that matches replaces its window; the scan goes on behind
\* the lines it put there.
Rewrite(p) ==
    /\ status = "scan" /\ i <= Len(lines)
    /\ FirstMatch(p)
    /\ LET out == replacer(p, Window(p))
       IN  /\ lines' = SubSeq(lines, 1, i - 1) \o out
                         \o SubSeq(lines, i + window_size[p], Len(lines))
           /\ i' = i + Len(out)
    /\ UNCHANGED <<file, source, status>>

\* Mutant: a window without a match is not left.
Advance_Stays == i

Advance == i + 1

Skip ==
    /\ status = "scan" /\ i <= Len(lines)
    /\ \A p \in DOMAIN window_size : ~Matches(p)
    /\ i' = Advance
    /\ UNCHANGED <<file, source, lines, status>>

EndScan ==
    /\ status = "scan" /\ i > Len(lines)
    /\ status' = "write"
    /\ UNCHANGED <<file, source, lines, i>>

\* The file is rewritten in place: a failure leaves a part of it, and is lost on
\* the caller when only fclose meets it.
Write ==
    /\ status = "write"
    /\ \/ file' = lines /\ status' = "done"
       \/ /\ \E k \in 0..Len(lines) : file' = SubSeq(lines, 1, k)
          /\ status' \in {"failed", "lost"}
    /\ UNCHANGED <<source, lines, i>>

Next ==
    \/ \E line \in Code : Emit(line)
    \/ Read
    \/ \E p \in DOMAIN window_size : Rewrite(p)
    \/ Skip
    \/ EndScan
    \/ Write

Pass == (\E p \in DOMAIN window_size : Rewrite(p)) \/ Skip \/ EndScan \/ Write

\* The pass is a loop of one thread: once the file is read it goes on.
Spec == Init /\ [][Next]_vars /\ WF_vars(Pass)

(***************************************************************************)
(* The machine.  A run starts with a symbol for everything it may read and *)
(* ends behind the last line, or by a jump to a label that is not in the   *)
(* program.  taken says which way conditional jumps go; the flags they saw *)
(* are part of the result.                                                 *)
(*                                                                         *)
(* A 32-bit write to a register zeroes its upper half, which the code      *)
(* generator relies on to widen an unsigned value.  narrowed says that a   *)
(* reload has done so: it cannot be left out although the word is there.   *)
(***************************************************************************)
Start == [reg   |-> [r \in Regs |-> [lo |-> <<r, "lo">>, hi |-> <<r, "hi">>]],
          mem   |-> [n \in Words |-> <<"word", n>>],
          stack |-> <<>>, under |-> 0, flags |-> <<"flags">>,
          seen  |-> <<>>, pc |-> 1, exit |-> "", narrowed |-> FALSE]

Goto(prog, s, l) ==
    LET at == {k \in DOMAIN prog : prog[k].op = "label" /\ prog[k].l = l}
    IN  IF at = {} THEN [s EXCEPT !.exit = l]
        ELSE [s EXCEPT !.pc = CHOOSE k \in at : TRUE]

\* Line k loads the word back that the line before it stored from the register.
Reloads(prog, k) ==
    /\ k > 1 /\ prog[k].op = "load"
    /\ prog[k - 1] = Store(prog[k].n, prog[k].r, prog[k].w)

\* One line.
Step(prog, s, taken) ==
    LET c == prog[s.pc]
        n == [s EXCEPT !.pc = @ + 1]
        Put(r, lo, hi) == [n EXCEPT !.reg[r] = [lo |-> lo, hi |-> hi]]
        zero == <<"0">>
        word(a) == IF a \in Words THEN s.mem[a] ELSE <<"caller", a>>
    IN  CASE c.op = "zero"  -> Put(c.r, zero, zero)
          [] c.op = "xor"   -> [Put(c.r, zero, zero) EXCEPT !.flags = <<"xor">>]
          [] c.op = "mov"   -> Put(c.r, s.reg[c.s].lo,
                                   IF c.w = 64 THEN s.reg[c.s].hi ELSE zero)
          [] c.op = "push"  -> [n EXCEPT !.stack = Append(@, s.reg[c.r])]
          [] c.op = "pop" /\ s.stack # <<>> ->
                LET v == s.stack[Len(s.stack)]
                IN  [Put(c.r, v.lo, v.hi) EXCEPT
                        !.stack = SubSeq(@, 1, Len(@) - 1)]
          [] c.op = "pop" /\ s.stack = <<>> ->
                [Put(c.r, <<"under", s.under, "lo">>, <<"under", s.under, "hi">>)
                    EXCEPT !.under = @ + 1]
          [] c.op = "store" ->
                [n EXCEPT !.mem = [a \in Words |->
                    IF a = c.n THEN s.reg[c.r].lo
                    ELSE IF a = c.n - 4 /\ c.w = 64 THEN s.reg[c.r].hi
                    ELSE @[a]]]
          [] c.op = "load"  ->
                [Put(c.r, word(c.n), IF c.w = 64 THEN word(c.n - 4) ELSE zero)
                    EXCEPT !.narrowed =
                        \/ @
                        \/ /\ Reloads(prog, s.pc) /\ c.w = 32
                           /\ s.reg[c.r].hi # zero]
          [] c.op = "cmp"   -> [n EXCEPT !.flags = <<"cmp", s.reg[c.r].lo>>]
          [] c.op = "jcc"   -> [(IF taken THEN Goto(prog, s, c.l) ELSE n)
                                  EXCEPT !.seen = Append(@, s.flags)]
          [] c.op = "jmp"   -> Goto(prog, s, c.l)
          [] OTHER          -> n

Run(prog, taken) ==
    LET after[k \in 0..Len(prog)] ==
            IF k = 0 THEN Start
            ELSE LET s == after[k - 1]
                 IN  IF s.exit # "" \/ s.pc > Len(prog) THEN s
                     ELSE Step(prog, s, taken)
    IN  after[Len(prog)]

\* What a run leaves behind.
Result(s) == [reg |-> s.reg, mem |-> s.mem, stack |-> s.stack,
              under |-> s.under, seen |-> s.seen, exit |-> s.exit]

DataOf(prog) == SelectSeq(prog, LAMBDA l : l.op \in {"data", "rest"})

(***************************************************************************)
(* What the code generator writes.                                         *)
(***************************************************************************)
AsGenerated(prog) ==
    LET Adjacent(a, b) == \E k \in 1..(Len(prog) - 1) :
                              prog[k] = a /\ prog[k + 1] = b
    IN  \* flags are read by the lines right behind the comparison that sets them
        /\ \A k \in DOMAIN prog : prog[k].op = "jcc" =>
               k > 1 /\ prog[k - 1].op \in {"cmp", "jcc"}
        \* one definition of a label; the runs here have no loops
        /\ \A j, k \in DOMAIN prog : prog[j].op = "label" /\ j < k =>
               ~(prog[k].op \in {"label", "jmp", "jcc"} /\ prog[k].l = prog[j].l)
        \* a slot is not written again at once at a smaller width
        /\ \A k \in 1..(Len(prog) - 1) :
               ~(/\ prog[k].op = "store" /\ prog[k + 1].op = "store"
                 /\ prog[k].n = prog[k + 1].n
                 /\ prog[k].w = 64 /\ prog[k + 1].w = 32)
        \* no register is moved to itself to zero its upper half
        /\ \A k \in DOMAIN prog :
               ~(prog[k].op = "mov" /\ prog[k].r = prog[k].s /\ prog[k].w = 32)
        \* no line is longer than the buffer of read_lines
        /\ \A k \in DOMAIN prog : ~(prog[k].op = "data" /\ prog[k].n > 1)
        \* no jump is followed by the label its long target is cut to
        /\ \A l \in LongLabels : ~Adjacent(Jmp(l), Label(Cut[l]))

(***************************************************************************)
(* Properties.                                                             *)
(***************************************************************************)

\* However the six patterns chain, the lines after any number of rewrites do
\* what the generated file did: registers, frame, stack, the flags seen by
\* conditional jumps and the way out are the same.  Not so on a path where a
\* 32-bit reload behind the store of its register (match_redundant_reload) has
\* zeroed an upper half: the pass drops it, and what the program then holds
\* there is wrong for every use at 64 bits.
SameMeaning ==
    status \in {"scan", "write", "done"} /\ AsGenerated(source) =>
        /\ \A taken \in BOOLEAN :
               LET was == Run(source, taken)
               IN  was.narrowed \/ Result(was) = Result(Run(lines, taken))
        /\ DataOf(lines) = DataOf(source)

\* The pass ends: the window moves past every line although rewrites shorten
\* the array under it.
Terminates == status = "scan" ~> status \in {"done", "failed", "lost"}
=============================================================================
