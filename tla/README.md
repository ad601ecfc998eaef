# A TLA+ model of the ClaudeC99 compiler

ClaudeC99 (`src/`) compiles a large subset of C99 to x86-64 NASM assembly. It is
one sequential process: nothing runs concurrently, nothing survives a run but
the `.asm` files. What makes it hard to get right, and hard to test, is state
that outlives the code that set it: stacks and counters that mirror the C call
stack, flags set around a recursive call, `longjmp` out of any depth, types and
table entries shared by pointer, and a count of pushed words that has to be true
on every path of code that is not yet running. The modules here model that
state, TLC checks them on small instances, and TLAPS proves for every size nearly
all of what eight of the eleven passing runs check (section 5).

## 1. Inventory

| Part | Source | State | Operations | Where it is hard |
|---|---|---|---|---|
| Conditional inclusion | `preprocessor.c` 1391-1634 | `cond_stack`, `emitting` | one handler per directive | flags of a frame must agree with those of every ancestor; an inactive region still has to follow the nesting |
| Macros | `preprocessor.c` 128-206, 360-817 | macro table, `disabled` flags | `#define`, `#undef`, expansion | recursion through replacement, arguments and rescan; a flag held over a call; termination |
| `#if` expressions | `preprocessor.c` 829-1244 | cursor | evaluation | pure; both operands of `&&` are evaluated |
| `#include`, `#line`, markers | `preprocessor.c` 113-129, 242-358, 1316-1384, 1642-1773, 2025-2076, 2419-2458; `lexer.c` 82-121 | depth, `once_paths`, `current_line`, a conditional stack per file, the lexer's file and line | recursive preprocessing | conditionals and counters per file, one position for all of them, recursion against the once list |
| Driver, errors | `compiler.c`, `util.c` | `g_error_count`, `g_error_jmp`, `overall_status`, files | options, phases | `exit(1)` and `longjmp` from any phase |
| Lexer | `lexer.c` | `pos`, `line`, `col` | next token | rewinding by the parser |
| Statements and scopes | `parser.c` 2861-4878 | `scope_depth`, `loop_depth`, `switch_depth`, typedefs, function context | every statement form, `parser_sync` | recovery resets one of several counters |
| Symbol tables | `parser.c` 170-379 | `globals`, `funcs` | declarations, calls | order of declarations, three notions of "unknown" parameters |
| Struct and union layout | `parser.c` 448-948, `type.c` | tag tables, heap of types, locals of open bodies | members, bit-fields, forward references | completion in place, nesting, redefinition |
| Expressions, declarators, enums | `parser.c` | token | parsing | grammar only |
| Optimizer | `optimize.c` | `g_const_table`, the tree | 13 expression rules, folding of `if`, `while`, `for`, dead code | scopes of the table, labels in dropped code, types of folded values |
| Frame | `codegen.c` 712-747, 1633-1755, 6532-6935 | `stack_size`, `stack_offset`, scratch cursor | counting walk, slots | two independent computations of the same layout |
| Statement code | `codegen.c` 625-710, 5728-6530, 6937-6963 | break and switch stacks, `locals`, `push_depth`, labels | every statement form | compile-time counters against run-time paths |
| Calls, expression stack | `codegen.c` 55-210, 2369-5505 | `push_depth` | call layouts, spills | nested calls between the pushes of the outer one |
| Types of expressions, data | `codegen.c` 221, 1761-2375, 7131-8150 | none | conversion, initialisers | tables and formatting |
| Peephole | `peephole.c` | lines, window index | six window rewrites, reading and writing back | widths, flags, buffers that cut text, an array that shrinks under its index |
| AST, containers, version | `ast*.c`, `vec.c`, `strbuf.c`, `version.c` | memory | growth, printing | pointers into a vector that grows |

The parts are called in a line (driver, preprocessor, lexer under the parser,
optimizer, code generator, peephole) and share the error globals of `util.c`.
The parser calls the symbol and layout code; the code generator calls its three
modelled parts for each function, which share `push_depth` and the locals table.

## 2. Modules

| Module | Models | State and actions against the code |
|---|---|---|
| `CondSpec` | what C99 6.10.1 promises | remembers for each open conditional how many arms it had and which was the first to hold |
| `CondStack` | conditional inclusion | `cond_stack`, `emitting` as in the code; an action for `#if` and relatives, `#elif` and relatives, `#else`, `#endif`, the directives an inactive region skips, end of file, with all diagnostics |
| `IncludeProofs`, `DriverProofs`, `ParserProofs`, `SymbolsProofs`, `LayoutProofs`, `CodegenStmtProofs`, `MacrosProofs`, `StackProofs` | | the theorems about the module of that name (`IncludeProofs`: also about `CondStack`; `StackProofs`: about `Frame` and `Calls`), and their proofs (section 5) |
| `Include` | included files and source positions | extends `CondStack`: its variables are those of the innermost call of `preprocess_internal`, `calls` holds what the suspended ones keep (with a history of the conditionals around the `#include`); one action per kind of line, with the newlines a splice or a comment tail loses, and the marker each leaves for the lexer; the name a `#line` gives is kept per file, as `current_file_override` is, and an unterminated comment ends the run in skipped text too |
| `Macros` | macro table and expansion | text is a sequence of tokens; the calls of `expand_macros_text` are an explicit stack; `collect_args` and `substitute_args` are operators, and `##` makes an identifier that the rescan looks up (`Spelled` says which, for the words that are macros; any other glued word stays opaque); `met` remembers that a function-like macro was called within its own replacement; the reference is C's leftmost rewriting |
| `Driver` | `main`, `compile_one_file`, `util.c` | each phase is abstracted to the ways in which it ends: success, `return 1`, `exit(1)`, `longjmp` |
| `Parser` | statements, scopes, recovery | `ctx` is the C call stack; a token stands for a run of tokens the parser treats alike; braces and semicolons are kept one by one because `parser_sync` counts them; the typedef table is a set of entries, since no lookup depends on their order |
| `Symbols` | file-scope objects and functions | the two tables as functions of names, every comparison and every update of the two register functions, partial updates before an error included |
| `Layout` | structs and unions | the heap of types, the tag tables, and one frame of locals per open body, with a history of the alignment of its open storage unit. What an assignment alters (`StoredFirst`, `StoredEnd`) is taken from `codegen.c`, where a bit-field is a 32-bit read, modify and write |
| `Frame` | stack frames | the counting walk, the prologue's areas, the bump allocator |
| `CodegenStmt` | code for statements, and the run of it | the tables of `CodeGen` while code is emitted, then `ip` and `rsp` while it executes |
| `Optimizer` | `optimize.c` | the rules of `optimize_expr` as operators in the code's order, the cases of `optimize_stmt` with the table as state; C99's evaluator and a run of the function as jumps are the reference. `case` and `default` may stand at any depth in a switch. Actions grow the tree the way the parser builds it |
| `Peephole` | `peephole.c` | `lines` and the index of the window; one action per pattern, the step past a line, reading and writing back. The reference is a machine with register halves, frame words, stack and flags; a 32-bit write clears the upper half |
| `Calls` | code for calls and expressions | the instructions of each expression form; each is emitted and executed in one step, since only forward jumps occur; the callee's prologue, `va_start` and `va_arg` are operators that say where it looks |

`Include` composes `CondStack` with the recursion over files, and is shown to
implement `CondSpec` for the conditionals of all open files together.

`MC*` modules give the constants values; they redefine nothing.

Where code is not under `src/` it is modelled from how the generated code uses
it: the processor's `push`, `pop`, `mov`, jumps, the assembler's labels and the
callee's use of the calling convention.

## 3. Runs

Bounds are named in the modules and count what the source text contains.

| Run | Bounds, and why they are enough | What it shows |
|---|---|---|
| `include` | five lines in all, two levels of conditionals and of files, three arms, one name; the same header beside the main file, in two `-I` directories and under two spellings, one too long for a marker: an `#include` inside a conditional of an included file, a second inclusion after `#pragma once`, the overflow tests | `EmittingCorrect`, `EvaluatedOnlyIfNeeded`, `NestImplementsCondSpec`, `LocationsTrue`, `InclusionBounded` |
| `macros` | fourteen definitions of four names, nine lines, four directives or lines, ten nested calls: chains, cycles, variadic, `#`, `##` that makes the name of a macro, a macro as its own argument, unclosed lists | `DisabledMatchesCalls`, `ExpandsLikeRewriting`, `Terminates` |
| `driver` | three files, two of them with one output path; `--max-errors` 0, 1, 2; three errors per file | `SuccessMeansOutput`, `NoStaleJump`, `NoCodeFromBadSource`, `Terminates` |
| `parser` | every token sequence up to eight over one typedef name, without an error limit and with a limit of two: two nested loops or blocks, an error inside, and a declaration after it | `CountersMatchNesting`, `TypedefScoping`, `FunctionContext`, `Terminates` |
| `symbols` | one name (entries of different names never meet), two types, at most one parameter | `OneMeaning`, `OneBody`, `CallsMatchPrototypes` |
| `layout` | six specifiers and declarators, two types, depth two: two bodies in or after one another with five members between them; width 0, a width too large for the rest of a unit, units of 1, 4 and 8 bytes (in the last a field starts in, ends in or lies behind the first 32 bits), a flexible array and a member behind it | `MembersDisjoint`, `MembersAligned`, `ReferencesAreCompleted`, `LayoutIsFinal` |
| `frame` | up to two parameters, a memory parameter, two calls, a literal and three locals with sizes that leave every kind of gap | `SlotsDisjoint`, `FitsWhenAligned` |
| `stmt` | four statements, two cases, one variable, one label, then every run of the code | `StacksMatchNesting`, `VarScoping`, `JumpsResolved`, `RspAsAssumed`, `StaysInFunction` |
| `stmt-continue` | four statements | `CallsAligned` fails |
| `calls` | two general registers and one floating-point one instead of six and eight, so that three arguments fill, overflow or straddle a bank; three nested expressions; variadic functions of one to three parameters with up to three more arguments of every class | `DepthIsTrue`, `CallsAligned`, `CallerMeetsCallee`, `SpillsIntact`, `VaArgsArrive` |
| `optimizer` | `int` of 4 and `long` of 6 bits; two operators around each of seven leaves, with a negative and a zero variable; three statements after a constant or after nothing, a table of two entries, 14 steps of a run: a case behind a `break`, a constant in a branch that is folded, a label behind a `goto`, a `case` in an `if`, a block or behind a `break`, a `for` that declares | `SameValue`, `SameBehaviour` |
| `peephole` | four lines over 17 instructions with two registers, two frame words and labels that a buffer cuts: every chain of two rewrites, and a window at the end of the array | `SameMeaning`, `Terminates` |

The runs say `CHECK_DEADLOCK FALSE` because a compilation ends: after the last
token, the last file or a fatal error there is no further step.

### Fairness

`Driver` and `Parser` assume weak fairness of `Next`: the compiler is one
process that waits for nobody, so it takes a step whenever it has one, and the
input, though chosen by `\E`, is finite (the token bound ends in `eof`).
`Macros` assumes it of `Expand` only: once a line is being expanded the code
goes on with it, while the file may end after any line. `Peephole` assumes it of
the pass after `Read`: a loop of the same thread. No module assumes more.

## 4. Disagreements between the code and what it says

- **`stmt-continue`** (a run). A `switch` keeps its discriminant on the stack.
  `continue` inside it jumps past the `add rsp, 8` at its end, so every
  iteration leaks a word and later calls are misaligned although the comment
  at 6615 promises alignment "at every internal call site".
- `compute_decl_bytes` (`codegen.c` 1634) is said to be a "conservative upper
  bound". A struct whose alignment is below 8 leaves `stack_offset` at no
  multiple of 8, and the next 8-byte local then takes up to 7 bytes that nobody
  counted. `struct { char c[3]; }` locals between `long`s end below `rsp`: the
  compiler emits `sub rsp, 96` with a local at `[rbp - 120]` (confirmed).
  `FitsWhenAligned` without `WellCounted` fails on it.
- The layout of a call is "shared by the call site and the callee prologue so
  both agree" (98), but calls through a pointer build their own (4239), which
  passes a struct as one general register and ignores memory results.
  `CallerMeetsCallee` without `PassesStruct` fails on it.
- `va_start` means to "skip past named" parameters (5136), but counts a struct of
  two words as one general word, the hidden result pointer not at all (both
  confirmed in the emitted code), and forgets the floating-point parameters on
  the stack (`codegen.c` 6648-6661). `VaArgsArrive` without `CountedRight` fails
  on each of the three.
- The `#line` behind the preamble is there so that errors are "not shifted by
  the preamble" (`preprocessor.c` 2433). It sets the preprocessor's counter and
  leaves the lexer's alone: until the first `#include` diagnostics are 5 lines
  off (confirmed). `LocationsTrue` without `synced` fails on it.

Met while modelling, confirmed with the compiler where it says so, and not the
subject of a run:

- `extern int x; int x = 1; int x = 2;` is accepted (confirmed): the upgrade at
  `parser.c` 264 does not set `is_defined`, against the comment at 211.
- A `const` copy of an incomplete struct is never completed (`parser.c` 616,
  confirmed); a flexible array of pointers is aligned by its base type (639,
  confirmed); a bit-field of a struct type is accepted, and a later `int` one may
  share its storage unit, which is then aligned as the struct is (542; met in the
  proof of `MembersAligned`, which speaks of the alignment of the unit);
  an array of an incomplete struct has one byte per element.
- "flexible array member must be the last named member" (`parser.c` 487) is asked
  at the start of a declaration only: `int a[], b;` is accepted and puts `b` on
  top of `a` (confirmed). The flexible array of a nested struct may be followed
  too. `MembersDisjoint` without `BehindFlexible` fails on the first.
- A bit-field is stored by a 32-bit read, modify and write, whatever its type, and
  the shift wraps at 32 (`codegen.c` 2753-2770): with `struct { long a:32; long
  b:8; } t`, `t.b = 5` changes `a` (confirmed; `MembersDisjoint` without
  `StoredWhole` fails on it). An initialiser and `++` know nothing of bit-fields and
  store the whole word at the unit's offset (confirmed); they are not modelled.
- `goto` into or out of a `switch` unbalances `rsp` as `continue` does.
- A function-like macro that leads back to itself is expanded for ever: literally,
  through an argument (`#define f(x) x(x)` and `f(f)`) or through `##` (`#define f(p)
  g##p(p)`, `#define g1(p) f(p)` and `f(1)`). The compiler ends in a stack overflow
  (confirmed for each); C99 6.10.3.4 has the name left alone. `Terminates` without
  `FunctionWithinItself` fails. A replacement ending in a function-like name is not applied to
  the parenthesis after it; the left operand of `##` is expanded first; a
  redefinition is accepted when only the parameters differ.
- Positions: a call of a function-like macro over several lines and a `/*` in a
  `//` comment lose lines; after `#line 9 "f"` and an `#include` the marker names the real file
  with the line the `#line` counted to; a marker for a path of 505 characters or more is left
  out (`preprocessor.c` 1702). The once list compares paths as text, so a file
  reached under two spellings is read twice.
- `optimize.c` at `-O1`, all confirmed: a non-const local that shadows a `const`
  one, also in a declaration list or behind a full table, is replaced by the
  outer value (74), and so is what follows `for (const int i = ...)`; a declaration
  in a `for` that never runs is moved into the block around it (694-705): `int i; int
  m(void) { for (int i = 5; 0;) {} return i; }` returns 5, and a later `int i` of the
  block is rejected as a duplicate; `&x` of
  a recorded constant is rejected; a constant is recorded with the value of its
  initializer, not of its type (741); folds ignore the operands' conversions
  (`-1 < 0u` is 1, `~0u >> 1` is -1) and take the left operand's type (188);
  `f() * 0` and `f() && 0` drop the call; a double times 2 becomes a shift; a
  `goto` into a dropped branch or behind a dropped declaration is rejected, and a
  `case` in one is gone, as in `switch (x) { if (0) { case 1: return 7; } }` (651)
  and `case 3: g(); break; { case 0: return 9; }` (625).
- `peephole.c` at `-O2`: a `goto` whose label has more than 63 characters is
  dropped when the label below is its prefix of 63 (426-444, confirmed); a line
  of more than 4095 characters is written back as two (62); stores of different
  widths to one offset count as one (503), which the code generator does not write;
  a 32-bit reload right behind the store of its register is dropped (399-416)
  although it clears the upper half, which the code generator relies on when it
  widens an unsigned value (`codegen.c` 407-409, 438-439, 4794): `long m(long v) {
  unsigned u = v; long x = u; return x; }` becomes `mov [rbp - 52], eax`, `mov [rbp
  - 64], rax` and returns `v` (confirmed). `SameMeaning` without `narrowed` fails on
  it. `mov eax, eax` would be dropped likewise (200-236), but is never written.
- The results of `fclose` are not looked at: with the output on a full device the
  compiler reports success (`compiler.c` 336, confirmed at `-O0`).
- "continue on failure" (`compiler.c` 566) holds for collected errors only; most
  failures `exit(1)`. `SuccessMeansOutput` is stated so that this is harmless.

The passing properties exclude these cases by a named condition (`WellCounted`,
`CrossesSwitch`, `PassesStruct`, `CountedRight`, `qualified`, `Plain`, `FunctionWithinItself`,
`synced`, `StoredWhole`, `BehindFlexible`, the `stale`, `captured` and `lost` of `Optimizer`,
`narrowed`, `AsGenerated`, the state `lost` of `Driver`), never silently.

## 5. Proofs

Eight modules hold 36 theorems. Nearly every one states a property of a run (or a
refinement) for every value of the constants; the model bounds that keep TLC's
state space finite are constants like the others, so the theorems hold whatever
they are. The only hypotheses are the `ASSUME`s of the modules, which TLC
evaluates in the runs: positive capacities (`CondAssumption`), a path table that
resolves every name (`Include`), a non-empty list of sources that all have an
output path (`DriverAssumption`), scalar types of size 0 (void), 1, 2, 4 or 8
(`LayoutAssumption`), and likewise for the others.

Every invariant is proved the same way. The property is not inductive, so
`IInv` conjoins it with what the code relies on without saying so; `IInv` was
checked by TLC before it was proved; there is one lemma per action (or per shape
of change) and the theorem follows from `IInv` by propositional temporal logic.

| Module | Theorems | What the inductive invariant adds |
|---|---|---|
| `IncludeProofs`, on `CondStack` | `TypeCorrect`, `EmittingIsCorrect`, `EvaluationIsNeeded`, `CondStackImplementsCondSpec` | `StackInv` ties the four flags of a frame to the history of the conditional it stands for: `parent_emitting` is "all outer ones are selected", `emitting` adds this one, `branch_taken` is "some arm so far held, in an active parent" |
| `IncludeProofs`, on `Include` | `IncludeTypeCorrect`, `IncludeEmittingIsCorrect`, `IncludeEvaluationIsNeeded`, `NestIsCondSpec`, `LocationsAreTrue`, `InclusionIsBounded` | the invariant of `CondStack` for every suspended file, each of which emits (an `#include` in a dropped group is not followed) and keeps the line to return to. With that the concatenation of all files' conditionals makes a step of `CondSpec` or none |
| `DriverProofs` | `JumpsAreLive`, `ExitStatusIsTrue`, `OnlyGoodSourcesAreTranslated` | what each phase of `compile_one_file` may assume of the error globals, and, for every file already done without failure, that the last writer of its path left it complete: two sources may share one |
| `SymbolsProofs` | `NamesHaveOneMeaning`, `FunctionsHaveOneBody`, `CallsMatchAllPrototypes` | the accepted declarations agree with the table entry they were compared with, for each of the three notions of unknown parameters |
| `ParserProofs` | `CountersAgree`, `TypedefsFollowScopes`, `FlagIsTheFunctions` | counters as cardinalities of sets of open contexts, scope depths that increase along `ctx`, typedef entries no deeper than `scope_depth`, and how far each counter may be too high after an error |
| `LayoutProofs` | `MembersNeverOverlap`, `MembersAreAligned`, `PlaceholdersStayOwned`, `CompleteTypesAreFinal` | a body between two declarators: members end before `current_offset`, in the order they were placed (`Ordered`: from it and `StoredWhole` follows that the 32-bit write of a bit-field stays clear of the others), an open storage unit is the last thing before it and members end before the bits used in it, and a body without extent has nothing aligned (so the one byte of an empty struct is a multiple of its alignment). A type is a placeholder, which a tag owns, or complete |
| `StackProofs`, on `Frame` | `SlotsNeverOverlap`, `FrameHoldsSlots` | that there are running totals of the counting walk, one per node, and that the allocators never get ahead of them: `RoundUp(stack_offset, 8)` is at most the saved registers, the scratch region and the totals of what has been placed |
| `StackProofs`, on `Calls` | `DepthAlwaysTrue`, `CallsAlwaysAligned` | what is left of the code of every open expression takes the stack from where the one inside it leaves it back to where it was at its own beginning; see below |
| `CodegenStmtProofs` | `BodyAlwaysGood`, `StacksAlwaysMatchNesting`, `NamesAlwaysScoped`, `JumpsAlwaysResolved`, `RspAlwaysAsAssumed`, `AlwaysStaysInFunction`, `AlignedUnlessCrossing` | see below |
| `MacrosProofs` | `FlagsFollowTheCalls`, `NoMacroWithinItself` | no two open calls wait for the replacement of the same macro: otherwise the inner one would clear the flag the outer one still needs. The theorem says nothing of function-like macros, which have no flag and may be called within themselves (section 4) |

`CodegenStmtProofs` is about code that is not finished while the invariant has to
hold. Its `IInv` therefore says what the code still waits for. `Pending` is the set of
labels that the open calls of `codegen_statement` have yet to emit (the rest of a
loop's labels, the unreached cases of a switch), each with its owner and the depth
it will have; `CodeInv` says that a jump goes to a label that is there, to one in
`Pending` of the same depth (a `continue` may differ), or to a collected user label;
that no label is there twice or both there and coming; and that from each
instruction to the next the depth changes by what the instruction pushes. An
action announces labels, emits some, or both; when the last call returns
`Pending` is empty and every jump is resolved. `NumberInv` (numbers grow inwards) keeps the
coming labels of different calls apart, `NestInv` ties the n-th entry of a stack
to the n-th open call of its kinds by counting, and for `VarScoping` `NameInv`
ties each stretch of `locals` to the scope that owns it.
`AlignedUnlessCrossing` complements the failing run `stmt-continue`: the jumps it
exhibits are the only way to a misaligned call. The invariant was checked by TLC
under the bounds of the run `stmt` before it was proved.

The part of `StackProofs` on `Calls` is about code too, but about all of it at
once, since the code of an expression is there when it begins. `Brings(t, d, e)`
says that code `t` takes the stack from `d` words to `e`: a number can be given to
each place in `t` so that every instruction goes from one number to the next, every
jump lands where the number is the same, and every `call` has an even one.
`EmissionBrings` shows it of the code of every expression with `e = d`, from the
pieces of the three call paths (`BringsJoin`, `BringsConcat`): padding and stack
arguments, spills and loads, the address of the callee. `Held` says it of what is
left of each open expression, which every action preserves and which gives both
theorems.

Where an argument is an induction over a number (the last matching entry of a
stack, the n-th case of a switch, the n-th argument of a call), the proofs take a
least or greatest element instead, from the well-foundedness of the naturals.
`Recursion` shows in this way that a function defined step by step on an interval
exists, and with it what `Concat` and `compute_call_layout` are (`ConcatIs`,
`LayoutIs`).

Lemmas stated once and used throughout: rounding up (`RoundUpFacts`, `Reserve`),
appending and replacing in sequences, counting open contexts, and the step
lemmas `Transfer`, `DeclaratorStep` and `EvaluationStep`.

What the proofs changed in the model: `Parser`'s `Semicolon` had a `CASE` whose
guards overlapped, and `Layout`'s bit-fields recorded the alignment of their own
type although the unit may have been placed with another (section 4).
`CodegenStmt` builds the tests of a `switch` from the positions of its cases
(`Nth`) instead of flattening a sequence of sequences, and `StacksMatchNesting`
counts the enclosing statements by position, which also fixes the order of the entries.

Only model-checked, and why:

- liveness (`Terminates`, four times): fairness is out of the prover's reach;
- `ExpandsLikeRewriting` (`Macros`), `SameValue` and `SameBehaviour`
  (`Optimizer`), `SameMeaning` (`Peephole`): what recursive functions or folds
  compute over texts, trees and instructions, which needs induction over data;
- `CallerMeetsCallee`, `SpillsIntact` and `VaArgsArrive` (`Calls`): the contents of
  the stack words and registers, where the proved theorems are about their number.
  `IsSig`, which the two theorems assume, is too weak for them: it allows an
  operator whose kept operand (the left one of a binary operator, the address of an
  assignment) is a struct, of which the model keeps only a part, and `SpillsIntact`
  fails for it. C's typing rules that operand out and the run has none, but no check
  in `parser.c` or `codegen.c` was found that does, so it is not assumed.

## 6. Not modelled

Ordinary identifiers that hide a typedef name (only typedef declarations enter
`Parser`'s table, as in the code), `__FILE__` and `__LINE__` as text (`Include` keeps what
they would show), initialisers and `++` of bit-fields, the scanning of tokens, the expression grammar, declarators, enums, `#if`
arithmetic, expression typing, data emission, AST printing
and the containers. Reasons are in `PROJECT.json`. Of the optimizer,
floating-point and string operands are left out. Memory exhaustion and I/O errors
are modelled where the driver or the peephole pass tells them apart.

## 7. Plan

1. Done: conditional inclusion with proofs, included files and positions,
   driver, parser, symbols, layout, frame, statements, calls with `va_arg`, macros, optimizer,
   peephole.
2. The `#if` evaluator as pure operators against C's arithmetic.
3. Composition of `Frame` with `Calls` (struct temporaries while calls nest) and
   of `Parser` with `CodegenStmt` (counters the parser guarantees, the code
   generator relies on).
4. Proofs that are left: the contents of the stack in `Calls` (`SpillsIntact`,
   then `CallerMeetsCallee`), by giving each place of a piece of code the words on
   the stack instead of their number, and with the operands of operators typed.
