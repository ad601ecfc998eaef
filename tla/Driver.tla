-------------------------------- MODULE Driver ------------------------------
(***************************************************************************)
(* The compiler driver: main's loop over the source files, the phases of   *)
(* compile_one_file, and the error machinery of util.c that every phase    *)
(* shares (g_error_count, g_max_errors, and the setjmp/longjmp pair through *)
(* which a parse error returns to parse_translation_unit).                 *)
(*                                                                         *)
(* What a phase computes is abstracted to how it can end; the ways are     *)
(* those of the code: most fatal conditions call exit(1) on the spot, a    *)
(* parse error may be collected, a failed fopen or peephole pass returns 1.*)
(***************************************************************************)
EXTENDS Naturals, Sequences

CONSTANTS
    Sources,       \* the source files of the command line, in order
    OutPath,       \* make_output_path: from a source to its basename.asm
    MaxErrorsOpts, \* the values --max-errors may have; 0 is "unlimited"
    OptLevels,     \* the values of -O
    ErrorBound     \* model bound: parse errors one file may contain

ASSUME DriverAssumption ==
    /\ Sources \in Seq(DOMAIN OutPath) /\ Sources # <<>>
    /\ MaxErrorsOpts \subseteq Nat
    /\ OptLevels \subseteq 0..2
    /\ ErrorBound \in Nat

VARIABLES
    g_max_errors, opt_level, print_mode,   \* set by main's options
    f,                   \* index of the file being compiled
    phase,               \* where compile_one_file is
    g_error_count,
    g_error_jmp_valid,
    overall_status,      \* main's result so far
    exit,                \* "running", or the process's exit status
    out,                 \* the .asm files: what each path holds
    errs,                \* history: diagnostics of each file
    failed,              \* history: files whose compilation failed
    jumped               \* history: phases that took the longjmp

options == <<g_max_errors, opt_level, print_mode>>
vars == <<options, f, phase, g_error_count, g_error_jmp_valid, overall_status,
          exit, out, errs, failed, jumped>>

Files == 1..Len(Sources)
Paths == {OutPath[Sources[i]] : i \in Files}
path == OutPath[Sources[f]]

Init ==
    /\ g_max_errors = 1
    /\ opt_level = 0
    /\ print_mode = "none"
    /\ f = 1
    /\ phase = "options"
    /\ g_error_count = 0
    /\ g_error_jmp_valid = FALSE
    /\ overall_status = 0
    /\ exit = "running"
    /\ out = [p \in Paths |-> [state |-> "absent", by |-> 0]]
    /\ errs = [i \in Files |-> 0]
    /\ failed = {}
    /\ jumped = {}

(***************************************************************************)
(* Ends of a phase.                                                        *)
(***************************************************************************)

Goto(ph) ==
    /\ phase' = ph
    /\ UNCHANGED <<f, overall_status, exit, g_error_count, g_error_jmp_valid>>

\* exit(1): what codegen wrote so far is flushed and stays.
Exit1 ==
    /\ exit' = "1"
    /\ failed' = failed \cup {f}
    /\ UNCHANGED <<f, phase, overall_status, g_error_jmp_valid>>

\* Mutant: the loop index is not advanced.
Return_NoAdvance(status) ==
    /\ overall_status' = IF status # 0 THEN 1 ELSE overall_status
    /\ failed' = IF status # 0 THEN failed \cup {f} ELSE failed
    /\ phase' = "read"
    /\ g_error_count' = 0
    /\ g_error_jmp_valid' = FALSE
    /\ UNCHANGED <<f, exit>>

\* compile_one_file returns; main resets the error state for the next file or
\* returns overall_status after the last one.
Return(status) ==
    /\ overall_status' = IF status # 0 THEN 1 ELSE overall_status
    /\ failed' = IF status # 0 THEN failed \cup {f} ELSE failed
    /\ IF f < Len(Sources)
       THEN /\ f' = f + 1
            /\ phase' = "read"
            /\ g_error_count' = 0
            /\ g_error_jmp_valid' = FALSE
            /\ exit' = exit
       ELSE /\ phase' = "finished"
            /\ exit' = IF overall_status' = 0 THEN "0" ELSE "1"
            /\ UNCHANGED <<f, g_error_count, g_error_jmp_valid>>

\* --max-errors: the n-th error is the last one.
LimitReached(n) == g_max_errors > 0 /\ n >= g_max_errors

\* do_compile_error: count, stop at the limit, jump back into the parser when
\* its setjmp is marked active, and exit otherwise.
do_compile_error ==
    /\ g_error_count' = g_error_count + 1
    /\ errs' = [errs EXCEPT ![f] = @ + 1]
    /\ \/ /\ LimitReached(g_error_count')
          /\ Exit1
          /\ UNCHANGED jumped
       \/ /\ ~LimitReached(g_error_count')
          /\ g_error_jmp_valid
          /\ jumped' = jumped \cup {phase}
          /\ phase' = "parse"
          /\ UNCHANGED <<f, exit, overall_status, failed, g_error_jmp_valid>>
       \/ /\ ~LimitReached(g_error_count')
          /\ ~g_error_jmp_valid
          /\ Exit1
          /\ UNCHANGED jumped

\* A fatal condition outside the error counter: fprintf(stderr, ...); exit(1).
Fatal == Exit1 /\ UNCHANGED <<g_error_count, errs, jumped, out>>

(***************************************************************************)
(* The phases of compile_one_file.                                         *)
(***************************************************************************)
At(ph) == exit = "running" /\ phase = ph /\ UNCHANGED options

\* main's loop over argv, and the sysroot.  --version and --help end the process
\* where they stand, a bad option and a command line without sources as well;
\* otherwise the last option of each kind counts, and --print-tokens wins over
\* --print-ast.
Options ==
    /\ exit = "running" /\ phase = "options"
    /\ \/ exit' \in {"0", "1"} /\ UNCHANGED <<options, phase>>
       \/ /\ g_max_errors' \in MaxErrorsOpts
          /\ opt_level' \in OptLevels
          /\ print_mode' \in {"none", "tokens", "ast"}
          /\ phase' = "read"
          /\ UNCHANGED exit
    /\ UNCHANGED <<f, g_error_count, g_error_jmp_valid, overall_status, out, errs, failed,
                   jumped>>

read_file ==
    /\ At("read")
    /\ \/ Goto("preprocess") /\ UNCHANGED <<out, errs, failed, jumped>>
       \/ Fatal

\* With --print-tokens the file is done after preprocessing.
Preprocess ==
    /\ At("preprocess")
    /\ \/ Fatal
       \/ /\ print_mode = "tokens"
          /\ Return(0)
          /\ UNCHANGED <<out, errs, jumped>>
       \/ /\ print_mode # "tokens"
          /\ phase' = "parse"
          /\ g_error_jmp_valid' = TRUE
          /\ UNCHANGED <<f, overall_status, exit, g_error_count,
                         out, errs, failed, jumped>>

\* An external declaration is rejected: a parser error, or a warning under
\* -Werror.  A bad literal makes the lexer exit directly.
ParseError ==
    /\ At("parse")
    /\ \/ errs[f] < ErrorBound /\ do_compile_error /\ UNCHANGED out
       \/ Fatal

\* Mutant: parse_translation_unit leaves the jump marked active.
ParseEnd_KeepsJump ==
    /\ At("parse")
    /\ Goto("parsed")
    /\ UNCHANGED <<out, errs, failed, jumped>>

\* parse_translation_unit returns and the jump buffer is no longer valid.
ParseEnd ==
    /\ At("parse")
    /\ phase' = "parsed"
    /\ g_error_jmp_valid' = FALSE
    /\ UNCHANGED <<f, overall_status, exit, g_error_count,
                   out, errs, failed, jumped>>

\* Mutant: the collected errors are not looked at.
CheckErrors_Skipped ==
    /\ At("parsed")
    /\ Goto("optimize")
    /\ UNCHANGED <<out, errs, failed, jumped>>

\* With errors collected the file is given up before any output is opened.
CheckErrors ==
    /\ At("parsed")
    /\ \/ g_error_count > 0 /\ Return(1)
       \/ g_error_count = 0 /\ Goto("optimize") /\ UNCHANGED failed
    /\ UNCHANGED <<out, errs, jumped>>

Optimize ==
    /\ At("optimize")
    /\ \/ print_mode = "ast" /\ Return(0)
       \/ print_mode # "ast" /\ Goto("open") /\ UNCHANGED failed
    /\ UNCHANGED <<out, errs, jumped>>

\* fopen(output_path, "w") truncates what another source may have left there.
OpenOutput ==
    /\ At("open")
    /\ \/ Return(1) /\ UNCHANGED <<out, errs, jumped>>
       \/ /\ Goto("codegen")
          /\ out' = [out EXCEPT ![path] = [state |-> "partial", by |-> f]]
          /\ UNCHANGED <<errs, failed, jumped>>

CodegenError ==
    /\ At("codegen")
    /\ do_compile_error
    /\ UNCHANGED out

\* The results of fprintf and fclose are not looked at: when the device is
\* full a part of the file is lost without notice.
CodegenEnd ==
    /\ At("codegen")
    /\ \E state \in {"complete", "lost"} : out' = [out EXCEPT ![path].state = state]
    /\ IF opt_level >= 2 THEN Goto("peephole") /\ UNCHANGED failed
                         ELSE Return(0)
    /\ UNCHANGED <<errs, jumped>>

\* Mutant: the result of peephole_run_file is ignored.
PeepholeFail_Ignored ==
    /\ At("peephole")
    /\ out' \in {out, [out EXCEPT ![path].state = "partial"]}
    /\ Return(0)
    /\ UNCHANGED <<errs, jumped>>

\* peephole_run_file could not read the file, or not write all of it back.
PeepholeFail ==
    /\ At("peephole")
    /\ out' \in {out, [out EXCEPT ![path].state = "partial"]}
    /\ Return(1)
    /\ UNCHANGED <<errs, jumped>>

\* write_lines looks at fprintf's result and not at fclose's.
PeepholeEnd ==
    /\ At("peephole")
    /\ out' \in {out, [out EXCEPT ![path].state = "lost"]}
    /\ Return(0)
    /\ UNCHANGED <<errs, jumped>>

Next ==
    \/ Options \/ read_file \/ Preprocess \/ ParseError \/ ParseEnd \/ CheckErrors
    \/ Optimize \/ OpenOutput \/ CodegenError \/ CodegenEnd \/ PeepholeFail \/ PeepholeEnd

\* The process runs until it exits: nothing in the driver waits.
Spec == Init /\ [][Next]_vars /\ WF_vars(Next)

(***************************************************************************)
(* Properties.                                                             *)
(***************************************************************************)
\* After compiling, main returns 0 only when no file failed, and then every
\* output path holds the code of the last source written there, all that was
\* generated unless the device lost a buffered write.
SuccessMeansOutput ==
    exit = "0" /\ phase # "options" =>
        /\ failed = {}
        /\ print_mode = "none" =>
             \A p \in Paths :
                /\ out[p].state \in {"complete", "lost"}
                /\ OutPath[Sources[out[p].by]] = p
                /\ \A i \in Files : OutPath[Sources[i]] = p => i <= out[p].by

\* No code is generated from a source with a diagnosed error: a file whose
\* output was opened had none when it was, so an error of its parser never
\* reaches codegen on a partial AST.
NoCodeFromBadSource ==
    [][\A p \in Paths : out'[p] # out[p] => errs[f] = 0]_vars

\* longjmp(g_error_jmp) is only taken while parse_translation_unit, whose
\* frame the jmp_buf names, has not returned.
NoStaleJump == jumped \subseteq {"parse"}

\* The driver always ends, with as many errors as the sources hold.
Terminates == <>(exit # "running")
=============================================================================
