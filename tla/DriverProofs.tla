---------------------------- MODULE DriverProofs ----------------------------
(***************************************************************************)
(* Driver, for every command line, every error limit and every number of   *)
(* errors in a file.                                                       *)
(***************************************************************************)
EXTENDS Driver, TLAPS

Phases == {"options", "read", "preprocess", "parse", "parsed", "optimize", "open",
           "codegen", "peephole", "finished"}

Output == [state : {"absent", "partial", "complete", "lost"}, by : Nat]

TypeInv ==
    /\ f \in Files
    /\ phase \in Phases
    /\ g_max_errors \in Nat /\ g_error_count \in Nat
    /\ overall_status \in {0, 1}
    /\ exit \in {"running", "0", "1"}
    /\ out \in [Paths -> Output]
    /\ errs \in [Files -> Nat]

\* The jump buffer is marked active exactly while parse_translation_unit runs.
JumpInv ==
    /\ exit = "running" => (g_error_jmp_valid <=> phase = "parse")
    /\ jumped \subseteq {"parse"}

\* g_error_count counts the diagnostics of the file being compiled, which has
\* none once the check behind the parser let it pass.
ErrorInv ==
    exit = "running" =>
        /\ g_error_count = errs[f]
        /\ \A i \in Files : i > f => errs[i] = 0
        /\ phase \in {"optimize", "open", "codegen", "peephole"} => errs[f] = 0

\* Path p holds the code of source i, or of a later one with the same path.
Holds(p, i) ==
    /\ out[p].state \in {"complete", "lost"}
    /\ out[p].by \in Files /\ i <= out[p].by
    /\ OutPath[Sources[out[p].by]] = p

\* overall_status remembers failures, and as long as there was none the files
\* before the current one have their output, unless the current one is just
\* being written to the same path.
OutputInv ==
    /\ exit = "running" => (overall_status = 0 <=> failed = {})
    /\ phase = "options" => f = 1
    /\ exit = "running" /\ failed = {} /\ print_mode = "none" =>
          /\ \A i \in Files : i < f =>
                \/ Holds(OutPath[Sources[i]], i)
                \/ phase = "codegen" /\ OutPath[Sources[i]] = path
          /\ phase \in {"codegen", "peephole"} => out[path].by = f
          /\ phase = "peephole" => Holds(path, f)
    /\ phase = "finished" => exit # "running"
    /\ exit = "0" /\ phase # "options" =>
          /\ failed = {}
          /\ print_mode = "none" => \A i \in Files : Holds(OutPath[Sources[i]], i)

IInv == TypeInv /\ JumpInv /\ ErrorInv /\ OutputInv

(***************************************************************************)
(* Steps.                                                                  *)
(***************************************************************************)

\* The command line names at least one source, and the files are numbered.
LEMMA FilesFacts ==
  /\ Len(Sources) \in Nat \ {0}
  /\ 1 \in Files
  /\ \A i \in Files : /\ i \in Nat /\ 1 <= i /\ i <= Len(Sources)
                      /\ OutPath[Sources[i]] \in Paths
  /\ \A i \in Files : i < Len(Sources) => i + 1 \in Files
  BY DriverAssumption DEF Files, Paths

\* The initial state satisfies the invariant.
LEMMA InitIInv == Init => IInv
<1> SUFFICES ASSUME Init PROVE IInv
  OBVIOUS
<1>1. TypeInv
  BY FilesFacts DEF Init, TypeInv, Phases, Output
<1>2. JumpInv /\ ErrorInv
  BY FilesFacts DEF Init, JumpInv, ErrorInv
<1>3. \A i \in Files : ~(i < f)
  BY FilesFacts DEF Init
<1>4. OutputInv
  BY <1>3 DEF Init, OutputInv
<1> QED
  BY <1>1, <1>2, <1>4 DEF IInv

\* A fatal error: exit(1) wherever the file is.
LEMMA ExitStep ==
  ASSUME IInv, Exit1, exit = "running", UNCHANGED <<out, options>>,
         g_error_count' \in Nat, errs' \in [Files -> Nat], UNCHANGED jumped
  PROVE  IInv'
<1>1. TypeInv' /\ JumpInv' /\ ErrorInv'
  BY DEF IInv, TypeInv, JumpInv, ErrorInv, Exit1, options
<1>2. OutputInv'
  BY DEF IInv, OutputInv, Exit1
<1> QED
  BY <1>1, <1>2 DEF IInv

\* exit(1) without a count of the error.
LEMMA FatalStep ==
  ASSUME IInv, Fatal, exit = "running", UNCHANGED options
  PROVE  IInv'
  BY ExitStep DEF Fatal, IInv, TypeInv

\* From one phase of a file to the next, nothing written.
LEMMA PhaseStep ==
  ASSUME IInv, exit = "running", UNCHANGED <<options, f, overall_status, exit,
                                             g_error_count, out, errs, failed, jumped>>,
         phase \notin {"codegen", "peephole"},
         phase' \in {"read", "preprocess", "parse", "parsed", "optimize", "open"},
         g_error_jmp_valid' <=> phase' = "parse",
         phase' \in {"optimize", "open"} => errs[f] = 0
  PROVE  IInv'
<1>1. TypeInv' /\ JumpInv' /\ ErrorInv'
  BY DEF IInv, TypeInv, JumpInv, ErrorInv, options, Phases
<1>2. OutputInv'
  BY DEF IInv, OutputInv, Holds, path, options
<1> QED
  BY <1>1, <1>2 DEF IInv

\* compile_one_file returns.  When it reports success its output is in place,
\* and so is that of the files before it.
LEMMA ReturnStep ==
  ASSUME IInv, exit = "running", UNCHANGED <<options, errs, jumped>>,
         NEW s \in {0, 1}, Return(s), phase \notin {"options", "parse"},
         out' \in [Paths -> Output],
         s = 0 /\ print_mode = "none" /\ failed = {} =>
            \A i \in Files : i <= f => Holds(OutPath[Sources[i]], i)'
  PROVE  IInv'
<1> USE FilesFacts
<1>0. f \in Files /\ (\A i \in Files : i < f + 1 => i <= f) /\ (~(f < Len(Sources)) => f = Len(Sources))
  BY DEF IInv, TypeInv, Files
<1>1. TypeInv'
  BY <1>0 DEF IInv, TypeInv, Return, options, Phases
<1>2. JumpInv'
  BY DEF IInv, JumpInv, Return
<1>3. ErrorInv'
  <2>1. CASE f < Len(Sources)
    <3>1. f' = f + 1 /\ g_error_count' = 0 /\ errs' = errs /\ phase' = "read" /\ exit' = "running"
      BY <2>1 DEF Return
    <3>2. \A i \in Files : i >= f + 1 => errs[i] = 0
      BY <1>0 DEF IInv, ErrorInv, Files
    <3>3. f + 1 \in Files
      BY <1>0, <2>1
    <3> QED
      BY <3>1, <3>2, <3>3, <1>0 DEF ErrorInv
  <2>2. CASE ~(f < Len(Sources))
    BY <2>2 DEF Return, ErrorInv
  <2> QED
    BY <2>1, <2>2
<1>4. OutputInv'
  <2>0. overall_status' = 0 <=> failed' = {}
    BY DEF IInv, OutputInv, Return
  <2>1. failed' = {} => failed = {} /\ s = 0
    BY DEF Return
  <2>2. print_mode' = print_mode
    BY DEF options
  <2>3. CASE f < Len(Sources)
    <3>1. f' = f + 1 /\ phase' = "read" /\ exit' = "running"
      BY <2>3 DEF Return
    <3>2. failed' = {} /\ print_mode' = "none" =>
             \A i \in Files : i < f' => Holds(OutPath[Sources[i]], i)'
      BY <1>0, <2>1, <2>2, <3>1
    <3> QED
      BY <2>0, <3>1, <3>2 DEF OutputInv
  <2>4. CASE ~(f < Len(Sources))
    <3>1. phase' = "finished" /\ exit' = (IF overall_status' = 0 THEN "0" ELSE "1")
      BY <2>4 DEF Return
    <3>2. \A i \in Files : i <= f
      BY <1>0, <2>4
    <3>3. failed' = {} /\ print_mode' = "none" =>
             \A i \in Files : Holds(OutPath[Sources[i]], i)'
      BY <2>1, <2>2, <3>2
    <3> QED
      BY <2>0, <3>1, <3>3 DEF OutputInv
  <2> QED
    BY <2>3, <2>4
<1> QED
  BY <1>1, <1>2, <1>3, <1>4 DEF IInv

\* A file that fails returns 1 whatever it wrote.
LEMMA ReturnFailure ==
  ASSUME IInv, exit = "running", UNCHANGED <<options, errs, jumped>>,
         Return(1), phase \notin {"options", "parse"}, out' \in [Paths -> Output]
  PROVE  IInv'
  BY ReturnStep

\* Under --print-tokens and --print-ast success promises no output.
LEMMA ReturnPrinted ==
  ASSUME IInv, exit = "running", UNCHANGED <<options, errs, jumped, out>>,
         Return(0), phase \notin {"options", "parse"}, print_mode # "none"
  PROVE  IInv'
  BY ReturnStep DEF IInv, TypeInv

\* do_compile_error: it exits, or jumps back into the parser that is running.
LEMMA ErrorStep ==
  ASSUME IInv, exit = "running", do_compile_error, UNCHANGED <<options, out>>
  PROVE  IInv'
<1> USE FilesFacts
<1>1. f \in Files /\ g_error_count' \in Nat /\ errs' \in [Files -> Nat]
  BY DEF do_compile_error, IInv, TypeInv
<1>2. CASE Exit1 /\ UNCHANGED jumped
  BY <1>1, <1>2, ExitStep
<1>3. CASE /\ g_error_jmp_valid
           /\ jumped' = jumped \cup {phase}
           /\ phase' = "parse"
           /\ UNCHANGED <<f, exit, overall_status, failed, g_error_jmp_valid>>
  <2>1. phase = "parse" /\ phase' = "parse"
    BY <1>3 DEF IInv, JumpInv
  <2>2. TypeInv' /\ JumpInv'
    BY <1>1, <1>3, <2>1 DEF IInv, TypeInv, JumpInv, options
  <2>3. ErrorInv'
    <3>1. g_error_count' = errs'[f'] /\ \A i \in Files : i > f => errs'[i] = errs[i]
      BY <1>1, <1>3 DEF IInv, TypeInv, ErrorInv, do_compile_error
    <3> QED
      BY <1>3, <2>1, <3>1 DEF IInv, ErrorInv
  <2>4. OutputInv'
    BY <1>3, <2>1 DEF IInv, OutputInv, Holds, path, options
  <2> QED
    BY <2>2, <2>3, <2>4 DEF IInv
<1> QED
  BY <1>2, <1>3 DEF do_compile_error

\* Writing a file's own path disturbs no other path, and a path it shares
\* with an earlier source then holds this file's code.
LEMMA WriteOwnPath ==
  ASSUME IInv, phase \in {"codegen", "peephole"}, exit = "running",
         NEW st \in {"complete", "lost"},
         out' = [out EXCEPT ![path].state = st],
         failed = {}, print_mode = "none"
  PROVE  \A i \in Files : i <= f => Holds(OutPath[Sources[i]], i)'
<1> USE FilesFacts
<1>1. f \in Files /\ path \in Paths /\ out \in [Paths -> Output] /\ path = OutPath[Sources[f]]
  BY DEF IInv, TypeInv, path
<1>2. out[path].by = f
  BY DEF IInv, OutputInv
<1>3. out'[path].by = f /\ out'[path].state = st
  BY <1>1, <1>2 DEF Output
<1>4. ASSUME NEW i \in Files, i <= f, OutPath[Sources[i]] = path
      PROVE  Holds(OutPath[Sources[i]], i)'
  BY <1>1, <1>3, <1>4 DEF Holds
<1>5. ASSUME NEW i \in Files, i <= f, OutPath[Sources[i]] # path
      PROVE  Holds(OutPath[Sources[i]], i)'
  <2>1. i < f
    BY <1>1, <1>5
  <2>2. Holds(OutPath[Sources[i]], i)
    BY <1>5, <2>1 DEF IInv, OutputInv
  <2>3. out'[OutPath[Sources[i]]] = out[OutPath[Sources[i]]]
    BY <1>1, <1>5
  <2> QED
    BY <2>2, <2>3 DEF Holds
<1> QED
  BY <1>4, <1>5

\* Opening, with nothing failed so far, a file's own path.
LEMMA OpenStep ==
  ASSUME IInv, At("open"), Goto("codegen"), UNCHANGED <<errs, failed, jumped>>,
         out' = [out EXCEPT ![path] = [state |-> "partial", by |-> f]]
  PROVE  IInv'
<1> USE FilesFacts
<1>1. f \in Files /\ path \in Paths /\ out \in [Paths -> Output] /\ path = OutPath[Sources[f]]
  BY DEF IInv, TypeInv, path
<1>2. TypeInv' /\ JumpInv' /\ ErrorInv'
  BY <1>1 DEF IInv, TypeInv, JumpInv, ErrorInv, At, Goto, options, Phases, Output
<1>3. path' = path /\ out'[path].by = f
  BY <1>1 DEF Goto, path
<1>4. ASSUME NEW i \in Files, i < f, Holds(OutPath[Sources[i]], i), OutPath[Sources[i]] # path
      PROVE  Holds(OutPath[Sources[i]], i)'
  BY <1>1, <1>4 DEF Holds
<1>5. OutputInv'
  BY <1>3, <1>4 DEF IInv, OutputInv, At, Goto, options
<1> QED
  BY <1>2, <1>5 DEF IInv

\* The end of code generation, with or without the peephole pass to come.
LEMMA CodegenEndStep == ASSUME IInv, CodegenEnd PROVE IInv'
<1> USE FilesFacts
<1>0. exit = "running" /\ phase = "codegen" /\ UNCHANGED <<options, errs, jumped>>
  BY DEF CodegenEnd, At
<1>1. PICK st \in {"complete", "lost"} : out' = [out EXCEPT ![path].state = st]
  BY DEF CodegenEnd
<1>2. out' \in [Paths -> Output]
  BY <1>1 DEF IInv, TypeInv, Output
<1>3. failed = {} /\ print_mode = "none" =>
         \A i \in Files : i <= f => Holds(OutPath[Sources[i]], i)'
  BY <1>0, <1>1, WriteOwnPath
<1>4. CASE Return(0)
  BY <1>0, <1>2, <1>3, <1>4, ReturnStep
<1>5. CASE Goto("peephole") /\ UNCHANGED failed
  <2>1. TypeInv' /\ JumpInv' /\ ErrorInv'
    BY <1>0, <1>2, <1>5 DEF IInv, TypeInv, JumpInv, ErrorInv, Goto, options, Phases
  <2>2. \A i \in Files : i < f => i <= f
    BY DEF IInv, TypeInv
  <2>3. f \in Files /\ f' = f /\ path' = OutPath[Sources[f]]
    BY <1>5 DEF IInv, TypeInv, Goto, path
  <2>4. failed = {} /\ print_mode = "none" => Holds(path, f)' /\ out'[path].by = f
    <3>1. SUFFICES ASSUME failed = {}, print_mode = "none"
                   PROVE  Holds(path, f)' /\ out'[path].by = f
      OBVIOUS
    <3>2. out[path].by = f /\ path \in Paths /\ path = OutPath[Sources[f]]
      BY <1>0, <2>3, <3>1 DEF IInv, OutputInv, path
    <3>3. out'[path].by = f
      BY <1>1, <3>2 DEF IInv, TypeInv, Output
    <3>4. Holds(OutPath[Sources[f]], f)'
      BY <1>3, <2>3, <3>1
    <3> QED
      BY <2>3, <3>2, <3>3, <3>4 DEF Holds
  <2>5. path' = path
    BY <2>3 DEF path
  <2>6. OutputInv'
    BY <1>0, <1>3, <1>5, <2>2, <2>3, <2>4, <2>5 DEF IInv, OutputInv, Goto, options
  <2> QED
    BY <2>1, <2>6 DEF IInv
<1> QED
  BY <1>4, <1>5 DEF CodegenEnd

\* The peephole pass writes the file back, or leaves it as it was.
LEMMA PeepholeEndStep == ASSUME IInv, PeepholeEnd PROVE IInv'
<1> USE FilesFacts
<1>0. exit = "running" /\ phase = "peephole" /\ UNCHANGED <<options, errs, jumped>> /\ Return(0)
  BY DEF PeepholeEnd, At
<1>1. f \in Files /\ path = OutPath[Sources[f]] /\ out \in [Paths -> Output] /\ path \in Paths
  BY DEF IInv, TypeInv, path
<1>2. out' \in [Paths -> Output]
  BY <1>1 DEF PeepholeEnd, Output
<1>3. ASSUME failed = {}, print_mode = "none", NEW i \in Files, i <= f
      PROVE  Holds(OutPath[Sources[i]], i)'
  <2>1. CASE out' = out
    <3>1. CASE i < f
      BY <1>0, <1>3, <2>1, <3>1 DEF IInv, OutputInv, Holds
    <3>2. CASE i = f
      BY <1>0, <1>1, <1>3, <2>1, <3>2 DEF IInv, OutputInv, Holds
    <3> QED
      BY <1>1, <1>3, <3>1, <3>2
  <2>2. CASE out' = [out EXCEPT ![path].state = "lost"]
    BY <1>0, <1>3, <2>2, WriteOwnPath
  <2> QED
    BY <2>1, <2>2 DEF PeepholeEnd
<1> QED
  BY <1>0, <1>2, <1>3, ReturnStep

\* Every step keeps the invariant.
LEMMA NextIInv == IInv /\ [Next]_vars => IInv'
<1> SUFFICES ASSUME IInv, [Next]_vars PROVE IInv'
  OBVIOUS
<1>0. errs \in [Files -> Nat] /\ out \in [Paths -> Output] /\ f \in Files
  BY DEF IInv, TypeInv
<1>1. CASE Options
  <2>1. CASE /\ exit = "running" /\ phase = "options" /\ exit' \in {"0", "1"}
             /\ UNCHANGED <<options, phase, f, g_error_count, g_error_jmp_valid,
                            overall_status, out, errs, failed, jumped>>
    BY <2>1 DEF IInv, TypeInv, JumpInv, ErrorInv, OutputInv, options
  <2>2. CASE phase' = "read" /\ UNCHANGED exit /\ g_max_errors' \in MaxErrorsOpts
    <3>1. TypeInv' /\ JumpInv' /\ ErrorInv'
      BY <1>1, <2>2, DriverAssumption DEF Options, IInv, TypeInv, JumpInv, ErrorInv, Phases
    <3>2. \A i \in Files : ~(i < 1)
      BY FilesFacts
    <3>3. OutputInv'
      BY <1>1, <2>2, <3>2 DEF Options, IInv, OutputInv
    <3> QED
      BY <3>1, <3>3 DEF IInv
  <2> QED
    BY <1>1, <2>1, <2>2 DEF Options
<1>2. CASE read_file
  BY <1>2, FatalStep, PhaseStep DEF read_file, At, Goto, IInv, JumpInv
<1>3. CASE Preprocess
  BY <1>3, FatalStep, PhaseStep, ReturnPrinted DEF Preprocess, At
<1>4. CASE ParseError
  BY <1>4, FatalStep, ErrorStep DEF ParseError, At
<1>5. CASE ParseEnd
  BY <1>5, PhaseStep DEF ParseEnd, At
<1>6. CASE CheckErrors
  <2>1. CASE Return(1)
    BY <1>0, <1>6, <2>1, ReturnFailure DEF CheckErrors, At
  <2>2. CASE g_error_count = 0 /\ Goto("optimize") /\ UNCHANGED failed
    BY <1>0, <1>6, <2>2, PhaseStep DEF CheckErrors, At, Goto, IInv, JumpInv, ErrorInv
  <2> QED
    BY <1>6, <2>1, <2>2 DEF CheckErrors
<1>7. CASE Optimize
  <2>1. CASE print_mode = "ast" /\ Return(0)
    BY <1>7, <2>1, ReturnPrinted DEF Optimize, At
  <2>2. CASE Goto("open") /\ UNCHANGED failed
    BY <1>7, <2>2, PhaseStep DEF Optimize, At, Goto, IInv, JumpInv, ErrorInv
  <2> QED
    BY <1>7, <2>1, <2>2 DEF Optimize
<1>8. CASE OpenOutput
  <2>1. CASE Return(1) /\ UNCHANGED <<out, errs, jumped>>
    BY <1>0, <1>8, <2>1, ReturnFailure DEF OpenOutput, At
  <2> QED
    BY <1>8, <2>1, OpenStep DEF OpenOutput
<1>9. CASE CodegenError
  BY <1>9, ErrorStep DEF CodegenError, At
<1>10. CASE PeepholeFail
  <2>1. out' \in [Paths -> Output]
    BY <1>0, <1>10 DEF PeepholeFail, Output
  <2> QED
    BY <1>10, <2>1, ReturnFailure DEF PeepholeFail, At
<1>11. CASE UNCHANGED vars
  BY <1>11 DEF vars, options, IInv, TypeInv, JumpInv, ErrorInv, OutputInv, Holds, path
<1> QED
  BY <1>1, <1>2, <1>3, <1>4, <1>5, <1>6, <1>7, <1>8, <1>9, <1>10, <1>11,
     CodegenEndStep, PeepholeEndStep DEF Next

\* The invariant holds in every reachable state of the driver.
LEMMA AlwaysIInv == Spec => []IInv
  BY InitIInv, NextIInv, PTL DEF Spec

(***************************************************************************)
(* Theorems.                                                               *)
(***************************************************************************)

\* However many files and errors there are, do_compile_error only jumps into
\* a parse_translation_unit that has not returned.
THEOREM JumpsAreLive == Spec => []NoStaleJump
<1>1. IInv => NoStaleJump
  BY DEF IInv, JumpInv, NoStaleJump
<1> QED
  BY <1>1, AlwaysIInv, PTL

\* main returns 0 after compiling only when no file failed and every output
\* path holds the code of the last source that is written there.
THEOREM ExitStatusIsTrue == Spec => []SuccessMeansOutput
<1>1. IInv => SuccessMeansOutput
  <2> SUFFICES ASSUME IInv, exit = "0", phase # "options"
               PROVE  /\ failed = {}
                      /\ print_mode = "none" =>
                           \A p \in Paths :
                              /\ out[p].state \in {"complete", "lost"}
                              /\ OutPath[Sources[out[p].by]] = p
                              /\ \A i \in Files : OutPath[Sources[i]] = p => i <= out[p].by
    BY DEF SuccessMeansOutput
  <2>1. failed = {}
    BY DEF IInv, OutputInv
  <2>2. ASSUME print_mode = "none", NEW p \in Paths
        PROVE  /\ out[p].state \in {"complete", "lost"}
               /\ OutPath[Sources[out[p].by]] = p
               /\ \A i \in Files : OutPath[Sources[i]] = p => i <= out[p].by
    <3>1. \A i \in Files : Holds(OutPath[Sources[i]], i)
      BY <2>2 DEF IInv, OutputInv
    <3>2. PICK j \in Files : p = OutPath[Sources[j]]
      BY DEF Paths
    <3> QED
      BY <3>1, <3>2 DEF Holds
  <2> QED
    BY <2>1, <2>2
<1> QED
  BY <1>1, AlwaysIInv, PTL

\* An output file is only opened, written or rewritten for a source without a
\* diagnosed error.
THEOREM OnlyGoodSourcesAreTranslated == Spec => NoCodeFromBadSource
<1> DEFINE A == \A p \in Paths : out'[p] # out[p] => errs[f] = 0
<1>1. IInv /\ [Next]_vars => A \/ UNCHANGED vars
  <2> SUFFICES ASSUME IInv, Next, out' # out PROVE errs[f] = 0
    OBVIOUS
  <2>1. OpenOutput \/ CodegenEnd \/ PeepholeFail \/ PeepholeEnd
    BY DEF Next, Options, read_file, Preprocess, ParseError, ParseEnd, CheckErrors,
           Optimize, CodegenError, Fatal
  <2> QED
    BY <2>1 DEF OpenOutput, CodegenEnd, PeepholeFail, PeepholeEnd, At, IInv, ErrorInv
<1> QED
  BY <1>1, AlwaysIInv, PTL DEF Spec, NoCodeFromBadSource
=============================================================================
