------------------------------ MODULE Include -------------------------------
(***************************************************************************)
(* Files that include files (src/preprocessor.c), and the position the     *)
(* lexer ends up with (src/lexer.c).                                       *)
(*                                                                         *)
(* preprocess_internal calls itself for an included file: every call has   *)
(* its own conditionals (CondStack), line counter and path, and all share  *)
(* the macro table with its list of #pragma once paths.  calls holds what  *)
(* the suspended calls keep; the variables of CondStack and the ones below *)
(* are those of the innermost call.                                        *)
(*                                                                         *)
(* The text of a file is an input, read a line at a time.  The lexer reads *)
(* the output afterwards, in the order in which it is written here: the    *)
(* enter marker, the included text and the return marker are put together  *)
(* when the included file ends.                                            *)
(***************************************************************************)
EXTENDS CondStack

CONSTANTS
    MAX_INCLUDE_DEPTH,   \* deepest nesting of included files
    MAX_LINES,           \* lines read of all files together (model bound)
    MAX_MARKER,          \* components of the longest path a marker has room for
    PREAMBLE_LINES,      \* lines put before the main file, the #line included
    include_dirs,        \* the -I directories, in order
    MainFile,            \* path of the main file
    Headers,             \* names that an #include may give
    Readable,            \* paths that can be opened
    LineNumbers,         \* numbers a #line may give
    LineFiles            \* names it may give

\* A path is the sequence of its components.
ASSUME IncludeAssumption ==
    /\ MAX_INCLUDE_DEPTH \in Nat /\ MAX_LINES \in Nat /\ MAX_MARKER \in Nat
    /\ PREAMBLE_LINES \in Nat
    /\ LineNumbers \subseteq Nat \ {0}
    /\ MainFile # <<>>

VARIABLES
    calls,         \* the suspended calls of preprocess_internal, outermost first
    source_path,   \* the file being read
    current_line,  \* its line counter, which __LINE__ and the markers show
    current_file_override,  \* the name __FILE__ shows instead of source_path:
                            \* that of its last #line to give one, if any
    once_paths,    \* MacroTable.once_paths
    lexer,         \* lexer.file and lexer.line after the output so far
    read,          \* lines read so far, of all files (model bound only)
    presumed,      \* history: the line C99 gives the line being read
    dropped,       \* history: newlines neither counted nor written since then
    synced,        \* history: no #line since the last marker the lexer saw
    marked         \* history: files that have executed #pragma once

file_vars == <<current_line, presumed, dropped>>
pos_vars == <<lexer, synced>>
incl_vars == <<calls, source_path, current_line, current_file_override,
               once_paths, lexer, presumed, dropped, synced, marked>>
all_vars == <<vars, incl_vars, read>>

(***************************************************************************)
(* Finding the file an #include names.                                     *)
(***************************************************************************)
get_dir(path) == SubSeq(path, 1, Len(path) - 1)

Under(dir, path) ==
    /\ Len(dir) < Len(path)
    /\ SubSeq(path, 1, Len(dir)) = dir

\* The first directory of dirs in which name can be opened, or nothing.
FirstIn(dirs, name) ==
    LET found == {i \in DOMAIN dirs : dirs[i] \o name \in Readable}
    IN  {dirs[i] \o name : i \in {j \in found : \A k \in found : j <= k}}

resolve_angle_include_path(name) == FirstIn(include_dirs, name)

resolve_include_path(name) ==
    FirstIn(<<get_dir(source_path)>> \o include_dirs, name)

\* The search goes on behind the first -I directory that source_path is in.
resolve_include_next_path(name) ==
    LET in == {i \in DOMAIN include_dirs : Under(include_dirs[i], source_path)}
        start == IF in = {} THEN 0
                 ELSE CHOOSE i \in in : \A k \in in : i <= k
    IN  FirstIn(SubSeq(include_dirs, start + 1, Len(include_dirs)), name)

Resolve(form, name) ==
    CASE form = "angle"  -> resolve_angle_include_path(name)
      [] form = "quoted" -> resolve_include_path(name)
      [] form = "next"   -> resolve_include_next_path(name)

(***************************************************************************)
(* Lines and positions.                                                    *)
(***************************************************************************)

\* The main file starts behind the preamble, whose last line is a #line: it
\* sets the line counter and the name, and leaves no trace in the output.
Init_Include ==
    /\ Init
    /\ calls = <<>>
    /\ source_path = MainFile
    /\ current_line = 1
    /\ once_paths = {}
    /\ \E inject_preamble \in BOOLEAN :
        /\ lexer = [file |-> MainFile,
                    line |-> IF inject_preamble THEN 1 + PREAMBLE_LINES ELSE 1]
        /\ synced = ~inject_preamble
        /\ current_file_override = IF inject_preamble THEN {MainFile} ELSE {}
    /\ read = 0
    /\ presumed = 1
    /\ dropped = 0
    /\ marked = {}

\* A line ends: its newline is counted and written.  lost newlines in it were
\* neither: a backslash before them, or skip_directive_tail passed over them
\* in a comment.
EndLine(lost) ==
    /\ current_line' = current_line + 1
    /\ presumed' = presumed + 1 + lost
    /\ dropped' = dropped + lost

Here == <<calls, source_path, current_file_override, once_paths, marked>>

LexNewline == lexer' = [lexer EXCEPT !.line = @ + 1] /\ UNCHANGED synced

\* Text, a comment or a skipped directive: its newlines reach the output
\* whether or not the text does.
TextLine(lost) ==
    /\ status = "scan"
    /\ EndLine(lost)
    /\ LexNewline
    /\ UNCHANGED <<vars, Here>>

\* A block comment that the file does not end, in emitted text or not.
UnterminatedComment ==
    /\ status = "scan"
    /\ Stop("unterminated comment")
    /\ UNCHANGED incl_vars

\* The directives of CondStack.
CondLine(lost) ==
    /\ \/ \E c \in Controls : If(c) \/ Elif(c)
       \/ Else
       \/ Endif
       \/ \E m \in Names : Define(m) \/ Undef(m)
       \/ BadDirective
    /\ \/ status' = "scan" /\ EndLine(lost) /\ LexNewline
       \/ status' # "scan" /\ UNCHANGED <<file_vars, pos_vars>>
    /\ UNCHANGED Here

\* A call of a function-like macro whose arguments span two lines: collect_args
\* counts no newline, and the output has the inner one as often as the
\* replacement has the parameter.
SpanningCall ==
    /\ status = "scan" /\ emitting
    /\ EndLine(1)
    /\ \E copies \in 0..2 : lexer' = [lexer EXCEPT !.line = @ + 1 + copies]
    /\ synced' = FALSE
    /\ UNCHANGED <<vars, Here>>

\* #line: the newline that ends the directive makes the counter n.  A name, if
\* it gives one (file is that name or empty), is for __FILE__ in the rest of
\* this file; the markers go on naming source_path.
LineDirective(n, file, lost) ==
    /\ status = "scan" /\ emitting
    /\ current_line' = (n - 1) + 1
    /\ presumed' = n + lost
    /\ dropped' = lost
    /\ current_file_override' = IF file = {} THEN current_file_override ELSE file
    /\ lexer' = [lexer EXCEPT !.line = @ + 1]
    /\ synced' = FALSE
    /\ UNCHANGED <<vars, calls, source_path, once_paths, marked>>

\* Mutant: the mark goes to the file that includes this one.
OncePath_Includer == IF calls = <<>> THEN source_path
                     ELSE calls[Len(calls)].source_path

OncePath == source_path

\* #pragma once and _Pragma("once").
PragmaOnce(lost) ==
    /\ status = "scan" /\ emitting
    /\ once_paths' = once_paths \cup {OncePath}
    /\ marked' = marked \cup {source_path}
    /\ EndLine(lost)
    /\ LexNewline
    /\ UNCHANGED <<vars, calls, source_path, current_file_override>>

(***************************************************************************)
(* #include and the end of an included file.                               *)
(***************************************************************************)

\* A marker for line n of path; one that does not fit its buffer is left out.
Marker(old, n, path) == IF Len(path) <= MAX_MARKER
                        THEN [file |-> path, line |-> n] ELSE old

MarkerSeen(path) == Len(path) <= MAX_MARKER

\* Mutant: the return marker gives the line after the #include, and the
\* newline still to come is counted twice.
ReturnLine_Next(n) == n + 1

ReturnLine(n) == n

\* Behind the return marker for line n of path comes the newline that ends
\* the #include.
LexReturn(n, path) ==
    LET back == Marker(lexer, ReturnLine(n), path)
    IN  /\ lexer' = [back EXCEPT !.line = @ + 1]
        /\ synced' = MarkerSeen(path)

Include_NotFound(form, name) ==
    /\ Resolve(form, name) = {}
    /\ Stop("bad directive")
    /\ UNCHANGED incl_vars

TooDeep == Len(calls) + 1 > MAX_INCLUDE_DEPTH

Include_TooDeep(path) ==
    /\ path \notin once_paths
    /\ TooDeep
    /\ Stop("bad directive")
    /\ UNCHANGED incl_vars

\* A file on the list contributes nothing but the two markers.
Include_Once(path, lost) ==
    /\ path \in once_paths
    /\ EndLine(lost)
    /\ LexReturn(current_line, source_path)
    /\ UNCHANGED <<vars, Here>>

\* The open conditionals of all files being read, outermost first: those around
\* the #include that brought the file in, and the file's own.
Around == IF calls = <<>> THEN <<>> ELSE calls[Len(calls)].around

AllGroups == Around \o groups

\* The call for path begins with a state of its own.  around is a history of
\* the conditionals that enclose the #include, in all the files.
Include_Enter(path, lost) ==
    /\ path \notin once_paths
    /\ ~TooDeep
    /\ calls' = Append(calls, [source_path |-> source_path,
                               current_line |-> current_line,
                               current_file_override |-> current_file_override,
                               presumed |-> presumed + lost,
                               dropped |-> dropped + lost,
                               cond_stack |-> cond_stack, groups |-> groups,
                               around |-> AllGroups])
    /\ source_path' = path
    /\ current_line' = 1 /\ presumed' = 1 /\ dropped' = 0
    /\ current_file_override' = {}
    /\ cond_stack' = <<>> /\ emitting' = TRUE /\ groups' = <<>>
    /\ lexer' = Marker(lexer, 1, path)
    /\ synced' = MarkerSeen(path)
    /\ UNCHANGED <<defined, status, once_paths, marked>>

IncludeLine(form, name, lost) ==
    /\ status = "scan" /\ emitting
    /\ \/ Include_NotFound(form, name)
       \/ \E path \in Resolve(form, name) :
            \/ Include_TooDeep(path)
            \/ Include_Once(path, lost)
            \/ Include_Enter(path, lost)

\* Mutant: only the main file is asked for its missing #endif.
Unclosed_Main == cond_depth > 0 /\ calls = <<>>

Unclosed == cond_depth > 0

\* The end of a file: of the main one the end of the run, of an included one
\* the return to the file that includes it, whose #include was in emitted text.
EndFile ==
    /\ status = "scan"
    /\ \/ Unclosed /\ Stop("missing endif") /\ UNCHANGED incl_vars
       \/ ~Unclosed /\ calls = <<>> /\ Stop("done") /\ UNCHANGED incl_vars
       \/ /\ ~Unclosed /\ calls # <<>>
          /\ LET c == calls[Len(calls)]
             IN  /\ source_path' = c.source_path
                 /\ current_line' = c.current_line + 1
                 /\ current_file_override' = c.current_file_override
                 /\ presumed' = c.presumed + 1
                 /\ dropped' = c.dropped
                 /\ cond_stack' = c.cond_stack /\ groups' = c.groups
                 /\ emitting' = TRUE
                 /\ LexReturn(c.current_line, c.source_path)
          /\ calls' = SubSeq(calls, 1, Len(calls) - 1)
          /\ UNCHANGED <<defined, status, once_paths, marked>>

Line(lost) ==
    \/ TextLine(lost)
    \/ CondLine(lost)
    \/ PragmaOnce(lost)
    \/ \E n \in LineNumbers, file \in {{}} \cup {{f} : f \in LineFiles} :
            LineDirective(n, file, lost)
    \/ \E form \in {"angle", "quoted", "next"}, name \in Headers :
            IncludeLine(form, name, lost)

Next_Include ==
    \/ /\ read < MAX_LINES
       /\ read' = read + 1
       /\ SpanningCall \/ UnterminatedComment \/ \E lost \in 0..1 : Line(lost)
    \/ EndFile /\ UNCHANGED read

Spec_Include == Init_Include /\ [][Next_Include]_all_vars

(***************************************************************************)
(* Properties.                                                             *)
(***************************************************************************)

Nest == INSTANCE CondSpec WITH groups <- AllGroups, active <- emitting,
            outcome <- IF status = "scan" THEN "scanning"
                       ELSE IF status = "done" THEN "accepted" ELSE "rejected"

\* Conditional inclusion holds across files: the text of an included file is
\* kept exactly when all conditionals of all the files around it say so, and
\* a file neither closes nor leaves open a conditional of another one, the
\* fresh cond_stack of each call of preprocess_internal notwithstanding.
NestImplementsCondSpec == Nest!Spec

\* The file and line that a diagnostic shows (the lexer's) are those of the
\* line being read, short of the newlines that splicing and comment tails
\* lost: after every #include and every return, however files nest, unless a
\* #line or a macro call over several lines came after the last marker.
LocationsTrue ==
    synced /\ status = "scan" =>
        /\ lexer.file = source_path
        /\ lexer.line + dropped = presumed

\* Inclusion is bounded: files nest at most MAX_INCLUDE_DEPTH deep, and no
\* file is read again under a path from which it has executed #pragma once.
InclusionBounded ==
    [][/\ Len(calls') <= MAX_INCLUDE_DEPTH
       /\ Len(calls') > Len(calls) => source_path' \notin marked]_all_vars
=============================================================================
