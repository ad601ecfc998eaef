------------------------------ MODULE CondStack -----------------------------
(***************************************************************************)
(* The conditional-directive machinery of preprocess_internal              *)
(* (src/preprocessor.c): the CondFrame stack, the emitting flag that a     *)
(* handler recomputes, and the directives an inactive region skips.        *)
(*                                                                         *)
(* The scan is driven by an arbitrary sequence of directives.  The history *)
(* variable groups records what the source says (see CondSpec): it is      *)
(* never read by an action that models the code, only by the properties.   *)
(***************************************************************************)
EXTENDS Naturals, Sequences

CONSTANTS
    MAX_COND_DEPTH,   \* capacity of cond_stack
    MAX_ARMS,         \* bound on the arms of one conditional (model bound)
    Names             \* macro names

ASSUME CondAssumption == /\ MAX_COND_DEPTH \in Nat \ {0}
                         /\ MAX_ARMS \in Nat \ {0}

VARIABLES
    cond_stack,   \* CondFrame cond_stack[cond_depth]
    emitting,     \* the local flag emitting
    defined,      \* the names macro_find finds
    status,       \* "scan", "done", or the diagnostic that made it exit(1)
    groups        \* history: the conditionals the source has open

vars == <<cond_stack, emitting, defined, status, groups>>

Spec0 == INSTANCE CondSpec WITH active <- emitting,
             outcome <- IF status = "scan" THEN "scanning"
                        ELSE IF status = "done" THEN "accepted" ELSE "rejected"

Errors == {"nesting too deep", "without conditional", "after else",
           "duplicate else", "bad expression", "missing endif",
           "bad directive", "unterminated comment"}

CondFrame == [emitting : BOOLEAN, parent_emitting : BOOLEAN,
              seen_else : BOOLEAN, branch_taken : BOOLEAN]

(***************************************************************************)
(* Controlling lines.  ifdef and ifndef test a name; an expression is zero,*)
(* nonzero, or one that eval_cond_expr (or the "extra tokens" test after   *)
(* it) rejects when it is evaluated.                                       *)
(***************************************************************************)
Controls == [kind : {"def", "ndef"}, name : Names]
              \cup [kind : {"expr"}, value : {"zero", "nonzero", "bad"}]

Holds(c) ==
    \/ c.kind = "def"  /\ c.name \in defined
    \/ c.kind = "ndef" /\ c.name \notin defined
    \/ c.kind = "expr" /\ c.value = "nonzero"

Rejects(c) == c.kind = "expr" /\ c.value = "bad"

cond_depth == Len(cond_stack)
top == cond_stack[cond_depth]

Init ==
    /\ cond_stack = <<>>
    /\ emitting = TRUE
    /\ defined \in SUBSET Names
    /\ status = "scan"
    /\ groups = <<>>

\* The scan ends: exit(1) with a diagnostic, or the end of the file.
Stop(why) ==
    /\ status' = why
    /\ UNCHANGED <<cond_stack, emitting, defined, groups>>

\* The frame an #if, #ifdef or #ifndef pushes: the condition only counts
\* when the enclosing text is emitted.
NewFrame(val) == [parent_emitting |-> emitting,
                  emitting        |-> emitting /\ val,
                  seen_else       |-> FALSE,
                  branch_taken    |-> emitting /\ val]

\* Mutant: the depth test lets one frame too many be written.
Full_OffByOne == cond_depth > MAX_COND_DEPTH

Full == cond_depth >= MAX_COND_DEPTH

Push(c) ==
    /\ cond_stack' = Append(cond_stack, NewFrame(Holds(c)))
    /\ emitting' = NewFrame(Holds(c)).emitting
    /\ groups' = Append(groups, [n |-> 1, first |-> IF Holds(c) THEN 1 ELSE 0,
                                 hasElse |-> FALSE])
    /\ UNCHANGED <<defined, status>>

\* #ifdef, #ifndef, #if: the expression of an #if is only evaluated in
\* emitted text.
If(c) ==
    /\ status = "scan"
    /\ \/ Full /\ Stop("nesting too deep")
       \/ ~Full /\ emitting /\ Rejects(c) /\ Stop("bad expression")
       \/ ~Full /\ ~(emitting /\ Rejects(c)) /\ Push(c)

\* Mutant: an #elif evaluates its condition although a branch was taken.
Needed_Always(f) == f.parent_emitting

\* The condition of an #elif is looked at only while no branch was taken.
Needed(f) == f.parent_emitting /\ ~f.branch_taken

ElifFrame(f, val) ==
    IF ~f.parent_emitting THEN f
    ELSE IF ~f.branch_taken /\ val
         THEN [f EXCEPT !.emitting = TRUE, !.branch_taken = TRUE]
         ELSE [f EXCEPT !.emitting = FALSE]

\* The top frame becomes f and the source meets an arm of truth t.
SetTop(f, t, isElse) ==
    /\ cond_stack' = [cond_stack EXCEPT ![cond_depth] = f]
    /\ emitting' = f.emitting
    /\ groups' = [groups EXCEPT ![cond_depth] = Spec0!WithArm(@, t, isElse)]
    /\ UNCHANGED <<defined, status>>

\* #elifdef, #elifndef, #elif.
Elif(c) ==
    /\ status = "scan"
    /\ \/ cond_depth = 0 /\ Stop("without conditional")
       \/ cond_depth > 0 /\ top.seen_else /\ Stop("after else")
       \/ /\ cond_depth > 0 /\ ~top.seen_else
          /\ Needed(top) /\ Rejects(c)
          /\ Stop("bad expression")
       \/ /\ cond_depth > 0 /\ ~top.seen_else
          /\ ~(Needed(top) /\ Rejects(c))
          /\ groups[cond_depth].n < MAX_ARMS
          /\ SetTop(ElifFrame(top, Needed(top) /\ Holds(c)), Holds(c), FALSE)

\* Mutant: an #else in a skipped conditional turns emission back on.
ElseFrame_NoParent(f) ==
    [f EXCEPT !.seen_else = TRUE, !.emitting = ~f.branch_taken]

ElseFrame(f) ==
    [f EXCEPT !.seen_else = TRUE,
              !.emitting = IF f.parent_emitting THEN ~f.branch_taken ELSE @]

Else ==
    /\ status = "scan"
    /\ \/ cond_depth = 0 /\ Stop("without conditional")
       \/ cond_depth > 0 /\ top.seen_else /\ Stop("duplicate else")
       \/ /\ cond_depth > 0 /\ ~top.seen_else
          /\ SetTop(ElseFrame(top), TRUE, TRUE)

Pop ==
    /\ cond_stack' = SubSeq(cond_stack, 1, cond_depth - 1)
    /\ emitting' = IF cond_depth > 1
                   THEN cond_stack[cond_depth - 1].emitting ELSE TRUE
    /\ groups' = SubSeq(groups, 1, cond_depth - 1)
    /\ UNCHANGED <<defined, status>>

Endif ==
    /\ status = "scan"
    /\ \/ cond_depth = 0 /\ Stop("without conditional")
       \/ cond_depth > 0 /\ Pop

\* #define and #undef, which an inactive region skips.
Define(m) ==
    /\ status = "scan"
    /\ emitting
    /\ defined' = defined \cup {m}
    /\ UNCHANGED <<cond_stack, emitting, status, groups>>

Undef(m) ==
    /\ status = "scan"
    /\ emitting
    /\ defined' = defined \ {m}
    /\ UNCHANGED <<cond_stack, emitting, status, groups>>

\* A directive that emitted text does not allow (#error, an unknown name, an
\* incompatible #define): skipped without a look in an inactive region.
BadDirective ==
    /\ status = "scan"
    /\ emitting
    /\ Stop("bad directive")

EndOfFile ==
    /\ status = "scan"
    /\ \/ cond_depth > 0 /\ Stop("missing endif")
       \/ cond_depth = 0 /\ Stop("done")

Next ==
    \/ \E c \in Controls : If(c) \/ Elif(c)
    \/ Else
    \/ Endif
    \/ \E m \in Names : Define(m) \/ Undef(m)
    \/ BadDirective
    \/ EndOfFile

Spec == Init /\ [][Next]_vars

(***************************************************************************)
(* Properties.                                                             *)
(***************************************************************************)

\* The flags of the scanner have their types and the stack never holds more
\* frames than the array cond_stack[MAX_COND_DEPTH] has room for.
TypeOK ==
    /\ cond_stack \in Seq(CondFrame)
    /\ cond_depth <= MAX_COND_DEPTH
    /\ emitting \in BOOLEAN
    /\ defined \in SUBSET Names
    /\ status \in {"scan", "done"} \cup Errors
    /\ groups \in Seq(Spec0!Group)

\* The flag emitting, which the handlers keep up to date from the top frame
\* alone, says exactly what C99 asks of all the enclosing conditionals: the
\* current arm of each is its first arm whose condition holds.
EmittingCorrect == emitting = Spec0!Active(groups)

\* A controlling expression can only stop the compiler when the standard has
\* it evaluated: the enclosing text is emitted and no earlier arm of its own
\* conditional was selected.
EvaluatedOnlyIfNeeded ==
    [][status' = "bad expression" =>
          \/ Spec0!Active(groups)
          \/ /\ groups # <<>>
             /\ groups[Len(groups)].first = 0
             /\ Spec0!Active(SubSeq(groups, 1, Len(groups) - 1))]_vars

\* Conditional inclusion as C99 states it (CondSpec) is what the frames
\* implement, the macros that skipped text must not change included.
ImplementsCondSpec == Spec0!Spec
=============================================================================
