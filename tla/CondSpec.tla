------------------------------ MODULE CondSpec ------------------------------
(***************************************************************************)
(* What conditional inclusion promises (C99 6.10.1p6): text is kept exactly *)
(* when, in every conditional that encloses it, the current arm is the     *)
(* first arm whose controlling condition holds.                            *)
(*                                                                         *)
(* An open conditional is summarised by the number n of arms met so far and *)
(* the index first of the first arm whose condition held (0: none yet); an  *)
(* #else is an arm whose condition holds.                                   *)
(***************************************************************************)
EXTENDS Naturals, Sequences

CONSTANT Names     \* the macro names that #define and #undef may touch

VARIABLES
    groups,    \* the open conditionals, outermost first
    active,    \* is text kept here?
    defined,   \* the macro names defined so far
    outcome    \* "scanning", "accepted" or "rejected"

vars == <<groups, active, defined, outcome>>

Group == [n : Nat \ {0}, first : Nat, hasElse : BOOLEAN]

\* The current arm is the first arm of g whose condition holds.
Selected(g) == g.first = g.n

Active(gs) == \A i \in DOMAIN gs : Selected(gs[i])

Init ==
    /\ groups = <<>>
    /\ active = TRUE
    /\ defined \in SUBSET Names
    /\ outcome = "scanning"

\* Another arm of the innermost conditional, whose condition has truth t.
WithArm(g, t, isElse) ==
    [n       |-> g.n + 1,
     first   |-> IF g.first = 0 /\ t THEN g.n + 1 ELSE g.first,
     hasElse |-> isElse]

SetGroups(gs) ==
    /\ outcome = "scanning"
    /\ groups' = gs
    /\ active' = Active(gs)
    /\ UNCHANGED <<defined, outcome>>

Open ==
    \E t \in BOOLEAN :
        SetGroups(Append(groups, [n |-> 1, first |-> IF t THEN 1 ELSE 0,
                                  hasElse |-> FALSE]))

NextArm ==
    /\ groups # <<>>
    /\ ~groups[Len(groups)].hasElse
    /\ \E t \in BOOLEAN, isElse \in BOOLEAN :
        /\ isElse => t
        /\ SetGroups([groups EXCEPT ![Len(groups)] = WithArm(@, t, isElse)])

Close ==
    /\ groups # <<>>
    /\ SetGroups(SubSeq(groups, 1, Len(groups) - 1))

\* Only kept text changes the set of macros.
ChangeMacros ==
    /\ outcome = "scanning"
    /\ active
    /\ defined' \in SUBSET Names
    /\ UNCHANGED <<groups, active, outcome>>

Reject ==
    /\ outcome = "scanning"
    /\ outcome' = "rejected"
    /\ UNCHANGED <<groups, active, defined>>

\* A file is accepted only when every conditional has been closed.
Accept ==
    /\ outcome = "scanning"
    /\ groups = <<>>
    /\ outcome' = "accepted"
    /\ UNCHANGED <<groups, active, defined>>

Next == Open \/ NextArm \/ Close \/ ChangeMacros \/ Reject \/ Accept

Spec == Init /\ [][Next]_vars
=============================================================================
