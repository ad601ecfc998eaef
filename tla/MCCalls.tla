------------------------------ MODULE MCCalls -------------------------------
(* Two general and one floating-point argument register, so that argument   *)
(* lists of up to three values overflow each bank, fill it, or leave a      *)
(* struct straddling its end.                                               *)
EXTENDS Calls

Sig(kind, args, ret) == [kind |-> kind, args |-> args, ret |-> ret, named |-> Len(args)]
Variadic(params, rest) ==
    [kind |-> "direct", args |-> params \o rest, ret |-> "gp", named |-> Len(params)]

Operator(k) == Sig(k, [i \in 1..Operators[k] |-> "gp"], "gp")

ArgLists == UNION {[1..n -> Classes] : n \in 0..2} \cup [1..3 -> {"gp", "s2", "fp"}]
Scalars == UNION {[1..n -> {"gp", "fp"}] : n \in 0..3} \cup {[i \in 1..4 |-> "gp"]}

Params == {<<"gp">>, <<"fp">>, <<"s1", "gp">>, <<"gp", "gp", "gp">>}
Rest == UNION {[1..n -> Classes] : n \in 1..2} \cup [1..3 -> {"gp", "s2", "fp"}]

MCOuter == {Sig("direct", a, r) : a \in ArgLists, r \in {"gp", "sm"}}
             \cup {Sig("direct", a, "gp") : a \in Scalars}
             \cup {Sig("indirect", a, "gp") : a \in Scalars}
             \cup {Variadic(p, r) : p \in Params, r \in Rest}
             \cup {Operator(k) : k \in DOMAIN Operators}

MCInner == {Sig("direct", <<"gp", "gp", "gp">>, "gp"),
            Sig("direct", <<"s2", "gp">>, "sm"),
            Sig("indirect", <<"fp", "fp">>, "gp"),
            Operator("conditional"), Operator("assign_element")}
=============================================================================
