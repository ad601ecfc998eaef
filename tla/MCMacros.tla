----------------------------- MODULE MCMacros -------------------------------
(* Object-like macros that chain and cycle, function-like macros that call  *)
(* each other with and without arguments, a variadic one, # and ##; a       *)
(* function-like macro that leads back to itself through its argument, and   *)
(* one that does through the name A1 that ## puts together.                  *)
EXTENDS Macros

T(s) == [i \in DOMAIN s |-> IF s[i] = "p" THEN <<"param", 1>>
                            ELSE IF s[i] = "q" THEN <<"param", 2>>
                            ELSE IF s[i] = "#p" THEN <<"#", 1>> ELSE <<s[i]>>]

Object(n, s) == [name |-> n, def |-> [param_count |-> -1, is_variadic |-> FALSE, repl |-> T(s)]]
Function(n, k, va, s) ==
    [name |-> n, def |-> [param_count |-> k, is_variadic |-> va, repl |-> T(s)]]

MCDefinitions ==
    {Object("A", <<"#p">>), Function("f", 1, FALSE, <<"p", "##">>), Object("A", <<"B">>), Object("A", <<"1", "A", "f", "(", "B", ")">>),
     Object("B", <<"2">>), Object("B", <<"A">>), Object("B", <<"f">>),
     Function("f", 1, FALSE, <<"p", "B", "p">>), Function("f", 0, FALSE, <<>>),
     Function("f", 1, FALSE, <<"#p", "A", "##", "p">>),
     Function("f", 1, FALSE, <<"p", "(", "p", ")">>),
     Object("A1", <<"f", "(", "1", ")">>),
     Function("g", 2, FALSE, <<"f", "(", "q", ")", "p">>),
     Function("g", 1, TRUE, <<"f", "(", "q", ")">>)}

MCLines == {T(s) : s \in {<<"A">>, <<"f">>, <<"f", "(", "A", ")">>, <<"f", "(", ")">>,
                          <<"f", "(", "f", ")">>, <<"f", "(", "1", ")">>,
                          <<"g", "(", "f", "(", "1", ")", ",", "A", ")">>,
                          <<"g", "(", "A", ",", "(", "1", ",", "B", ")", ")", "B">>,
                          <<"f", "(", "1", ",">>}}

MCConditions == {T(s) : s \in {<<"defined", "A", "&&", "A">>,
                               <<"defined", "(", "B", ")", "&&", "f", "(", "B", ")">>}}

MCSpelled == [pair \in {<<"A", "1">>} |-> "A1"]
=============================================================================
