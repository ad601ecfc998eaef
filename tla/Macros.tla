-------------------------------- MODULE Macros ------------------------------
(***************************************************************************)
(* The macro table and macro expansion of the preprocessor.                *)
(*                                                                         *)
(* expand_macros_text calls itself for the replacement of an object-like   *)
(* macro, for every argument of a function-like one, and for the text that *)
(* substitution makes of it; preprocess_internal repeats its loop for the  *)
(* text of the file.  The open calls are explicit here (calls), so that    *)
(* the recursion itself can be reasoned about.                             *)
(*                                                                         *)
(* Text is a sequence of tokens, each a tuple: <<"A">> an identifier or    *)
(* punctuator, <<"param", k>> the k-th parameter in a replacement,         *)
(* <<"#", k>> its stringification, <<"##">> the paste operator,            *)
(* <<"str", text>> a string and <<"glued", l, r>> an identifier that ## put *)
(* together from l and r and that names no macro.                          *)
(***************************************************************************)
EXTENDS Integers, Sequences, FiniteSets, SequencesExt

CONSTANTS
    Definitions, \* the #define directives: [name, def] pairs
    Lines,       \* the lines of text
    Conditions,  \* the controlling expressions
    Words,       \* the identifiers among the tokens
    Numbers,     \* the numbers
    Spelled,     \* what the macro names are that two tokens spell together
    MaxLines,    \* model bound: directives and lines of the file
    MaxCalls,    \* model bound: depth of the recursion
    MaxRewrites  \* bound of the reference: rewriting steps of one line

ASSUME MacrosAssumption ==
    /\ \A m \in Definitions :
          /\ m.def.is_variadic => m.def.param_count >= 0
          /\ m.def.param_count >= -1
    /\ DOMAIN Spelled \subseteq Words \X (Words \cup Numbers)
    /\ MaxLines \in Nat /\ MaxCalls \in Nat /\ MaxRewrites \in Nat

VARIABLES
    defs,      \* the table: name -> definition
    disabled,  \* names whose entry has its disabled flag set
    calls,     \* open calls of expand_macros_text, innermost last
    emitted,   \* what the last line became
    line,      \* the last line
    lines,     \* directives and lines seen
    met,       \* history: a macro was met in its own replacement on this line
    status     \* "ok", or "exit" after a fatal error

vars == <<defs, disabled, calls, emitted, line, lines, met, status>>

Names == {m.name : m \in Definitions}
Tok(t) == <<t>>
IsMacro(t) == Len(t) = 1 /\ t[1] \in DOMAIN defs
IsObject(t) == IsMacro(t) /\ defs[t[1]].param_count = -1
IsFunction(t) == IsMacro(t) /\ defs[t[1]].param_count >= 0

Init ==
    /\ defs = [n \in {} |-> 0]
    /\ disabled = {}
    /\ calls = <<>>
    /\ emitted = <<>> /\ line = <<>>
    /\ lines = 0
    /\ met = FALSE
    /\ status = "ok"

(***************************************************************************)
(* Directives.                                                             *)
(***************************************************************************)
Idle == status = "ok" /\ calls = <<>>

Count == lines < MaxLines /\ lines' = lines + 1

\* What #define checks of a replacement: # and ## only in a function-like macro,
\* # before a parameter, ## neither first nor last.  The parameter after the
\* last is __VA_ARGS__.
WellFormed(d) ==
    \A i \in DOMAIN d.repl :
        LET t == d.repl[i]
        IN /\ t[1] = "##" => d.param_count >= 0 /\ i > 1 /\ i < Len(d.repl)
           /\ t[1] = "#" =>
                 /\ d.param_count >= 0
                 /\ t[2] <= d.param_count + (IF d.is_variadic THEN 1 ELSE 0)

\* A redefinition is accepted when the replacement and is_variadic are the same,
\* and changes nothing; parameters are not compared.
Compatible(old, new) == old.repl = new.repl /\ old.is_variadic = new.is_variadic

macro_define(n, d) ==
    /\ Idle /\ Count
    /\ WellFormed(d)
    /\ \/ /\ n \notin DOMAIN defs
          /\ defs' = [m \in DOMAIN defs \cup {n} |-> IF m = n THEN d ELSE defs[m]]
          /\ UNCHANGED status
       \/ n \in DOMAIN defs /\ Compatible(defs[n], d) /\ UNCHANGED <<defs, status>>
       \/ /\ n \in DOMAIN defs /\ ~Compatible(defs[n], d)
          /\ status' = "exit"
          /\ UNCHANGED defs
    /\ UNCHANGED <<disabled, calls, emitted, line, met>>

DefineRejected(d) ==
    /\ Idle /\ Count
    /\ ~WellFormed(d)
    /\ status' = "exit"
    /\ UNCHANGED <<defs, disabled, calls, emitted, line, met>>

macro_undef(n) ==
    /\ Idle /\ Count
    /\ defs' = [m \in DOMAIN defs \ {n} |-> defs[m]]
    /\ UNCHANGED <<disabled, calls, emitted, line, met, status>>

(***************************************************************************)
(* Arguments and substitution.                                             *)
(***************************************************************************)
Nesting(text, from, j) ==
    Cardinality({k \in from..j : text[k] = Tok("(")})
        - Cardinality({k \in from..j : text[k] = Tok(")")})

\* The positions of a set in order.
Sorted(S) ==
    [k \in 1..Cardinality(S) |-> CHOOSE x \in S : Cardinality({y \in S : y <= x}) = k]

\* collect_args, from the token after "(": the arguments and where the scan goes
\* on.  Without the ")" the text ends and the last argument is dropped.
collect_args(text, from) ==
    LET closers == {j \in from..Len(text) : text[j] = Tok(")") /\ Nesting(text, from, j) = -1}
        close == IF closers = {} THEN Len(text) + 1 ELSE Min(closers)
        commas == {j \in from..(close - 1) :
                      text[j] = Tok(",") /\ Nesting(text, from, j) = 0}
        ends == Sorted(commas \cup (closers \cap {close}))
        start(k) == IF k = 1 THEN from ELSE ends[k - 1] + 1
    IN [next |-> close + 1,
        args |-> IF close = from THEN <<>>
                 ELSE [k \in DOMAIN ends |-> SubSeq(text, start(k), ends[k] - 1)]]

ArgCountOK(d, n) == IF d.is_variadic THEN n >= d.param_count ELSE n = d.param_count

\* The arguments from the k-th on, separated by commas.
VaArgs(args, k) ==
    LET va[i \in (k - 1)..Len(args)] ==
          IF i = k - 1 THEN <<>>
          ELSE va[i - 1] \o (IF i = k THEN <<>> ELSE <<Tok(",")>>) \o args[i]
    IN IF Len(args) < k THEN <<>> ELSE va[Len(args)]

\* The text a parameter stands for; the one after the last is __VA_ARGS__.
Argument(d, args, k) == IF k <= d.param_count THEN args[k] ELSE VaArgs(args, k)

\* Text that ## brings together is one identifier where it reads like one; else
\* the scan finds two tokens side by side, "1A" included.
Joins(l, r) ==
    /\ l[1] \in Words \cup {"glued"}
    /\ r[1] \in Words \cup {"glued"} \cup Numbers

Joined(l, r) == IF <<l[1], r[1]>> \in DOMAIN Spelled
                THEN Tok(Spelled[<<l[1], r[1]>>]) ELSE <<"glued", l, r>>

\* The right operand of ## is put behind the last token before it.
Paste(left, right) ==
    IF left = <<>> \/ right = <<>> \/ ~Joins(Last(left), Head(right))
    THEN left \o right
    ELSE Front(left) \o <<Joined(Last(left), Head(right))>> \o Tail(right)

\* Parameters take the expanded argument, # and the right operand of ## the
\* raw one.
substitute_args(d, args, raw) ==
    LET out[i \in 0..Len(d.repl)] ==
          IF i = 0 THEN [text |-> <<>>, paste_next |-> FALSE]
          ELSE LET t == d.repl[i]
                   p == out[i - 1]
                   new == CASE t[1] = "param" ->
                                 Argument(d, IF p.paste_next THEN raw ELSE args, t[2])
                            [] t[1] = "#" -> <<<<"str", Argument(d, raw, t[2])>>>>
                            [] OTHER -> <<t>>
               IN IF t = Tok("##") THEN [p EXCEPT !.paste_next = TRUE]
                  ELSE [text |-> IF p.paste_next THEN Paste(p.text, new) ELSE p.text \o new,
                        paste_next |-> FALSE]
    IN out[Len(d.repl)].text

(***************************************************************************)
(* expand_macros_text.                                                     *)
(***************************************************************************)

\* A call: waiting says for what the call has called itself.  The loop over the
\* file is the one that does not treat defined specially.
Scan(text) == [text |-> text, in |-> 1, out |-> <<>>, waiting |-> "no",
               name |-> "", raw |-> <<>>, args |-> <<>>, file |-> FALSE]

Top == Last(calls)
Caller == calls[Len(calls) - 1]
Rest == Front(calls)

\* The call goes on as f, and calls itself for text.
CallSelf(f, text) == Len(calls) < MaxCalls /\ calls' = Append(Append(Rest, f), Scan(text))

Scanning == status = "ok" /\ calls # <<>> /\ Top.waiting = "no" /\ Top.in <= Len(Top.text)
Token == Top.text[Top.in]

\* The name of a function-like macro followed by "(".
Invocation == IsFunction(Token) /\ Top.in < Len(Top.text) /\ Top.text[Top.in + 1] = Tok("(")

\* Mutant: the disabled flag is not looked at.
Expandable_Always(t) == IsObject(t)

Expandable(t) == IsObject(t) /\ t[1] \notin disabled

\* The scan meets a macro whose replacement an open call is expanding.
MeetsItself ==
    \E i \in DOMAIN calls : /\ calls[i].waiting \in {"object", "rescan"}
                            /\ Token = Tok(calls[i].name)

\* A line of the file that is no directive.
Line(text) ==
    /\ Idle /\ Count
    /\ calls' = <<[Scan(text) EXCEPT !.file = TRUE]>>
    /\ line' = text
    /\ UNCHANGED <<defs, disabled, emitted, met, status>>

\* The controlling expression of #if or #elif is expanded as text.
Condition(text) ==
    /\ Idle /\ Count
    /\ calls' = <<Scan(text)>>
    /\ line' = text
    /\ UNCHANGED <<defs, disabled, emitted, met, status>>

\* Mutant: the operand of defined is expanded.
CopyEnd_One(f) == f.in

\* The last token copied with the one at f.in: defined takes its operand along.
CopyEnd(f) ==
    LET closers == {j \in f.in..Len(f.text) : f.text[j] = Tok(")")}
    IN IF f.file \/ f.text[f.in] # Tok("defined") \/ f.in = Len(f.text) THEN f.in
       ELSE IF f.text[f.in + 1] # Tok("(") THEN f.in + 1
       ELSE IF closers = {} THEN Len(f.text) ELSE Min(closers)

Copy ==
    /\ Scanning
    /\ ~Expandable(Token) /\ ~Invocation
    /\ LET end == CopyEnd(Top)
       IN calls' = Append(Rest, [Top EXCEPT !.in = end + 1,
                                            !.out = @ \o SubSeq(Top.text, Top.in, end)])
    /\ met' = (met \/ MeetsItself)
    /\ UNCHANGED <<defs, disabled, emitted, line, lines, status>>

\* An object-like macro is disabled while its replacement is expanded.
ExpandObject ==
    /\ Scanning
    /\ Expandable(Token)
    /\ disabled' = disabled \cup {Token[1]}
    /\ CallSelf([Top EXCEPT !.in = @ + 1, !.waiting = "object", !.name = Token[1]],
                defs[Token[1]].repl)
    /\ UNCHANGED <<defs, emitted, line, lines, met, status>>

\* The arguments are substituted and the text is rescanned.
Rescan(f, args) ==
    CallSelf([f EXCEPT !.waiting = "rescan", !.args = args],
             substitute_args(defs[f.name], args, f.raw))

Invoke ==
    /\ Scanning
    /\ Invocation
    /\ LET d == defs[Token[1]]
           c == collect_args(Top.text, Top.in + 2)
           f == [Top EXCEPT !.in = c.next, !.name = Token[1], !.raw = c.args,
                            !.args = <<>>, !.waiting = "arg"]
       IN \/ ~ArgCountOK(d, Len(c.args)) /\ status' = "exit" /\ UNCHANGED calls
          \/ /\ ArgCountOK(d, Len(c.args))
             /\ IF c.args = <<>> THEN Rescan(f, <<>>) ELSE CallSelf(f, c.args[1])
             /\ UNCHANGED status
    /\ met' = (met \/ MeetsItself)
    /\ UNCHANGED <<defs, disabled, emitted, line, lines>>

\* Mutant: the flag stays set.
Enabled_Forgotten(n) == disabled

\* The flag is cleared when the replacement is expanded.
Enabled(n) == disabled \ {n}

\* The innermost call has reached the end of its text and returns its output.
Finish ==
    /\ status = "ok" /\ calls # <<>> /\ Top.waiting = "no" /\ Top.in > Len(Top.text)
    /\ \/ /\ Len(calls) = 1
          /\ calls' = <<>>
          /\ emitted' = Top.out
          /\ met' = FALSE
          /\ UNCHANGED disabled
       \/ /\ Len(calls) > 1
          /\ LET back == SubSeq(calls, 1, Len(calls) - 2)
                 f == [Caller EXCEPT !.out = @ \o Top.out, !.waiting = "no"]
                 args == Append(Caller.args, Top.out)
             IN \/ /\ Caller.waiting = "object"
                   /\ disabled' = Enabled(Caller.name)
                   /\ calls' = Append(back, f)
                \/ /\ Caller.waiting = "rescan"
                   /\ calls' = Append(back, f)
                   /\ UNCHANGED disabled
                \/ /\ Caller.waiting = "arg" /\ Len(args) < Len(Caller.raw)
                   /\ calls' = back \o <<[Caller EXCEPT !.args = args],
                                         Scan(Caller.raw[Len(args) + 1])>>
                   /\ UNCHANGED disabled
                \/ /\ Caller.waiting = "arg" /\ Len(args) = Len(Caller.raw)
                   /\ calls' = back \o <<[Caller EXCEPT !.waiting = "rescan", !.args = args],
                        Scan(substitute_args(defs[Caller.name], args, Caller.raw))>>
                   /\ UNCHANGED disabled
          /\ UNCHANGED <<emitted, met>>
    /\ UNCHANGED <<defs, line, lines, status>>

Expand == Copy \/ ExpandObject \/ Invoke \/ Finish

Next ==
    \/ \E m \in Definitions : macro_define(m.name, m.def) \/ DefineRejected(m.def)
    \/ \E n \in Names : macro_undef(n)
    \/ \E text \in Lines : Line(text)
    \/ \E text \in Conditions : Condition(text)
    \/ Expand

\* Expansion runs to its end; the file may end after any line.
Spec == Init /\ [][Next]_vars /\ WF_vars(Expand)

(***************************************************************************)
(* The reference: C's expansion as rewriting.  The leftmost invocation is  *)
(* replaced, the arguments put in unexpanded, and the result is scanned    *)
(* again together with the text that follows, until nothing is left to     *)
(* replace.  It needs no disabled flag where no macro is met in what came of *)
(* its own replacement.                                                    *)
(***************************************************************************)
OperandOfDefined(text, i) ==
    \/ i > 1 /\ text[i - 1] = Tok("defined")
    \/ i > 2 /\ text[i - 1] = Tok("(") /\ text[i - 2] = Tok("defined")

Redexes(text) ==
    {i \in DOMAIN text :
        /\ ~OperandOfDefined(text, i)
        /\ \/ IsObject(text[i])
           \/ IsFunction(text[i]) /\ i < Len(text) /\ text[i + 1] = Tok("(")}

Rewrite(text) ==
    LET i == Min(Redexes(text))
        d == defs[text[i][1]]
        c == collect_args(text, i + 2)
        after == IF d.param_count = -1 THEN i + 1 ELSE c.next
        new == IF d.param_count = -1 THEN d.repl
               ELSE FlattenSeq([k \in DOMAIN d.repl |->
                       IF d.repl[k][1] = "param" THEN Argument(d, c.args, d.repl[k][2])
                       ELSE <<d.repl[k]>>])
    IN SubSeq(text, 1, i - 1) \o new \o SubSeq(text, after, Len(text))

NormalForm(text) ==
    LET r[n \in 0..MaxRewrites] ==
          IF n = 0 THEN text
          ELSE LET t == r[n - 1] IN IF Redexes(t) = {} THEN t ELSE Rewrite(t)
    IN r[MaxRewrites]

(***************************************************************************)
(* Properties.                                                             *)
(***************************************************************************)
\* The disabled macros are exactly those whose replacement an open call is
\* expanding, so between lines every macro can be expanded, and a directive
\* never meets a disabled entry.
DisabledMatchesCalls ==
    disabled = {calls[i].name : i \in {j \in DOMAIN calls : calls[j].waiting = "object"}}

\* A ")" directly before a "(": what stands before may become a function's name.
Applied(text) ==
    \E i \in 1..(Len(text) - 1) : text[i] = Tok(")") /\ text[i + 1] = Tok("(")

\* No macro was met in its own replacement, # and ## are not used, and no
\* invocation is put together from a replacement and the text after it, which
\* this expansion does not do.
Plain ==
    /\ ~met
    /\ ~Applied(line)
    /\ \A n \in DOMAIN defs :
        /\ \A i \in DOMAIN defs[n].repl : defs[n].repl[i][1] \notin {"#", "##"}
        /\ defs[n].repl # <<>> => ~IsFunction(Last(defs[n].repl))
        /\ ~Applied(defs[n].repl)

\* Expanding the arguments first and rescanning the result, call by call, gives
\* what C's rewriting gives: nothing is expanded twice, lost or left over.
ExpandsLikeRewriting ==
    [][calls # <<>> /\ calls' = <<>> /\ Plain => emitted' = NormalForm(line)]_vars

\* A function-like macro is invoked in the text that an invocation of it became.
FunctionWithinItself ==
    \E j, k \in DOMAIN calls :
        /\ j < k /\ calls[j].name = calls[k].name
        /\ calls[j].waiting = "rescan" /\ calls[k].waiting \in {"arg", "rescan"}

\* Expansion of every line ends, also where object-like macros name each other
\* in a cycle, unless a function-like macro is invoked within itself, whether
\* its replacement names it, an argument does or ## puts its name together:
\* function-like macros have no disabled flag, and the code may never return.
Terminates == calls # <<>> ~> (calls = <<>> \/ status = "exit" \/ FunctionWithinItself)
=============================================================================
