-------------------------------- MODULE Parser ------------------------------
(***************************************************************************)
(* The statement and external-declaration parser with its error recovery.  *)
(*                                                                         *)
(* parser.c is a recursive-descent parser: the C call stack holds the open *)
(* statements (ctx), and counters in the Parser object mirror part of it:  *)
(* scope_depth, loop_depth, switch_depth, the typedef table, and the flag  *)
(* of the enclosing function.  An error longjmps out of every open call to *)
(* parse_translation_unit, which resets scope_depth only and lets          *)
(* parser_sync skip tokens.                                                *)
(*                                                                         *)
(* A token of the model stands for a run of tokens the parser treats alike:*)
(*   func / vfunc  the specifiers, declarator and parameter list of a      *)
(*                 function, a variadic one for vfunc                      *)
(*   typedef, use  "typedef int n" and "n x", without their semicolon      *)
(*   while, switch, if, case, default   with "( expr )" or up to ":";     *)
(*                 for is "for ("                                          *)
(*   label         "id :", or the auto, register or static before a local  *)
(*                 declaration                                             *)
(*   simple        an expression, return or goto statement without ";"     *)
(*   va_start      an expression that only a variadic function may contain *)
(* Expressions contain no braces and no semicolons, so what parser_sync    *)
(* looks at is kept token by token.                                        *)
(***************************************************************************)
EXTENDS Naturals, Sequences, FiniteSets

CONSTANTS
    Names,        \* typedef names
    NoName,       \* no name
    Limits,       \* the values of --max-errors; 0 is "unlimited"
    MaxTokens     \* model bound: tokens of the translation unit

ASSUME ParserAssumption ==
    /\ NoName \notin Names
    /\ Limits \subseteq Nat
    /\ MaxTokens \in Nat

VARIABLES
    current,      \* parser->current
    pos,          \* tokens consumed
    pc,           \* the parser function that is about to read current
    ctx,          \* the open calls, innermost last
    pending,      \* the name a typedef declares once its ";" is read
    typedefs,     \* the entries; Duplicate keeps them apart, and only whether
                  \* an entry exists is asked, so their order is left out
    scope_depth, loop_depth, switch_depth, current_func_is_variadic,
    sync_depth,   \* parser_sync's local depth
    g_max_errors,
    errors,       \* g_error_count; without a limit only whether it is 0
    file_names    \* history: names typedef'd at file scope

table == <<typedefs, scope_depth>>
counts == <<loop_depth, switch_depth>>
vars == <<current, pos, pc, ctx, pending, table, counts, current_func_is_variadic,
          sync_depth, g_max_errors, errors, file_names>>

Plain == {"{", "}", ";", ")", "while", "do", "for", "switch", "if", "else", "case",
          "default", "label", "break", "continue", "simple", "va_start",
          "func", "vfunc", "eof"}

Token == {[k |-> t, n |-> NoName] : t \in Plain}
            \cup [k : {"typedef", "use"}, n : Names]

Kinds == {"block", "while", "do", "for", "switch", "if"}

\* An open call: names are the typedefs declared directly in a block, saved is
\* the caller's current_func_is_variadic, own the function's flag.
Frame == [kind : Kinds, names : SUBSET Names, saved : BOOLEAN, own : BOOLEAN]

Top == ctx[Len(ctx)]
Outer == SubSeq(ctx, 1, Len(ctx) - 1)
Open(kind) == [kind |-> kind, names |-> {}, saved |-> FALSE, own |-> FALSE]

Init ==
    /\ current \in Token
    /\ pos = 0
    /\ pc = "ext"
    /\ ctx = <<>>
    /\ pending = NoName
    /\ typedefs = {}
    /\ scope_depth = 0 /\ loop_depth = 0 /\ switch_depth = 0
    /\ current_func_is_variadic = FALSE
    /\ sync_depth = 0
    /\ g_max_errors \in Limits
    /\ errors = 0
    /\ file_names = {}

(***************************************************************************)
(* The token stream and the typedef table.                                 *)
(***************************************************************************)

\* parser->current = lexer_next_token(...): the lexer repeats EOF at the end.
Advance ==
    /\ pos' = IF current.k = "eof" THEN pos ELSE pos + 1
    /\ current' \in {t \in Token : (current.k = "eof" \/ pos' >= MaxTokens)
                                        => t.k = "eof"}

Look == UNCHANGED <<current, pos>>

\* parser_find_typedef, as the question whether the name is a type.
parser_find_typedef(name) == \E e \in typedefs : e.name = name

\* The name is already a typedef of this scope.
Duplicate(name) ==
    \E e \in typedefs : e.name = name /\ e.scope_depth = scope_depth

parser_register_typedef(name) ==
    typedefs' = typedefs \cup {[name |-> name, scope_depth |-> scope_depth]}

\* Mutant: only entries deeper than the scope that is left are dropped.
Survives_Late(e) == e.scope_depth <= scope_depth

Survives(e) == e.scope_depth < scope_depth

parser_leave_scope ==
    /\ typedefs' = {e \in typedefs : Survives(e)}
    /\ scope_depth' = scope_depth - 1

(***************************************************************************)
(* Errors and recovery.                                                    *)
(***************************************************************************)

ResetScope == scope_depth' = 0

\* PARSER_ERROR: exit at the limit, or longjmp to parse_translation_unit.
Error ==
    /\ errors' = IF g_max_errors = 0 THEN 1 ELSE errors + 1
    /\ Look
    /\ IF g_max_errors > 0 /\ errors' >= g_max_errors
       THEN pc' = "exit" /\ UNCHANGED <<ctx, scope_depth, sync_depth, pending>>
       ELSE /\ pc' = "sync"
            /\ ctx' = <<>>
            /\ ResetScope
            /\ sync_depth' = 0
            /\ pending' = NoName
    /\ UNCHANGED <<typedefs, counts, current_func_is_variadic, g_max_errors, file_names>>

\* Mutant: the boundary token is left in place.
SyncStop_NotConsumed == Look /\ pc' = "ext"

\* parser_sync found its boundary and steps past it.
SyncStop == Advance /\ pc' = "ext"

\* One turn of parser_sync's loop.
parser_sync ==
    /\ pc = "sync"
    /\ \/ /\ current.k = "eof"
          /\ pc' = "ext" /\ Look /\ UNCHANGED sync_depth
       \/ /\ \/ current.k = "}" /\ sync_depth <= 1
             \/ current.k = ";" /\ sync_depth = 0
          /\ SyncStop
          /\ sync_depth' = 0
       \/ /\ current.k = "}" /\ sync_depth > 1
          /\ sync_depth' = sync_depth - 1
          /\ Advance /\ UNCHANGED pc
       \/ /\ current.k = "{"
          /\ sync_depth' = sync_depth + 1
          /\ Advance /\ UNCHANGED pc
       \/ /\ current.k \notin {"eof", "{", "}"}
          /\ current.k = ";" => sync_depth > 0
          /\ Advance /\ UNCHANGED <<pc, sync_depth>>
    /\ UNCHANGED <<ctx, pending, table, counts, current_func_is_variadic, g_max_errors,
                   errors, file_names>>

(***************************************************************************)
(* External declarations.                                                  *)
(***************************************************************************)
Quiet == UNCHANGED <<sync_depth, g_max_errors, errors>>

\* parse_external_declaration, and the test of parse_translation_unit's loop.
ExternalDeclaration ==
    /\ pc = "ext"
    /\ \/ /\ current.k = "eof"
          /\ pc' = "done"
          /\ Look
          /\ UNCHANGED <<ctx, pending, table, counts, current_func_is_variadic,
                         file_names>> /\ Quiet
       \/ /\ current.k \in {"func", "vfunc"}
          /\ Advance
          /\ pc' = IF current.k = "vfunc" THEN "vbody" ELSE "body"
          /\ UNCHANGED <<ctx, pending, table, counts, current_func_is_variadic,
                         file_names>> /\ Quiet
       \/ /\ \/ current.k = "typedef"
             \/ current.k = "use" /\ parser_find_typedef(current.n)
          /\ Advance
          /\ pc' = "semi"
          /\ pending' = IF current.k = "typedef" THEN current.n ELSE NoName
          /\ UNCHANGED <<ctx, table, counts, current_func_is_variadic, file_names>>
          /\ Quiet
       \/ /\ current.k \notin {"eof", "func", "vfunc", "typedef"}
          /\ current.k = "use" => ~parser_find_typedef(current.n)
          /\ Error

\* Mutant: a flag left by an abandoned function stays set.
BodyFlag_Sticky == pc = "vbody" \/ current_func_is_variadic

BodyFlag == pc = "vbody"

\* A declarator was read: "{" opens the body of a definition, ";" ends a
\* declaration.
FunctionBody ==
    /\ pc \in {"body", "vbody"}
    /\ \/ /\ current.k = "{"
          /\ Advance
          /\ ctx' = <<[kind |-> "block", names |-> {},
                       saved |-> current_func_is_variadic, own |-> pc = "vbody"]>>
          /\ current_func_is_variadic' = BodyFlag
          /\ scope_depth' = scope_depth + 1
          /\ pc' = "block"
          /\ UNCHANGED <<pending, typedefs, counts, file_names>> /\ Quiet
       \/ /\ current.k = ";"
          /\ Advance
          /\ pc' = "ext"
          /\ UNCHANGED <<ctx, pending, table, counts, current_func_is_variadic,
                         file_names>> /\ Quiet
       \/ current.k \notin {"{", ";"} /\ Error

(***************************************************************************)
(* Statements.                                                             *)
(***************************************************************************)

\* The loop of parse_block: the next statement, or the end of the block.
BlockLoop ==
    /\ pc = "block"
    /\ IF current.k # "}"
       THEN /\ pc' = "stmt"
            /\ Look
            /\ UNCHANGED <<ctx, table, current_func_is_variadic>>
       ELSE /\ parser_leave_scope
            /\ Advance
            /\ ctx' = Outer
            /\ IF Outer = <<>>
               THEN /\ pc' = "ext"
                    /\ current_func_is_variadic' = Top.saved
               ELSE pc' = "return" /\ UNCHANGED current_func_is_variadic
    /\ UNCHANGED <<pending, counts, file_names>> /\ Quiet

\* A statement that contains statements: the call is pushed, and the counters
\* that cover its body are raised.
Enter(kind) ==
    /\ current.k = IF kind = "block" THEN "{" ELSE kind
    /\ Advance
    /\ ctx' = Append(ctx, Open(kind))
    /\ pc' = CASE kind = "block" -> "block" [] kind = "for" -> "for1"
               [] OTHER -> "stmt"
    /\ scope_depth' = IF kind \in {"block", "for"} THEN scope_depth + 1
                                                  ELSE scope_depth
    /\ loop_depth' = IF kind \in {"while", "do"} THEN loop_depth + 1 ELSE loop_depth
    /\ switch_depth' = IF kind = "switch" THEN switch_depth + 1 ELSE switch_depth
    /\ UNCHANGED <<pending, typedefs, current_func_is_variadic, file_names>> /\ Quiet

\* A label, checked and consumed; its statement follows.
Label ==
    /\ current.k = "label" \/ (current.k \in {"case", "default"} /\ switch_depth > 0)
    /\ Advance
    /\ UNCHANGED <<pc, ctx, pending, table, counts, current_func_is_variadic,
                   file_names>> /\ Quiet

\* A statement that is complete up to its ";".
Simple ==
    /\ \/ current.k \in {"simple", "typedef", "func", "vfunc"}
       \/ current.k = "use" /\ parser_find_typedef(current.n)
       \/ current.k = "va_start" /\ current_func_is_variadic
       \/ current.k = "break" /\ (loop_depth > 0 \/ switch_depth > 0)
       \/ current.k = "continue" /\ loop_depth > 0
    /\ Advance
    /\ pc' = "semi"
    /\ pending' = IF current.k = "typedef" THEN current.n ELSE NoName
    /\ UNCHANGED <<ctx, table, counts, current_func_is_variadic, file_names>>
    /\ Quiet

\* What parse_statement rejects on sight.
Misplaced ==
    \/ current.k \in {";", "}", ")", "else", "eof"}
    \/ current.k \in {"case", "default"} /\ switch_depth = 0
    \/ current.k = "use" /\ ~parser_find_typedef(current.n)
    \/ current.k = "va_start" /\ ~current_func_is_variadic
    \/ current.k = "break" /\ loop_depth = 0 /\ switch_depth = 0
    \/ current.k = "continue" /\ loop_depth = 0

parse_statement ==
    /\ pc = "stmt"
    /\ \/ \E kind \in Kinds : Enter(kind)
       \/ Label
       \/ Simple
       \/ Misplaced /\ Error

\* parser_expect(TOKEN_SEMICOLON), after which a typedef is registered: its
\* duplicate is reported when the ";" is already consumed.
Semicolon ==
    /\ pc = "semi"
    /\ \/ /\ current.k = ";"
          /\ Advance
          /\ pc' = IF pending # NoName THEN "register"
                   ELSE IF ctx = <<>> THEN "ext" ELSE "return"
          /\ UNCHANGED <<ctx, pending, table, counts, current_func_is_variadic, file_names>>
          /\ Quiet
       \/ current.k # ";" /\ Error

Register ==
    /\ pc = "register"
    /\ \/ Duplicate(pending) /\ Error
       \/ /\ ~Duplicate(pending)
          /\ parser_register_typedef(pending)
          /\ pending' = NoName
          /\ pc' = IF ctx = <<>> THEN "ext" ELSE "return"
          \* the declaration belongs to the innermost block
          /\ LET blocks == {i \in DOMAIN ctx : ctx[i].kind \in {"block", "for"}}
                 inner == CHOOSE i \in blocks : \A j \in blocks : j <= i
             IN IF ctx = <<>>
                THEN file_names' = file_names \cup {pending} /\ UNCHANGED ctx
                ELSE /\ ctx' = [ctx EXCEPT ![inner].names = @ \cup {pending}]
                     /\ UNCHANGED file_names
          /\ Look
          /\ UNCHANGED <<scope_depth, counts, current_func_is_variadic>> /\ Quiet

\* The clauses of a for header: each is optional and has its terminator; the
\* first may be a declaration.  The body is covered by loop_depth.
ForPcs == {"for1", "for1end", "for2", "for2end", "for3", "for3end"}

ForClause ==
    /\ pc \in {"for1", "for2", "for3"}
    /\ \/ current.k = "simple"
       \/ current.k = "va_start" /\ current_func_is_variadic
       \/ pc = "for1" /\ current.k = "use" /\ parser_find_typedef(current.n)

ForEnd == current.k = IF pc \in {"for3", "for3end"} THEN ")" ELSE ";"

parse_for_header ==
    /\ pc \in ForPcs
    /\ \/ /\ ForClause
          /\ Advance
          /\ pc' = CASE pc = "for1" -> "for1end" [] pc = "for2" -> "for2end"
                     [] OTHER -> "for3end"
          /\ UNCHANGED <<ctx, pending, table, counts, current_func_is_variadic,
                         file_names>> /\ Quiet
       \/ /\ ForEnd
          /\ Advance
          /\ pc' = CASE pc \in {"for1", "for1end"} -> "for2"
                     [] pc \in {"for2", "for2end"} -> "for3" [] OTHER -> "stmt"
          /\ loop_depth' = IF pc \in {"for3", "for3end"} THEN loop_depth + 1
                                                        ELSE loop_depth
          /\ UNCHANGED <<ctx, pending, table, switch_depth,
                         current_func_is_variadic, file_names>> /\ Quiet
       \/ ~ForClause /\ ~ForEnd /\ Error

\* Mutant: a do statement leaves the loop counter raised.
LoopClosed_While == Top.kind \in {"while", "for"}

LoopClosed == Top.kind \in {"while", "for", "do"}

\* parse_statement returned to the call that asked for it.
Return ==
    /\ pc = "return"
    /\ IF Top.kind = "block"
       THEN /\ pc' = "block"
            /\ Look
            /\ UNCHANGED <<ctx, table, counts>>
       ELSE /\ ctx' = Outer
            /\ loop_depth' = IF LoopClosed THEN loop_depth - 1 ELSE loop_depth
            /\ switch_depth' = IF Top.kind = "switch" THEN switch_depth - 1
                                                      ELSE switch_depth
            /\ IF Top.kind = "for" THEN parser_leave_scope ELSE UNCHANGED table
            /\ \/ /\ Top.kind \in {"while", "for", "switch"}
                  /\ pc' = "return" /\ Look
               \/ Top.kind = "do" /\ pc' = "dowhile" /\ Look
               \/ /\ Top.kind = "if" /\ current.k = "else"
                  /\ pc' = "stmt" /\ Advance
               \/ /\ Top.kind = "if" /\ current.k # "else"
                  /\ pc' = "return" /\ Look
    /\ UNCHANGED <<pending, current_func_is_variadic, file_names>> /\ Quiet

\* The "while ( expr ) ;" that closes a do statement.
DoWhile ==
    /\ pc = "dowhile"
    /\ \/ /\ current.k = "while"
          /\ Advance
          /\ pc' = "semi"
          /\ UNCHANGED <<ctx, pending, table, counts, current_func_is_variadic,
                         file_names>> /\ Quiet
       \/ current.k # "while" /\ Error

Next ==
    \/ parser_sync \/ ExternalDeclaration \/ FunctionBody \/ BlockLoop
    \/ parse_statement \/ Semicolon \/ Register \/ parse_for_header
    \/ Return \/ DoWhile

\* The parser runs on its own: nothing stops it but the end of its input.
Spec == Init /\ [][Next]_vars /\ WF_vars(Next)

(***************************************************************************)
(* Properties.                                                             *)
(***************************************************************************)
OpenCalls(kinds) == Cardinality({i \in DOMAIN ctx : ctx[i].kind \in kinds})

\* The for whose header is being read has not raised loop_depth yet.
OpenLoops ==
    OpenCalls({"while", "do", "for"}) - (IF pc \in ForPcs THEN 1 ELSE 0)

\* The counters agree with the open statements.  After an error scope_depth
\* still does, because it is reset; loop_depth and switch_depth are not reset
\* and may only be too high, so that a break, continue or case that is in its
\* place is never rejected because of an earlier error.
CountersMatchNesting ==
    pc # "exit" =>
        /\ scope_depth = OpenCalls({"block", "for"})
        /\ loop_depth >= OpenLoops
        /\ switch_depth >= OpenCalls({"switch"})
        /\ errors = 0 => loop_depth = OpenLoops /\ switch_depth = OpenCalls({"switch"})

\* C's scope rule for typedef names: a name is a type exactly where one of the
\* enclosing blocks, or the file, has declared it.  After an error names of the
\* abandoned blocks may linger, but no declared name is ever lost.
InScope(n) == n \in file_names \/ \E i \in DOMAIN ctx : n \in ctx[i].names

TypedefScoping ==
    \A n \in Names :
        /\ InScope(n) /\ pc \notin {"exit"} => parser_find_typedef(n)
        /\ errors = 0 => (parser_find_typedef(n) <=> InScope(n))

\* Inside a function body current_func_is_variadic is that function's flag,
\* whatever functions were abandoned before it, so __builtin_va_start is
\* accepted in the variadic functions and only there.
FunctionContext == ctx # <<>> => current_func_is_variadic = ctx[1].own

\* Every input is parsed to its end or to the error limit: recovery makes
\* progress at every token, and an unclosed block ends at EOF.
Terminates == <>(pc \in {"done", "exit"})
=============================================================================
