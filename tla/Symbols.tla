------------------------------- MODULE Symbols ------------------------------
(***************************************************************************)
(* The parser's tables of file-scope objects and functions.  Every file-   *)
(* scope declarator is registered and checked against what the name was    *)
(* before; calls are checked against the function table.  A rejected       *)
(* declaration counts an error and parsing goes on with the tables as the  *)
(* error left them.                                                        *)
(*                                                                         *)
(* Types are compared by kind, as parser_register_global and               *)
(* parser_register_function compare them.                                  *)
(***************************************************************************)
EXTENDS Integers, Sequences, FiniteSets

CONSTANTS
    Names,       \* identifiers
    TypeKinds,   \* TypeKind: of objects, parameters and results
    MaxParams,   \* model bound: parameters of a function
    MaxDecls     \* model bound: declarations and calls of the unit

ASSUME SymbolsAssumption == MaxParams \in Nat /\ MaxDecls \in Nat

StorageClass == {"SC_NONE", "SC_EXTERN", "SC_STATIC"}

ParamLists == UNION {[1..n -> TypeKinds] : n \in 0..MaxParams}

VARIABLES
    globals,     \* name -> entry, for the names in the table
    funcs,       \* name -> signature, for the names in the table
    errors,
    decls,       \* declarations and calls seen
    seen,        \* history: accepted declarations, each once
    defs,        \* history: accepted definitions of each name, counted
    calls        \* history: accepted calls of prototyped functions

vars == <<globals, funcs, errors, decls, seen, defs, calls>>

IsGlobal(n) == n \in DOMAIN globals
IsFunc(n) == n \in DOMAIN funcs

Put(table, n, e) == [m \in DOMAIN table \cup {n} |-> IF m = n THEN e ELSE table[m]]

Init ==
    /\ globals = [n \in {} |-> 0]
    /\ funcs = [n \in {} |-> 0]
    /\ errors = 0
    /\ decls = 0
    /\ seen = {}
    /\ defs = [n \in Names |-> 0]
    /\ calls = {}

Count == decls < MaxDecls /\ decls' = decls + 1

\* PARSER_ERROR with the tables left as they are.
Reject == errors' = errors + 1 /\ UNCHANGED <<globals, funcs, seen, defs, calls>>

Accept(n, d, is_def) ==
    /\ errors' = errors
    /\ seen' = seen \cup {d}
    /\ defs' = [defs EXCEPT ![n] = @ + (IF is_def THEN 1 ELSE 0)]
    /\ calls' = calls

(***************************************************************************)
(* File-scope objects.                                                     *)
(***************************************************************************)
Static(sc) == sc = "SC_STATIC"

\* Mutant: linkage is compared only against a definition.
ObjectConflict_Linkage(n, kind, sc, has_init) ==
    /\ IsGlobal(n)
    /\ \/ globals[n].kind # kind
       \/ globals[n].is_defined /\ Static(globals[n].storage_class) # Static(sc)
       \/ /\ Static(sc) \/ (globals[n].storage_class # "SC_EXTERN" /\ sc # "SC_EXTERN")
          /\ globals[n].is_defined /\ has_init

\* The declaration of an object that is already in the table is rejected.
ObjectConflict(n, kind, sc, has_init) ==
    /\ IsGlobal(n)
    /\ \/ globals[n].kind # kind
       \/ Static(globals[n].storage_class) # Static(sc)
       \/ /\ Static(sc) \/ (globals[n].storage_class # "SC_EXTERN" /\ sc # "SC_EXTERN")
          /\ globals[n].is_defined /\ has_init

\* The entry after an accepted redeclaration: a definition of an object that is
\* not extern is noted, and an extern entry is upgraded without noting it.
Redeclared(old, sc, has_init) ==
    IF Static(sc) \/ (old.storage_class # "SC_EXTERN" /\ sc # "SC_EXTERN")
    THEN [old EXCEPT !.is_defined = @ \/ has_init]
    ELSE [old EXCEPT !.storage_class = IF sc = "SC_NONE" THEN "SC_NONE" ELSE @]

parser_register_global(n, kind, sc, has_init) ==
    globals' = Put(globals, n,
        IF IsGlobal(n) THEN Redeclared(globals[n], sc, has_init)
        ELSE [kind |-> kind, storage_class |-> sc, is_defined |-> has_init])

TakenByFunction(n) == IsFunc(n)

\* A file-scope declarator that is not a function.
DeclareObject(n, kind, sc, has_init) ==
    /\ Count
    /\ \/ /\ \/ sc = "SC_EXTERN" /\ has_init
             \/ TakenByFunction(n)
             \/ ObjectConflict(n, kind, sc, has_init)
          /\ Reject
       \/ /\ ~(sc = "SC_EXTERN" /\ has_init)
          /\ ~TakenByFunction(n)
          /\ ~ObjectConflict(n, kind, sc, has_init)
          /\ parser_register_global(n, kind, sc, has_init)
          /\ Accept(n, [what |-> "object", name |-> n, kind |-> kind,
                        static |-> Static(sc)], has_init)
          /\ UNCHANGED funcs

(***************************************************************************)
(* Functions.                                                              *)
(***************************************************************************)

\* Parameter counts and kinds are compared unless the entry has none to compare.
ParamsClash(old, params) ==
    /\ old.arity_known /\ ~old.has_no_prototype
    /\ old.params # params

\* The entry takes over parameters and result when it had no prototype, before
\* the checks that follow: is_variadic and has_no_prototype stay.
Updated(old, params, ret) ==
    IF old.has_no_prototype \/ ~old.arity_known
    THEN [old EXCEPT !.params = params, !.arity_known = TRUE, !.return_type = ret]
    ELSE old

\* Mutant: a second body is not noticed.
SecondBody_Ignored(old, is_definition) == FALSE

SecondBody(old, is_definition) == is_definition /\ old.has_definition

\* parser_register_function for a declaration or definition at file scope.
DeclareFunction(n, params, ret, sc, variadic, no_proto, is_definition) ==
    /\ Count
    /\ no_proto => params = <<>> /\ ~variadic
    /\ variadic => params # <<>>
    /\ LET old == funcs[n]
           new == Updated(old, params, ret)
       IN \/ IsGlobal(n) /\ Reject
          \/ /\ ~IsGlobal(n) /\ IsFunc(n)
             /\ Static(old.storage_class) # Static(sc) \/ ParamsClash(old, params)
             /\ Reject
          \/ /\ ~IsGlobal(n) /\ IsFunc(n)
             /\ Static(old.storage_class) = Static(sc) /\ ~ParamsClash(old, params)
             /\ \/ new.return_type # ret
                \/ SecondBody(new, is_definition)
             /\ funcs' = Put(funcs, n, new)
             /\ errors' = errors + 1
             /\ UNCHANGED <<globals, seen, defs, calls>>
          \/ /\ ~IsGlobal(n)
             /\ IsFunc(n) =>
                  /\ Static(old.storage_class) = Static(sc)
                  /\ ~ParamsClash(old, params)
                  /\ new.return_type = ret
                  /\ ~SecondBody(new, is_definition)
             /\ funcs' = Put(funcs, n,
                  IF IsFunc(n)
                  THEN [new EXCEPT !.has_definition = @ \/ is_definition]
                  ELSE [params |-> params, arity_known |-> TRUE,
                        return_type |-> ret, storage_class |-> sc,
                        is_variadic |-> variadic, has_no_prototype |-> no_proto,
                        has_definition |-> is_definition])
             /\ Accept(n, [what |-> IF no_proto THEN "()" ELSE "prototype", name |-> n,
                           params |-> params, return_type |-> ret,
                           static |-> Static(sc), variadic |-> variadic],
                       is_definition)
             /\ UNCHANGED globals

\* A function declared inside a block: its parameters are skipped, and the name
\* is entered with param_count -1, an arity not known, if it is new.
DeclareFunctionInBlock(n, ret) ==
    /\ Count
    /\ \/ IsFunc(n) /\ UNCHANGED <<globals, funcs, errors, seen, defs, calls>>
       \/ ~IsFunc(n) /\ IsGlobal(n) /\ Reject
       \/ /\ ~IsFunc(n) /\ ~IsGlobal(n)
          /\ funcs' = Put(funcs, n,
                [params |-> <<>>, arity_known |-> FALSE, return_type |-> ret,
                 storage_class |-> "SC_NONE",
                 is_variadic |-> FALSE, has_no_prototype |-> FALSE,
                 has_definition |-> FALSE])
          /\ Accept(n, [what |-> "block", name |-> n, return_type |-> ret,
                        static |-> FALSE], FALSE)
          /\ UNCHANGED globals

\* Mutant: a variadic call may omit fixed arguments.
ArityOK_Variadic(sig, argc) == sig.is_variadic \/ argc = Len(sig.params)

ArityOK(sig, argc) ==
    IF sig.is_variadic THEN argc >= Len(sig.params) ELSE argc = Len(sig.params)

\* A call of a function in the table.
Call(n, argc) ==
    /\ Count
    /\ IsFunc(n)
    /\ LET sig == funcs[n]
           checked == sig.arity_known /\ ~sig.has_no_prototype
       IN \/ /\ checked /\ ~ArityOK(sig, argc)
             /\ Reject
          \/ /\ checked => ArityOK(sig, argc)
             /\ calls' = IF checked THEN calls \cup {[name |-> n, argc |-> argc]}
                                    ELSE calls
             /\ UNCHANGED <<globals, funcs, errors, seen, defs>>

Next ==
    \E n \in Names :
        \/ \E kind \in TypeKinds, sc \in StorageClass, has_init \in BOOLEAN :
              DeclareObject(n, kind, sc, has_init)
        \/ \E params \in ParamLists, ret \in TypeKinds, sc \in StorageClass,
              variadic, no_proto, is_definition \in BOOLEAN :
              DeclareFunction(n, params, ret, sc, variadic, no_proto, is_definition)
        \/ \E ret \in TypeKinds : DeclareFunctionInBlock(n, ret)
        \/ \E argc \in 0..(MaxParams + 1) : Call(n, argc)

Spec == Init /\ [][Next]_vars

(***************************************************************************)
(* Properties.                                                             *)
(***************************************************************************)
\* In an accepted unit a name has one meaning: it is an object or a function,
\* with one linkage, one type for an object, one result type for a function
\* unless its first declarations had no prototype.
OneMeaning ==
    \A d, e \in seen : d.name = e.name =>
        /\ (d.what = "object") = (e.what = "object")
        /\ d.static = e.static
        /\ d.what = "object" => d.kind = e.kind
        /\ d.what = "prototype" /\ e.what = "prototype"
             /\ (\A c \in seen : c.name = d.name => c.what = "prototype")
                => d.return_type = e.return_type /\ d.params = e.params

\* No function gets two bodies, however its declarations are ordered.
OneBody ==
    \A n \in Names :
        (\E d \in seen : d.name = n /\ d.what # "object") => defs[n] <= 1

\* Every call that was checked passes at least the parameters of every
\* prototype of the function in the unit, also of those that come after the
\* call, and exactly those when none of them is variadic.
CallsMatchPrototypes ==
    \A c \in calls, d \in seen :
        /\ d.name = c.name /\ d.what = "prototype"
        /\ \A e \in seen : e.name = c.name => e.what # "()"
        => /\ c.argc >= Len(d.params)
           /\ (\A e \in seen : e.name = c.name /\ e.what = "prototype" => ~e.variadic)
                => c.argc = Len(d.params)

=============================================================================
