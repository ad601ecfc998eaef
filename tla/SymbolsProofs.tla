---------------------------- MODULE SymbolsProofs ---------------------------
(***************************************************************************)
(* Symbols, for every set of names and types and every number of           *)
(* parameters, declarations and calls.                                     *)
(***************************************************************************)
EXTENDS Symbols, TLAPS

Object == [kind : TypeKinds, storage_class : StorageClass, is_defined : BOOLEAN]

Signature == [params : ParamLists, arity_known : BOOLEAN, return_type : TypeKinds,
              storage_class : StorageClass, is_variadic : BOOLEAN,
              has_no_prototype : BOOLEAN, has_definition : BOOLEAN]

ObjectDecl == [what : {"object"}, name : Names, kind : TypeKinds, static : BOOLEAN]

FunctionDecl == [what : {"()", "prototype"}, name : Names, params : ParamLists,
                 return_type : TypeKinds, static : BOOLEAN, variadic : BOOLEAN]

BlockDecl == [what : {"block"}, name : Names, return_type : TypeKinds,
              static : BOOLEAN]

TypeInv ==
    /\ \A n \in DOMAIN globals : n \in Names /\ globals[n] \in Object
    /\ \A n \in DOMAIN funcs : n \in Names /\ funcs[n] \in Signature
    /\ seen \subseteq ObjectDecl \cup FunctionDecl \cup BlockDecl
    /\ defs \in [Names -> Nat]
    /\ calls \subseteq [name : Names, argc : Nat]

(***************************************************************************)
(* What the tables know of name m.                                         *)
(***************************************************************************)

\* An object's entry has the type and the linkage of all its declarations.
ObjectInv(m) ==
    \A d \in seen : d.name = m /\ d.what = "object" =>
        /\ IsGlobal(m)
        /\ globals[m].kind = d.kind
        /\ Static(globals[m].storage_class) = d.static

\* A function's entry has the linkage of all its declarations, and unless it
\* started as f() the parameters and the result of all its prototypes.
FunctionInv(m) ==
    \A d \in seen : d.name = m /\ d.what # "object" =>
        /\ IsFunc(m)
        /\ Static(funcs[m].storage_class) = d.static
        /\ d.what = "prototype" /\ ~funcs[m].has_no_prototype =>
              /\ funcs[m].arity_known
              /\ funcs[m].params = d.params
              /\ funcs[m].return_type = d.return_type

\* Every flag of an entry goes back to a declaration, and has_definition counts
\* the bodies.
EntryInv(m) ==
    /\ IsFunc(m) =>
          /\ ~IsGlobal(m)
          /\ funcs[m].has_no_prototype =>
                \E d \in seen : d.name = m /\ d.what = "()"
          /\ funcs[m].is_variadic =>
                \E d \in seen : d.name = m /\ d.what = "prototype" /\ d.variadic
          /\ defs[m] = IF funcs[m].has_definition THEN 1 ELSE 0
          /\ funcs[m].has_definition => funcs[m].arity_known
    /\ ~IsFunc(m) /\ ~IsGlobal(m) => defs[m] = 0

\* A call was checked against an entry that cannot change any more.
CallInv(m) ==
    \A c \in calls : c.name = m =>
        /\ IsFunc(m)
        /\ funcs[m].arity_known /\ ~funcs[m].has_no_prototype
        /\ ArityOK(funcs[m], c.argc)

NameInv(m) == ObjectInv(m) /\ FunctionInv(m) /\ EntryInv(m) /\ CallInv(m)

IInv == TypeInv /\ \A m \in Names : NameInv(m)

(***************************************************************************)
(* Facts about the definitions.                                            *)
(***************************************************************************)

\* Internal linkage is a truth value.
LEMMA StaticBoolean == ASSUME NEW sc PROVE Static(sc) \in BOOLEAN
  BY DEF Static

\* A name that a step does not mention keeps what the tables know of it.
LEMMA OtherName ==
  ASSUME IInv, NEW n \in Names, NEW m \in Names, m # n,
         NEW gs, NEW fs,
         globals' = globals \/ globals' = Put(globals, n, gs),
         funcs' = funcs \/ funcs' = Put(funcs, n, fs),
         defs'[m] = defs[m],
         seen \subseteq seen', \A d \in seen' : d.name = m => d \in seen,
         \A c \in calls' : c.name = m => c \in calls
  PROVE  NameInv(m)'
<1>1. /\ IsGlobal(m)' <=> IsGlobal(m)
      /\ IsGlobal(m) => globals'[m] = globals[m]
  BY DEF IsGlobal, Put
<1>2. /\ IsFunc(m)' <=> IsFunc(m)
      /\ IsFunc(m) => funcs'[m] = funcs[m]
  BY DEF IsFunc, Put
<1>3. NameInv(m)
  BY DEF IInv
<1>4. ObjectInv(m)'
  BY <1>1, <1>3 DEF NameInv, ObjectInv
<1>5. FunctionInv(m)'
  BY <1>2, <1>3 DEF NameInv, FunctionInv
<1>6. EntryInv(m)'
  BY <1>1, <1>2, <1>3 DEF NameInv, EntryInv
<1>7. CallInv(m)'
  BY <1>2, <1>3 DEF NameInv, CallInv
<1> QED
  BY <1>4, <1>5, <1>6, <1>7 DEF NameInv

(***************************************************************************)
(* One lemma for each kind of step.                                        *)
(***************************************************************************)

\* The tables start out empty.
LEMMA InitIInv == Init => IInv
<1> SUFFICES ASSUME Init PROVE IInv
  OBVIOUS
<1>1. DOMAIN globals = {} /\ DOMAIN funcs = {}
  BY DEF Init
<1>2. TypeInv
  BY <1>1 DEF Init, TypeInv
<1>3. ASSUME NEW m \in Names PROVE NameInv(m)
  BY <1>1 DEF Init, NameInv, ObjectInv, FunctionInv, EntryInv, CallInv, IsFunc, IsGlobal
<1> QED
  BY <1>2, <1>3 DEF IInv

\* A step that leaves the tables and their history alone.
LEMMA QuietStep ==
  ASSUME IInv, UNCHANGED <<globals, funcs, seen, defs, calls>>
  PROVE  IInv'
  BY DEF IInv, TypeInv, NameInv, ObjectInv, FunctionInv, EntryInv, CallInv, IsFunc, IsGlobal

\* An accepted declaration of an object.
LEMMA ObjectStep ==
  ASSUME IInv, NEW n \in Names, NEW kind \in TypeKinds, NEW sc \in StorageClass,
         NEW has_init \in BOOLEAN, ~IsFunc(n), ~ObjectConflict(n, kind, sc, has_init),
         parser_register_global(n, kind, sc, has_init), UNCHANGED funcs,
         Accept(n, [what |-> "object", name |-> n, kind |-> kind,
                    static |-> Static(sc)], has_init)
  PROVE  IInv'
<1> DEFINE e == IF IsGlobal(n) THEN Redeclared(globals[n], sc, has_init)
                ELSE [kind |-> kind, storage_class |-> sc, is_defined |-> has_init]
           d0 == [what |-> "object", name |-> n, kind |-> kind, static |-> Static(sc)]
<1>1. globals' = Put(globals, n, e)
  BY DEF parser_register_global
<1>2. /\ e \in Object /\ e.kind = kind /\ Static(e.storage_class) = Static(sc)
      /\ IsGlobal(n) => /\ e.kind = globals[n].kind
                        /\ Static(e.storage_class) = Static(globals[n].storage_class)
  <2>1. CASE ~IsGlobal(n)
    BY <2>1 DEF Object
  <2>2. CASE IsGlobal(n)
    <3>1. globals[n] \in Object /\ globals[n].kind = kind
          /\ Static(globals[n].storage_class) = Static(sc)
      BY <2>2 DEF IInv, TypeInv, IsGlobal, ObjectConflict
    <3>2. e = Redeclared(globals[n], sc, has_init)
      BY <2>2
    <3> HIDE DEF e
    <3> QED
      BY <3>1, <3>2 DEF Redeclared, Object, Static, StorageClass
  <2> QED
    BY <2>1, <2>2
<1> HIDE DEF e
<1>3. /\ IsGlobal(n)' /\ globals'[n] = e /\ DOMAIN globals' = DOMAIN globals \cup {n}
      /\ \A m \in DOMAIN globals : m # n => globals'[m] = globals[m]
      /\ ~IsFunc(n)'
  BY <1>1 DEF IsGlobal, IsFunc, Put
<1>4. d0 \in ObjectDecl /\ d0.name = n /\ d0.what = "object" /\ d0.kind = kind
      /\ d0.static = Static(sc)
  BY StaticBoolean DEF ObjectDecl
<1>5. /\ seen' = seen \cup {d0} /\ calls' = calls
      /\ defs' = [defs EXCEPT ![n] = @ + (IF has_init THEN 1 ELSE 0)]
  BY DEF Accept
<1> HIDE DEF d0
<1>6. TypeInv'
  <2>1. \A m \in DOMAIN globals' : m \in Names /\ globals'[m] \in Object
    BY <1>2, <1>3 DEF IInv, TypeInv
  <2>2. defs' \in [Names -> Nat]
    BY <1>5 DEF IInv, TypeInv
  <2> QED
    BY <1>4, <1>5, <2>1, <2>2 DEF IInv, TypeInv
<1>7. NameInv(n)'
  <2>1. NameInv(n)
    BY DEF IInv
  <2>2. ObjectInv(n)'
    BY <1>2, <1>3, <1>4, <1>5, <2>1 DEF NameInv, ObjectInv
  <2>3. FunctionInv(n)' /\ CallInv(n)'
    BY <1>4, <1>5, <2>1 DEF NameInv, FunctionInv, CallInv
  <2>4. EntryInv(n)'
    BY <1>3 DEF EntryInv
  <2> QED
    BY <2>2, <2>3, <2>4 DEF NameInv
<1>8. ASSUME NEW m \in Names, m # n PROVE NameInv(m)'
  <2>1. defs'[m] = defs[m]
    BY <1>5, <1>8 DEF IInv, TypeInv
  <2>2. \A d \in seen' : d.name = m => d \in seen
    BY <1>4, <1>5, <1>8
  <2> QED
    BY <1>1, <1>5, <1>8, <2>1, <2>2, OtherName
<1> QED
  BY <1>6, <1>7, <1>8 DEF IInv

\* A declaration of a function whose entry becomes e.
LEMMA FunctionStep ==
  ASSUME IInv, NEW n \in Names, NEW e \in Signature, ~IsGlobal(n),
         funcs' = Put(funcs, n, e), UNCHANGED <<globals, calls>>,
         seen \subseteq seen', seen' \subseteq ObjectDecl \cup FunctionDecl \cup BlockDecl,
         \A d \in seen' : d.name # n => d \in seen,
         \A d \in seen' : d \notin seen => d.what # "object",
         defs' \in [Names -> Nat], \A m \in Names : m # n => defs'[m] = defs[m],
         \A d \in seen' : d.name = n /\ d.what # "object" =>
            /\ Static(e.storage_class) = d.static
            /\ d.what = "prototype" /\ ~e.has_no_prototype =>
                  e.arity_known /\ e.params = d.params /\ e.return_type = d.return_type,
         e.has_no_prototype => \E d \in seen' : d.name = n /\ d.what = "()",
         e.is_variadic => \E d \in seen' : d.name = n /\ d.what = "prototype" /\ d.variadic,
         defs'[n] = IF e.has_definition THEN 1 ELSE 0,
         e.has_definition => e.arity_known,
         \A c \in calls : c.name = n =>
            e.arity_known /\ ~e.has_no_prototype /\ ArityOK(e, c.argc)
  PROVE  IInv'
<1>1. /\ IsFunc(n)' /\ funcs'[n] = e /\ DOMAIN funcs' = DOMAIN funcs \cup {n}
      /\ \A m \in DOMAIN funcs : m # n => funcs'[m] = funcs[m]
      /\ ~IsGlobal(n)'
  BY DEF IsFunc, IsGlobal, Put
<1>2. TypeInv'
  <2>1. \A m \in DOMAIN funcs' : m \in Names /\ funcs'[m] \in Signature
    BY <1>1 DEF IInv, TypeInv
  <2> QED
    BY <2>1 DEF IInv, TypeInv
<1>3. NameInv(n)'
  <2>1. ObjectInv(n)'
    BY DEF IInv, NameInv, ObjectInv, IsGlobal
  <2>2. FunctionInv(n)'
    BY <1>1 DEF FunctionInv
  <2>3. EntryInv(n)'
    BY <1>1 DEF EntryInv
  <2>4. CallInv(n)'
    BY <1>1 DEF CallInv
  <2> QED
    BY <2>1, <2>2, <2>3, <2>4 DEF NameInv
<1>4. ASSUME NEW m \in Names, m # n PROVE NameInv(m)'
  BY <1>4, OtherName
<1> QED
  BY <1>2, <1>3, <1>4 DEF IInv

\* What a function's entry is before a declaration that reaches the checks.
LEMMA EntryFacts ==
  ASSUME IInv, NEW n \in Names, IsFunc(n)
  PROVE  /\ funcs[n] \in Signature
         /\ FunctionInv(n) /\ EntryInv(n) /\ CallInv(n)
  BY DEF IInv, TypeInv, NameInv, IsFunc

\* Taking over the parameters leaves linkage, form and body alone, and does
\* nothing to an entry that has a prototype.
LEMMA UpdatedFacts ==
  ASSUME NEW old \in Signature, NEW params \in ParamLists, NEW ret \in TypeKinds
  PROVE  LET new == Updated(old, params, ret)
         IN  /\ new \in Signature /\ new.arity_known
             /\ new.storage_class = old.storage_class
             /\ new.is_variadic = old.is_variadic
             /\ new.has_no_prototype = old.has_no_prototype
             /\ new.has_definition = old.has_definition
             /\ old.arity_known /\ ~old.has_no_prototype => new = old
             /\ ~(old.arity_known /\ ~old.has_no_prototype) =>
                   new.params = params /\ new.return_type = ret
  BY DEF Updated, Signature

\* A declaration rejected after its parameters were taken over.
LEMMA LateRejectStep ==
  ASSUME IInv, NEW n \in Names, NEW params \in ParamLists, NEW ret \in TypeKinds,
         NEW is_definition \in BOOLEAN, ~IsGlobal(n), IsFunc(n),
         \/ Updated(funcs[n], params, ret).return_type # ret
         \/ SecondBody(Updated(funcs[n], params, ret), is_definition),
         funcs' = Put(funcs, n, Updated(funcs[n], params, ret)),
         UNCHANGED <<globals, seen, defs, calls>>
  PROVE  IInv'
<1> DEFINE old == funcs[n]
           new == Updated(old, params, ret)
<1>1. old \in Signature /\ FunctionInv(n) /\ EntryInv(n) /\ CallInv(n)
  BY EntryFacts
<1>2. /\ new \in Signature /\ new.arity_known
      /\ new.storage_class = old.storage_class
      /\ new.is_variadic = old.is_variadic
      /\ new.has_no_prototype = old.has_no_prototype
      /\ new.has_definition = old.has_definition
      /\ old.arity_known /\ ~old.has_no_prototype => new = old
      /\ ~(old.arity_known /\ ~old.has_no_prototype) =>
            new.params = params /\ new.return_type = ret
  BY <1>1, UpdatedFacts
<1>3. new.return_type # ret \/ new.has_definition
  BY DEF SecondBody
<1> HIDE DEF new
<1>4. old.arity_known
  BY <1>1, <1>2, <1>3 DEF EntryInv
<1>5. ~old.has_no_prototype => new = old
  BY <1>2, <1>4
<1>6. \A d \in seen : d.name = n /\ d.what # "object" =>
            /\ Static(new.storage_class) = d.static
            /\ d.what = "prototype" /\ ~new.has_no_prototype =>
                  new.arity_known /\ new.params = d.params /\ new.return_type = d.return_type
  BY <1>1, <1>2, <1>5 DEF FunctionInv
<1>7. /\ new.has_no_prototype => \E d \in seen : d.name = n /\ d.what = "()"
      /\ new.is_variadic => \E d \in seen : d.name = n /\ d.what = "prototype" /\ d.variadic
      /\ defs[n] = IF new.has_definition THEN 1 ELSE 0
  BY <1>1, <1>2 DEF EntryInv
<1>8. \A c \in calls : c.name = n =>
         new.arity_known /\ ~new.has_no_prototype /\ ArityOK(new, c.argc)
  BY <1>1, <1>2, <1>5 DEF CallInv
<1>9. funcs' = Put(funcs, n, new)
  BY DEF new
<1>10. defs \in [Names -> Nat] /\ seen \subseteq ObjectDecl \cup FunctionDecl \cup BlockDecl
  BY DEF IInv, TypeInv
<1> QED
  BY <1>2, <1>6, <1>7, <1>8, <1>9, <1>10, FunctionStep

\* An accepted declaration or definition of a function at file scope.
LEMMA AcceptFunctionStep ==
  ASSUME IInv, NEW n \in Names, NEW params \in ParamLists, NEW ret \in TypeKinds,
         NEW sc \in StorageClass, NEW variadic \in BOOLEAN, NEW no_proto \in BOOLEAN,
         NEW is_definition \in BOOLEAN, ~IsGlobal(n),
         no_proto => ~variadic,
         IsFunc(n) =>
            /\ Static(funcs[n].storage_class) = Static(sc)
            /\ ~ParamsClash(funcs[n], params)
            /\ Updated(funcs[n], params, ret).return_type = ret
            /\ ~SecondBody(Updated(funcs[n], params, ret), is_definition),
         funcs' = Put(funcs, n,
            IF IsFunc(n)
            THEN [Updated(funcs[n], params, ret) EXCEPT !.has_definition = @ \/ is_definition]
            ELSE [params |-> params, arity_known |-> TRUE,
                  return_type |-> ret, storage_class |-> sc,
                  is_variadic |-> variadic, has_no_prototype |-> no_proto,
                  has_definition |-> is_definition]),
         Accept(n, [what |-> IF no_proto THEN "()" ELSE "prototype", name |-> n,
                    params |-> params, return_type |-> ret,
                    static |-> Static(sc), variadic |-> variadic], is_definition),
         UNCHANGED globals
  PROVE  IInv'
<1> DEFINE d0 == [what |-> IF no_proto THEN "()" ELSE "prototype", name |-> n,
                  params |-> params, return_type |-> ret,
                  static |-> Static(sc), variadic |-> variadic]
           old == funcs[n]
           new == Updated(old, params, ret)
           first == [params |-> params, arity_known |-> TRUE,
                     return_type |-> ret, storage_class |-> sc,
                     is_variadic |-> variadic, has_no_prototype |-> no_proto,
                     has_definition |-> is_definition]
           e == IF IsFunc(n) THEN [new EXCEPT !.has_definition = @ \/ is_definition]
                ELSE first
<1>1. /\ d0 \in FunctionDecl /\ d0.name = n /\ d0.what # "object"
      /\ d0.what = "()" <=> no_proto
      /\ d0.what = "prototype" <=> ~no_proto
      /\ d0.params = params /\ d0.return_type = ret /\ d0.static = Static(sc)
      /\ d0.variadic = variadic
  BY StaticBoolean DEF FunctionDecl
<1>2. /\ seen' = seen \cup {d0} /\ calls' = calls
      /\ defs' = [defs EXCEPT ![n] = @ + (IF is_definition THEN 1 ELSE 0)]
  BY DEF Accept
<1>3. defs \in [Names -> Nat] /\ seen \subseteq ObjectDecl \cup FunctionDecl \cup BlockDecl
  BY DEF IInv, TypeInv
<1>4. /\ defs' \in [Names -> Nat] /\ \A m \in Names : m # n => defs'[m] = defs[m]
      /\ defs'[n] = defs[n] + (IF is_definition THEN 1 ELSE 0)
  BY <1>2, <1>3
<1> HIDE DEF d0
<1>5. /\ seen \subseteq seen' /\ seen' \subseteq ObjectDecl \cup FunctionDecl \cup BlockDecl
      /\ \A d \in seen' : d.name # n => d \in seen
      /\ \A d \in seen' : d \notin seen => d.what # "object"
  BY <1>1, <1>2, <1>3
<1>6. CASE ~IsFunc(n)
  <2>1. /\ first \in Signature /\ first.storage_class = sc /\ first.params = params
        /\ first.return_type = ret /\ first.arity_known
        /\ first.is_variadic = variadic /\ first.has_no_prototype = no_proto
        /\ first.has_definition = is_definition
    BY DEF Signature
  <2>2. funcs' = Put(funcs, n, first)
    BY <1>6
  <2> HIDE DEF first
  <2>3. \A d \in seen : d.name = n => d.what = "object"
    BY <1>6 DEF IInv, NameInv, FunctionInv
  <2>4. defs[n] = 0
    BY <1>6 DEF IInv, NameInv, EntryInv
  <2>5. \A c \in calls : c.name # n
    BY <1>6 DEF IInv, NameInv, CallInv
  <2>6. \A d \in seen' : d.name = n /\ d.what # "object" =>
            /\ Static(first.storage_class) = d.static
            /\ d.what = "prototype" /\ ~first.has_no_prototype =>
                  /\ first.arity_known /\ first.params = d.params
                  /\ first.return_type = d.return_type
    BY <1>1, <1>2, <2>1, <2>3
  <2>7. /\ first.has_no_prototype => \E d \in seen' : d.name = n /\ d.what = "()"
        /\ first.is_variadic => \E d \in seen' : d.name = n /\ d.what = "prototype" /\ d.variadic
        /\ defs'[n] = IF first.has_definition THEN 1 ELSE 0
    BY <1>1, <1>2, <1>4, <2>1, <2>4
  <2> QED
    BY <1>2, <1>4, <1>5, <2>1, <2>2, <2>5, <2>6, <2>7, FunctionStep
<1>7. CASE IsFunc(n)
  <2>1. old \in Signature /\ FunctionInv(n) /\ EntryInv(n) /\ CallInv(n)
    BY <1>7, EntryFacts
  <2>2. /\ new \in Signature /\ new.arity_known
        /\ new.storage_class = old.storage_class
        /\ new.is_variadic = old.is_variadic
        /\ new.has_no_prototype = old.has_no_prototype
        /\ new.has_definition = old.has_definition
        /\ old.arity_known /\ ~old.has_no_prototype => new = old
        /\ ~(old.arity_known /\ ~old.has_no_prototype) =>
              new.params = params /\ new.return_type = ret
    BY <2>1, UpdatedFacts
  <2>3. /\ Static(old.storage_class) = Static(sc)
        /\ old.arity_known /\ ~old.has_no_prototype => old.params = params
        /\ new.return_type = ret
        /\ ~(is_definition /\ new.has_definition)
    BY <1>7 DEF ParamsClash, SecondBody
  <2>4. /\ e \in Signature /\ e.arity_known
        /\ e.storage_class = old.storage_class /\ e.is_variadic = old.is_variadic
        /\ e.has_no_prototype = old.has_no_prototype
        /\ e.has_definition <=> old.has_definition \/ is_definition
        /\ e.params = new.params /\ e.return_type = new.return_type
    <3>1. e = [new EXCEPT !.has_definition = @ \/ is_definition]
      BY <1>7
    <3> HIDE DEF new, e
    <3> QED
      BY <2>2, <3>1 DEF Signature
  <2>5. funcs' = Put(funcs, n, e)
    OBVIOUS
  <2> HIDE DEF new, e
  <2>6. e.params = params /\ e.return_type = ret
    BY <2>2, <2>3, <2>4
  <2>7. \A d \in seen : d.name = n /\ d.what # "object" =>
            /\ Static(e.storage_class) = d.static
            /\ d.what = "prototype" /\ ~e.has_no_prototype =>
                  e.arity_known /\ e.params = d.params /\ e.return_type = d.return_type
    BY <2>1, <2>2, <2>4 DEF FunctionInv
  <2>8. \A d \in seen' : d.name = n /\ d.what # "object" =>
            /\ Static(e.storage_class) = d.static
            /\ d.what = "prototype" /\ ~e.has_no_prototype =>
                  e.arity_known /\ e.params = d.params /\ e.return_type = d.return_type
    BY <1>1, <1>2, <2>3, <2>4, <2>6, <2>7
  <2>9. /\ e.has_no_prototype => \E d \in seen' : d.name = n /\ d.what = "()"
        /\ e.is_variadic => \E d \in seen' : d.name = n /\ d.what = "prototype" /\ d.variadic
    BY <1>2, <1>7, <2>1, <2>4 DEF EntryInv
  <2>10. defs'[n] = IF e.has_definition THEN 1 ELSE 0
    BY <1>4, <1>7, <2>1, <2>2, <2>3, <2>4 DEF EntryInv
  <2>11. \A c \in calls : c.name = n =>
           e.arity_known /\ ~e.has_no_prototype /\ ArityOK(e, c.argc)
    <3>1. ASSUME NEW c \in calls, c.name = n
          PROVE  old.arity_known /\ ~old.has_no_prototype /\ ArityOK(old, c.argc)
      BY <2>1, <3>1 DEF CallInv
    <3>2. ASSUME old.arity_known, ~old.has_no_prototype PROVE e.params = old.params
      BY <2>2, <2>4, <3>2
    <3> QED
      BY <2>4, <3>1, <3>2 DEF ArityOK
  <2> QED
    BY <1>2, <1>4, <1>5, <2>4, <2>5, <2>8, <2>9, <2>10, <2>11, FunctionStep
<1> QED
  BY <1>6, <1>7

\* A function first met inside a block.
LEMMA BlockFunctionStep ==
  ASSUME IInv, NEW n \in Names, NEW ret \in TypeKinds, ~IsFunc(n), ~IsGlobal(n),
         funcs' = Put(funcs, n,
            [params |-> <<>>, arity_known |-> FALSE, return_type |-> ret,
             storage_class |-> "SC_NONE", is_variadic |-> FALSE,
             has_no_prototype |-> FALSE, has_definition |-> FALSE]),
         Accept(n, [what |-> "block", name |-> n, return_type |-> ret,
                    static |-> FALSE], FALSE),
         UNCHANGED globals
  PROVE  IInv'
<1> DEFINE d0 == [what |-> "block", name |-> n, return_type |-> ret, static |-> FALSE]
           e == [params |-> <<>>, arity_known |-> FALSE, return_type |-> ret,
                 storage_class |-> "SC_NONE", is_variadic |-> FALSE,
                 has_no_prototype |-> FALSE, has_definition |-> FALSE]
<1>1. d0 \in BlockDecl /\ d0.name = n /\ d0.what = "block" /\ d0.static = FALSE
  BY DEF BlockDecl
<1>2. /\ seen' = seen \cup {d0} /\ calls' = calls
      /\ defs' = [defs EXCEPT ![n] = @ + 0]
  BY DEF Accept
<1>3. <<>> \in ParamLists
  <2>1. <<>> \in [1..0 -> TypeKinds] /\ 0 \in 0..MaxParams
    BY SymbolsAssumption
  <2> QED
    BY <2>1 DEF ParamLists
<1>4. /\ e \in Signature /\ Static(e.storage_class) = FALSE
      /\ ~e.arity_known /\ ~e.has_no_prototype /\ ~e.is_variadic /\ ~e.has_definition
  BY <1>3 DEF Signature, StorageClass, Static
<1>5. funcs' = Put(funcs, n, e)
  OBVIOUS
<1> HIDE DEF d0, e
<1>6. \A d \in seen : d.name = n => d.what = "object"
  BY DEF IInv, NameInv, FunctionInv
<1>7. defs[n] = 0 /\ \A c \in calls : c.name # n
  BY DEF IInv, NameInv, EntryInv, CallInv
<1>8. defs \in [Names -> Nat] /\ seen \subseteq ObjectDecl \cup FunctionDecl \cup BlockDecl
  BY DEF IInv, TypeInv
<1>9. /\ seen \subseteq seen' /\ seen' \subseteq ObjectDecl \cup FunctionDecl \cup BlockDecl
      /\ \A d \in seen' : d.name # n => d \in seen
      /\ \A d \in seen' : d \notin seen => d.what # "object"
      /\ \A d \in seen' : d.name = n /\ d.what # "object" => d = d0
  BY <1>1, <1>2, <1>6, <1>8
<1>10. defs' \in [Names -> Nat] /\ \A m \in Names : defs'[m] = defs[m]
  BY <1>2, <1>8
<1>11. /\ \A d \in seen' : d.name = n /\ d.what # "object" =>
            /\ Static(e.storage_class) = d.static
            /\ d.what = "prototype" /\ ~e.has_no_prototype =>
                  e.arity_known /\ e.params = d.params /\ e.return_type = d.return_type
       /\ defs'[n] = IF e.has_definition THEN 1 ELSE 0
  BY <1>1, <1>4, <1>7, <1>9, <1>10
<1> QED
  BY <1>2, <1>4, <1>5, <1>7, <1>9, <1>10, <1>11, FunctionStep

\* A call that passes its check.
LEMMA CallStep ==
  ASSUME IInv, NEW n \in Names, NEW argc \in Nat, IsFunc(n),
         funcs[n].arity_known, ~funcs[n].has_no_prototype, ArityOK(funcs[n], argc),
         calls' = calls \cup {[name |-> n, argc |-> argc]},
         UNCHANGED <<globals, funcs, seen, defs>>
  PROVE  IInv'
<1>1. TypeInv'
  BY DEF IInv, TypeInv
<1>2. ASSUME NEW m \in Names PROVE CallInv(m)'
  <2>1. CallInv(m)
    BY DEF IInv, NameInv
  <2> QED
    BY <2>1 DEF CallInv, IsFunc
<1>3. ASSUME NEW m \in Names PROVE ObjectInv(m)' /\ FunctionInv(m)' /\ EntryInv(m)'
  BY DEF IInv, NameInv, ObjectInv, FunctionInv, EntryInv, IsFunc, IsGlobal
<1> QED
  BY <1>1, <1>2, <1>3 DEF IInv, NameInv

\* Every step keeps the invariant.
LEMMA NextIInv == IInv /\ [Next]_vars => IInv'
<1> SUFFICES ASSUME IInv, [Next]_vars PROVE IInv'
  OBVIOUS
<1>1. CASE UNCHANGED vars
  BY <1>1, QuietStep DEF vars
<1>2. CASE Next
  <2>0. PICK n \in Names :
          \/ \E kind \in TypeKinds, sc \in StorageClass, has_init \in BOOLEAN :
                DeclareObject(n, kind, sc, has_init)
          \/ \E params \in ParamLists, ret \in TypeKinds, sc \in StorageClass,
                variadic, no_proto, is_definition \in BOOLEAN :
                DeclareFunction(n, params, ret, sc, variadic, no_proto, is_definition)
          \/ \E ret \in TypeKinds : DeclareFunctionInBlock(n, ret)
          \/ \E argc \in 0..(MaxParams + 1) : Call(n, argc)
    BY <1>2 DEF Next
  <2>1. ASSUME NEW kind \in TypeKinds, NEW sc \in StorageClass, NEW has_init \in BOOLEAN,
               DeclareObject(n, kind, sc, has_init)
        PROVE  IInv'
    <3>1. CASE Reject
      BY <3>1, QuietStep DEF Reject
    <3>2. CASE ~Reject
      BY <2>1, <3>2, ObjectStep DEF DeclareObject, TakenByFunction
    <3> QED
      BY <3>1, <3>2
  <2>2. ASSUME NEW params \in ParamLists, NEW ret \in TypeKinds, NEW sc \in StorageClass,
               NEW variadic \in BOOLEAN, NEW no_proto \in BOOLEAN,
               NEW is_definition \in BOOLEAN,
               DeclareFunction(n, params, ret, sc, variadic, no_proto, is_definition)
        PROVE  IInv'
    <3>1. CASE Reject
      BY <3>1, QuietStep DEF Reject
    <3>2. CASE ~Reject
      BY <2>2, <3>2, LateRejectStep, AcceptFunctionStep DEF DeclareFunction
    <3> QED
      BY <3>1, <3>2
  <2>3. ASSUME NEW ret \in TypeKinds, DeclareFunctionInBlock(n, ret) PROVE IInv'
    BY <2>3, QuietStep, BlockFunctionStep DEF DeclareFunctionInBlock, Reject
  <2>4. ASSUME NEW argc \in 0..(MaxParams + 1), Call(n, argc) PROVE IInv'
    <3>0. argc \in Nat
      BY SymbolsAssumption
    <3>1. CASE UNCHANGED <<globals, funcs, seen, defs, calls>>
      BY <3>1, QuietStep
    <3>2. CASE ~UNCHANGED <<globals, funcs, seen, defs, calls>>
      BY <2>4, <3>0, <3>2, CallStep DEF Call, Reject
    <3> QED
      BY <3>1, <3>2
  <2> QED
    BY <2>0, <2>1, <2>2, <2>3, <2>4
<1> QED
  BY <1>1, <1>2

\* The invariant holds for every translation unit.
LEMMA AlwaysIInv == Spec => []IInv
  BY InitIInv, NextIInv, PTL DEF Spec

(***************************************************************************)
(* The results.                                                            *)
(***************************************************************************)

\* Whatever declarations are accepted, in whatever order and with whatever
\* rejected ones in between, a name is an object or a function, with one
\* linkage and, where prototypes say so, one type.
THEOREM NamesHaveOneMeaning == Spec => []OneMeaning
<1>1. IInv => OneMeaning
  <2> SUFFICES ASSUME IInv, NEW d \in seen, NEW e \in seen, d.name = e.name
               PROVE  /\ (d.what = "object") = (e.what = "object")
                      /\ d.static = e.static
                      /\ d.what = "object" => d.kind = e.kind
                      /\ d.what = "prototype" /\ e.what = "prototype"
                           /\ (\A c \in seen : c.name = d.name => c.what = "prototype")
                              => d.return_type = e.return_type /\ d.params = e.params
    BY DEF OneMeaning
  <2>1. d.name \in Names
    BY DEF IInv, TypeInv, ObjectDecl, FunctionDecl, BlockDecl
  <2>2. NameInv(d.name)
    BY <2>1 DEF IInv
  <2>3. (d.what = "object") = (e.what = "object")
    BY <2>2 DEF NameInv, ObjectInv, FunctionInv, EntryInv
  <2>4. d.static = e.static /\ (d.what = "object" => d.kind = e.kind)
    BY <2>2, <2>3 DEF NameInv, ObjectInv, FunctionInv
  <2>5. ASSUME d.what = "prototype", e.what = "prototype",
               \A c \in seen : c.name = d.name => c.what = "prototype"
        PROVE  d.return_type = e.return_type /\ d.params = e.params
    <3>1. IsFunc(d.name) /\ ~funcs[d.name].has_no_prototype
      BY <2>2, <2>5 DEF NameInv, FunctionInv, EntryInv
    <3> QED
      BY <2>2, <2>5, <3>1 DEF NameInv, FunctionInv
  <2> QED
    BY <2>3, <2>4, <2>5
<1> QED
  BY <1>1, AlwaysIInv, PTL

\* No function is defined twice, however its declarations are ordered.
THEOREM FunctionsHaveOneBody == Spec => []OneBody
<1>1. IInv => OneBody
  <2> SUFFICES ASSUME IInv, NEW n \in Names, NEW d \in seen, d.name = n, d.what # "object"
               PROVE  defs[n] <= 1
    BY DEF OneBody
  <2>1. NameInv(n)
    BY DEF IInv
  <2>2. defs[n] = IF funcs[n].has_definition THEN 1 ELSE 0
    BY <2>1 DEF NameInv, FunctionInv, EntryInv
  <2> QED
    BY <2>2
<1> QED
  BY <1>1, AlwaysIInv, PTL

\* A call that was checked has as many arguments as every prototype of the
\* function asks for, those after the call included.
THEOREM CallsMatchAllPrototypes == Spec => []CallsMatchPrototypes
<1>1. IInv => CallsMatchPrototypes
  <2> SUFFICES ASSUME IInv, NEW c \in calls, NEW d \in seen,
                      d.name = c.name, d.what = "prototype"
               PROVE  /\ c.argc >= Len(d.params)
                      /\ (\A e \in seen : e.name = c.name /\ e.what = "prototype" => ~e.variadic)
                           => c.argc = Len(d.params)
    BY DEF CallsMatchPrototypes
  <2>1. c.name \in Names /\ c.argc \in Nat
    BY DEF IInv, TypeInv
  <2>2. NameInv(c.name)
    BY <2>1 DEF IInv
  <2>3. /\ IsFunc(c.name) /\ ~funcs[c.name].has_no_prototype
        /\ ArityOK(funcs[c.name], c.argc)
    BY <2>2 DEF NameInv, CallInv
  <2>4. funcs[c.name].params = d.params
    BY <2>2, <2>3 DEF NameInv, FunctionInv
  <2>5. funcs[c.name].is_variadic =>
           \E e \in seen : e.name = c.name /\ e.what = "prototype" /\ e.variadic
    BY <2>2, <2>3 DEF NameInv, EntryInv
  <2> QED
    BY <2>1, <2>3, <2>4, <2>5 DEF ArityOK
<1> QED
  BY <1>1, AlwaysIInv, PTL
=============================================================================
