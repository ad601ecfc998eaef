---------------------------- MODULE ParserProofs ----------------------------
(***************************************************************************)
(* Proofs about the statement parser, for every set of typedef names, every*)
(* error limit and every translation unit.                                 *)
(*                                                                         *)
(* parser.c never walks its C call stack, so nothing in it says which      *)
(* scope an entry of the typedef table belongs to but the number stored    *)
(* with it.  The inductive invariant relates that number, and the          *)
(* counters, to the open calls:                                            *)
(*   TypeInv   the values of the variables                                 *)
(*   PlaceInv  which calls are open at each point of the parser            *)
(*   ScopeInv  scope_depth counts the open scopes                          *)
(*   InnerInv  every open call lies in an innermost scope                  *)
(*   LoopInv   loop_depth and switch_depth, before and after an error      *)
(*   NameInv   an entry's depth is that of the scope that declared it      *)
(***************************************************************************)
EXTENDS Parser, TLAPS, FiniteSetTheorems, SequenceTheorems

Pcs == {"ext", "body", "vbody", "semi", "register", "block", "stmt", "return",
        "dowhile", "sync", "done", "exit"} \cup ForPcs

Scopes == {"block", "for"}
Loops == {"while", "do", "for"}

Entry == [name : Names, scope_depth : Nat]

\* The calls of the given kinds among the k outermost of s.
Indices(s, k, kinds) == {i \in 1..k : s[i].kind \in kinds}
Count(s, k, kinds) == Cardinality(Indices(s, k, kinds))

\* What a call of this kind adds to the count.
One(kind, kinds) == IF kind \in kinds THEN 1 ELSE 0

TypeInv ==
    /\ current \in Token
    /\ pos \in Nat
    /\ pc \in Pcs
    /\ ctx \in Seq(Frame)
    /\ pending \in Names \cup {NoName}
    /\ typedefs \subseteq Entry
    /\ scope_depth \in Nat
    /\ loop_depth \in Nat
    /\ switch_depth \in Nat
    /\ current_func_is_variadic \in BOOLEAN
    /\ sync_depth \in Nat
    /\ g_max_errors \in Nat
    /\ errors \in Nat
    /\ file_names \subseteq Names

\* Outside a function no call is open; inside, the outermost is its body.
PlaceInv ==
    /\ pc \in {"ext", "body", "vbody", "sync", "done"} => ctx = <<>>
    /\ pc \in {"block", "stmt", "return", "dowhile"} \cup ForPcs => ctx # <<>>
    /\ pc = "block" => Top.kind = "block"
    /\ pc \in ForPcs => Top.kind = "for"
    /\ pc = "register" => pending # NoName
    /\ ctx # <<>> => ctx[1].kind = "block"

ScopeInv == scope_depth = Count(ctx, Len(ctx), Scopes)

\* m is the innermost scope among the k outermost calls of s.
Innermost(s, k, m) ==
    /\ s[m].kind \in Scopes
    /\ \A j \in (m + 1)..k : s[j].kind \notin Scopes

InnerInv == \A k \in 1..Len(ctx) : \E m \in 1..k : Innermost(ctx, k, m)

\* A for whose header is being read is open but not counted.
Uncounted == IF pc \in ForPcs THEN 1 ELSE 0

LoopInv ==
    pc # "exit" =>
        /\ loop_depth + Uncounted >= Count(ctx, Len(ctx), Loops)
        /\ switch_depth >= Count(ctx, Len(ctx), {"switch"})
        /\ errors = 0 => loop_depth + Uncounted = Count(ctx, Len(ctx), Loops)
        /\ errors = 0 => switch_depth = Count(ctx, Len(ctx), {"switch"})

\* The table entry that name n of the i-th open call stands for.
EntryOf(s, i, n) == [name |-> n, scope_depth |-> Count(s, i, Scopes)]
FileEntry(n) == [name |-> n, scope_depth |-> 0]

NameInv ==
    /\ \A n \in file_names : FileEntry(n) \in typedefs
    /\ \A i \in 1..Len(ctx) : \A n \in ctx[i].names :
            ctx[i].kind \in Scopes /\ EntryOf(ctx, i, n) \in typedefs
    /\ errors = 0 =>
            \A e \in typedefs :
                \/ \E n \in file_names : e = FileEntry(n)
                \/ \E i \in 1..Len(ctx) : \E n \in ctx[i].names :
                        e = EntryOf(ctx, i, n)

IInv == /\ TypeInv /\ PlaceInv /\ FunctionContext
        /\ ScopeInv /\ InnerInv /\ LoopInv /\ NameInv

-----------------------------------------------------------------------------
(***************************************************************************)
(* Counting the open calls.                                                *)
(***************************************************************************)

\* A call is counted once or not at all.
LEMMA OneIsNat ==
    ASSUME NEW kind, NEW kinds
    PROVE  One(kind, kinds) \in Nat
BY DEF One

\* A counter that follows a count when both change by the same amount.
LEMMA Follows ==
    ASSUME NEW a \in Int, NEW b \in Int, NEW c \in Int, NEW d \in Int, NEW x \in Int,
           b = a + x, d = c + x
    PROVE  /\ a >= c <=> b >= d
           /\ a = c <=> b = d
OBVIOUS

\* A count is a natural number, and 0 of no calls.
LEMMA CountIsNat ==
    ASSUME NEW s, NEW k \in Nat, NEW kinds
    PROVE  /\ IsFiniteSet(Indices(s, k, kinds))
           /\ Count(s, k, kinds) \in Nat
           /\ Count(s, 0, kinds) = 0
<1>1. IsFiniteSet(1..k)
  BY FS_Interval
<1>2. Indices(s, k, kinds) \in SUBSET (1..k)
  BY DEF Indices
<1>3. IsFiniteSet(Indices(s, k, kinds))
  BY <1>1, <1>2, FS_Subset
<1>4. Indices(s, 0, kinds) = {}
  BY DEF Indices
<1> QED
  BY <1>3, <1>4, FS_CardinalityType, FS_EmptySet DEF Count

\* One call more raises the count by one exactly when its kind is counted.
LEMMA CountNext ==
    ASSUME NEW s, NEW k \in Nat, NEW kinds
    PROVE  Count(s, k + 1, kinds) =
               Count(s, k, kinds) + One(s[k + 1].kind, kinds)
<1>1. /\ IsFiniteSet(Indices(s, k, kinds))
      /\ Count(s, k, kinds) \in Nat
  BY CountIsNat
<1>2. CASE s[k + 1].kind \in kinds
  <2>1. Indices(s, k + 1, kinds) = Indices(s, k, kinds) \cup {k + 1}
    BY <1>2 DEF Indices
  <2>2. k + 1 \notin Indices(s, k, kinds)
    BY DEF Indices
  <2> QED
    BY <1>1, <1>2, <2>1, <2>2, FS_AddElement DEF Count, One
<1>3. CASE s[k + 1].kind \notin kinds
  <2>1. Indices(s, k + 1, kinds) = Indices(s, k, kinds)
    BY <1>3 DEF Indices
  <2> QED
    BY <1>1, <1>3, <2>1 DEF Count, One
<1> QED
  BY <1>2, <1>3

\* The count depends on the kinds of the calls only.
LEMMA CountSame ==
    ASSUME NEW s, NEW t, NEW k \in Nat, NEW kinds,
           \A i \in 1..k : s[i].kind = t[i].kind
    PROVE  Count(s, k, kinds) = Count(t, k, kinds)
<1>1. Indices(s, k, kinds) = Indices(t, k, kinds)
  BY DEF Indices
<1> QED
  BY <1>1 DEF Count

\* Of more calls, no fewer are counted.
LEMMA CountMonotone ==
    ASSUME NEW s, NEW j \in Nat, NEW k \in Nat, j <= k, NEW kinds
    PROVE  Count(s, j, kinds) <= Count(s, k, kinds)
<1>1. Indices(s, j, kinds) \in SUBSET Indices(s, k, kinds)
  BY DEF Indices
<1> QED
  BY <1>1, CountIsNat, FS_Subset DEF Count

\* Calls after the m-th that are not counted leave the count of the m first.
LEMMA CountUpTo ==
    ASSUME NEW s, NEW m \in Nat, NEW k \in Nat, m <= k, NEW kinds,
           \A j \in (m + 1)..k : s[j].kind \notin kinds
    PROVE  Count(s, k, kinds) = Count(s, m, kinds)
<1>1. Indices(s, k, kinds) = Indices(s, m, kinds)
  BY DEF Indices
<1> QED
  BY <1>1 DEF Count

\* What Append and Outer do to the sequence of open calls.
LEMMA Pushed ==
    ASSUME NEW s \in Seq(Frame), NEW f \in Frame
    PROVE  /\ Append(s, f) \in Seq(Frame)
           /\ Len(Append(s, f)) = Len(s) + 1
           /\ Append(s, f)[Len(s) + 1] = f
           /\ \A i \in 1..Len(s) : Append(s, f)[i] = s[i]
OBVIOUS

LEMMA Popped ==
    ASSUME NEW s \in Seq(Frame), s # <<>>
    PROVE  /\ SubSeq(s, 1, Len(s) - 1) \in Seq(Frame)
           /\ Len(SubSeq(s, 1, Len(s) - 1)) = Len(s) - 1
           /\ Len(s) \in Nat \ {0}
           /\ \A i \in 1..(Len(s) - 1) : SubSeq(s, 1, Len(s) - 1)[i] = s[i]
<1> DEFINE n == Len(s) - 1
           t == SubSeq(s, 1, n)
<1>1. n \in Nat /\ Len(s) = n + 1 /\ \A i \in 1..n : s[i] \in Frame
  BY EmptySeq
<1> HIDE DEF n
<1>2. /\ t \in Seq(Frame)
      /\ Len(t) = IF 1 <= n THEN n - 1 + 1 ELSE 0
      /\ \A i \in 1..(n - 1 + 1) : t[i] = s[1 + i - 1]
  BY <1>1, SubSeqProperties
<1>3. Len(t) = n /\ \A i \in 1..n : t[i] = s[i]
  BY <1>1, <1>2
<1> QED
  BY <1>1, <1>2, <1>3 DEF n

\* Counting after a call was opened.
LEMMA CountPushed ==
    ASSUME NEW s \in Seq(Frame), NEW f \in Frame, NEW kinds
    PROVE  /\ Count(Append(s, f), Len(Append(s, f)), kinds) =
                  Count(s, Len(s), kinds) + One(f.kind, kinds)
           /\ \A i \in 1..Len(s) : Count(Append(s, f), i, kinds) = Count(s, i, kinds)
<1> DEFINE t == Append(s, f)
<1>1. /\ Len(s) \in Nat /\ Len(t) = Len(s) + 1 /\ t[Len(s) + 1] = f
      /\ \A i \in 1..Len(s) : t[i] = s[i]
  BY Pushed
<1> HIDE DEF t
<1>2. \A i \in 0..Len(s) : Count(t, i, kinds) = Count(s, i, kinds)
  BY <1>1, CountSame
<1>3. Count(t, Len(s) + 1, kinds) =
          Count(t, Len(s), kinds) + One(f.kind, kinds)
  BY <1>1, CountNext
<1> QED
  BY <1>1, <1>2, <1>3 DEF t

\* Counting after the innermost call has returned.
LEMMA CountPopped ==
    ASSUME NEW s \in Seq(Frame), s # <<>>, NEW kinds
    PROVE  LET t == SubSeq(s, 1, Len(s) - 1)
           IN /\ Count(s, Len(s), kinds) =
                    Count(t, Len(t), kinds)
                        + One(s[Len(s)].kind, kinds)
              /\ Count(t, Len(t), kinds) \in Nat
              /\ \A i \in 1..Len(t) : Count(t, i, kinds) = Count(s, i, kinds)
<1> DEFINE t == SubSeq(s, 1, Len(s) - 1)
<1>1. /\ Len(s) \in Nat \ {0} /\ Len(t) = Len(s) - 1
      /\ \A i \in 1..(Len(s) - 1) : t[i] = s[i]
  BY Popped
<1> HIDE DEF t
<1>2. \A i \in 0..Len(t) : Count(t, i, kinds) = Count(s, i, kinds)
  BY <1>1, CountSame
<1>3. Count(s, (Len(s) - 1) + 1, kinds) =
          Count(s, Len(s) - 1, kinds)
              + One(s[(Len(s) - 1) + 1].kind, kinds)
  BY <1>1, CountNext
<1>4. Count(t, Len(t), kinds) \in Nat
  BY <1>1, CountIsNat
<1> QED
  BY <1>1, <1>2, <1>3, <1>4 DEF t

\* The properties' counters, in terms of Count.
LEMMA OpenIsCount ==
    ASSUME ctx \in Seq(Frame), NEW kinds
    PROVE  OpenCalls(kinds) = Count(ctx, Len(ctx), kinds)
<1>1. DOMAIN ctx = 1..Len(ctx)
  OBVIOUS
<1> QED
  BY <1>1 DEF OpenCalls, Count, Indices

-----------------------------------------------------------------------------
(***************************************************************************)
(* The ways a step can change the open calls.                              *)
(***************************************************************************)

\* The rest of the state, apart from the place in the parser.
Nesting == <<ctx, table, counts, current_func_is_variadic, errors, file_names>>

\* A step within the same calls.
LEMMA Stay ==
    ASSUME IInv, TypeInv', PlaceInv', UNCHANGED Nesting,
           Uncounted' = Uncounted, pc # "exit"
    PROVE  IInv'
<1>1. /\ ctx' = ctx /\ scope_depth' = scope_depth /\ typedefs' = typedefs
      /\ loop_depth' = loop_depth /\ switch_depth' = switch_depth
      /\ current_func_is_variadic' = current_func_is_variadic
      /\ errors' = errors /\ file_names' = file_names
  BY DEF Nesting, table, counts
<1>2. FunctionContext' /\ ScopeInv' /\ InnerInv'
  BY <1>1 DEF IInv, FunctionContext, ScopeInv, InnerInv
<1>3. LoopInv'
  BY <1>1 DEF IInv, LoopInv
<1>4. NameInv'
  BY <1>1 DEF IInv, NameInv
<1> QED
  BY <1>2, <1>3, <1>4 DEF IInv

\* An error abandons every open call, or ends the program.
LEMMA ErrorStep ==
    ASSUME IInv, Error, pc # "exit"
    PROVE  IInv'
<1>1. /\ errors' \in Nat /\ errors' # 0
      /\ current' = current /\ pos' = pos /\ typedefs' = typedefs
      /\ loop_depth' = loop_depth /\ switch_depth' = switch_depth
      /\ current_func_is_variadic' = current_func_is_variadic
      /\ file_names' = file_names /\ g_max_errors' = g_max_errors
  BY DEF Error, Look, counts, IInv, TypeInv
<1>2. CASE pc' = "exit"
  <2>1. ctx' = ctx /\ scope_depth' = scope_depth /\ sync_depth' = sync_depth
        /\ pending' = pending
    BY <1>2 DEF Error
  <2>2. TypeInv'
    BY <1>1, <1>2, <2>1 DEF IInv, TypeInv, Pcs
  <2>3. PlaceInv' /\ FunctionContext' /\ ScopeInv' /\ InnerInv' /\ LoopInv'
    BY <1>1, <1>2, <2>1
    DEF IInv, PlaceInv, FunctionContext, ScopeInv, InnerInv, LoopInv, ForPcs
  <2>4. NameInv'
    BY <1>1, <2>1 DEF IInv, NameInv
  <2> QED
    BY <2>2, <2>3, <2>4 DEF IInv
<1>3. CASE pc' # "exit"
  <2>1. /\ pc' = "sync" /\ ctx' = <<>> /\ scope_depth' = 0 /\ sync_depth' = 0
        /\ pending' = NoName
    BY <1>3 DEF Error, ResetScope
  <2>2. /\ Len(ctx') = 0 /\ 1..Len(ctx') = {}
        /\ \A kinds : Count(ctx', Len(ctx'), kinds) = 0
    BY <2>1, CountIsNat
  <2>3. TypeInv'
    BY <1>1, <2>1 DEF IInv, TypeInv, Pcs
  <2>4. PlaceInv' /\ FunctionContext' /\ ScopeInv' /\ InnerInv'
    BY <2>1, <2>2 DEF PlaceInv, FunctionContext, ScopeInv, InnerInv, ForPcs
  <2>5. LoopInv'
    <3>1. loop_depth' \in Nat /\ switch_depth' \in Nat
      BY <2>3 DEF TypeInv
    <3>2. Uncounted' \in Nat
      BY DEF Uncounted
    <3> HIDE DEF Uncounted
    <3> QED
      BY <1>1, <2>2, <3>1, <3>2 DEF LoopInv
  <2>6. NameInv'
    BY <1>1, <2>2 DEF IInv, NameInv
  <2> QED
    BY <2>3, <2>4, <2>5, <2>6 DEF IInv
<1> QED
  BY <1>2, <1>3

\* A call is opened.
LEMMA Push ==
    ASSUME IInv, pc # "exit",
           NEW f \in Frame, f.names = {}, ctx = <<>> => f.kind \in Scopes,
           ctx' = Append(ctx, f),
           UNCHANGED <<typedefs, file_names, errors>>,
           loop_depth' \in Nat, switch_depth' \in Nat,
           scope_depth' = scope_depth + One(f.kind, Scopes),
           loop_depth' + Uncounted' =
               loop_depth + Uncounted + One(f.kind, Loops),
           switch_depth' = switch_depth + One(f.kind, {"switch"})
    PROVE  ScopeInv' /\ InnerInv' /\ LoopInv' /\ NameInv'
<1> DEFINE n == Len(ctx)
<1>1. /\ ctx \in Seq(Frame) /\ n \in Nat /\ scope_depth \in Nat
      /\ loop_depth \in Nat /\ switch_depth \in Nat
  BY DEF IInv, TypeInv
<1>2. /\ Len(ctx') = n + 1 /\ ctx'[n + 1] = f
      /\ \A i \in 1..n : ctx'[i] = ctx[i]
  BY <1>1, Pushed
<1>3. \A kinds : /\ Count(ctx', Len(ctx'), kinds) =
                        Count(ctx, n, kinds) + One(f.kind, kinds)
                 /\ \A i \in 1..n : Count(ctx', i, kinds) = Count(ctx, i, kinds)
                 /\ Count(ctx, n, kinds) \in Nat
  <2> TAKE kinds
  <2> QED
    BY <1>1, CountPushed, CountIsNat
<1>4. n = 0 => f.kind \in Scopes
  BY <1>1, EmptySeq
<1> HIDE DEF n
<1>5. ScopeInv'
  BY <1>3 DEF IInv, ScopeInv, n
<1>6. InnerInv'
  <2> SUFFICES ASSUME NEW k \in 1..(n + 1)
               PROVE  \E m \in 1..k : Innermost(ctx', k, m)
    BY <1>2 DEF InnerInv
  <2>1. CASE k \in 1..n
    <3>1. PICK m \in 1..k : Innermost(ctx, k, m)
      BY <2>1 DEF IInv, InnerInv, n
    <3>2. Innermost(ctx', k, m)
      BY <1>1, <1>2, <2>1, <3>1 DEF Innermost
    <3> QED
      BY <3>2
  <2>2. CASE k = n + 1 /\ f.kind \in Scopes
    <3>1. Innermost(ctx', k, k)
      BY <1>1, <1>2, <2>2 DEF Innermost
    <3> QED
      BY <1>1, <2>2, <3>1
  <2>3. CASE k = n + 1 /\ f.kind \notin Scopes
    <3>1. n \in 1..n
      BY <1>1, <1>4, <2>3
    <3>2. PICK m \in 1..n : Innermost(ctx, n, m)
      BY <3>1 DEF IInv, InnerInv, n
    <3>3. Innermost(ctx', k, m)
      BY <1>1, <1>2, <2>3, <3>1, <3>2 DEF Innermost
    <3> QED
      BY <1>1, <2>3, <3>2, <3>3
  <2> QED
    BY <1>1, <2>1, <2>2, <2>3
<1>7. LoopInv'
  <2>1. One(f.kind, Loops) \in Nat
    BY OneIsNat
  <2>2. Uncounted \in Nat /\ Uncounted' \in Nat
    BY DEF Uncounted
  <2>3. /\ Count(ctx', Len(ctx'), Loops) =
               Count(ctx, n, Loops) + One(f.kind, Loops)
        /\ Count(ctx', Len(ctx'), {"switch"}) =
               Count(ctx, n, {"switch"}) + One(f.kind, {"switch"})
        /\ Count(ctx, n, Loops) \in Nat /\ Count(ctx, n, {"switch"}) \in Nat
    BY <1>3
  <2>4. /\ loop_depth + Uncounted >= Count(ctx, n, Loops)
        /\ switch_depth >= Count(ctx, n, {"switch"})
        /\ errors = 0 => loop_depth + Uncounted = Count(ctx, n, Loops)
        /\ errors = 0 => switch_depth = Count(ctx, n, {"switch"})
    BY DEF IInv, LoopInv, n
  <2> HIDE DEF Uncounted, Loops
  <2> DEFINE a == loop_depth + Uncounted
             b == loop_depth' + Uncounted'
             c == Count(ctx, n, Loops)
             d == Count(ctx', Len(ctx'), Loops)
             x == One(f.kind, Loops)
  <2>5. a \in Int /\ b \in Int /\ c \in Int /\ x \in Int
    <3>1. a \in Int
      BY <1>1, <2>2
    <3>2. b \in Int
      BY <1>1, <2>2
    <3>3. c \in Int /\ x \in Int
      BY <2>1, <2>3
    <3> QED
      BY <3>1, <3>2, <3>3
  <2>6. b = a + x
    OBVIOUS
  <2>7. d = c + x
    BY <2>3
  <2>8. a >= c /\ (errors = 0 => a = c)
    BY <2>4
  <2> HIDE DEF a, b, c, d, x
  <2>9. b >= d /\ (errors = 0 => b = d)
    BY <2>5, <2>6, <2>7, <2>8, Follows
  <2>10. /\ loop_depth' + Uncounted' >= Count(ctx', Len(ctx'), Loops)
         /\ errors = 0 => loop_depth' + Uncounted' = Count(ctx', Len(ctx'), Loops)
    BY <2>9 DEF b, d
  <2>11. /\ switch_depth' >= Count(ctx', Len(ctx'), {"switch"})
         /\ errors = 0 => switch_depth' = Count(ctx', Len(ctx'), {"switch"})
    <3> DEFINE u == switch_depth
               v == switch_depth'
               g == Count(ctx, n, {"switch"})
               h == Count(ctx', Len(ctx'), {"switch"})
               y == One(f.kind, {"switch"})
    <3>1. u \in Int /\ v \in Int
      BY <1>1
    <3>2. g \in Int
      BY <2>3
    <3>3. y \in Int
      BY OneIsNat
    <3>4. v = u + y
      OBVIOUS
    <3>5. h = g + y
      BY <2>3
    <3>6. u >= g /\ (errors = 0 => u = g)
      BY <2>4
    <3> HIDE DEF u, v, g, h, y
    <3>7. v >= h /\ (errors = 0 => v = h)
      BY <3>1, <3>2, <3>3, <3>4, <3>5, <3>6, Follows
    <3> QED
      BY <3>7 DEF u, v, g, h
  <2> QED
    BY <2>10, <2>11 DEF LoopInv
<1>8. NameInv'
  <2>1. \A m : \A i \in 1..n : EntryOf(ctx', i, m) = EntryOf(ctx, i, m)
    BY <1>3 DEF EntryOf
  <2>2. \A i \in 1..Len(ctx') : i \in 1..n \/ ctx'[i].names = {}
    BY <1>1, <1>2
  <2>3. ASSUME NEW i \in 1..Len(ctx'), NEW m \in ctx'[i].names
        PROVE  ctx'[i].kind \in Scopes /\ EntryOf(ctx', i, m) \in typedefs'
    BY <1>2, <2>1, <2>2 DEF IInv, NameInv, n
  <2>4. ASSUME errors' = 0, NEW e \in typedefs'
        PROVE  \/ \E m \in file_names' : e = FileEntry(m)
               \/ \E i \in 1..Len(ctx') : \E m \in ctx'[i].names :
                       e = EntryOf(ctx', i, m)
    <3>1. CASE \E m \in file_names : e = FileEntry(m)
      BY <3>1
    <3>2. CASE \E i \in 1..n : \E m \in ctx[i].names : e = EntryOf(ctx, i, m)
      <4>1. PICK i \in 1..n : \E m \in ctx[i].names : e = EntryOf(ctx, i, m)
        BY <3>2
      <4>2. i \in 1..Len(ctx') /\ ctx'[i] = ctx[i]
        BY <1>1, <1>2
      <4> QED
        BY <2>1, <4>1, <4>2
    <3> QED
      BY <2>4, <3>1, <3>2 DEF IInv, NameInv, n
  <2>5. \A m \in file_names' : FileEntry(m) \in typedefs'
    BY DEF IInv, NameInv
  <2> QED
    BY <2>3, <2>4, <2>5 DEF NameInv
<1> QED
  BY <1>5, <1>6, <1>7, <1>8

\* The innermost call returns; a scope takes its names out of the table.
LEMMA Pop ==
    ASSUME IInv, pc # "exit", ctx # <<>>,
           ctx' = Outer,
           UNCHANGED <<file_names, errors>>,
           IF Top.kind \in Scopes THEN parser_leave_scope ELSE UNCHANGED table,
           loop_depth' + Uncounted' + One(Top.kind, Loops) =
               loop_depth + Uncounted,
           switch_depth' + One(Top.kind, {"switch"}) = switch_depth,
           loop_depth' \in Int, switch_depth' \in Int
    PROVE  ScopeInv' /\ InnerInv' /\ LoopInv' /\ NameInv' /\ scope_depth' \in Nat
<1> DEFINE n == Len(ctx)
<1>1. /\ ctx \in Seq(Frame) /\ scope_depth \in Nat
      /\ loop_depth \in Nat /\ switch_depth \in Nat
  BY DEF IInv, TypeInv
<1>2. /\ Len(ctx') = n - 1 /\ n \in Nat \ {0}
      /\ \A i \in 1..(n - 1) : ctx'[i] = ctx[i]
  BY <1>1, Popped DEF Outer
<1>3. \A kinds :
        /\ Count(ctx, n, kinds) = Count(ctx', Len(ctx'), kinds)
                                    + One(Top.kind, kinds)
        /\ Count(ctx', Len(ctx'), kinds) \in Nat
        /\ \A i \in 1..(n - 1) : Count(ctx', i, kinds) = Count(ctx, i, kinds)
  BY <1>1, <1>2, CountPopped DEF Outer, Top
<1>4. scope_depth = Count(ctx, n, Scopes)
  BY DEF IInv, ScopeInv
<1>5. ctx[n] = Top
  BY DEF Top
<1> HIDE DEF n
<1>6. scope_depth = scope_depth' + One(Top.kind, Scopes)
  BY <1>1 DEF parser_leave_scope, table, One
<1>7. ScopeInv' /\ scope_depth' \in Nat
  <2>1. scope_depth' \in Int
    BY <1>1 DEF parser_leave_scope, table
  <2>2. /\ Count(ctx, n, Scopes) = Count(ctx', Len(ctx'), Scopes)
                                    + One(Top.kind, Scopes)
        /\ Count(ctx', Len(ctx'), Scopes) \in Nat
    BY <1>3
  <2>3. One(Top.kind, Scopes) \in Nat
    BY OneIsNat
  <2> DEFINE a == scope_depth'
             b == scope_depth
             c == Count(ctx', Len(ctx'), Scopes)
             d == Count(ctx, n, Scopes)
             x == One(Top.kind, Scopes)
  <2>4. a \in Int /\ b \in Int /\ c \in Int /\ x \in Int
    BY <1>1, <2>1, <2>2, <2>3
  <2>5. b = a + x
    BY <1>6
  <2>6. d = c + x
    BY <2>2
  <2>7. b = d
    BY <1>4
  <2> HIDE DEF a, b, c, d, x
  <2>8. a = c
    BY <2>4, <2>5, <2>6, <2>7
  <2> QED
    BY <2>2, <2>8 DEF ScopeInv, a, c
<1>8. InnerInv'
  <2> SUFFICES ASSUME NEW k \in 1..(n - 1)
               PROVE  \E m \in 1..k : Innermost(ctx', k, m)
    BY <1>2 DEF InnerInv
  <2>1. k \in 1..n
    BY <1>2
  <2>2. PICK m \in 1..k : Innermost(ctx, k, m)
    BY <2>1 DEF IInv, InnerInv, n
  <2>3. Innermost(ctx', k, m)
    BY <1>2, <2>2 DEF Innermost
  <2> QED
    BY <2>3
<1>9. LoopInv'
  <2>1. One(Top.kind, Loops) \in Nat
    BY OneIsNat
  <2>2. Uncounted \in Nat /\ Uncounted' \in Nat
    BY DEF Uncounted
  <2>3. /\ Count(ctx, n, Loops) = Count(ctx', Len(ctx'), Loops)
                                    + One(Top.kind, Loops)
        /\ Count(ctx, n, {"switch"}) = Count(ctx', Len(ctx'), {"switch"})
                                    + One(Top.kind, {"switch"})
        /\ Count(ctx', Len(ctx'), Loops) \in Nat
        /\ Count(ctx', Len(ctx'), {"switch"}) \in Nat
    BY <1>3
  <2>4. /\ loop_depth + Uncounted >= Count(ctx, n, Loops)
        /\ switch_depth >= Count(ctx, n, {"switch"})
        /\ errors = 0 => loop_depth + Uncounted = Count(ctx, n, Loops)
        /\ errors = 0 => switch_depth = Count(ctx, n, {"switch"})
    BY DEF IInv, LoopInv, n
  <2> HIDE DEF Uncounted, Loops
  <2> DEFINE a == loop_depth' + Uncounted'
             b == loop_depth + Uncounted
             c == Count(ctx', Len(ctx'), Loops)
             d == Count(ctx, n, Loops)
             x == One(Top.kind, Loops)
  <2>5. a \in Int /\ b \in Int /\ c \in Int /\ x \in Int
    <3>1. a \in Int
      BY <1>1, <2>2
    <3>2. b \in Int
      BY <1>1, <2>2
    <3>3. c \in Int /\ x \in Int
      BY <2>1, <2>3
    <3> QED
      BY <3>1, <3>2, <3>3
  <2>6. b = a + x
    OBVIOUS
  <2>7. d = c + x
    BY <2>3
  <2>8. b >= d /\ (errors = 0 => b = d)
    BY <2>4
  <2> HIDE DEF a, b, c, d, x
  <2>9. a >= c /\ (errors = 0 => a = c)
    BY <2>5, <2>6, <2>7, <2>8, Follows
  <2>10. /\ loop_depth' + Uncounted' >= Count(ctx', Len(ctx'), Loops)
         /\ errors = 0 => loop_depth' + Uncounted' = Count(ctx', Len(ctx'), Loops)
    BY <2>9 DEF a, c
  <2>11. /\ switch_depth' >= Count(ctx', Len(ctx'), {"switch"})
         /\ errors = 0 => switch_depth' = Count(ctx', Len(ctx'), {"switch"})
    <3> DEFINE u == switch_depth'
               v == switch_depth
               g == Count(ctx', Len(ctx'), {"switch"})
               h == Count(ctx, n, {"switch"})
               y == One(Top.kind, {"switch"})
    <3>1. u \in Int /\ v \in Int
      BY <1>1
    <3>2. g \in Int
      BY <2>3
    <3>3. y \in Int
      BY OneIsNat
    <3>4. v = u + y
      OBVIOUS
    <3>5. h = g + y
      BY <2>3
    <3>6. v >= h /\ (errors = 0 => v = h)
      BY <2>4
    <3> HIDE DEF u, v, g, h, y
    <3>7. u >= g /\ (errors = 0 => u = g)
      BY <3>1, <3>2, <3>3, <3>4, <3>5, <3>6, Follows
    <3> QED
      BY <3>7 DEF u, v, g, h
  <2> QED
    BY <2>10, <2>11 DEF LoopInv
<1>10. NameInv'
  <2>1. \A m : \A i \in 1..(n - 1) : EntryOf(ctx', i, m) = EntryOf(ctx, i, m)
    BY <1>3 DEF EntryOf
  <2>2. \A e : e \in typedefs' <=>
            e \in typedefs /\ (Top.kind \in Scopes => e.scope_depth < scope_depth)
    BY DEF parser_leave_scope, Survives, table
  <2>3. ASSUME Top.kind \in Scopes, NEW i \in 1..(n - 1)
        PROVE  Count(ctx, i, Scopes) < scope_depth
    <3>1. Count(ctx', i, Scopes) <= Count(ctx', Len(ctx'), Scopes)
      BY <1>2, CountMonotone
    <3>2. Count(ctx', i, Scopes) = Count(ctx, i, Scopes)
      BY <1>3
    <3>3. /\ scope_depth = Count(ctx', Len(ctx'), Scopes) + 1
          /\ Count(ctx', Len(ctx'), Scopes) \in Nat
      BY <1>3, <1>4, <2>3 DEF One
    <3>4. Count(ctx, i, Scopes) \in Nat
      BY <1>2, CountIsNat
    <3> QED
      BY <3>1, <3>2, <3>3, <3>4
  <2>4. ASSUME NEW i \in 1..Len(ctx'), NEW m \in ctx'[i].names
        PROVE  ctx'[i].kind \in Scopes /\ EntryOf(ctx', i, m) \in typedefs'
    <3>1. i \in 1..(n - 1) /\ i \in 1..n /\ ctx'[i] = ctx[i]
      BY <1>2
    <3>2. ctx[i].kind \in Scopes /\ EntryOf(ctx, i, m) \in typedefs
      BY <2>4, <3>1 DEF IInv, NameInv, n
    <3>3. EntryOf(ctx, i, m).scope_depth = Count(ctx, i, Scopes)
      BY DEF EntryOf
    <3> QED
      BY <2>1, <2>2, <2>3, <3>1, <3>2, <3>3
  <2>5. ASSUME NEW m \in file_names' PROVE FileEntry(m) \in typedefs'
    <3>1. FileEntry(m) \in typedefs /\ FileEntry(m).scope_depth = 0
      BY DEF IInv, NameInv, FileEntry
    <3>2. Top.kind \in Scopes => 0 < scope_depth
      BY <1>3, <1>4 DEF One
    <3> QED
      BY <2>2, <3>1, <3>2
  <2>6. ASSUME errors' = 0, NEW e \in typedefs'
        PROVE  \/ \E m \in file_names' : e = FileEntry(m)
               \/ \E i \in 1..Len(ctx') : \E m \in ctx'[i].names :
                       e = EntryOf(ctx', i, m)
    <3>1. CASE \E m \in file_names : e = FileEntry(m)
      BY <3>1
    <3>2. CASE \E i \in 1..n : \E m \in ctx[i].names : e = EntryOf(ctx, i, m)
      <4>1. PICK i \in 1..n : \E m \in ctx[i].names : e = EntryOf(ctx, i, m)
        BY <3>2
      <4>2. i # n
        <5>1. SUFFICES ASSUME i = n PROVE FALSE
          OBVIOUS
        <5>2. Top.kind \in Scopes
          BY <1>5, <4>1, <5>1 DEF IInv, NameInv, n
        <5>3. e.scope_depth = scope_depth
          BY <1>4, <4>1, <5>1 DEF EntryOf
        <5> QED
          BY <1>1, <2>2, <2>6, <5>2, <5>3
      <4>3. i \in 1..(n - 1) /\ i \in 1..Len(ctx') /\ ctx'[i] = ctx[i]
        BY <1>2, <4>2
      <4> QED
        BY <2>1, <4>1, <4>3
    <3> QED
      BY <2>2, <2>6, <3>1, <3>2 DEF IInv, NameInv, n
  <2> QED
    BY <2>4, <2>5, <2>6 DEF NameInv
<1> QED
  BY <1>7, <1>8, <1>9, <1>10

-----------------------------------------------------------------------------
(***************************************************************************)
(* The steps of the parser.                                                *)
(***************************************************************************)

\* The next token.
LEMMA AdvanceTypes ==
    ASSUME TypeInv, Advance
    PROVE  current' \in Token /\ pos' \in Nat
BY DEF TypeInv, Advance

\* The initial state.
LEMMA InitInv ==
    ASSUME Init
    PROVE  IInv
<1>1. ctx = <<>> /\ Len(ctx) = 0 /\ 1..Len(ctx) = {}
  BY DEF Init
<1>2. \A kinds : Count(ctx, Len(ctx), kinds) = 0
  BY <1>1, CountIsNat
<1>3. TypeInv
  <2>1. ctx \in Seq(Frame) /\ g_max_errors \in Nat
    BY ParserAssumption DEF Init
  <2> QED
    BY <2>1 DEF Init, TypeInv, Pcs
<1>4. PlaceInv /\ FunctionContext /\ ScopeInv /\ InnerInv
  BY <1>1, <1>2
  DEF Init, PlaceInv, FunctionContext, ScopeInv, InnerInv, ForPcs
<1>5. LoopInv
  BY <1>2 DEF Init, LoopInv, Uncounted, ForPcs
<1>6. NameInv
  BY <1>1 DEF Init, NameInv
<1> QED
  BY <1>3, <1>4, <1>5, <1>6 DEF IInv

\* A turn of the recovery loop.
LEMMA SyncStep ==
    ASSUME IInv, parser_sync
    PROVE  IInv'
<1>1. /\ pc = "sync" /\ pc' \in {"sync", "ext"}
      /\ current' \in Token /\ pos' \in Nat /\ sync_depth' \in Nat
  <2>1. Look \/ Advance
    BY DEF parser_sync, SyncStop
  <2>2. current' \in Token /\ pos' \in Nat
    BY <2>1, AdvanceTypes DEF Look, IInv, TypeInv
  <2>3. sync_depth \in Nat
    BY DEF IInv, TypeInv
  <2>4. sync_depth' \in Nat
    <3>1. \/ sync_depth' \in {sync_depth, 0, sync_depth + 1}
          \/ sync_depth > 1 /\ sync_depth' = sync_depth - 1
      BY DEF parser_sync
    <3> QED
      BY <2>3, <3>1
  <2> QED
    BY <2>2, <2>4 DEF parser_sync, SyncStop
<1>2. UNCHANGED <<Nesting, pending, g_max_errors>>
  BY DEF parser_sync, Nesting
<1>3. TypeInv'
  BY <1>1, <1>2 DEF IInv, TypeInv, Nesting, table, counts, Pcs
<1>4. PlaceInv' /\ Uncounted' = Uncounted
  BY <1>1, <1>2 DEF IInv, PlaceInv, Uncounted, Nesting, ForPcs
<1> QED
  BY <1>1, <1>2, <1>3, <1>4, Stay

\* An external declaration.
LEMMA ExternalStep ==
    ASSUME IInv, ExternalDeclaration
    PROVE  IInv'
<1>1. pc = "ext"
  BY DEF ExternalDeclaration
<1>2. CASE Error
  BY <1>1, <1>2, ErrorStep
<1>3. CASE ~Error
  <2>1. /\ pc' \in {"done", "body", "vbody", "semi"}
        /\ UNCHANGED <<Nesting, sync_depth, g_max_errors>>
        /\ pending' \in Names \cup {NoName}
        /\ current' \in Token /\ pos' \in Nat
    BY <1>3, AdvanceTypes
    DEF ExternalDeclaration, IInv, TypeInv, Token, Look, Quiet, Nesting
  <2>2. TypeInv'
    BY <2>1 DEF IInv, TypeInv, Nesting, table, counts, Pcs
  <2>3. PlaceInv' /\ Uncounted' = Uncounted
    BY <1>1, <2>1 DEF IInv, PlaceInv, Uncounted, Nesting, ForPcs
  <2> QED
    BY <1>1, <2>1, <2>2, <2>3, Stay
<1> QED
  BY <1>2, <1>3

\* The body of a function is opened.
LEMMA BodyStep ==
    ASSUME IInv, FunctionBody
    PROVE  IInv'
<1>1. pc \in {"body", "vbody"} /\ ctx = <<>> /\ ctx \in Seq(Frame) /\ Len(ctx) = 0
  BY DEF FunctionBody, IInv, PlaceInv, TypeInv
<1>2. CASE Error
  BY <1>1, <1>2, ErrorStep
<1>3. CASE ~Error /\ current.k = "{"
  <2> DEFINE f == [kind |-> "block", names |-> {},
                   saved |-> current_func_is_variadic, own |-> pc = "vbody"]
  <2>1. f \in Frame
    BY DEF Frame, Kinds, IInv, TypeInv
  <2>2. ctx' = <<f>> /\ ctx' = Append(ctx, f)
    <3>1. ctx' = <<f>>
      BY <1>1, <1>3 DEF FunctionBody
    <3>2. Append(<<>>, f) = <<f>>
      OBVIOUS
    <3> QED
      BY <1>1, <3>1, <3>2
  <2>3. /\ f.kind = "block" /\ f.names = {}
        /\ f.own = (pc = "vbody")
    OBVIOUS
  <2> HIDE DEF f
  <2>4. /\ pc' = "block" /\ scope_depth' = scope_depth + 1
        /\ current_func_is_variadic' = (pc = "vbody")
        /\ UNCHANGED <<typedefs, loop_depth, switch_depth, file_names, errors,
                       pending, sync_depth, g_max_errors>>
        /\ current' \in Token /\ pos' \in Nat
    BY <1>3, AdvanceTypes DEF FunctionBody, BodyFlag, Quiet, counts, IInv
  <2>5. ctx' \in Seq(Frame) /\ Len(ctx') = 1 /\ ctx'[1] = f /\ ctx' # <<>>
    BY <2>1, <2>2
  <2>6. TypeInv'
    BY <2>4, <2>5 DEF IInv, TypeInv, Pcs
  <2>7. PlaceInv' /\ FunctionContext'
    BY <2>3, <2>4, <2>5 DEF PlaceInv, FunctionContext, Top, ForPcs
  <2>8. /\ scope_depth' = scope_depth + One(f.kind, Scopes)
        /\ One(f.kind, Loops) = 0 /\ One(f.kind, {"switch"}) = 0
        /\ Uncounted = 0 /\ Uncounted' = 0
        /\ f.kind \in Scopes
    BY <1>1, <2>3, <2>4 DEF One, Scopes, Loops, Uncounted, ForPcs
  <2>9. /\ loop_depth' + Uncounted' = loop_depth + Uncounted + One(f.kind, Loops)
        /\ switch_depth' = switch_depth + One(f.kind, {"switch"})
        /\ loop_depth' \in Nat /\ switch_depth' \in Nat
    BY <2>4, <2>6, <2>8 DEF TypeInv
  <2>10. ScopeInv' /\ InnerInv' /\ LoopInv' /\ NameInv'
    BY <1>1, <2>1, <2>2, <2>3, <2>4, <2>8, <2>9, Push
  <2> QED
    BY <2>6, <2>7, <2>10 DEF IInv
<1>4. CASE ~Error /\ current.k # "{"
  <2>1. /\ pc' = "ext"
        /\ UNCHANGED <<Nesting, pending, sync_depth, g_max_errors>>
        /\ current' \in Token /\ pos' \in Nat
    BY <1>4, AdvanceTypes DEF FunctionBody, IInv, Quiet, Nesting
  <2>2. TypeInv'
    BY <2>1 DEF IInv, TypeInv, Nesting, table, counts, Pcs
  <2>3. PlaceInv' /\ Uncounted' = Uncounted
    BY <1>1, <2>1 DEF IInv, PlaceInv, Uncounted, Nesting, ForPcs
  <2> QED
    BY <1>1, <2>1, <2>2, <2>3, Stay
<1> QED
  BY <1>2, <1>3, <1>4

\* The loop of a block, and its end.
LEMMA BlockStep ==
    ASSUME IInv, BlockLoop
    PROVE  IInv'
<1>1. /\ pc = "block" /\ ctx # <<>> /\ Top.kind = "block"
      /\ ctx \in Seq(Frame)
  BY DEF BlockLoop, IInv, PlaceInv, TypeInv, ForPcs
<1>2. CASE current.k # "}"
  <2>1. /\ pc' = "stmt"
        /\ UNCHANGED <<Nesting, pending, sync_depth, g_max_errors>>
        /\ current' \in Token /\ pos' \in Nat
    BY <1>2 DEF BlockLoop, IInv, TypeInv, Look, Quiet, Nesting
  <2>2. TypeInv'
    BY <2>1 DEF IInv, TypeInv, Nesting, table, counts, Pcs
  <2>3. PlaceInv' /\ Uncounted' = Uncounted
    BY <1>1, <2>1 DEF IInv, PlaceInv, Uncounted, Nesting, ForPcs
  <2> QED
    BY <1>1, <2>1, <2>2, <2>3, Stay
<1>3. CASE current.k = "}"
  <2>1. /\ parser_leave_scope /\ ctx' = Outer
        /\ UNCHANGED <<loop_depth, switch_depth, file_names, errors, pending,
                       sync_depth, g_max_errors>>
        /\ pc' \in {"ext", "return"}
        /\ pc' = "ext" <=> ctx' = <<>>
        /\ Advance
    BY <1>3 DEF BlockLoop, Quiet, counts
  <2>2. /\ ctx' \in Seq(Frame) /\ Len(ctx') = Len(ctx) - 1
        /\ Len(ctx) \in Nat \ {0}
        /\ \A i \in 1..(Len(ctx) - 1) : ctx'[i] = ctx[i]
    BY <1>1, <2>1, Popped DEF Outer
  <2>3. ctx' # <<>> => /\ ctx'[1] = ctx[1]
                       /\ current_func_is_variadic' = current_func_is_variadic
    <3>1. ctx' # <<>> => 1 \in 1..(Len(ctx) - 1)
      BY <2>2, EmptySeq
    <3> QED
      BY <1>3, <2>1, <2>2, <3>1 DEF BlockLoop
  <2>4. /\ Top.kind \in Scopes /\ One(Top.kind, Loops) = 0
        /\ One(Top.kind, {"switch"}) = 0 /\ Uncounted = 0 /\ Uncounted' = 0
    BY <1>1, <2>1 DEF One, Scopes, Loops, Uncounted, ForPcs
  <2>5. /\ loop_depth' + Uncounted' + One(Top.kind, Loops) = loop_depth + Uncounted
        /\ switch_depth' + One(Top.kind, {"switch"}) = switch_depth
        /\ loop_depth' \in Int /\ switch_depth' \in Int
    BY <2>1, <2>4 DEF IInv, TypeInv
  <2>6. ScopeInv' /\ InnerInv' /\ LoopInv' /\ NameInv' /\ scope_depth' \in Nat
    BY <1>1, <2>1, <2>4, <2>5, Pop
  <2>7. PlaceInv' /\ FunctionContext'
    BY <1>1, <2>1, <2>3 DEF IInv, PlaceInv, FunctionContext, ForPcs
  <2>8. current_func_is_variadic' \in BOOLEAN
    <3>1. Top \in Frame
      BY <1>1, <2>2 DEF Top
    <3> QED
      BY <1>3, <3>1 DEF BlockLoop, IInv, TypeInv, Frame
  <2>9. typedefs' \subseteq Entry
    BY <2>1 DEF parser_leave_scope, IInv, TypeInv
  <2>10. current' \in Token /\ pos' \in Nat
    BY <2>1, AdvanceTypes DEF IInv
  <2>11. TypeInv'
    BY <2>1, <2>2, <2>6, <2>8, <2>9, <2>10 DEF IInv, TypeInv, Pcs
  <2> QED
    BY <2>6, <2>7, <2>11 DEF IInv
<1> QED
  BY <1>2, <1>3

\* A statement that contains statements.
LEMMA EnterStep ==
    ASSUME IInv, pc = "stmt", NEW kind \in Kinds, Enter(kind)
    PROVE  IInv'
<1> DEFINE f == Open(kind)
<1>1. f \in Frame /\ f.kind = kind /\ f.names = {}
  BY DEF Frame, Open
<1>2. ctx \in Seq(Frame) /\ ctx # <<>> /\ Len(ctx) \in Nat \ {0}
  BY EmptySeq DEF IInv, PlaceInv, TypeInv
<1>3. ctx' = Append(ctx, f)
  BY DEF Enter
<1> HIDE DEF f
<1>4. /\ ctx' \in Seq(Frame) /\ Len(ctx') = Len(ctx) + 1 /\ ctx'[Len(ctx')] = f
      /\ ctx'[1] = ctx[1] /\ ctx' # <<>>
  BY <1>1, <1>2, <1>3, Pushed
<1>5. /\ UNCHANGED <<typedefs, file_names, errors, pending, current_func_is_variadic,
                     sync_depth, g_max_errors>>
      /\ current' \in Token /\ pos' \in Nat
      /\ scope_depth' = scope_depth + One(kind, Scopes)
  <2>1. /\ scope_depth \in Nat
        /\ scope_depth' = IF kind \in {"block", "for"} THEN scope_depth + 1
                                                       ELSE scope_depth
    BY DEF Enter, IInv, TypeInv
  <2>2. scope_depth' = scope_depth + One(kind, Scopes)
    BY <2>1 DEF One, Scopes
  <2> QED
    BY <2>2, AdvanceTypes DEF Enter, Quiet, IInv
<1>6. /\ loop_depth' \in Nat /\ switch_depth' \in Nat
      /\ switch_depth' = switch_depth + One(kind, {"switch"})
      /\ Uncounted = 0
  <2>1. /\ switch_depth \in Nat /\ loop_depth \in Nat
        /\ switch_depth' = IF kind = "switch" THEN switch_depth + 1 ELSE switch_depth
        /\ loop_depth' \in {loop_depth + 1, loop_depth}
    BY DEF Enter, IInv, TypeInv
  <2>2. switch_depth' = switch_depth + One(kind, {"switch"})
    BY <2>1 DEF One
  <2>3. Uncounted = 0
    BY DEF Uncounted, ForPcs
  <2> QED
    BY <2>1, <2>2, <2>3
<1>7. /\ kind = "block" => pc' = "block"
      /\ kind = "for" => pc' = "for1"
      /\ kind \notin {"block", "for"} => pc' = "stmt"
  BY DEF Enter, Kinds
<1>8. loop_depth' + Uncounted' = loop_depth + Uncounted + One(kind, Loops)
  <2>1. /\ loop_depth \in Nat
        /\ loop_depth' = IF kind \in {"while", "do"} THEN loop_depth + 1 ELSE loop_depth
    BY DEF Enter, IInv, TypeInv
  <2>2. CASE kind \in {"while", "do"}
    BY <1>6, <1>7, <2>1, <2>2 DEF Uncounted, ForPcs, One, Loops
  <2>3. CASE kind = "for"
    BY <1>6, <1>7, <2>1, <2>3 DEF Uncounted, ForPcs, One, Loops
  <2>4. CASE kind \in {"block", "switch", "if"}
    BY <1>6, <1>7, <2>1, <2>4 DEF Uncounted, ForPcs, One, Loops
  <2> QED
    BY <2>2, <2>3, <2>4 DEF Kinds
<1>9. ScopeInv' /\ InnerInv' /\ LoopInv' /\ NameInv'
  BY <1>1, <1>2, <1>3, <1>5, <1>6, <1>8, Push
<1>10. TypeInv'
  <2>1. scope_depth' \in Nat
    BY <1>5, OneIsNat DEF IInv, TypeInv
  <2>2. pc' \in Pcs
    BY <1>7 DEF Pcs, ForPcs
  <2> QED
    BY <1>4, <1>5, <1>6, <2>1, <2>2 DEF IInv, TypeInv
<1>11. PlaceInv' /\ FunctionContext'
  <2>1. Top'.kind = kind
    BY <1>1, <1>4 DEF Top
  <2>2. pc' = "block" => kind = "block"
    BY <1>7
  <2>3. pc' \in ForPcs => kind = "for"
    BY <1>7 DEF ForPcs
  <2>4. pc' \notin {"ext", "body", "vbody", "sync", "done", "register"}
    BY <1>7
  <2> QED
    BY <1>2, <1>4, <1>5, <2>1, <2>2, <2>3, <2>4
    DEF IInv, PlaceInv, FunctionContext
<1> QED
  BY <1>9, <1>10, <1>11 DEF IInv

\* Any statement.
LEMMA StatementStep ==
    ASSUME IInv, parse_statement
    PROVE  IInv'
<1>1. pc = "stmt" /\ ctx # <<>>
  BY DEF parse_statement, IInv, PlaceInv
<1>2. CASE \E kind \in Kinds : Enter(kind)
  BY <1>1, <1>2, EnterStep
<1>3. CASE Label \/ Simple
  <2>1. /\ pc' \in {"stmt", "semi"}
        /\ UNCHANGED <<Nesting, sync_depth, g_max_errors>>
        /\ Advance
    BY <1>1, <1>3 DEF Label, Simple, Quiet, Nesting
  <2>2. pending' \in Names \cup {NoName}
    <3>1. CASE Label
      BY <3>1 DEF Label, IInv, TypeInv
    <3>2. CASE Simple
      BY <3>2 DEF Simple, IInv, TypeInv, Token
    <3> QED
      BY <1>3, <3>1, <3>2
  <2>3. current' \in Token /\ pos' \in Nat
    BY <2>1, AdvanceTypes DEF IInv
  <2>4. TypeInv'
    BY <2>1, <2>2, <2>3 DEF IInv, TypeInv, Nesting, table, counts, Pcs
  <2>5. PlaceInv' /\ Uncounted' = Uncounted
    BY <1>1, <2>1 DEF IInv, PlaceInv, Uncounted, Nesting, ForPcs
  <2> QED
    BY <1>1, <2>1, <2>4, <2>5, Stay
<1>4. CASE Error
  BY <1>1, <1>4, ErrorStep
<1> QED
  BY <1>2, <1>3, <1>4 DEF parse_statement

\* The ";" of a statement or declaration.
LEMMA SemicolonStep ==
    ASSUME IInv, Semicolon
    PROVE  IInv'
<1>1. pc = "semi"
  BY DEF Semicolon
<1>2. CASE Error
  BY <1>1, <1>2, ErrorStep
<1>3. CASE ~Error
  <2>1. /\ pc' = IF pending # NoName THEN "register"
                 ELSE IF ctx = <<>> THEN "ext" ELSE "return"
        /\ UNCHANGED <<Nesting, pending, sync_depth, g_max_errors>>
        /\ Advance
    BY <1>3 DEF Semicolon, Quiet, Nesting
  <2>2. /\ pending # NoName => pc' = "register"
        /\ pending = NoName /\ ctx = <<>> => pc' = "ext"
        /\ pending = NoName /\ ctx # <<>> => pc' = "return"
    BY <2>1
  <2>3. current' \in Token /\ pos' \in Nat
    BY <2>1, AdvanceTypes DEF IInv
  <2>4. TypeInv'
    BY <2>1, <2>2, <2>3 DEF IInv, TypeInv, Nesting, table, counts, Pcs
  <2>5. PlaceInv' /\ Uncounted' = Uncounted
    BY <1>1, <2>1, <2>2 DEF IInv, PlaceInv, Uncounted, Nesting, ForPcs
  <2> QED
    BY <1>1, <2>1, <2>4, <2>5, Stay
<1> QED
  BY <1>2, <1>3

\* The innermost of the open scopes, as Register picks it.
LEMMA InnerScope ==
    ASSUME IInv, ctx # <<>>
    PROVE  LET blocks == {i \in DOMAIN ctx : ctx[i].kind \in {"block", "for"}}
               inner == CHOOSE i \in blocks : \A j \in blocks : j <= i
           IN inner \in 1..Len(ctx) /\ Innermost(ctx, Len(ctx), inner)
<1> DEFINE blocks == {i \in DOMAIN ctx : ctx[i].kind \in {"block", "for"}}
           inner == CHOOSE i \in blocks : \A j \in blocks : j <= i
<1>1. DOMAIN ctx = 1..Len(ctx) /\ Len(ctx) \in Nat \ {0}
  BY EmptySeq DEF IInv, TypeInv
<1>2. PICK m \in 1..Len(ctx) : Innermost(ctx, Len(ctx), m)
  BY <1>1 DEF IInv, InnerInv
<1>3. m \in blocks /\ \A j \in blocks : j <= m
  BY <1>1, <1>2 DEF Innermost, Scopes
<1>4. inner \in blocks /\ \A j \in blocks : j <= inner
  BY <1>3
<1> HIDE DEF inner
<1>5. inner \in 1..Len(ctx) /\ ctx[inner].kind \in Scopes
  BY <1>1, <1>4 DEF Scopes
<1>6. ASSUME NEW j \in (inner + 1)..Len(ctx) PROVE ctx[j].kind \notin Scopes
  BY <1>1, <1>4, <1>5 DEF Scopes
<1> QED
  BY <1>5, <1>6 DEF Innermost, inner

\* A typedef is entered in the table, at file scope or in a block.
LEMMA RegisterStep ==
    ASSUME IInv, Register
    PROVE  IInv'
<1>1. pc = "register" /\ pending \in Names
  BY DEF Register, IInv, TypeInv, PlaceInv
<1>2. CASE Error
  BY <1>1, <1>2, ErrorStep
<1>3. CASE ~Error
  <2> DEFINE e0 == [name |-> pending, scope_depth |-> scope_depth]
  <2>1. /\ typedefs' = typedefs \cup {e0}
        /\ pending' = NoName
        /\ UNCHANGED <<current, pos, scope_depth, loop_depth, switch_depth,
                       current_func_is_variadic, sync_depth, g_max_errors, errors>>
        /\ pc' = IF ctx = <<>> THEN "ext" ELSE "return"
    BY <1>3 DEF Register, parser_register_typedef, Look, Quiet, counts
  <2>2. e0 \in Entry
    BY <1>1 DEF Entry, IInv, TypeInv
  <2>3. Uncounted = 0 /\ Uncounted' = 0
    BY <1>1, <2>1 DEF Uncounted, ForPcs
  <2>4. pc' \in {"ext", "return"}
    BY <2>1
  <2> HIDE DEF e0
  <2>5. CASE ctx = <<>>
    <3>1. ctx' = ctx /\ file_names' = file_names \cup {pending} /\ Len(ctx) = 0
      BY <1>3, <2>5 DEF Register
    <3>2. scope_depth = 0 /\ e0 = FileEntry(pending)
      BY <3>1, CountIsNat DEF IInv, ScopeInv, e0, FileEntry
    <3>3. TypeInv'
      BY <1>1, <2>1, <2>2, <2>4, <3>1 DEF IInv, TypeInv, Pcs
    <3>4. PlaceInv' /\ FunctionContext' /\ ScopeInv' /\ InnerInv'
      BY <2>1, <2>5, <3>1
      DEF IInv, PlaceInv, FunctionContext, ScopeInv, InnerInv, ForPcs
    <3>5. LoopInv'
      BY <1>1, <2>1, <2>3, <3>1 DEF IInv, LoopInv
    <3>6. NameInv'
      BY <2>1, <3>1, <3>2 DEF IInv, NameInv
    <3> QED
      BY <3>3, <3>4, <3>5, <3>6 DEF IInv
  <2>6. CASE ctx # <<>>
    <3>1. PICK m \in 1..Len(ctx) :
                /\ Innermost(ctx, Len(ctx), m)
                /\ ctx' = [ctx EXCEPT ![m].names = @ \cup {pending}]
                /\ file_names' = file_names
      BY <1>3, <2>6, InnerScope DEF Register
    <3>2. /\ ctx \in Seq(Frame) /\ Len(ctx) \in Nat
          /\ DOMAIN ctx = 1..Len(ctx) /\ ctx[m] \in Frame
      BY DEF IInv, TypeInv
    <3>3. /\ ctx' \in Seq(Frame) /\ Len(ctx') = Len(ctx)
          /\ \A i \in 1..Len(ctx) :
                /\ ctx'[i].kind = ctx[i].kind /\ ctx'[i].own = ctx[i].own
                /\ i # m => ctx'[i].names = ctx[i].names
          /\ ctx'[m].names = ctx[m].names \cup {pending}
      <4>1. [ctx[m] EXCEPT !.names = @ \cup {pending}] \in Frame
        BY <1>1, <3>2 DEF Frame
      <4>2. \A i \in 1..Len(ctx) : i # m => ctx'[i] = ctx[i]
        BY <3>1, <3>2
      <4>3. ctx'[m] = [ctx[m] EXCEPT !.names = @ \cup {pending}]
        BY <3>1, <3>2
      <4>4. ctx' \in Seq(Frame) /\ Len(ctx') = Len(ctx)
        BY <3>1, <3>2, <4>1
      <4>5. /\ ctx'[m].kind = ctx[m].kind /\ ctx'[m].own = ctx[m].own
            /\ ctx'[m].names = ctx[m].names \cup {pending}
        BY <3>2, <4>3 DEF Frame
      <4> QED
        BY <4>2, <4>4, <4>5
    <3>4. \A kinds : \A i \in 0..Len(ctx) : Count(ctx', i, kinds) = Count(ctx, i, kinds)
      <4> TAKE kinds
      <4> TAKE i \in 0..Len(ctx)
      <4>1. i \in Nat /\ \A j \in 1..i : ctx'[j].kind = ctx[j].kind
        BY <3>2, <3>3
      <4> QED
        BY <4>1, CountSame
    <3>5. EntryOf(ctx', m, pending) = e0
      <4>1. Count(ctx, Len(ctx), Scopes) = Count(ctx, m, Scopes)
        BY <3>1, <3>2, CountUpTo DEF Innermost
      <4> QED
        BY <3>4, <4>1 DEF IInv, ScopeInv, EntryOf, e0
    <3>6. TypeInv'
      BY <2>1, <2>2, <2>4, <3>1, <3>3 DEF IInv, TypeInv, Pcs
    <3>7. /\ ctx' # <<>> /\ ctx'[1].kind = ctx[1].kind /\ ctx'[1].own = ctx[1].own
          /\ ctx'[Len(ctx')].kind = ctx[Len(ctx)].kind
      <4>1. Len(ctx) # 0 /\ 1 \in 1..Len(ctx) /\ Len(ctx) \in 1..Len(ctx)
        BY <2>6, <3>2, EmptySeq
      <4>2. ctx' # <<>>
        BY <3>3, <4>1, EmptySeq
      <4> QED
        BY <3>3, <4>1, <4>2
    <3>8. PlaceInv' /\ FunctionContext'
      BY <2>1, <2>6, <3>7 DEF IInv, PlaceInv, FunctionContext, ForPcs, Top
    <3>9. ScopeInv'
      BY <2>1, <3>2, <3>3, <3>4 DEF IInv, ScopeInv
    <3>10. InnerInv'
      <4> SUFFICES ASSUME NEW k \in 1..Len(ctx)
                   PROVE  \E p \in 1..k : Innermost(ctx', k, p)
        BY <3>3 DEF InnerInv
      <4>1. PICK p \in 1..k : Innermost(ctx, k, p)
        BY DEF IInv, InnerInv
      <4>2. Innermost(ctx', k, p)
        <5>1. p \in 1..Len(ctx) /\ \A j \in (p + 1)..k : j \in 1..Len(ctx)
          BY <3>2
        <5> QED
          BY <3>3, <4>1, <5>1 DEF Innermost
      <4> QED
        BY <4>2
    <3>11. LoopInv'
      <4>1. \A kinds : Count(ctx', Len(ctx'), kinds) = Count(ctx, Len(ctx), kinds)
        BY <3>2, <3>3, <3>4
      <4> QED
        BY <1>1, <2>1, <2>3, <4>1 DEF IInv, LoopInv
    <3>12. \A n : \A i \in 1..Len(ctx) : EntryOf(ctx', i, n) = EntryOf(ctx, i, n)
      BY <3>2, <3>4 DEF EntryOf
    <3>13. \A n \in file_names' : FileEntry(n) \in typedefs'
      BY <2>1, <3>1 DEF IInv, NameInv
    <3>14. ASSUME NEW i \in 1..Len(ctx'), NEW n \in ctx'[i].names
           PROVE  ctx'[i].kind \in Scopes /\ EntryOf(ctx', i, n) \in typedefs'
      <4>1. CASE n \in ctx[i].names
        <5>1. i \in 1..Len(ctx)
          BY <3>3
        <5>2. ctx[i].kind \in Scopes /\ EntryOf(ctx, i, n) \in typedefs
          BY <4>1, <5>1 DEF IInv, NameInv
        <5> QED
          BY <2>1, <3>3, <3>12, <5>1, <5>2
      <4>2. CASE n \notin ctx[i].names
        <5>1. i = m /\ n = pending
          BY <3>3, <3>14, <4>2
        <5> QED
          BY <2>1, <3>1, <3>3, <3>5, <5>1 DEF Innermost
      <4> QED
        BY <4>1, <4>2
    <3>15. ASSUME errors' = 0, NEW e \in typedefs'
           PROVE  \/ \E n \in file_names' : e = FileEntry(n)
                  \/ \E i \in 1..Len(ctx') : \E n \in ctx'[i].names :
                          e = EntryOf(ctx', i, n)
      <4>1. CASE e = e0
        <5>1. m \in 1..Len(ctx') /\ pending \in ctx'[m].names
          BY <3>3
        <5> QED
          BY <3>5, <4>1, <5>1
      <4>2. CASE \E n \in file_names : e = FileEntry(n)
        BY <3>1, <4>2
      <4>3. CASE \E i \in 1..Len(ctx) : \E n \in ctx[i].names : e = EntryOf(ctx, i, n)
        BY <3>3, <3>12, <4>3
      <4> QED
        BY <2>1, <3>15, <4>1, <4>2, <4>3 DEF IInv, NameInv
    <3>16. NameInv'
      BY <3>13, <3>14, <3>15 DEF NameInv
    <3> QED
      BY <3>6, <3>8, <3>9, <3>10, <3>11, <3>16 DEF IInv
  <2> QED
    BY <2>5, <2>6
<1> QED
  BY <1>2, <1>3

\* The header of a for.  Its loop is counted when the body begins.
LEMMA ForStep ==
    ASSUME IInv, parse_for_header
    PROVE  IInv'
<1>1. /\ pc \in ForPcs /\ ctx # <<>> /\ Top.kind = "for"
      /\ loop_depth \in Nat
  BY DEF parse_for_header, IInv, PlaceInv, TypeInv
<1>2. CASE Error
  BY <1>1, <1>2, ErrorStep DEF ForPcs
<1>3. CASE ~Error
  <2>1. /\ UNCHANGED <<ctx, table, switch_depth, current_func_is_variadic, errors,
                       file_names, pending, sync_depth, g_max_errors>>
        /\ Advance
        /\ \/ pc' \in ForPcs /\ loop_depth' = loop_depth
           \/ pc' = "stmt" /\ loop_depth' = loop_depth + 1
    <3>1. CASE ForClause
      BY <1>3, <3>1 DEF parse_for_header, ForClause, ForEnd, Quiet, ForPcs, counts
    <3>2. CASE ForEnd
      <4>1. /\ UNCHANGED <<ctx, table, switch_depth, current_func_is_variadic, errors,
                           file_names, pending, sync_depth, g_max_errors>>
            /\ Advance
        BY <1>3, <3>2 DEF parse_for_header, ForClause, ForEnd, Quiet, counts
      <4>2. CASE pc \in {"for1", "for1end"}
        BY <1>3, <3>2, <4>1, <4>2 DEF parse_for_header, ForClause, ForEnd, ForPcs, counts
      <4>3. CASE pc \in {"for2", "for2end"}
        BY <1>3, <3>2, <4>1, <4>3 DEF parse_for_header, ForClause, ForEnd, ForPcs, counts
      <4>4. CASE pc \in {"for3", "for3end"}
        BY <1>3, <3>2, <4>1, <4>4 DEF parse_for_header, ForClause, ForEnd, ForPcs, counts
      <4> QED
        BY <1>1, <4>2, <4>3, <4>4 DEF ForPcs
    <3> QED
      BY <1>3, <3>1, <3>2 DEF parse_for_header
  <2>2. current' \in Token /\ pos' \in Nat
    BY <2>1, AdvanceTypes DEF IInv
  <2>3. loop_depth' \in Nat /\ pc' \in Pcs
    BY <1>1, <2>1 DEF Pcs
  <2>4. TypeInv'
    BY <2>1, <2>2, <2>3 DEF IInv, TypeInv, table
  <2>5. PlaceInv'
    BY <1>1, <2>1 DEF IInv, PlaceInv, Top, ForPcs
  <2>6. CASE pc' \in ForPcs
    <3>1. Uncounted' = Uncounted /\ UNCHANGED Nesting
      BY <1>1, <2>1, <2>6 DEF Uncounted, Nesting, counts, ForPcs
    <3> QED
      BY <1>1, <2>4, <2>5, <3>1, Stay DEF ForPcs
  <2>7. CASE pc' \notin ForPcs
    <3>1. Uncounted = 1 /\ Uncounted' = 0 /\ loop_depth' = loop_depth + 1
      BY <1>1, <2>1, <2>7 DEF Uncounted
    <3>2. loop_depth' + Uncounted' = loop_depth + Uncounted
      BY <1>1, <3>1
    <3>3. pc # "exit" /\ pc' # "exit"
      BY <1>1, <2>1, <2>7 DEF ForPcs
    <3>4. LoopInv'
      BY <2>1, <3>2, <3>3 DEF IInv, LoopInv
    <3>5. FunctionContext' /\ ScopeInv' /\ InnerInv'
      BY <2>1 DEF IInv, FunctionContext, ScopeInv, InnerInv, table
    <3>6. NameInv'
      BY <2>1 DEF IInv, NameInv, table
    <3> QED
      BY <2>4, <2>5, <3>4, <3>5, <3>6 DEF IInv
  <2> QED
    BY <2>6, <2>7
<1> QED
  BY <1>2, <1>3

\* A statement returns to the call that asked for it.
LEMMA ReturnStep ==
    ASSUME IInv, Return
    PROVE  IInv'
<1>1. /\ pc = "return" /\ ctx # <<>> /\ ctx[1].kind = "block" /\ ctx \in Seq(Frame)
      /\ loop_depth \in Nat /\ switch_depth \in Nat
  BY DEF Return, IInv, PlaceInv, TypeInv
<1>2. CASE Top.kind = "block"
  <2>1. /\ pc' = "block"
        /\ UNCHANGED <<Nesting, pending, sync_depth, g_max_errors>>
        /\ current' \in Token /\ pos' \in Nat
    BY <1>2 DEF Return, IInv, TypeInv, Look, Quiet, Nesting
  <2>2. TypeInv'
    BY <2>1 DEF IInv, TypeInv, Nesting, table, counts, Pcs
  <2>3. PlaceInv' /\ Uncounted' = Uncounted
    BY <1>1, <1>2, <2>1 DEF IInv, PlaceInv, Uncounted, Nesting, ForPcs, Top
  <2> QED
    BY <1>1, <2>1, <2>2, <2>3, Stay
<1>3. CASE Top.kind # "block"
  <2>1. /\ ctx' = Outer
        /\ loop_depth' = IF Top.kind \in Loops THEN loop_depth - 1 ELSE loop_depth
        /\ switch_depth' = IF Top.kind = "switch" THEN switch_depth - 1
                                                  ELSE switch_depth
        /\ IF Top.kind \in Scopes THEN parser_leave_scope ELSE UNCHANGED table
        /\ UNCHANGED <<file_names, errors, pending, current_func_is_variadic,
                       sync_depth, g_max_errors>>
        /\ pc' \in {"return", "dowhile", "stmt"}
        /\ Look \/ Advance
    BY <1>3 DEF Return, LoopClosed, Loops, Scopes, Quiet
  <2>2. /\ ctx' \in Seq(Frame) /\ Len(ctx') = Len(ctx) - 1
        /\ Len(ctx) \in Nat \ {0}
        /\ \A i \in 1..(Len(ctx) - 1) : ctx'[i] = ctx[i]
    BY <1>1, <2>1, Popped DEF Outer
  <2>3. ctx' # <<>> /\ ctx'[1] = ctx[1]
    <3>1. Len(ctx) # 1
      BY <1>1, <1>3 DEF Top
    <3> QED
      BY <2>2, <3>1, EmptySeq
  <2>4. Uncounted = 0 /\ Uncounted' = 0
    BY <1>1, <2>1 DEF Uncounted, ForPcs
  <2>5. /\ loop_depth' + Uncounted' + One(Top.kind, Loops) = loop_depth + Uncounted
        /\ switch_depth' + One(Top.kind, {"switch"}) = switch_depth
        /\ loop_depth' \in Int /\ switch_depth' \in Int
    <3>1. CASE Top.kind \in Loops
      BY <1>1, <2>1, <2>4, <3>1 DEF One, Loops
    <3>2. CASE Top.kind \notin Loops
      BY <1>1, <2>1, <2>4, <3>2 DEF One
    <3> QED
      BY <3>1, <3>2
  <2>6. ScopeInv' /\ InnerInv' /\ LoopInv' /\ NameInv' /\ scope_depth' \in Nat
    BY <1>1, <2>1, <2>5, Pop
  <2>7. loop_depth' \in Nat /\ switch_depth' \in Nat
    <3> DEFINE a == Count(ctx', Len(ctx'), Loops)
               b == Count(ctx', Len(ctx'), {"switch"})
    <3>1. a \in Nat /\ b \in Nat
      BY <2>2, CountIsNat
    <3>2. loop_depth' >= a /\ switch_depth' >= b
      BY <2>1, <2>4, <2>5, <2>6 DEF LoopInv
    <3> HIDE DEF a, b
    <3> QED
      BY <2>5, <3>1, <3>2
  <2>8. typedefs' \subseteq Entry
    BY <2>1 DEF parser_leave_scope, IInv, TypeInv, table
  <2>9. current' \in Token /\ pos' \in Nat
    BY <2>1, AdvanceTypes DEF IInv, TypeInv, Look
  <2>10. TypeInv'
    BY <2>1, <2>2, <2>6, <2>7, <2>8, <2>9 DEF IInv, TypeInv, Pcs
  <2>11. PlaceInv' /\ FunctionContext'
    BY <1>1, <2>1, <2>3 DEF IInv, PlaceInv, FunctionContext, ForPcs
  <2> QED
    BY <2>6, <2>10, <2>11 DEF IInv
<1> QED
  BY <1>2, <1>3

\* The condition of a do statement.
LEMMA DoWhileStep ==
    ASSUME IInv, DoWhile
    PROVE  IInv'
<1>1. pc = "dowhile"
  BY DEF DoWhile
<1>2. CASE Error
  BY <1>1, <1>2, ErrorStep
<1>3. CASE ~Error
  <2>1. /\ pc' = "semi"
        /\ UNCHANGED <<Nesting, pending, sync_depth, g_max_errors>>
        /\ current' \in Token /\ pos' \in Nat
    BY <1>3, AdvanceTypes DEF DoWhile, IInv, Quiet, Nesting
  <2>2. TypeInv'
    BY <2>1 DEF IInv, TypeInv, Nesting, table, counts, Pcs
  <2>3. PlaceInv' /\ Uncounted' = Uncounted
    BY <1>1, <2>1 DEF IInv, PlaceInv, Uncounted, Nesting, ForPcs
  <2> QED
    BY <1>1, <2>1, <2>2, <2>3, Stay
<1> QED
  BY <1>2, <1>3

\* IInv is an invariant of the parser.
LEMMA Inductive == Spec => []IInv
<1>1. Init => IInv
  BY InitInv
<1>2. IInv /\ [Next]_vars => IInv'
  <2> SUFFICES ASSUME IInv, [Next]_vars PROVE IInv'
    OBVIOUS
  <2>1. CASE UNCHANGED vars
    <3>1. /\ UNCHANGED <<current, pos, pc, ctx, pending, typedefs, scope_depth,
                         loop_depth, switch_depth, current_func_is_variadic>>
          /\ UNCHANGED <<sync_depth, g_max_errors, errors, file_names>>
      BY <2>1 DEF vars, table, counts
    <3>2. TypeInv'
      BY <3>1 DEF IInv, TypeInv
    <3>3. PlaceInv' /\ FunctionContext' /\ ScopeInv' /\ InnerInv'
      BY <3>1 DEF IInv, PlaceInv, FunctionContext, ScopeInv, InnerInv, Top
    <3>4. LoopInv' /\ NameInv'
      BY <3>1 DEF IInv, LoopInv, NameInv, Uncounted
    <3> QED
      BY <3>2, <3>3, <3>4 DEF IInv
  <2>2. CASE Next
    BY <2>2, SyncStep, ExternalStep, BodyStep, BlockStep, StatementStep,
       SemicolonStep, RegisterStep, ForStep, ReturnStep, DoWhileStep DEF Next
  <2> QED
    BY <2>1, <2>2
<1> QED
  BY <1>1, <1>2, PTL DEF Spec

-----------------------------------------------------------------------------
(***************************************************************************)
(* The theorems.                                                           *)
(***************************************************************************)

\* The nesting counters of the parser agree with the statements that are open
\* until the first error, and after errors scope_depth still does while
\* loop_depth and switch_depth are never too low.
THEOREM CountersAgree == Spec => []CountersMatchNesting
<1>1. IInv => CountersMatchNesting
  <2> SUFFICES ASSUME IInv, pc # "exit" PROVE CountersMatchNesting
    BY DEF CountersMatchNesting
  <2>1. ctx \in Seq(Frame) /\ Len(ctx) \in Nat /\ loop_depth \in Nat
    BY DEF IInv, TypeInv
  <2>2. \A kinds : /\ OpenCalls(kinds) = Count(ctx, Len(ctx), kinds)
                   /\ Count(ctx, Len(ctx), kinds) \in Nat
    BY <2>1, OpenIsCount, CountIsNat
  <2>3. scope_depth = OpenCalls({"block", "for"})
    BY <2>2 DEF IInv, ScopeInv, Scopes
  <2>4. /\ switch_depth >= OpenCalls({"switch"})
        /\ errors = 0 => switch_depth = OpenCalls({"switch"})
    BY <2>2 DEF IInv, LoopInv
  <2> DEFINE open == OpenCalls({"while", "do", "for"})
  <2>5. /\ open \in Nat
        /\ loop_depth + Uncounted >= open
        /\ errors = 0 => loop_depth + Uncounted = open
    BY <2>2 DEF IInv, LoopInv, Loops
  <2>6. OpenLoops = open - Uncounted /\ Uncounted \in Nat
    BY DEF OpenLoops, Uncounted
  <2> HIDE DEF open, Uncounted
  <2>7. loop_depth >= OpenLoops /\ (errors = 0 => loop_depth = OpenLoops)
    BY <2>1, <2>5, <2>6
  <2> QED
    BY <2>3, <2>4, <2>7 DEF CountersMatchNesting
<1> QED
  BY <1>1, Inductive, PTL

\* A typedef name is a type wherever an enclosing scope or the file declared
\* it, and until the first error nowhere else: parser_leave_scope takes out
\* the names of the scope that ends and no others, shadowed ones included.
THEOREM TypedefsFollowScopes == Spec => []TypedefScoping
<1>1. IInv => TypedefScoping
  <2> SUFFICES ASSUME IInv, NEW n \in Names
               PROVE  /\ InScope(n) /\ pc \notin {"exit"} => parser_find_typedef(n)
                      /\ errors = 0 => (parser_find_typedef(n) <=> InScope(n))
    BY DEF TypedefScoping
  <2>1. DOMAIN ctx = 1..Len(ctx)
    BY DEF IInv, TypeInv
  <2>2. InScope(n) => parser_find_typedef(n)
    <3>1. CASE n \in file_names
      <4>1. FileEntry(n) \in typedefs /\ FileEntry(n).name = n
        BY <3>1 DEF IInv, NameInv, FileEntry
      <4> QED
        BY <4>1 DEF parser_find_typedef
    <3>2. CASE \E i \in DOMAIN ctx : n \in ctx[i].names
      <4>1. PICK i \in DOMAIN ctx : n \in ctx[i].names
        BY <3>2
      <4>2. EntryOf(ctx, i, n) \in typedefs /\ EntryOf(ctx, i, n).name = n
        BY <2>1, <4>1 DEF IInv, NameInv, EntryOf
      <4> QED
        BY <4>2 DEF parser_find_typedef
    <3> QED
      BY <3>1, <3>2 DEF InScope
  <2>3. errors = 0 /\ parser_find_typedef(n) => InScope(n)
    BY <2>1 DEF IInv, NameInv, InScope, parser_find_typedef, FileEntry, EntryOf
  <2> QED
    BY <2>2, <2>3
<1> QED
  BY <1>1, Inductive, PTL

\* Inside a function body current_func_is_variadic is that function's flag,
\* whatever was abandoned before it.
THEOREM FlagIsTheFunctions == Spec => []FunctionContext
<1>1. IInv => FunctionContext
  BY DEF IInv
<1> QED
  BY <1>1, Inductive, PTL
=============================================================================
