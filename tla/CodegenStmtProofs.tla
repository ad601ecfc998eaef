-------------------------- MODULE CodegenStmtProofs -------------------------
(***************************************************************************)
(* The code of a function body, for every set of names and labels and every*)
(* body: the tables of the code generator, the labels of the code, and     *)
(* where rsp is when the code runs.                                        *)
(*                                                                         *)
(* The inductive invariant has one part for each thing codegen_statement   *)
(* relies on without looking at it:                                        *)
(*   NestInv   break_stack and switch_stack mirror the open calls          *)
(*   ScopeInv  scope_start is where the innermost scope began              *)
(*   NameInv   what locals holds between two such places                   *)
(*   CodeInv   the code emitted so far, where labels are still to come     *)
(*   StartInv  the labels that open loops have emitted already             *)
(*   RunInv    the code when it runs                                       *)
(***************************************************************************)
EXTENDS CodegenStmt, TLAPS, FiniteSetTheorems, SequenceTheorems,
        WellFoundedInduction

Breakable == Loops \cup {"switch"}
Numbered == Breakable \cup {"if"}
Kinds == Numbered \cup {"block", "label"}

Call == [kind : Kinds, id : Nat, opt : BOOLEAN, saved_scope_start : Nat,
         saved_local_count : Nat, names : [Names -> Nat], cases : Nat]

Instr == [op : {"label", "jmp", "jcc", "call", "push", "pop", "ret"},
          to : {"", "start", "continue", "stop", "break", "else", "end", "sec", "usr"}
                  \X (Nat \cup Labels),
          owner : Nat \cup Labels, depth : Int]

SwitchEntry == [entries : Seq([kind : {"case", "default"}, label : Nat]),
                default_label : Int]

BreakEntry == [break_label : Nat, continue_label : Int]
Local == [name : Names, decl : Nat]

\* The types of what Tables and CodeInv do not mention.
TypeInv ==
    /\ pc \in {"stmt", "return", "run", "halt", "error"}
    /\ user_labels \in Seq(Labels)
    /\ last_is_return \in BOOLEAN
    /\ decls \in Nat
    /\ stmts \in Nat

(***************************************************************************)
(* The stacks.                                                             *)
(***************************************************************************)

\* The calls of the given kinds among the k outermost of s.
Indices(s, k, kinds) == {i \in 1..k : s[i].kind \in kinds}
Count(s, k, kinds) == Cardinality(Indices(s, k, kinds))

\* The number of discriminants on the stack inside the i-th call.
Depth(s, i) == Count(s, i, {"switch"})

\* The entries of the i-th call, a switch; how many labels it numbered.
Entries(s, ss, i) == ss[Depth(s, i)].entries
Slots(s, ss, i) == IF s[i].kind = "switch" THEN Len(Entries(s, ss, i)) ELSE 0

BreakFrame(f) == [break_label |-> f.id,
                  continue_label |-> IF f.kind = "switch" THEN -1 ELSE f.id]

NestInv(s, bs, ss) ==
    /\ Len(bs) = Count(s, Len(s), Breakable)
    /\ Len(ss) = Depth(s, Len(s))
    /\ \A i \in 1..Len(s) :
          s[i].kind \in Breakable => bs[Count(s, i, Breakable)] = BreakFrame(s[i])
    /\ \A i \in 1..Len(s) :
          s[i].kind = "switch" =>
              /\ s[i].cases <= Len(Entries(s, ss, i))
              /\ \A k \in 1..Len(Entries(s, ss, i)) :
                    Entries(s, ss, i)[k].label = s[i].id + k

\* Numbers are given out in order: an inner statement has greater ones.
NumberInv(s, ss, lc) ==
    /\ \A i \in 1..Len(s) :
          s[i].kind \in Numbered => s[i].id + Slots(s, ss, i) < lc
    /\ \A i, j \in 1..Len(s) :
          i < j /\ s[i].kind \in Numbered /\ s[j].kind \in Numbered =>
              s[i].id + Slots(s, ss, i) < s[j].id

(***************************************************************************)
(* The scopes.                                                             *)
(***************************************************************************)

\* Where the innermost scope of the k outermost calls began.
StartsAt(s, k, x) ==
    \/ x = 0 /\ \A i \in 1..k : s[i].kind \notin Scopes
    \/ \E m \in 1..k :
          /\ s[m].kind \in Scopes /\ x = s[m].saved_local_count
          /\ \A i \in (m + 1)..k : s[i].kind \notin Scopes

ScopeInv(s, start, len) ==
    /\ StartsAt(s, Len(s), start)
    /\ \A i \in 1..Len(s) :
          s[i].kind \in Scopes =>
              /\ StartsAt(s, i - 1, s[i].saved_scope_start)
              /\ s[i].saved_local_count <= len
    /\ \A i, j \in 1..Len(s) :
          i < j /\ s[i].kind \in Scopes /\ s[j].kind \in Scopes =>
              s[i].saved_local_count <= s[j].saved_local_count

\* Position p of locals belongs to the i-th call, a scope.
Owns(s, i, p) ==
    /\ s[i].kind \in Scopes
    /\ s[i].saved_local_count < p
    /\ \A j \in (i + 1)..Len(s) : s[j].kind \in Scopes => p <= s[j].saved_local_count

NameInv(s, ls) ==
    /\ \A p \in 1..Len(ls) : ls[p].decl # 0
    /\ \A i \in 1..Len(s), n \in Names :
          /\ s[i].names[n] # 0 =>
                \E p \in 1..Len(ls) : Owns(s, i, p) /\ ls[p].name = n
          /\ \A p \in 1..Len(ls) :
                Owns(s, i, p) /\ ls[p].name = n => ls[p].decl = s[i].names[n]

(***************************************************************************)
(* The code.                                                               *)
(***************************************************************************)

\* The labels that a call has still to emit, with what is known of them.
Coming(prefix, f, n, d) == [to |-> <<prefix, n>>, owner |-> f.id, depth |-> d]

LabelsLeft(f) ==
    IF f.kind \in {"while", "switch"} THEN {"stop", "break"}
    ELSE IF f.kind \in {"do", "for"} THEN {"continue", "stop", "break"}
    ELSE IF f.kind = "if" THEN {"end"} \cup (IF f.opt THEN {"else"} ELSE {})
    ELSE {}

PendingOf(f, slots, d) ==
    {Coming(prefix, f, f.id, d) : prefix \in LabelsLeft(f)}
        \cup {Coming("sec", f, f.id + k, d) : k \in (f.cases + 1)..slots}

Pending(s, ss) ==
    UNION {PendingOf(s[i], Slots(s, ss, i), Depth(s, i)) : i \in 1..Len(s)}

IsLabel(x) == x.op = "label"
IsJump(x) == x.op \in {"jmp", "jcc"}

\* Jump j goes to label x, emitted or coming; only a continue may go to a place
\* of another depth.
Matches(j, x) ==
    /\ j.to = x.to /\ j.owner = x.owner
    /\ j.to[1] # "continue" => j.depth = x.depth

\* The words pushed behind an instruction.
After(x) == IF x.op = "push" THEN x.depth + 1
            ELSE IF x.op = "pop" THEN x.depth - 1 ELSE x.depth

Flow(c, d) ==
    /\ c = <<>> => d = 0
    /\ c # <<>> => c[1].depth = 0 /\ After(c[Len(c)]) = d
    /\ \A p \in 1..(Len(c) - 1) : c[p + 1].depth = After(c[p])

\* The labels to come have numbers already given out, each another.
PendingOK(P, lc) ==
    /\ \A r \in P : /\ r.to[1] # "usr" /\ r.to[2] \in Nat /\ r.to[2] < lc
                   /\ r.to = <<r.to[1], r.to[2]>>
    /\ \A r, q \in P : r.to = q.to => r = q

\* The labels of c: each once, none that is still to come.
LabelsOf(c, P, lc) ==
    /\ \A p, q \in 1..Len(c) :
          IsLabel(c[p]) /\ IsLabel(c[q]) /\ c[p].to = c[q].to => p = q
    /\ \A p \in 1..Len(c) :
          IsLabel(c[p]) =>
              /\ \A r \in P : c[p].to # r.to
              /\ c[p].to[1] = "usr" => c[p].owner = c[p].to[2]
              /\ c[p].to[1] # "usr" => c[p].to[2] \in Nat /\ c[p].to[2] < lc

\* A jump goes to a label of c, to one that is coming, or to a user label.
Resolved(c, j) == \E q \in 1..Len(c) : IsLabel(c[q]) /\ Matches(j, c[q])
JumpOK(c, j, P, U) ==
    \/ Resolved(c, j)
    \/ \E r \in P : Matches(j, r)
    \/ j.to[1] = "usr" /\ j.owner = j.to[2] /\ j.to[2] \in U

JumpsOf(c, P, U) == \A p \in 1..Len(c) : IsJump(c[p]) => JumpOK(c, c[p], P, U)

CodeInv(c, P, lc, d, U) ==
    /\ c \in Seq(Instr)
    /\ PendingOK(P, lc)
    /\ Flow(c, d)
    /\ LabelsOf(c, P, lc)
    /\ JumpsOf(c, P, U)

\* c has the label that the jumps back to the i-th call go to.
HasLabel(c, prefix, f, d) ==
    \E q \in 1..Len(c) : IsLabel(c[q]) /\ c[q].to = <<prefix, f.id>>
                            /\ c[q].owner = f.id /\ c[q].depth = d

StartInv(s, c) ==
    \A i \in 1..Len(s) :
        /\ s[i].kind \in Loops => HasLabel(c, "start", s[i], Depth(s, i))
        /\ s[i].kind = "while" => HasLabel(c, "continue", s[i], Depth(s, i))

\* The last statement of a body without open calls is a return, or is not.
EndInv ==
    pc = "return" /\ ctx = <<>> /\ last_is_return => code # <<>> /\ Last(code).op = "ret"

RunInv ==
    /\ pc \notin {"run", "halt"} => rsp = 0
    /\ pc \in {"run", "halt"} =>
          /\ ctx = <<>>
          /\ code # <<>> /\ Last(code).op = "ret"
          /\ \A l \in ToSet(user_labels) : Emitted(l)
    /\ pc = "run" =>
          /\ ip \in DOMAIN code
          /\ ~CrossesSwitch => rsp = code[ip].depth

\* The tables of the code generator.
Tables(s, bs, ss, lc, start, ls) ==
    /\ s \in Seq(Call) /\ bs \in Seq(BreakEntry) /\ ss \in Seq(SwitchEntry)
    /\ ls \in Seq(Local) /\ lc \in Nat /\ start \in Nat
    /\ NestInv(s, bs, ss) /\ NumberInv(s, ss, lc)
    /\ ScopeInv(s, start, Len(ls)) /\ NameInv(s, ls)

\* The tables and the code, when d words are pushed.
Good(s, bs, ss, lc, start, ls, c, d, U) ==
    /\ Tables(s, bs, ss, lc, start, ls)
    /\ d = Depth(s, Len(s))
    /\ CodeInv(c, Pending(s, ss), lc, d, U)
    /\ StartInv(s, c)

BodyInv == Good(ctx, break_stack, switch_stack, label_count, scope_start, locals, code,
                push_depth, ToSet(user_labels))

IInv == TypeInv /\ BodyInv /\ EndInv /\ RunInv

-----------------------------------------------------------------------------
(***************************************************************************)
(* Least and greatest numbers, and sequences.                              *)
(***************************************************************************)

\* A set of natural numbers has a least one.
LEMMA Least ==
    ASSUME NEW T, T \subseteq Nat, T # {}
    PROVE  \E x \in T : \A y \in T : x <= y
<1>1. PICK x \in T : \A y \in T : ~(<<y, x>> \in OpToRel(<, Nat))
  BY NatLessThanWellFounded, WFMin
<1>2. \A y \in T : ~(y < x)
  BY <1>1 DEF OpToRel
<1>3. \A y \in T : x <= y
  BY <1>2
<1> QED
  BY <1>3

\* Max, of a set of natural numbers with a bound.
LEMMA MaxIsGreatest ==
    ASSUME NEW n \in Nat, NEW S, S \subseteq 0..n, S # {}
    PROVE  Max(S) \in S /\ \A y \in S : y <= Max(S)
<1> DEFINE T == {n - x : x \in S}
<1>1. T \subseteq Nat /\ T # {}
  <2>1. \A x \in S : n - x \in Nat
    OBVIOUS
  <2>2. PICK x : x \in S
    OBVIOUS
  <2>3. n - x \in T
    BY <2>2
  <2> QED
    BY <2>1, <2>3, Zenon
<1> HIDE DEF T
<1>2. PICK z \in T : \A y \in T : z <= y
  BY <1>1, Least
<1>3. PICK x \in S : z = n - x
  BY DEF T
<1>4. \A y \in S : n - x <= n - y
  BY <1>2, <1>3 DEF T
<1>5. \A y \in S : x >= y
  BY <1>4
<1>6. \E m \in S : \A y \in S : m >= y
  BY <1>5
<1>7. Max(S) \in S /\ \A y \in S : Max(S) >= y
  BY <1>6 DEF Max
<1> QED
  BY <1>7

\* The k first elements of a sequence.
LEMMA Prefix ==
    ASSUME NEW S, NEW s \in Seq(S), NEW k \in Nat, k <= Len(s)
    PROVE  /\ SubSeq(s, 1, k) \in Seq(S) /\ Len(SubSeq(s, 1, k)) = k
           /\ \A i \in 1..k : SubSeq(s, 1, k)[i] = s[i]
<1>1. \A i \in 1..k : s[i] \in S
  OBVIOUS
<1>2. /\ SubSeq(s, 1, k) \in Seq(S)
      /\ Len(SubSeq(s, 1, k)) = IF 1 <= k THEN k - 1 + 1 ELSE 0
      /\ \A i \in 1..(k - 1 + 1) : SubSeq(s, 1, k)[i] = s[1 + i - 1]
  BY <1>1, SubSeqProperties
<1>3. (IF 1 <= k THEN k - 1 + 1 ELSE 0) = k /\ k - 1 + 1 = k
  OBVIOUS
<1>4. \A i \in 1..k : SubSeq(s, 1, k)[i] = s[i]
  BY <1>2
<1> QED
  BY <1>2, <1>3, <1>4, Zenon

\* One element is replaced.
LEMMA Replaced ==
    ASSUME NEW S, NEW s \in Seq(S), NEW m \in 1..Len(s), NEW g \in S
    PROVE  /\ [s EXCEPT ![m] = g] \in Seq(S) /\ Len([s EXCEPT ![m] = g]) = Len(s)
           /\ [s EXCEPT ![m] = g][m] = g
           /\ \A i \in 1..Len(s) : i # m => [s EXCEPT ![m] = g][i] = s[i]
  BY ExceptSeq

LEMMA Pushed ==
    ASSUME NEW S, NEW s \in Seq(S), NEW x \in S
    PROVE  /\ Append(s, x) \in Seq(S) /\ Append(s, x) # <<>>
           /\ Len(s) \in Nat /\ Len(Append(s, x)) = Len(s) + 1
           /\ Append(s, x)[Len(s) + 1] = x
           /\ \A i \in 1..Len(s) : Append(s, x)[i] = s[i]
  BY AppendProperties

\* A sequence that is not empty is its front with its last element appended.
LEMMA Popped ==
    ASSUME NEW S, NEW s \in Seq(S), s # <<>>
    PROVE  /\ Front(s) \in Seq(S) /\ Last(s) \in S
           /\ Len(s) \in Nat /\ Len(s) > 0 /\ Len(Front(s)) = Len(s) - 1
           /\ \A i \in 1..(Len(s) - 1) : Front(s)[i] = s[i]
           /\ Last(s) = s[Len(s)]
           /\ s = Append(Front(s), Last(s))
<1>1. PICK n \in Nat : Len(s) = n + 1
  <2>1. Len(s) \in Nat /\ Len(s) # 0
    BY EmptySeq
  <2>2. Len(s) - 1 \in Nat /\ Len(s) = (Len(s) - 1) + 1
    BY <2>1
  <2> QED
    BY <2>2
<1>2. n = Len(s) - 1 /\ n <= Len(s) /\ n + 1 \in 1..Len(s)
  BY <1>1
<1>3. PICK d \in Seq(S) : d = SubSeq(s, 1, n) /\ Len(d) = n /\ \A i \in 1..n : d[i] = s[i]
  <2>1. /\ SubSeq(s, 1, n) \in Seq(S) /\ Len(SubSeq(s, 1, n)) = n
        /\ \A i \in 1..n : SubSeq(s, 1, n)[i] = s[i]
    BY <1>2, Prefix, Zenon
  <2> QED
    BY <2>1, Zenon
<1>4. PICK l \in S : l = s[n + 1]
  BY <1>2
<1>5. /\ Append(d, l) \in Seq(S) /\ Len(Append(d, l)) = n + 1
      /\ Append(d, l)[n + 1] = l
      /\ \A i \in 1..n : Append(d, l)[i] = d[i]
  BY <1>3, Pushed
<1>6. \A i \in 1..(n + 1) : s[i] = Append(d, l)[i]
  <2> TAKE i \in 1..(n + 1)
  <2>1. CASE i = n + 1
    BY <1>4, <1>5, <2>1
  <2>2. CASE i \in 1..n
    BY <1>3, <1>5, <2>2
  <2>3. i = n + 1 \/ i \in 1..n
    OBVIOUS
  <2> QED
    BY <2>1, <2>2, <2>3
<1>7. s = Append(d, l)
  BY <1>1, <1>5, <1>6, SeqEqual
<1>8. Front(s) = d /\ Last(s) = l
  BY <1>1, <1>2, <1>3, <1>4, Zenon DEF Front, Last
<1>9. Len(s) \in Nat /\ Len(s) > 0
  BY <1>1
<1> QED
  BY <1>1, <1>2, <1>3, <1>4, <1>7, <1>8, <1>9, Zenon

-----------------------------------------------------------------------------
(***************************************************************************)
(* Counting the open calls.                                                *)
(***************************************************************************)

\* What a call of this kind adds to the count.
One(kind, kinds) == IF kind \in kinds THEN 1 ELSE 0

LEMMA CountIsNat ==
    ASSUME NEW s, NEW k \in Nat, NEW kinds
    PROVE  /\ IsFiniteSet(Indices(s, k, kinds))
           /\ Count(s, k, kinds) \in Nat
           /\ Count(s, 0, kinds) = 0
<1>1. IsFiniteSet(1..k)
  BY FS_Interval
<1>2. Indices(s, k, kinds) \in SUBSET (1..k)
  BY DEF Indices
<1>3. IsFiniteSet(Indices(s, k, kinds))
  BY <1>1, <1>2, FS_Subset
<1>4. Indices(s, 0, kinds) = {}
  BY DEF Indices
<1> QED
  BY <1>3, <1>4, FS_CardinalityType, FS_EmptySet DEF Count

LEMMA CountNext ==
    ASSUME NEW s, NEW k \in Nat, NEW kinds
    PROVE  Count(s, k + 1, kinds) =
               Count(s, k, kinds) + One(s[k + 1].kind, kinds)
<1>1. /\ IsFiniteSet(Indices(s, k, kinds))
      /\ Count(s, k, kinds) \in Nat
  BY CountIsNat
<1>2. CASE s[k + 1].kind \in kinds
  <2>1. Indices(s, k + 1, kinds) = Indices(s, k, kinds) \cup {k + 1}
    BY <1>2 DEF Indices
  <2>2. k + 1 \notin Indices(s, k, kinds)
    BY DEF Indices
  <2> QED
    BY <1>1, <1>2, <2>1, <2>2, FS_AddElement DEF Count, One
<1>3. CASE s[k + 1].kind \notin kinds
  <2>1. Indices(s, k + 1, kinds) = Indices(s, k, kinds)
    BY <1>3 DEF Indices
  <2> QED
    BY <1>1, <1>3, <2>1 DEF Count, One
<1> QED
  BY <1>2, <1>3

\* The count depends on the kinds of the calls only.
LEMMA CountSame ==
    ASSUME NEW s, NEW t, NEW k \in Nat, NEW kinds,
           \A i \in 1..k : s[i].kind = t[i].kind
    PROVE  Count(s, k, kinds) = Count(t, k, kinds)
<1>1. Indices(s, k, kinds) = Indices(t, k, kinds)
  BY DEF Indices
<1> QED
  BY <1>1 DEF Count

\* Of more calls, no fewer are counted.
LEMMA CountMonotone ==
    ASSUME NEW s, NEW j \in Nat, NEW k \in Nat, j <= k, NEW kinds
    PROVE  Count(s, j, kinds) <= Count(s, k, kinds)
<1>1. Indices(s, j, kinds) \in SUBSET Indices(s, k, kinds)
  BY DEF Indices
<1> QED
  BY <1>1, CountIsNat, FS_Subset DEF Count

\* Calls after the m-th that are not counted leave the count of the m first.
LEMMA CountUpTo ==
    ASSUME NEW s, NEW m \in Nat, NEW k \in Nat, m <= k, NEW kinds,
           \A j \in (m + 1)..k : s[j].kind \notin kinds
    PROVE  Count(s, k, kinds) = Count(s, m, kinds)
<1>1. Indices(s, k, kinds) = Indices(s, m, kinds)
  BY DEF Indices
<1> QED
  BY <1>1 DEF Count

\* The place of a counted call lies between 1 and the count.
LEMMA CountBetween ==
    ASSUME NEW s, NEW n \in Nat, NEW i \in 1..n, NEW kinds, s[i].kind \in kinds
    PROVE  /\ Count(s, i, kinds) \in 1..Count(s, n, kinds)
           /\ Count(s, i, kinds) = Count(s, i - 1, kinds) + 1
           /\ Count(s, i - 1, kinds) \in Nat
<1>1. PICK k \in Nat : i = k + 1
  BY Z3
<1>2. Count(s, k + 1, kinds) = Count(s, k, kinds) + 1
  BY <1>1, CountNext DEF One
<1>3. Count(s, k, kinds) \in Nat /\ Count(s, n, kinds) \in Nat
  BY CountIsNat
<1>4. Count(s, k + 1, kinds) <= Count(s, n, kinds)
  BY <1>1, CountMonotone
<1>5. i - 1 = k
  BY <1>1
<1> QED
  BY <1>1, <1>2, <1>3, <1>4, <1>5

\* Counting after a call was opened.
LEMMA CountPushed ==
    ASSUME NEW s \in Seq(Call), NEW f \in Call, NEW kinds
    PROVE  /\ Count(Append(s, f), Len(s) + 1, kinds) =
                  Count(s, Len(s), kinds) + One(f.kind, kinds)
           /\ \A i \in 0..Len(s) : Count(Append(s, f), i, kinds) = Count(s, i, kinds)
<1> DEFINE t == Append(s, f)
<1>1. /\ Len(s) \in Nat /\ Len(t) = Len(s) + 1 /\ t[Len(s) + 1] = f
      /\ \A i \in 1..Len(s) : t[i] = s[i]
  BY Pushed
<1> HIDE DEF t
<1>2. \A i \in 0..Len(s) : Count(t, i, kinds) = Count(s, i, kinds)
  BY <1>1, CountSame
<1>3. Count(t, Len(s) + 1, kinds) =
          Count(t, Len(s), kinds) + One(f.kind, kinds)
  BY <1>1, CountNext
<1>4. Len(s) \in 0..Len(s)
  BY <1>1
<1> QED
  BY <1>2, <1>3, <1>4, Zenon DEF t

\* The i-th of a set of positions is one of them.
LEMMA NthIsMember ==
    ASSUME NEW n \in Nat, NEW S, S \subseteq 1..n, NEW i \in 1..Cardinality(S)
    PROVE  Nth(S, i) \in S
<1> DEFINE Upto(x) == {y \in S : y <= x}
           T == {x \in 0..n : Cardinality(Upto(x)) >= i}
<1>1. IsFiniteSet(S) /\ Cardinality(S) \in Nat
  <2>1. IsFiniteSet(1..n)
    BY FS_Interval
  <2> QED
    BY <2>1, FS_Subset, FS_CardinalityType
<1>2. \A x : IsFiniteSet(Upto(x)) /\ Cardinality(Upto(x)) \in Nat
  <2> TAKE x
  <2>1. Upto(x) \in SUBSET S
    OBVIOUS
  <2> QED
    BY <1>1, <2>1, FS_Subset, FS_CardinalityType, Zenon
<1>3. Upto(n) = S /\ Upto(0) = {}
  <2>1. \A y \in S : y <= n /\ ~(y <= 0)
    OBVIOUS
  <2> QED
    BY <2>1, Zenon
<1>4. n \in T /\ T \subseteq Nat
  BY <1>1, <1>3
<1>5. PICK x \in T : \A y \in T : x <= y
  BY <1>4, Least, Zenon
<1>6. x # 0
  <2>1. Cardinality(Upto(0)) = 0
    BY <1>3, FS_EmptySet, Zenon
  <2>2. 0 \notin T
    BY <1>1, <2>1
  <2> QED
    BY <2>2
<1>7. PICK z \in 0..n : x = z + 1
  BY <1>6
<1>8. z \notin T
  BY <1>5, <1>7
<1>9. Cardinality(Upto(z)) < i /\ Cardinality(Upto(x)) >= i
  BY <1>1, <1>2, <1>8
<1> \A y \in S : (y <= x <=> y <= z \/ y = x) /\ (y = x => ~(y <= z))
  BY <1>7
<1>10. x \in S
  <2>1. x \notin S => Upto(x) = Upto(z)
    BY Zenon
  <2> QED
    BY <1>1, <1>2, <1>9, <2>1
<1>11. Upto(x) = Upto(z) \cup {x} /\ x \notin Upto(z)
  BY <1>10, Zenon
<1>12. Cardinality(Upto(x)) = Cardinality(Upto(z)) + 1
  BY <1>2, <1>11, FS_AddElement
<1>13. Cardinality(Upto(x)) = i
  BY <1>1, <1>2, <1>9, <1>12
<1> QED
  BY <1>10, <1>13, Zenon DEF Nth

-----------------------------------------------------------------------------
(***************************************************************************)
(* The stacks when a call is opened and when it returns.                   *)
(***************************************************************************)
PushBreak(bs, f) == IF f.kind \in Breakable THEN Append(bs, BreakFrame(f)) ELSE bs
PushSwitch(ss, f, e) == IF f.kind = "switch" THEN Append(ss, e) ELSE ss
PopBreakOf(bs, f) == IF f.kind \in Breakable THEN Front(bs) ELSE bs
PopSwitchOf(ss, f) == IF f.kind = "switch" THEN Front(ss) ELSE ss

SlotsIn(f, e) == IF f.kind = "switch" THEN Len(e.entries) ELSE 0

EntryOK(f, e) ==
    f.kind = "switch" =>
        /\ f.cases <= Len(e.entries)
        /\ \A k \in 1..Len(e.entries) : e.entries[k].label = f.id + k

LEMMA CallType ==
    ASSUME NEW s \in Seq(Call), NEW i \in 1..Len(s)
    PROVE  /\ s[i] \in Call /\ s[i].id \in Nat /\ s[i].cases \in Nat /\ s[i].kind \in Kinds
           /\ s[i].saved_local_count \in Nat /\ s[i].saved_scope_start \in Nat
           /\ s[i].opt \in BOOLEAN
<1>1. s[i] \in Call
  OBVIOUS
<1> QED
  BY <1>1 DEF Call

LEMMA BreakFrameType ==
    ASSUME NEW f \in Call
    PROVE  BreakFrame(f) \in BreakEntry
  BY DEF Call, BreakFrame, BreakEntry

\* The entries of the outer switches are where they were.
LEMMA PushSlots ==
    ASSUME NEW s \in Seq(Call), NEW f \in Call, NEW ss \in Seq(SwitchEntry),
           NEW e \in SwitchEntry, Len(ss) = Depth(s, Len(s))
    PROVE  LET t == Append(s, f)
               ss2 == PushSwitch(ss, f, e)
           IN /\ \A i \in 1..Len(s) : s[i].kind = "switch" =>
                    Entries(t, ss2, i) = Entries(s, ss, i)
              /\ f.kind = "switch" => Entries(t, ss2, Len(s) + 1) = e.entries
              /\ \A i \in 1..Len(s) : Slots(t, ss2, i) = Slots(s, ss, i)
              /\ Slots(t, ss2, Len(s) + 1) = SlotsIn(f, e)
              /\ Len(ss2) = Depth(t, Len(t))
<1> DEFINE t == Append(s, f)
           ss2 == PushSwitch(ss, f, e)
           n == Len(s)
<1>1. /\ n \in Nat /\ Len(t) = n + 1 /\ t[n + 1] = f
      /\ \A i \in 1..n : t[i] = s[i]
  BY Pushed
<1>2. /\ Depth(t, n + 1) = Depth(s, n) + One(f.kind, {"switch"})
      /\ \A i \in 1..n : Depth(t, i) = Depth(s, i)
  BY <1>1, CountPushed DEF Depth
<1>3. Depth(s, n) \in Nat
  BY <1>1, CountIsNat DEF Depth
<1>4. \A i \in 1..Len(ss) : ss2[i] = ss[i]
  BY Pushed DEF PushSwitch
<1>5. f.kind = "switch" => Len(ss2) = Len(ss) + 1 /\ ss2[Len(ss) + 1] = e
  BY Pushed DEF PushSwitch
<1>6. f.kind # "switch" => ss2 = ss
  BY DEF PushSwitch
<1> HIDE DEF t, ss2, n
<1>7. ASSUME NEW i \in 1..n, s[i].kind = "switch"
      PROVE  Entries(t, ss2, i) = Entries(s, ss, i)
  <2>1. Depth(s, i) \in 1..Len(ss)
    BY <1>1, <1>7, CountBetween DEF Depth, n
  <2> QED
    BY <1>2, <1>4, <2>1 DEF Entries
<1>8. f.kind = "switch" => Entries(t, ss2, n + 1) = e.entries
  BY <1>2, <1>3, <1>5 DEF Entries, One, n
<1>9. \A i \in 1..n : Slots(t, ss2, i) = Slots(s, ss, i)
  BY <1>1, <1>7 DEF Slots
<1>10. Slots(t, ss2, n + 1) = SlotsIn(f, e)
  BY <1>1, <1>8 DEF Slots, SlotsIn
<1>11. Len(ss2) = Depth(t, Len(t))
  BY <1>1, <1>2, <1>3, <1>5, <1>6 DEF One, n
<1> QED
  BY <1>7, <1>8, <1>9, <1>10, <1>11, Zenon DEF t, ss2, n

LEMMA PushNest ==
    ASSUME NEW s \in Seq(Call), NEW f \in Call, NEW bs \in Seq(BreakEntry),
           NEW ss \in Seq(SwitchEntry), NEW e \in SwitchEntry,
           NestInv(s, bs, ss), EntryOK(f, e)
    PROVE  NestInv(Append(s, f), PushBreak(bs, f), PushSwitch(ss, f, e))
<1> DEFINE t == Append(s, f)
           bs2 == PushBreak(bs, f)
           ss2 == PushSwitch(ss, f, e)
           n == Len(s)
<1>1. /\ n \in Nat /\ Len(t) = n + 1 /\ t[n + 1] = f
      /\ \A i \in 1..n : t[i] = s[i]
  BY Pushed
<1>2. /\ Count(t, n + 1, Breakable) = Count(s, n, Breakable) + One(f.kind, Breakable)
      /\ \A i \in 1..n : Count(t, i, Breakable) = Count(s, i, Breakable)
      /\ Count(s, n, Breakable) \in Nat
  <2>1. /\ Count(t, n + 1, Breakable) = Count(s, n, Breakable) + One(f.kind, Breakable)
        /\ \A i \in 0..n : Count(t, i, Breakable) = Count(s, i, Breakable)
    BY CountPushed
  <2>2. Count(s, n, Breakable) \in Nat
    BY <1>1, CountIsNat
  <2> QED
    BY <1>1, <2>1, <2>2
<1>3. \A i \in 1..Len(bs) : bs2[i] = bs[i]
  BY Pushed, BreakFrameType DEF PushBreak
<1>4. f.kind \in Breakable => Len(bs2) = Len(bs) + 1 /\ bs2[Len(bs) + 1] = BreakFrame(f)
  BY Pushed, BreakFrameType DEF PushBreak
<1>5. f.kind \notin Breakable => bs2 = bs
  BY DEF PushBreak
<1>6. Len(bs) = Count(s, n, Breakable)
  BY DEF NestInv
<1>7. /\ \A i \in 1..n : s[i].kind = "switch" => Entries(t, ss2, i) = Entries(s, ss, i)
      /\ f.kind = "switch" => Entries(t, ss2, n + 1) = e.entries
      /\ Len(ss2) = Depth(t, Len(t))
  BY PushSlots DEF NestInv
<1> HIDE DEF t, bs2, ss2, n, Breakable
<1>8. Len(bs2) = Count(t, Len(t), Breakable)
  BY <1>1, <1>2, <1>4, <1>5, <1>6 DEF One
<1>9. ASSUME NEW i \in 1..(n + 1), t[i].kind \in Breakable
      PROVE  bs2[Count(t, i, Breakable)] = BreakFrame(t[i])
  <2>1. CASE i = n + 1
    BY <1>1, <1>2, <1>4, <1>6, <1>9, <2>1 DEF One
  <2>2. CASE i \in 1..n
    <3>1. bs[Count(s, i, Breakable)] = BreakFrame(s[i]) /\ t[i] = s[i]
      BY <1>1, <1>9, <2>2 DEF NestInv, n
    <3>2. Count(s, i, Breakable) \in 1..Len(bs)
      BY <1>1, <1>6, <1>9, <2>2, <3>1, CountBetween
    <3> QED
      BY <1>2, <1>3, <2>2, <3>1, <3>2
  <2>3. i = n + 1 \/ i \in 1..n
    BY <1>1
  <2> QED
    BY <2>1, <2>2, <2>3
<1>10. ASSUME NEW i \in 1..(n + 1), t[i].kind = "switch"
       PROVE  /\ t[i].cases <= Len(Entries(t, ss2, i))
              /\ \A k \in 1..Len(Entries(t, ss2, i)) :
                    Entries(t, ss2, i)[k].label = t[i].id + k
  <2>1. CASE i = n + 1
    BY <1>1, <1>7, <1>10, <2>1 DEF EntryOK
  <2>2. CASE i \in 1..n
    BY <1>1, <1>7, <1>10, <2>2 DEF NestInv, n
  <2>3. i = n + 1 \/ i \in 1..n
    BY <1>1
  <2> QED
    BY <2>1, <2>2, <2>3
<1>11. NestInv(t, bs2, ss2)
  BY <1>1, <1>7, <1>8, <1>9, <1>10, Zenon DEF NestInv
<1> QED
  BY <1>11, Zenon DEF t, bs2, ss2

\* The entry that the innermost call pushed.
TopEntry(ss, f) == IF f.kind = "switch" THEN Last(ss)
                   ELSE [entries |-> <<>>, default_label |-> 0]

LEMMA PopNest ==
    ASSUME NEW s \in Seq(Call), NEW f \in Call, NEW bs \in Seq(BreakEntry),
           NEW ss \in Seq(SwitchEntry), NestInv(Append(s, f), bs, ss)
    PROVE  /\ NestInv(s, PopBreakOf(bs, f), PopSwitchOf(ss, f))
           /\ PopBreakOf(bs, f) \in Seq(BreakEntry)
           /\ PopSwitchOf(ss, f) \in Seq(SwitchEntry)
           /\ f.kind = "switch" => Last(ss) \in SwitchEntry /\ ss # <<>>
           /\ f.kind \in Breakable => bs # <<>>
           /\ TopEntry(ss, f) \in SwitchEntry /\ EntryOK(f, TopEntry(ss, f))
           /\ ss = PushSwitch(PopSwitchOf(ss, f), f, TopEntry(ss, f))
<1> DEFINE t == Append(s, f)
           bs1 == PopBreakOf(bs, f)
           ss1 == PopSwitchOf(ss, f)
           n == Len(s)
<1>1. /\ n \in Nat /\ Len(t) = n + 1 /\ t[n + 1] = f
      /\ \A i \in 1..n : t[i] = s[i]
  BY Pushed
<1>2. /\ Count(t, n + 1, Breakable) = Count(s, n, Breakable) + One(f.kind, Breakable)
      /\ \A i \in 0..n : Count(t, i, Breakable) = Count(s, i, Breakable)
  BY CountPushed
<1>3. Count(s, n, Breakable) \in Nat /\ Depth(s, n) \in Nat
  BY <1>1, CountIsNat DEF Depth
<1>4. /\ Depth(t, n + 1) = Depth(s, n) + One(f.kind, {"switch"})
      /\ \A i \in 0..n : Depth(t, i) = Depth(s, i)
  BY CountPushed DEF Depth
<1>5. Len(bs) = Count(t, n + 1, Breakable) /\ Len(ss) = Depth(t, n + 1)
  BY <1>1 DEF NestInv
<1> HIDE DEF n
<1>6. f.kind \in Breakable => bs # <<>>
  BY <1>2, <1>3, <1>5, EmptySeq DEF One
<1>7. f.kind = "switch" => ss # <<>>
  BY <1>3, <1>4, <1>5, EmptySeq DEF One
<1>8. /\ bs1 \in Seq(BreakEntry) /\ Len(bs1) = Count(s, n, Breakable)
      /\ \A i \in 1..Len(bs1) : bs1[i] = bs[i]
  <2>1. CASE f.kind \in Breakable
    <3>1. bs1 = Front(bs)
      BY <2>1 DEF PopBreakOf
    <3>2. /\ Front(bs) \in Seq(BreakEntry) /\ Len(Front(bs)) = Len(bs) - 1
          /\ \A i \in 1..(Len(bs) - 1) : Front(bs)[i] = bs[i]
      BY <1>6, <2>1, Popped, Zenon
    <3>3. Len(bs) - 1 = Count(s, n, Breakable)
      BY <1>2, <1>3, <1>5, <2>1 DEF One
    <3> QED
      BY <3>1, <3>2, <3>3, Zenon
  <2>2. CASE f.kind \notin Breakable
    BY <1>2, <1>3, <1>5, <2>2 DEF PopBreakOf, One
  <2> QED
    BY <2>1, <2>2
<1>9. /\ ss1 \in Seq(SwitchEntry) /\ Len(ss1) = Depth(s, n)
      /\ f.kind = "switch" => ss = Append(ss1, Last(ss)) /\ Last(ss) \in SwitchEntry
      /\ \A i \in 1..Len(ss1) : ss1[i] = ss[i]
  <2>1. CASE f.kind = "switch"
    <3>1. ss1 = Front(ss)
      BY <2>1 DEF PopSwitchOf
    <3>2. /\ Front(ss) \in Seq(SwitchEntry) /\ Len(Front(ss)) = Len(ss) - 1
          /\ Last(ss) \in SwitchEntry /\ ss = Append(Front(ss), Last(ss))
          /\ \A i \in 1..(Len(ss) - 1) : Front(ss)[i] = ss[i]
      BY <1>7, <2>1, Popped, Zenon
    <3>3. Len(ss) - 1 = Depth(s, n)
      BY <1>3, <1>4, <1>5, <2>1 DEF One
    <3> QED
      BY <3>1, <3>2, <3>3, Zenon
  <2>2. CASE f.kind # "switch"
    BY <1>3, <1>4, <1>5, <2>2 DEF PopSwitchOf, One
  <2> QED
    BY <2>1, <2>2
<1> DEFINE e == TopEntry(ss, f)
<1>10. e \in SwitchEntry /\ ss = PushSwitch(ss1, f, e)
  <2>1. CASE f.kind = "switch"
    BY <1>9, <2>1 DEF PushSwitch, TopEntry
  <2>2. CASE f.kind # "switch"
    <3>1. [entries |-> <<>>, default_label |-> 0] \in SwitchEntry
      BY DEF SwitchEntry
    <3> QED
      BY <2>2, <3>1 DEF PushSwitch, PopSwitchOf, TopEntry
  <2> QED
    BY <2>1, <2>2
<1> HIDE DEF e
<1>11. /\ \A i \in 1..n : s[i].kind = "switch" => Entries(t, ss, i) = Entries(s, ss1, i)
       /\ f.kind = "switch" => Entries(t, ss, n + 1) = e.entries
  BY <1>9, <1>10, PushSlots DEF n
<1>16. NestInv(t, bs, ss)
  OBVIOUS
<1> HIDE DEF t, bs1, ss1, Breakable
<1>12. EntryOK(f, e)
  <2>1. n + 1 \in 1..Len(t)
    BY <1>1
  <2> QED
    BY <1>1, <1>11, <1>16, <2>1 DEF EntryOK, NestInv
<1>13. ASSUME NEW i \in 1..n, s[i].kind \in Breakable
       PROVE  bs1[Count(s, i, Breakable)] = BreakFrame(s[i])
  <2>1. i \in 1..Len(t) /\ i \in 0..n /\ t[i] = s[i]
    BY <1>1
  <2>2. bs[Count(s, i, Breakable)] = BreakFrame(s[i])
    BY <1>2, <1>13, <1>16, <2>1 DEF NestInv
  <2>3. Count(s, i, Breakable) \in 1..Len(bs1)
    BY <1>1, <1>8, <1>13, CountBetween
  <2> QED
    BY <1>8, <2>2, <2>3
<1>14. ASSUME NEW i \in 1..n, s[i].kind = "switch"
       PROVE  /\ s[i].cases <= Len(Entries(s, ss1, i))
              /\ \A k \in 1..Len(Entries(s, ss1, i)) :
                    Entries(s, ss1, i)[k].label = s[i].id + k
  <2>1. i \in 1..Len(t) /\ t[i] = s[i]
    BY <1>1
  <2> QED
    BY <1>11, <1>14, <1>16, <2>1 DEF NestInv
<1>15. NestInv(s, bs1, ss1)
  BY <1>8, <1>9, <1>13, <1>14, Zenon DEF NestInv, n
<1> QED
  BY <1>6, <1>7, <1>8, <1>9, <1>10, <1>12, <1>15, Zenon DEF bs1, ss1, e

\* The labels still to come, when a call is opened.
LEMMA PushPending ==
    ASSUME NEW s \in Seq(Call), NEW f \in Call, NEW ss \in Seq(SwitchEntry),
           NEW e \in SwitchEntry, Len(ss) = Depth(s, Len(s))
    PROVE  Pending(Append(s, f), PushSwitch(ss, f, e)) =
             Pending(s, ss) \cup PendingOf(f, SlotsIn(f, e), Depth(Append(s, f), Len(s) + 1))
<1> DEFINE t == Append(s, f)
           ss2 == PushSwitch(ss, f, e)
           n == Len(s)
           Of(i) == PendingOf(t[i], Slots(t, ss2, i), Depth(t, i))
<1>1. /\ n \in Nat /\ Len(t) = n + 1 /\ t[n + 1] = f
      /\ \A i \in 1..n : t[i] = s[i]
  BY Pushed
<1>2. \A i \in 1..n : Depth(t, i) = Depth(s, i)
  BY <1>1, CountPushed DEF Depth
<1>3. /\ \A i \in 1..n : Slots(t, ss2, i) = Slots(s, ss, i)
      /\ Slots(t, ss2, n + 1) = SlotsIn(f, e)
  BY PushSlots
<1> HIDE DEF t, ss2, n
<1>4. \A i \in 1..n : Of(i) = PendingOf(s[i], Slots(s, ss, i), Depth(s, i))
  BY <1>1, <1>2, <1>3, Zenon
<1>5. Of(n + 1) = PendingOf(f, SlotsIn(f, e), Depth(t, n + 1))
  BY <1>1, <1>3, Zenon
<1>6. Pending(t, ss2) = UNION {Of(i) : i \in 1..(n + 1)}
  BY <1>1, Zenon DEF Pending
<1>7. Pending(s, ss) = UNION {Of(i) : i \in 1..n}
  BY <1>4, Zenon DEF Pending, n
<1>8. \A i : i \in 1..(n + 1) <=> i \in 1..n \/ i = n + 1
  BY <1>1
<1> HIDE DEF Of
<1>9. Pending(t, ss2) = Pending(s, ss) \cup Of(n + 1)
  BY <1>6, <1>7, <1>8, Zenon
<1> QED
  BY <1>5, <1>9, Zenon DEF t, ss2, n

LEMMA SlotsNat ==
    ASSUME NEW s \in Seq(Call), NEW ss \in Seq(SwitchEntry),
           Len(ss) = Depth(s, Len(s)), NEW i \in 1..Len(s)
    PROVE  Slots(s, ss, i) \in Nat
<1>1. CASE s[i].kind = "switch"
  <2>1. Depth(s, i) \in 1..Len(ss)
    BY <1>1, CountBetween DEF Depth
  <2>2. ss[Depth(s, i)] \in SwitchEntry
    BY <2>1
  <2>3. Entries(s, ss, i) \in Seq([kind : {"case", "default"}, label : Nat])
    BY <2>2 DEF Entries, SwitchEntry
  <2> QED
    BY <1>1, <2>3 DEF Slots
<1>2. CASE s[i].kind # "switch"
  BY <1>2 DEF Slots
<1> QED
  BY <1>1, <1>2

LEMMA PushNumber ==
    ASSUME NEW s \in Seq(Call), NEW f \in Call, NEW ss \in Seq(SwitchEntry),
           NEW e \in SwitchEntry, Len(ss) = Depth(s, Len(s)),
           NEW lc \in Nat, NEW lc2 \in Nat, lc <= lc2, NumberInv(s, ss, lc),
           f.kind \in Numbered => f.id >= lc /\ f.id + SlotsIn(f, e) < lc2
    PROVE  NumberInv(Append(s, f), PushSwitch(ss, f, e), lc2)
<1> DEFINE t == Append(s, f)
           ss2 == PushSwitch(ss, f, e)
           n == Len(s)
<1>1. /\ n \in Nat /\ Len(t) = n + 1 /\ t[n + 1] = f
      /\ \A i \in 1..n : t[i] = s[i] /\ s[i] \in Call
  BY Pushed
<1>2. /\ \A i \in 1..n : Slots(t, ss2, i) = Slots(s, ss, i)
      /\ Slots(t, ss2, n + 1) = SlotsIn(f, e)
  BY PushSlots
<1>3. \A i \in 1..n : Slots(s, ss, i) \in Nat
  BY SlotsNat
<1>4. \A i \in 1..n : s[i].id \in Nat
  BY <1>1 DEF Call
<1>5. f.id \in Nat
  BY DEF Call
<1> HIDE DEF t, ss2, n, Numbered
<1>6. ASSUME NEW i \in 1..(n + 1), t[i].kind \in Numbered
      PROVE  t[i].id + Slots(t, ss2, i) < lc2
  <2>1. CASE i = n + 1
    BY <1>1, <1>2, <1>6, <2>1
  <2>2. CASE i \in 1..n
    <3>1. s[i].id + Slots(s, ss, i) < lc
      BY <1>1, <1>6, <2>2 DEF NumberInv, n
    <3> QED
      BY <1>1, <1>2, <1>3, <1>4, <2>2, <3>1
  <2>3. i = n + 1 \/ i \in 1..n
    BY <1>1
  <2> QED
    BY <2>1, <2>2, <2>3
<1>7. ASSUME NEW i \in 1..(n + 1), NEW j \in 1..(n + 1), i < j,
             t[i].kind \in Numbered, t[j].kind \in Numbered
      PROVE  t[i].id + Slots(t, ss2, i) < t[j].id
  <2>0. i \in 1..n
    BY <1>1, <1>7
  <2>1. CASE j = n + 1
    <3>1. s[i].id + Slots(s, ss, i) < lc
      BY <1>1, <1>7, <2>0 DEF NumberInv, n
    <3>2. f.id >= lc
      BY <1>1, <1>7, <2>1
    <3> QED
      BY <1>1, <1>2, <1>3, <1>4, <1>5, <2>0, <2>1, <3>1, <3>2
  <2>2. CASE j \in 1..n
    BY <1>1, <1>2, <1>7, <2>0, <2>2 DEF NumberInv, n
  <2>3. j = n + 1 \/ j \in 1..n
    BY <1>1
  <2> QED
    BY <2>1, <2>2, <2>3
<1>8. NumberInv(t, ss2, lc2)
  BY <1>1, <1>6, <1>7, Zenon DEF NumberInv
<1> QED
  BY <1>8, Zenon DEF t, ss2

LEMMA PopNumber ==
    ASSUME NEW s \in Seq(Call), NEW f \in Call, NEW ss \in Seq(SwitchEntry),
           NEW e \in SwitchEntry, Len(ss) = Depth(s, Len(s)), NEW lc \in Nat,
           NumberInv(Append(s, f), PushSwitch(ss, f, e), lc)
    PROVE  /\ NumberInv(s, ss, lc)
           /\ f.kind \in Numbered =>
                 /\ f.id + SlotsIn(f, e) < lc
                 /\ \A i \in 1..Len(s) : s[i].kind \in Numbered =>
                       s[i].id + Slots(s, ss, i) < f.id
<1> DEFINE t == Append(s, f)
           ss2 == PushSwitch(ss, f, e)
           n == Len(s)
<1>1. /\ n \in Nat /\ Len(t) = n + 1 /\ t[n + 1] = f
      /\ \A i \in 1..n : t[i] = s[i] /\ s[i] \in Call
  BY Pushed
<1>2. /\ \A i \in 1..n : Slots(t, ss2, i) = Slots(s, ss, i)
      /\ Slots(t, ss2, n + 1) = SlotsIn(f, e)
  BY PushSlots
<1>3. NumberInv(t, ss2, lc)
  OBVIOUS
<1> HIDE DEF t, ss2, n, Numbered
<1>4. \A i \in 1..n : i \in 1..Len(t) /\ i < n + 1 /\ n + 1 \in 1..Len(t)
  BY <1>1
<1>5. n + 1 \in 1..Len(t)
  BY <1>1
<1>6. NumberInv(s, ss, lc)
  BY <1>1, <1>2, <1>3, <1>4 DEF NumberInv, n
<1>7. f.kind \in Numbered =>
         /\ f.id + SlotsIn(f, e) < lc
         /\ \A i \in 1..n : s[i].kind \in Numbered => s[i].id + Slots(s, ss, i) < f.id
  BY <1>1, <1>2, <1>3, <1>4, <1>5 DEF NumberInv
<1> QED
  BY <1>6, <1>7 DEF n

-----------------------------------------------------------------------------
(***************************************************************************)
(* The scopes when a call is opened and when it returns.                   *)
(***************************************************************************)
LEMMA StartsSame ==
    ASSUME NEW s, NEW t, NEW k \in Nat, NEW x, StartsAt(s, k, x),
           \A i \in 1..k : /\ s[i].kind = t[i].kind
                           /\ s[i].saved_local_count = t[i].saved_local_count
    PROVE  StartsAt(t, k, x)
<1>1. CASE x = 0 /\ \A i \in 1..k : s[i].kind \notin Scopes
  BY <1>1 DEF StartsAt
<1>2. ASSUME NEW m \in 1..k,
             s[m].kind \in Scopes, x = s[m].saved_local_count,
             \A i \in (m + 1)..k : s[i].kind \notin Scopes
      PROVE  StartsAt(t, k, x)
  BY <1>2 DEF StartsAt
<1> QED
  BY <1>1, <1>2 DEF StartsAt

LEMMA PushScope ==
    ASSUME NEW s \in Seq(Call), NEW f \in Call, NEW start \in Nat, NEW len \in Nat,
           ScopeInv(s, start, len),
           f.saved_scope_start = start, f.saved_local_count = len
    PROVE  ScopeInv(Append(s, f), IF f.kind \in Scopes THEN len ELSE start, len)
<1> DEFINE t == Append(s, f)
           n == Len(s)
           start2 == IF f.kind \in Scopes THEN len ELSE start
<1>1. /\ n \in Nat /\ Len(t) = n + 1 /\ t[n + 1] = f
      /\ \A i \in 1..n : t[i] = s[i] /\ s[i] \in Call
  BY Pushed
<1> HIDE DEF t, n
<1>2. \A k \in 0..n : \A x : StartsAt(s, k, x) => StartsAt(t, k, x)
  BY <1>1, StartsSame
<1>3. StartsAt(t, n, start)
  BY <1>1, <1>2 DEF ScopeInv, n
<1>4. StartsAt(t, n + 1, start2)
  <2>1. CASE f.kind \in Scopes
    <3>1. \A i \in (n + 1 + 1)..(n + 1) : FALSE
      BY <1>1
    <3>2. n + 1 \in 1..(n + 1)
      BY <1>1
    <3> QED
      BY <1>1, <2>1, <3>1, <3>2 DEF StartsAt
  <2>2. CASE f.kind \notin Scopes
    BY <1>1, <1>3, <2>2 DEF StartsAt
  <2> QED
    BY <2>1, <2>2
<1>5. ASSUME NEW i \in 1..(n + 1), t[i].kind \in Scopes
      PROVE  StartsAt(t, i - 1, t[i].saved_scope_start) /\ t[i].saved_local_count <= len
  <2>1. CASE i = n + 1
    <3>1. i - 1 = n
      BY <1>1, <2>1
    <3> QED
      BY <1>1, <1>3, <2>1, <3>1
  <2>2. CASE i \in 1..n
    <3>1. StartsAt(s, i - 1, s[i].saved_scope_start) /\ s[i].saved_local_count <= len
      BY <1>1, <1>5, <2>2 DEF ScopeInv, n
    <3>2. i - 1 \in 0..n
      BY <1>1, <2>2
    <3> QED
      BY <1>1, <1>2, <2>2, <3>1, <3>2
  <2>3. i = n + 1 \/ i \in 1..n
    BY <1>1
  <2> QED
    BY <2>1, <2>2, <2>3
<1>6. ASSUME NEW i \in 1..(n + 1), NEW j \in 1..(n + 1), i < j,
             t[i].kind \in Scopes, t[j].kind \in Scopes
      PROVE  t[i].saved_local_count <= t[j].saved_local_count
  <2>0. i \in 1..n
    BY <1>1, <1>6
  <2>1. CASE j = n + 1
    BY <1>1, <1>6, <2>0, <2>1 DEF ScopeInv, n
  <2>2. CASE j \in 1..n
    BY <1>1, <1>6, <2>0, <2>2 DEF ScopeInv, n
  <2>3. j = n + 1 \/ j \in 1..n
    BY <1>1
  <2> QED
    BY <2>1, <2>2, <2>3
<1>7. ScopeInv(t, start2, len)
  <2> HIDE DEF start2
  <2> QED
    BY <1>1, <1>4, <1>5, <1>6, Zenon DEF ScopeInv
<1> QED
  BY <1>7, Zenon DEF t

LEMMA PopScope ==
    ASSUME NEW s \in Seq(Call), NEW f \in Call, NEW start \in Nat, NEW len \in Nat,
           ScopeInv(Append(s, f), start, len)
    PROVE  /\ f.kind \in Scopes => /\ ScopeInv(s, f.saved_scope_start, f.saved_local_count)
                                   /\ f.saved_local_count <= len
                                   /\ \A i \in 1..Len(s) : s[i].kind \in Scopes =>
                                         s[i].saved_local_count <= f.saved_local_count
           /\ f.kind \notin Scopes => ScopeInv(s, start, len)
<1> DEFINE t == Append(s, f)
           n == Len(s)
<1>1. /\ n \in Nat /\ Len(t) = n + 1 /\ t[n + 1] = f
      /\ \A i \in 1..n : t[i] = s[i] /\ s[i] \in Call
  BY Pushed
<1>0. ScopeInv(t, start, len)
  OBVIOUS
<1> HIDE DEF t, n
<1>2. \A k \in 0..n : \A x : StartsAt(t, k, x) => StartsAt(s, k, x)
  BY <1>1, StartsSame
<1>3. ASSUME NEW i \in 1..n, s[i].kind \in Scopes
      PROVE  StartsAt(s, i - 1, s[i].saved_scope_start) /\ s[i].saved_local_count <= len
  <2>1. i - 1 \in 0..n /\ i \in 1..Len(t)
    BY <1>1
  <2> QED
    BY <1>0, <1>1, <1>2, <1>3, <2>1 DEF ScopeInv
<1>4. ASSUME NEW i \in 1..n, NEW j \in 1..n, i < j, s[i].kind \in Scopes, s[j].kind \in Scopes
      PROVE  s[i].saved_local_count <= s[j].saved_local_count
  BY <1>0, <1>1, <1>4 DEF ScopeInv
<1>5. CASE f.kind \in Scopes
  <2>1. /\ StartsAt(t, n + 1 - 1, f.saved_scope_start) /\ f.saved_local_count <= len
        /\ \A i \in 1..n : s[i].kind \in Scopes =>
              s[i].saved_local_count <= f.saved_local_count
    <3>1. n + 1 \in 1..Len(t) /\ \A i \in 1..n : i \in 1..Len(t) /\ i < n + 1
      BY <1>1
    <3> QED
      BY <1>0, <1>1, <1>5, <3>1 DEF ScopeInv
  <2>2. StartsAt(s, n, f.saved_scope_start)
    <3>1. n + 1 - 1 = n /\ n \in 0..n
      BY <1>1
    <3> QED
      BY <1>2, <2>1, <3>1
  <2> QED
    BY <1>3, <1>4, <1>5, <2>1, <2>2, Zenon DEF ScopeInv, n
<1>6. CASE f.kind \notin Scopes
  <2>1. StartsAt(t, n + 1, start)
    BY <1>0, <1>1 DEF ScopeInv
  <2>2. StartsAt(t, n, start)
    BY <1>1, <1>6, <2>1 DEF StartsAt
  <2>3. StartsAt(s, n, start)
    BY <1>1, <1>2, <2>2
  <2> QED
    BY <1>3, <1>4, <1>6, <2>3, Zenon DEF ScopeInv, n
<1> QED
  BY <1>5, <1>6

-----------------------------------------------------------------------------
(***************************************************************************)
(* Emitting instructions.                                                  *)
(***************************************************************************)
Extends(c, c2) == Len(c) <= Len(c2) /\ \A i \in 1..Len(c) : c2[i] = c[i]

\* A piece of code without labels that leaves rsp where it is.
Flat(is, d) ==
    \A i \in 1..Len(is) : is[i].depth = d /\ is[i].op \in {"call", "jmp", "jcc", "ret"}

LEMMA Joined ==
    ASSUME NEW S, NEW c \in Seq(S), NEW is \in Seq(S)
    PROVE  /\ c \o is \in Seq(S) /\ Len(c) \in Nat /\ Len(is) \in Nat
           /\ Len(c \o is) = Len(c) + Len(is)
           /\ \A i \in 1..Len(c) : (c \o is)[i] = c[i]
           /\ \A i \in 1..Len(is) : (c \o is)[Len(c) + i] = is[i]
<1>1. /\ c \o is \in Seq(S) /\ Len(c) \in Nat /\ Len(is) \in Nat
      /\ Len(c \o is) = Len(c) + Len(is)
  BY ConcatProperties
<1>2. \A i \in 1..(Len(c) + Len(is)) :
         (c \o is)[i] = IF i <= Len(c) THEN c[i] ELSE is[i - Len(c)]
  BY ConcatProperties
<1>3. \A i \in 1..Len(is) : Len(c) + i - Len(c) = i /\ ~(Len(c) + i <= Len(c))
                               /\ Len(c) + i \in 1..(Len(c) + Len(is))
  BY <1>1
<1>4. \A i \in 1..Len(c) : i \in 1..(Len(c) + Len(is)) /\ i <= Len(c)
  BY <1>1
<1>5. \A i \in 1..Len(is) : (c \o is)[Len(c) + i] = is[i]
  BY <1>2, <1>3
<1>6. \A i \in 1..Len(c) : (c \o is)[i] = c[i]
  BY <1>2, <1>4
<1> QED
  BY <1>1, <1>5, <1>6, Zenon

\* Where the positions of a joined sequence come from.
LEMMA JoinedAt ==
    ASSUME NEW m \in Nat, NEW n \in Nat, NEW i \in 1..(m + n)
    PROVE  i \in 1..m \/ \E k \in 1..n : i = m + k
<1>1. CASE i <= m
  BY <1>1
<1>2. CASE i > m
  <2>1. i - m \in 1..n /\ i = m + (i - m)
    BY <1>2
  <2> QED
    BY <2>1
<1> QED
  BY <1>1, <1>2

\* Instruction x is the label r.
Is(x, r) == IsLabel(x) /\ x.to = r.to /\ x.owner = r.owner /\ x.depth = r.depth

\* What a jump may go to stays there when code is emitted.
LEMMA JumpStays ==
    ASSUME NEW c, NEW c2, Len(c) \in Nat, Len(c2) \in Nat, Extends(c, c2),
           NEW P, NEW P2, NEW U, NEW j, JumpOK(c, j, P, U),
           \A r \in P : r \in P2 \/ \E q \in 1..Len(c2) : Is(c2[q], r)
    PROVE  JumpOK(c2, j, P2, U)
<1>1. ASSUME NEW q \in 1..Len(c), IsLabel(c[q]), Matches(j, c[q])
      PROVE  Resolved(c2, j)
  <2>1. q \in 1..Len(c2) /\ c2[q] = c[q]
    BY DEF Extends
  <2> QED
    BY <1>1, <2>1, Zenon DEF Resolved
<1>2. ASSUME NEW r \in P, Matches(j, r)
      PROVE  Resolved(c2, j) \/ \E x \in P2 : Matches(j, x)
  <2>1. CASE r \in P2
    BY <1>2, <2>1
  <2>2. ASSUME NEW q \in 1..Len(c2), Is(c2[q], r)
        PROVE  Resolved(c2, j)
    <3>1. Matches(j, c2[q])
      BY <1>2, <2>2, Zenon DEF Matches, Is
    <3> QED
      BY <2>2, <3>1, Zenon DEF Resolved, Is
  <2> QED
    BY <2>1, <2>2, Zenon
<1> QED
  BY <1>1, <1>2, Zenon DEF JumpOK, Resolved

\* Code without labels.
LEMMA EmitFlat ==
    ASSUME NEW c, NEW P, NEW lc \in Nat, NEW d \in Int, NEW U, CodeInv(c, P, lc, d, U),
           NEW is \in Seq(Instr), Flat(is, d),
           \A i \in 1..Len(is) : IsJump(is[i]) => JumpOK(c, is[i], P, U)
    PROVE  CodeInv(c \o is, P, lc, d, U) /\ Extends(c, c \o is)
<1> DEFINE t == c \o is
           m == Len(c)
           n == Len(is)
<1>0. c \in Seq(Instr)
  BY DEF CodeInv
<1>1. /\ t \in Seq(Instr) /\ m \in Nat /\ n \in Nat /\ Len(t) = m + n
      /\ \A i \in 1..m : t[i] = c[i]
      /\ \A i \in 1..n : t[m + i] = is[i]
  BY <1>0, Joined
<1>e. /\ c = <<>> <=> m = 0
      /\ t = <<>> <=> m + n = 0
  BY <1>0, <1>1, EmptySeq
<1>j. \A i \in 1..(m + n) : i \in 1..m \/ \E k \in 1..n : i = m + k
  BY <1>1, JoinedAt
<1> HIDE DEF t, m, n
<1>2. Extends(c, t)
  BY <1>1 DEF Extends, m
<1>3. \A k \in 1..n : t[m + k].depth = d /\ After(t[m + k]) = d
                        /\ ~IsLabel(t[m + k])
  BY <1>1 DEF Flat, After, IsLabel, n
<1>4. Flow(t, d)
  <2>1. Flow(c, d)
    BY DEF CodeInv
  <2>2. t = <<>> => d = 0
    BY <1>1, <1>e, <2>1 DEF Flow
  <2>3. t # <<>> => t[1].depth = 0
    <3>1. CASE m = 0
      <4>1. d = 0
        BY <1>e, <2>1, <3>1 DEF Flow
      <4>2. t # <<>> => 1 \in 1..n /\ m + 1 = 1
        BY <1>1, <1>e, <3>1
      <4> QED
        BY <1>3, <4>1, <4>2
    <3>2. CASE m # 0
      <4>1. 1 \in 1..m
        BY <1>1, <3>2
      <4> QED
        BY <1>1, <1>e, <2>1, <3>2, <4>1 DEF Flow
    <3> QED
      BY <3>1, <3>2
  <2>4. t # <<>> => After(t[Len(t)]) = d
    <3>1. CASE n = 0
      <4>1. t # <<>> => m \in 1..m /\ m # 0 /\ Len(t) = m
        BY <1>1, <1>e, <3>1
      <4> QED
        BY <1>1, <1>e, <2>1, <4>1 DEF Flow, m
    <3>2. CASE n # 0
      <4>1. n \in 1..n
        BY <1>1, <3>2
      <4> QED
        BY <1>1, <1>3, <4>1
    <3> QED
      BY <3>1, <3>2
  <2>5. ASSUME NEW p \in 1..(m + n - 1)
        PROVE  t[p + 1].depth = After(t[p])
    <3>0. p \in 1..(m + n) /\ p \in Nat
      BY <1>1
    <3>1. CASE p + 1 \in 1..m
      <4>1. p \in 1..m /\ p \in 1..(m - 1)
        BY <1>1, <3>1
      <4> QED
        BY <1>1, <2>1, <3>1, <4>1 DEF Flow, m
    <3>2. CASE p = m
      <4>1. p \in 1..m /\ 1 \in 1..n /\ p + 1 = m + 1 /\ m # 0
        BY <1>1, <3>2
      <4>2. After(c[m]) = d
        BY <1>e, <2>1, <4>1 DEF Flow, m
      <4> QED
        BY <1>1, <1>3, <3>2, <4>1, <4>2
    <3>3. ASSUME NEW k \in 1..n, p = m + k
          PROVE  t[p + 1].depth = After(t[p])
      <4>1. k + 1 \in 1..n /\ p + 1 = m + (k + 1)
        BY <1>1, <3>3
      <4> QED
        BY <1>3, <3>3, <4>1
    <3>4. p + 1 \in 1..m \/ p = m \/ ~(p \in 1..m)
      BY <1>1
    <3> QED
      BY <1>j, <3>0, <3>1, <3>2, <3>3, <3>4
  <2>6. \A p \in 1..(Len(t) - 1) : t[p + 1].depth = After(t[p])
    BY <1>1, <2>5
  <2> QED
    BY <2>2, <2>3, <2>4, <2>6, Zenon DEF Flow
<1>5. \A p \in 1..Len(t) : IsLabel(t[p]) => p \in 1..m /\ t[p] = c[p]
  BY <1>1, <1>3, <1>j
<1>6. LabelsOf(t, P, lc)
  BY <1>5, ZenonT(40) DEF LabelsOf, CodeInv, m
<1>7. \A j : JumpOK(c, j, P, U) => JumpOK(t, j, P, U)
  <2>1. m \in Nat /\ Len(t) \in Nat
    BY <1>1
  <2> QED
    BY <1>2, <2>1, JumpStays, Zenon DEF m
<1>8. JumpsOf(t, P, U)
  <2>1. ASSUME NEW p \in 1..m, IsJump(t[p]) PROVE JumpOK(t, t[p], P, U)
    BY <1>1, <1>7, <2>1, Zenon DEF CodeInv, JumpsOf, m
  <2>2. ASSUME NEW k \in 1..n, IsJump(t[m + k]) PROVE JumpOK(t, t[m + k], P, U)
    BY <1>1, <1>7, <2>2, Zenon DEF n
  <2> QED
    BY <1>1, <1>j, <2>1, <2>2, Zenon DEF JumpsOf
<1>9. PendingOK(P, lc)
  BY DEF CodeInv
<1> QED
  BY <1>1, <1>2, <1>4, <1>6, <1>8, <1>9, Zenon DEF CodeInv, t

\* One instruction: a push, a pop or a label that was to come.
LEMMA EmitOne ==
    ASSUME NEW c, NEW P, NEW lc \in Nat, NEW d \in Int, NEW U, CodeInv(c, P, lc, d, U),
           NEW x \in Instr, x.depth = d, ~IsJump(x), NEW P2, P2 \subseteq P,
           \A r \in P : r \in P2 \/ Is(x, r),
           IsLabel(x) =>
              /\ \A r \in P2 : x.to # r.to
              /\ \A p \in 1..Len(c) : IsLabel(c[p]) => c[p].to # x.to
              /\ x.to[1] = "usr" => x.owner = x.to[2]
              /\ x.to[1] # "usr" => x.to[2] \in Nat /\ x.to[2] < lc
    PROVE  /\ CodeInv(c \o <<x>>, P2, lc, After(x), U) /\ Extends(c, c \o <<x>>)
           /\ Len(c \o <<x>>) = Len(c) + 1 /\ (c \o <<x>>)[Len(c) + 1] = x
<1> DEFINE t == c \o <<x>>
           m == Len(c)
<1>0. c \in Seq(Instr)
  BY DEF CodeInv
<1>1. /\ t \in Seq(Instr) /\ m \in Nat /\ Len(t) = m + 1
      /\ \A i \in 1..m : t[i] = c[i]
      /\ t[m + 1] = x
  <2>1. /\ <<x>> \in Seq(Instr) /\ Len(<<x>>) = 1 /\ <<x>>[1] = x
    OBVIOUS
  <2> HIDE DEF m
  <2>2. /\ t \in Seq(Instr) /\ Len(c) \in Nat /\ Len(t) = Len(c) + Len(<<x>>)
        /\ \A i \in 1..Len(c) : t[i] = c[i]
        /\ \A i \in 1..Len(<<x>>) : t[Len(c) + i] = <<x>>[i]
    BY <1>0, <2>1, Joined
  <2>3. 1 \in 1..1
    OBVIOUS
  <2> QED
    BY <2>1, <2>2, <2>3, Zenon DEF m
<1>e. (c = <<>> <=> m = 0) /\ t # <<>>
  BY <1>0, <1>1, EmptySeq
<1>j. \A i \in 1..(m + 1) : i \in 1..m \/ i = m + 1
  BY <1>1
<1> HIDE DEF t, m
<1>2. Extends(c, t)
  BY <1>1 DEF Extends, m
<1>4. Flow(t, After(x))
  <2>1. Flow(c, d)
    BY DEF CodeInv
  <2>3. t[1].depth = 0
    <3>1. CASE m = 0
      BY <1>1, <1>e, <2>1, <3>1 DEF Flow
    <3>2. CASE m # 0
      <4>1. 1 \in 1..m
        BY <1>1, <3>2
      <4> QED
        BY <1>1, <1>e, <2>1, <3>2, <4>1 DEF Flow
    <3> QED
      BY <3>1, <3>2
  <2>5. ASSUME NEW p \in 1..(m + 1 - 1)
        PROVE  t[p + 1].depth = After(t[p])
    <3>0. p \in 1..m /\ p \in Nat /\ m # 0
      BY <1>1
    <3>1. CASE p + 1 \in 1..m
      <4>1. p \in 1..(m - 1)
        BY <1>1, <3>1
      <4> QED
        BY <1>1, <2>1, <3>0, <3>1, <4>1 DEF Flow, m
    <3>2. CASE p = m
      <4>2. After(c[m]) = d
        BY <1>e, <2>1, <3>0 DEF Flow, m
      <4> QED
        BY <1>1, <3>0, <3>2, <4>2
    <3>4. p + 1 \in 1..m \/ p = m
      BY <1>1
    <3> QED
      BY <3>1, <3>2, <3>4
  <2>6. \A p \in 1..(Len(t) - 1) : t[p + 1].depth = After(t[p])
    BY <1>1, <2>5
  <2>7. After(t[Len(t)]) = After(x)
    BY <1>1
  <2> QED
    BY <1>e, <2>3, <2>6, <2>7, Zenon DEF Flow
<1>5. LabelsOf(c, P, lc) /\ PendingOK(P, lc) /\ JumpsOf(c, P, U)
  BY DEF CodeInv
<1>6. LabelsOf(t, P2, lc)
  <2>1. ASSUME NEW p \in 1..(m + 1), NEW q \in 1..(m + 1),
               IsLabel(t[p]), IsLabel(t[q]), t[p].to = t[q].to
        PROVE  p = q
    <3>1. CASE p \in 1..m /\ q \in 1..m
      BY <1>1, <1>5, <2>1, <3>1, Zenon DEF LabelsOf, m
    <3>2. CASE p \in 1..m /\ q = m + 1
      BY <1>1, <2>1, <3>2, Zenon DEF m
    <3>3. CASE p = m + 1 /\ q \in 1..m
      BY <1>1, <2>1, <3>3, Zenon DEF m
    <3> QED
      BY <1>j, <3>1, <3>2, <3>3, Zenon
  <2>2. ASSUME NEW p \in 1..(m + 1), IsLabel(t[p])
        PROVE  /\ \A r \in P2 : t[p].to # r.to
               /\ t[p].to[1] = "usr" => t[p].owner = t[p].to[2]
               /\ t[p].to[1] # "usr" => t[p].to[2] \in Nat /\ t[p].to[2] < lc
    <3>1. CASE p \in 1..m
      <4>1. t[p] = c[p] /\ IsLabel(c[p])
        BY <1>1, <2>2, <3>1
      <4>2. /\ \A r \in P : c[p].to # r.to
            /\ c[p].to[1] = "usr" => c[p].owner = c[p].to[2]
            /\ c[p].to[1] # "usr" => c[p].to[2] \in Nat /\ c[p].to[2] < lc
        BY <1>5, <3>1, <4>1 DEF LabelsOf, m
      <4> QED
        BY <4>1, <4>2
    <3>2. CASE p = m + 1
      BY <1>1, <2>2, <3>2, Zenon
    <3> QED
      BY <1>j, <3>1, <3>2, Zenon
  <2> QED
    BY <1>1, <2>1, <2>2, Zenon DEF LabelsOf
<1>7. \A j : JumpOK(c, j, P, U) => JumpOK(t, j, P2, U)
  <2>1. m \in Nat /\ Len(t) \in Nat /\ m + 1 \in 1..Len(t)
    BY <1>1
  <2>2. \A r \in P : r \in P2 \/ \E q \in 1..Len(t) : Is(t[q], r)
    BY <1>1, <2>1, Zenon
  <2> QED
    BY <1>2, <2>1, <2>2, JumpStays, Zenon DEF m
<1>8. JumpsOf(t, P2, U)
  <2>1. ASSUME NEW p \in 1..m, IsJump(t[p]) PROVE JumpOK(t, t[p], P2, U)
    BY <1>1, <1>5, <1>7, <2>1, Zenon DEF JumpsOf, m
  <2> QED
    BY <1>1, <1>j, <2>1, Zenon DEF JumpsOf
<1>9. PendingOK(P2, lc)
  BY <1>5, Zenon DEF PendingOK
<1> QED
  BY <1>1, <1>2, <1>4, <1>6, <1>8, <1>9, Zenon DEF CodeInv, t, m

LabelPrefixes == {"", "start", "continue", "stop", "break", "else", "end", "sec", "usr"}
Minus(P, to) == {r \in P : r.to # to}

LEMMA InsType ==
    ASSUME NEW op \in {"label", "jmp", "jcc", "call", "push", "pop", "ret"},
           NEW prefix \in LabelPrefixes, NEW i \in Nat \cup Labels, NEW owner \in Nat \cup Labels,
           NEW d \in Int
    PROVE  Ins(op, prefix, i, owner, d) \in Instr
<1>1. <<prefix, i>> \in {"", "start", "continue", "stop", "break", "else", "end", "sec", "usr"}
                          \X (Nat \cup Labels)
  BY Zenon DEF LabelPrefixes
<1> QED
  BY <1>1 DEF Ins, Instr

\* An expression is flat.
LEMMA ExprFlat ==
    ASSUME NEW d \in Int
    PROVE  /\ Expr(d) \in Seq(Instr) /\ Flat(Expr(d), d) /\ Len(Expr(d)) = 1
           /\ Expr(d)[1] \in Instr /\ ~IsJump(Expr(d)[1])
<1> DEFINE x == Op("call", d)
<1>1. x \in Instr
  <2>1. "" \in LabelPrefixes
    BY DEF LabelPrefixes
  <2> QED
    BY <2>1, InsType DEF Op
<1>2. x.op = "call" /\ x.depth = d
  BY DEF Op, Ins
<1> HIDE DEF x
<1>3. Expr(d) = <<x>>
  BY DEF Expr, x
<1> QED
  BY <1>1, <1>2, <1>3 DEF Flat, IsJump

LEMMA EmitExpr ==
    ASSUME NEW c, NEW P, NEW lc \in Nat, NEW d \in Int, NEW U, CodeInv(c, P, lc, d, U)
    PROVE  CodeInv(c \o Expr(d), P, lc, d, U) /\ Extends(c, c \o Expr(d))
<1>1. \A i \in 1..Len(Expr(d)) : ~IsJump(Expr(d)[i])
  BY ExprFlat
<1> QED
  BY <1>1, ExprFlat, EmitFlat, Zenon

\* A jump whose label is there or to come, or a return.
LEMMA EmitJump ==
    ASSUME NEW c, NEW P, NEW lc \in Nat, NEW d \in Int, NEW U, CodeInv(c, P, lc, d, U),
           NEW x \in Instr, x.depth = d, x.op \in {"jmp", "jcc", "ret"},
           IsJump(x) => JumpOK(c, x, P, U)
    PROVE  CodeInv(c \o <<x>>, P, lc, d, U) /\ Extends(c, c \o <<x>>)
<1>1. <<x>> \in Seq(Instr) /\ Len(<<x>>) = 1 /\ <<x>>[1] = x
  OBVIOUS
<1>2. \A i \in 1..1 : i = 1
  OBVIOUS
<1>3. Flat(<<x>>, d)
  BY <1>1, <1>2 DEF Flat
<1>4. \A i \in 1..Len(<<x>>) : IsJump(<<x>>[i]) => JumpOK(c, <<x>>[i], P, U)
  BY <1>1, <1>2, Zenon
<1> QED
  BY <1>1, <1>3, <1>4, EmitFlat, Zenon

\* c has the label r.
Has(c, r) == \E q \in 1..Len(c) : Is(c[q], r)

LEMMA HasStays ==
    ASSUME NEW c, NEW c2, Len(c) \in Nat, Len(c2) \in Nat, Extends(c, c2), NEW r, Has(c, r)
    PROVE  Has(c2, r)
<1>1. PICK q \in 1..Len(c) : Is(c[q], r)
  BY DEF Has
<1>2. q \in 1..Len(c2) /\ c2[q] = c[q]
  BY DEF Extends
<1> QED
  BY <1>1, <1>2, Zenon DEF Has

\* A label that was to come.
LEMMA EmitLabel ==
    ASSUME NEW c, NEW P, NEW lc \in Nat, NEW d \in Int, NEW U, CodeInv(c, P, lc, d, U),
           NEW r \in P, r.depth = d, NEW x \in Instr,
           IsLabel(x), x.to = r.to, x.owner = r.owner, x.depth = d
    PROVE  /\ CodeInv(c \o <<x>>, Minus(P, r.to), lc, d, U) /\ Extends(c, c \o <<x>>)
           /\ Has(c \o <<x>>, r)
<1> DEFINE P2 == Minus(P, r.to)
<1>1. ~IsJump(x) /\ After(x) = d
  BY DEF IsJump, IsLabel, After
<1>2. PendingOK(P, lc) /\ LabelsOf(c, P, lc) /\ c \in Seq(Instr)
  BY DEF CodeInv
<1>3. \A q \in P : q \in P2 \/ q = r
  BY <1>2, Zenon DEF Minus, PendingOK
<1>4. P2 \subseteq P /\ \A q \in P2 : x.to # q.to
  BY Zenon DEF Minus
<1>5. \A p \in 1..Len(c) : IsLabel(c[p]) => c[p].to # x.to
  BY <1>2, Zenon DEF LabelsOf
<1>6. x.to[1] # "usr" /\ x.to[2] \in Nat /\ x.to[2] < lc
  BY <1>2, Zenon DEF PendingOK
<1> HIDE DEF P2
<1>7. Is(x, r) /\ \A q \in P : q \in P2 \/ Is(x, q)
  <2>1. Is(x, r)
    BY DEF Is
  <2> QED
    BY <1>3, <2>1
<1>8. IsLabel(x) =>
         /\ \A q \in P2 : x.to # q.to
         /\ \A p \in 1..Len(c) : IsLabel(c[p]) => c[p].to # x.to
         /\ x.to[1] = "usr" => x.owner = x.to[2]
         /\ x.to[1] # "usr" => x.to[2] \in Nat /\ x.to[2] < lc
  BY <1>4, <1>5, <1>6, Zenon
<1>9. /\ CodeInv(c \o <<x>>, P2, lc, After(x), U) /\ Extends(c, c \o <<x>>)
      /\ Len(c \o <<x>>) = Len(c) + 1 /\ (c \o <<x>>)[Len(c) + 1] = x
  <2>1. ~IsJump(x) /\ P2 \subseteq P /\ \A q \in P : q \in P2 \/ Is(x, q)
    BY <1>1, <1>4, <1>7, Zenon
  <2>2. x.depth = d
    OBVIOUS
  <2>3. CodeInv(c \o <<x>>, P2, lc, After(x), U)
    BY <1>8, <2>1, <2>2, EmitOne, ZenonT(60)
  <2>4. Extends(c, c \o <<x>>)
    BY <1>8, <2>1, <2>2, EmitOne, ZenonT(60)
  <2>5. Len(c \o <<x>>) = Len(c) + 1 /\ (c \o <<x>>)[Len(c) + 1] = x
    <3>1. <<x>> \in Seq(Instr) /\ Len(<<x>>) = 1 /\ <<x>>[1] = x /\ 1 \in 1..1
      OBVIOUS
    <3> QED
      BY <1>2, <3>1, Joined
  <2> QED
    BY <2>3, <2>4, <2>5, Zenon
<1>10. Len(c) + 1 \in 1..Len(c \o <<x>>)
  <2>1. Len(c) \in Nat
    BY <1>2
  <2> QED
    BY <1>9, <2>1
<1>11. Has(c \o <<x>>, r)
  BY <1>7, <1>9, <1>10, Zenon DEF Has
<1> QED
  BY <1>1, <1>9, <1>11, Zenon DEF P2

\* A user label that is not there yet.
LEMMA EmitUsr ==
    ASSUME NEW c, NEW P, NEW lc \in Nat, NEW d \in Int, NEW U, CodeInv(c, P, lc, d, U),
           NEW l \in Labels,
           ~ \E p \in 1..Len(c) : IsLabel(c[p]) /\ c[p].to = <<"usr", l>>
    PROVE  /\ CodeInv(c \o <<Lab("usr", l, d)>>, P, lc, d, U)
           /\ Extends(c, c \o <<Lab("usr", l, d)>>)
<1> DEFINE x == Lab("usr", l, d)
<1>1. x \in Instr
  <2>1. "usr" \in LabelPrefixes /\ l \in Nat \cup Labels
    BY DEF LabelPrefixes
  <2> QED
    BY <2>1, InsType DEF Lab
<1>2. /\ x.depth = d /\ IsLabel(x) /\ ~IsJump(x) /\ After(x) = d
      /\ x.to = <<"usr", l>> /\ x.owner = l /\ x.to[1] = "usr" /\ x.to[2] = l
  BY DEF Lab, Ins, IsLabel, IsJump, After
<1>3. \A r \in P : r.to # x.to
  BY <1>2, Zenon DEF CodeInv, PendingOK
<1> HIDE DEF x
<1>4. P \subseteq P
  OBVIOUS
<1>5. \A r \in P : r \in P \/ Is(x, r)
  OBVIOUS
<1>6. IsLabel(x) =>
         /\ \A r \in P : x.to # r.to
         /\ \A p \in 1..Len(c) : IsLabel(c[p]) => c[p].to # x.to
         /\ x.to[1] = "usr" => x.owner = x.to[2]
         /\ x.to[1] # "usr" => x.to[2] \in Nat /\ x.to[2] < lc
  BY <1>2, <1>3, Zenon
<1>7. /\ CodeInv(c \o <<x>>, P, lc, After(x), U) /\ Extends(c, c \o <<x>>)
  <2>1. x.depth = d /\ ~IsJump(x)
    BY <1>2
  <2> QED
    BY <1>1, <1>4, <1>5, <1>6, <2>1, EmitOne
<1> QED
  BY <1>2, <1>7, Zenon DEF x

\* A push or a pop.
LEMMA EmitPush ==
    ASSUME NEW c, NEW P, NEW lc \in Nat, NEW d \in Int, NEW U, CodeInv(c, P, lc, d, U),
           NEW op \in {"push", "pop"}
    PROVE  /\ CodeInv(c \o <<Op(op, d)>>, P, lc, IF op = "push" THEN d + 1 ELSE d - 1, U)
           /\ Extends(c, c \o <<Op(op, d)>>)
<1> DEFINE x == Op(op, d)
<1>1. x \in Instr
  <2>1. "" \in LabelPrefixes
    BY DEF LabelPrefixes
  <2> QED
    BY <2>1, InsType DEF Op
<1>2. /\ x.depth = d /\ ~IsLabel(x) /\ ~IsJump(x)
      /\ After(x) = IF op = "push" THEN d + 1 ELSE d - 1
  BY DEF Op, Ins, IsLabel, IsJump, After
<1> HIDE DEF x
<1>4. P \subseteq P
  OBVIOUS
<1>5. \A r \in P : r \in P \/ Is(x, r)
  OBVIOUS
<1>6. IsLabel(x) =>
         /\ \A r \in P : x.to # r.to
         /\ \A p \in 1..Len(c) : IsLabel(c[p]) => c[p].to # x.to
         /\ x.to[1] = "usr" => x.owner = x.to[2]
         /\ x.to[1] # "usr" => x.to[2] \in Nat /\ x.to[2] < lc
  BY <1>2
<1>7. /\ CodeInv(c \o <<x>>, P, lc, After(x), U) /\ Extends(c, c \o <<x>>)
  BY <1>1, <1>2, <1>4, <1>5, <1>6, EmitOne, Zenon
<1> QED
  BY <1>2, <1>7, Zenon DEF x

\* Labels with new numbers are announced.
LEMMA Announce ==
    ASSUME NEW c, NEW P, NEW lc \in Nat, NEW d \in Int, NEW U, CodeInv(c, P, lc, d, U),
           NEW lc2 \in Nat, lc <= lc2, NEW R,
           \A r \in R : /\ r.to[1] # "usr" /\ r.to[2] \in Nat
                        /\ lc <= r.to[2] /\ r.to[2] < lc2
                        /\ r.to = <<r.to[1], r.to[2]>>,
           \A r, q \in R : r.to = q.to => r = q
    PROVE  CodeInv(c, P \cup R, lc2, d, U)
<1>1. PendingOK(P, lc) /\ LabelsOf(c, P, lc) /\ JumpsOf(c, P, U) /\ c \in Seq(Instr)
      /\ Flow(c, d)
  BY DEF CodeInv
<1>2. \A r \in P, q \in R : r.to # q.to
  <2>1. \A r \in P : r.to[2] \in Nat /\ r.to[2] < lc
    BY <1>1 DEF PendingOK
  <2>2. \A r \in P, q \in R : r.to[2] # q.to[2]
    BY <2>1
  <2> QED
    BY <2>2, Zenon
<1>3. \A r \in P : r.to[2] < lc2
  BY <1>1 DEF PendingOK
<1>4. PendingOK(P \cup R, lc2)
  BY <1>1, <1>2, <1>3, Zenon DEF PendingOK
<1>5. LabelsOf(c, P \cup R, lc2)
  <2>1. ASSUME NEW p \in 1..Len(c), IsLabel(c[p])
        PROVE  /\ \A r \in P \cup R : c[p].to # r.to
               /\ c[p].to[1] = "usr" => c[p].owner = c[p].to[2]
               /\ c[p].to[1] # "usr" => c[p].to[2] \in Nat /\ c[p].to[2] < lc2
    <3>1. /\ \A r \in P : c[p].to # r.to
          /\ c[p].to[1] = "usr" => c[p].owner = c[p].to[2]
          /\ c[p].to[1] # "usr" => c[p].to[2] \in Nat /\ c[p].to[2] < lc
      BY <1>1, <2>1, Zenon DEF LabelsOf
    <3>2. ASSUME NEW r \in R, c[p].to = r.to PROVE FALSE
      BY <3>1, <3>2
    <3>3. c[p].to[1] # "usr" => c[p].to[2] < lc2
      BY <3>1
    <3> QED
      BY <3>1, <3>2, <3>3, Zenon
  <2> QED
    BY <1>1, <2>1, Zenon DEF LabelsOf
<1>6. JumpsOf(c, P \cup R, U)
  BY <1>1, Zenon DEF JumpsOf, JumpOK
<1> QED
  BY <1>1, <1>4, <1>5, <1>6, Zenon DEF CodeInv

-----------------------------------------------------------------------------
(***************************************************************************)
(* The names of the scopes.                                                *)
(***************************************************************************)
LEMMA OwnsPushed ==
    ASSUME NEW s \in Seq(Call), NEW f \in Call, NEW i \in 1..Len(s), NEW p,
           f.kind \in Scopes => p <= f.saved_local_count
    PROVE  Owns(Append(s, f), i, p) <=> Owns(s, i, p)
<1> DEFINE t == Append(s, f)
           n == Len(s)
<1>1. /\ n \in Nat /\ Len(t) = n + 1 /\ t[n + 1] = f
      /\ \A j \in 1..n : t[j] = s[j]
  BY Pushed
<1> HIDE DEF t
<1>2. \A j : j \in (i + 1)..(n + 1) <=> j \in (i + 1)..n \/ j = n + 1
  BY <1>1
<1>3. \A j \in (i + 1)..n : t[j] = s[j]
  BY <1>1
<1>4. t[i] = s[i]
  BY <1>1
<1> HIDE DEF n
<1>5. (\A j \in (i + 1)..(n + 1) : t[j].kind \in Scopes => p <= t[j].saved_local_count)
        <=> (\A j \in (i + 1)..n : s[j].kind \in Scopes => p <= s[j].saved_local_count)
  BY <1>1, <1>2, <1>3, Zenon
<1> QED
  BY <1>1, <1>4, <1>5, Zenon DEF Owns, t, n

LEMMA PushNames ==
    ASSUME NEW s \in Seq(Call), NEW f \in Call, NEW ls \in Seq(Local), NameInv(s, ls),
           \A x \in Names : f.names[x] = 0, f.saved_local_count = Len(ls)
    PROVE  NameInv(Append(s, f), ls)
<1> DEFINE t == Append(s, f)
           n == Len(s)
<1>1. /\ n \in Nat /\ Len(t) = n + 1 /\ t[n + 1] = f
      /\ \A i \in 1..n : t[i] = s[i]
  BY Pushed
<1>2. \A i \in 1..n, p \in 1..Len(ls) : Owns(t, i, p) <=> Owns(s, i, p)
  <2> TAKE i \in 1..n, p \in 1..Len(ls)
  <2>1. p <= f.saved_local_count
    OBVIOUS
  <2> QED
    BY <2>1, OwnsPushed
<1> HIDE DEF t, n
<1>3. \A p \in 1..Len(ls) : ~Owns(t, n + 1, p)
  BY <1>1 DEF Owns
<1>4. \A i \in 1..(n + 1) : i \in 1..n \/ i = n + 1
  BY <1>1
<1>5. ASSUME NEW i \in 1..(n + 1), NEW x \in Names
      PROVE  /\ t[i].names[x] # 0 =>
                   \E p \in 1..Len(ls) : Owns(t, i, p) /\ ls[p].name = x
             /\ \A p \in 1..Len(ls) :
                   Owns(t, i, p) /\ ls[p].name = x => ls[p].decl = t[i].names[x]
  <2>1. CASE i \in 1..n
    <3>1. /\ s[i].names[x] # 0 =>
                \E p \in 1..Len(ls) : Owns(s, i, p) /\ ls[p].name = x
          /\ \A p \in 1..Len(ls) :
                Owns(s, i, p) /\ ls[p].name = x => ls[p].decl = s[i].names[x]
      BY <2>1, Zenon DEF NameInv, n
    <3>2. t[i] = s[i] /\ \A p \in 1..Len(ls) : Owns(t, i, p) <=> Owns(s, i, p)
      BY <1>1, <1>2, <2>1, Zenon
    <3> QED
      BY <3>1, <3>2, Zenon
  <2>2. CASE i = n + 1
    BY <1>1, <1>3, <2>2, Zenon
  <2> QED
    BY <1>4, <2>1, <2>2
<1>6. NameInv(t, ls)
  BY <1>1, <1>5, Zenon DEF NameInv
<1> QED
  BY <1>6 DEF t

LEMMA PopNames ==
    ASSUME NEW s \in Seq(Call), NEW f \in Call, NEW ls \in Seq(Local),
           NameInv(Append(s, f), ls), f.kind \in Scopes => f.saved_local_count <= Len(ls)
    PROVE  /\ f.kind \in Scopes => NameInv(s, SubSeq(ls, 1, f.saved_local_count))
           /\ f.kind \notin Scopes => NameInv(s, ls)
<1> DEFINE t == Append(s, f)
           n == Len(s)
           k == f.saved_local_count
           ls1 == SubSeq(ls, 1, k)
<1>0. NameInv(t, ls)
  OBVIOUS
<1>1. /\ n \in Nat /\ Len(t) = n + 1 /\ t[n + 1] = f
      /\ \A i \in 1..n : t[i] = s[i]
  BY Pushed
<1>2. k \in Nat
  BY DEF Call
<1>3. f.kind \in Scopes => Len(ls1) = k /\ \A p \in 1..k : ls1[p] = ls[p]
  BY <1>2, Prefix
<1>4. \A i \in 1..n : \A p : (f.kind \in Scopes => p <= k) => (Owns(t, i, p) <=> Owns(s, i, p))
  BY OwnsPushed
<1>5. f.kind \in Scopes => \A p \in 1..k : p \in 1..Len(ls) /\ p <= k
  BY <1>2
<1>6. \A p \in 1..Len(ls) : p <= k => p \in 1..k
  BY <1>2
<1> HIDE DEF t, n, ls1, k
<1>7. \A i \in 1..n : i \in 1..Len(t) /\ n + 1 \in (i + 1)..Len(t)
  BY <1>1
<1>8. CASE f.kind \notin Scopes
  <2>1. \A i \in 1..n : \A p : Owns(t, i, p) <=> Owns(s, i, p)
    BY <1>4, <1>8, Zenon
  <2>2. ASSUME NEW i \in 1..n, NEW x \in Names
        PROVE  /\ s[i].names[x] # 0 =>
                     \E p \in 1..Len(ls) : Owns(s, i, p) /\ ls[p].name = x
               /\ \A p \in 1..Len(ls) :
                     Owns(s, i, p) /\ ls[p].name = x => ls[p].decl = s[i].names[x]
    <3>1. t[i] = s[i] /\ i \in 1..Len(t)
      BY <1>1, <1>7, Zenon
    <3>2. /\ t[i].names[x] # 0 =>
                \E p \in 1..Len(ls) : Owns(t, i, p) /\ ls[p].name = x
          /\ \A p \in 1..Len(ls) :
                Owns(t, i, p) /\ ls[p].name = x => ls[p].decl = t[i].names[x]
      BY <1>0, <3>1, Zenon DEF NameInv
    <3> QED
      BY <2>1, <3>1, <3>2, Zenon
  <2>3. NameInv(s, ls)
    BY <1>0, <2>2, Zenon DEF NameInv, n
  <2> QED
    BY <1>8, <2>3
<1>9. CASE f.kind \in Scopes
  <2>1. \A i \in 1..n : \A p \in 1..k : Owns(t, i, p) <=> Owns(s, i, p)
    BY <1>4, <1>5, <1>9, Zenon
  <2>2. \A i \in 1..n : \A p : Owns(t, i, p) => p <= k
    BY <1>1, <1>7, <1>9, Zenon DEF Owns, k
  <2>3. \A p \in 1..Len(ls1) : ls1[p].decl # 0
    BY <1>0, <1>3, <1>5, <1>9, Zenon DEF NameInv
  <2>4. ASSUME NEW i \in 1..n, NEW x \in Names
        PROVE  /\ s[i].names[x] # 0 =>
                     \E p \in 1..Len(ls1) : Owns(s, i, p) /\ ls1[p].name = x
               /\ \A p \in 1..Len(ls1) :
                     Owns(s, i, p) /\ ls1[p].name = x => ls1[p].decl = s[i].names[x]
    <3>0. t[i] = s[i] /\ i \in 1..Len(t)
      BY <1>1, <1>7, Zenon
    <3>1. /\ s[i].names[x] # 0 =>
                \E p \in 1..Len(ls) : Owns(t, i, p) /\ ls[p].name = x
          /\ \A p \in 1..Len(ls) :
                Owns(t, i, p) /\ ls[p].name = x => ls[p].decl = s[i].names[x]
      <4>1. /\ t[i].names[x] # 0 =>
                  \E p \in 1..Len(ls) : Owns(t, i, p) /\ ls[p].name = x
            /\ \A p \in 1..Len(ls) :
                  Owns(t, i, p) /\ ls[p].name = x => ls[p].decl = t[i].names[x]
        BY <1>0, <3>0, Zenon DEF NameInv
      <4> QED
        BY <3>0, <4>1, Zenon
    <3>2. ASSUME NEW p \in 1..Len(ls), Owns(t, i, p), ls[p].name = x
          PROVE  \E q \in 1..Len(ls1) : Owns(s, i, q) /\ ls1[q].name = x
      <4>1. p \in 1..k
        BY <1>6, <2>2, <3>2, Zenon
      <4>2. Owns(s, i, p) /\ ls1[p].name = x
        BY <1>3, <1>9, <2>1, <3>2, <4>1, Zenon
      <4>3. p \in 1..Len(ls1)
        BY <1>3, <1>9, <4>1, Zenon
      <4> QED
        BY <4>2, <4>3, Zenon
    <3>3. ASSUME NEW p \in 1..Len(ls1), Owns(s, i, p), ls1[p].name = x
          PROVE  ls1[p].decl = s[i].names[x]
      BY <1>3, <1>5, <1>9, <2>1, <3>1, <3>3, Zenon
    <3> QED
      BY <3>1, <3>2, <3>3, Zenon
  <2>5. NameInv(s, ls1)
    BY <2>3, <2>4, Zenon DEF NameInv, n
  <2> QED
    BY <1>9, <2>5 DEF ls1, k
<1> QED
  BY <1>8, <1>9

-----------------------------------------------------------------------------
(***************************************************************************)
(* Calls that differ in what the tables do not mirror.                     *)
(***************************************************************************)
SameShape(s, t) ==
    /\ Len(t) = Len(s)
    /\ \A i \in 1..Len(s) :
          /\ t[i].kind = s[i].kind /\ t[i].id = s[i].id
          /\ t[i].saved_scope_start = s[i].saved_scope_start
          /\ t[i].saved_local_count = s[i].saved_local_count

LEMMA ShapeCount ==
    ASSUME NEW s \in Seq(Call), NEW t \in Seq(Call), SameShape(s, t), NEW ss
    PROVE  /\ \A k \in 0..Len(s) : \A kinds : Count(t, k, kinds) = Count(s, k, kinds)
           /\ \A k \in 0..Len(s) : Depth(t, k) = Depth(s, k)
           /\ \A i \in 1..Len(s) : Entries(t, ss, i) = Entries(s, ss, i)
           /\ \A i \in 1..Len(s) : Slots(t, ss, i) = Slots(s, ss, i)
<1>1. \A k \in 0..Len(s) : \A kinds : Count(t, k, kinds) = Count(s, k, kinds)
  BY CountSame DEF SameShape
<1>2. \A k \in 0..Len(s) : Depth(t, k) = Depth(s, k)
  BY <1>1 DEF Depth
<1>3. \A i \in 1..Len(s) : i \in 0..Len(s)
  OBVIOUS
<1>4. \A i \in 1..Len(s) : Entries(t, ss, i) = Entries(s, ss, i)
  BY <1>2, <1>3, Zenon DEF Entries
<1>5. \A i \in 1..Len(s) : Slots(t, ss, i) = Slots(s, ss, i)
  BY <1>4, Zenon DEF Slots, SameShape
<1> QED
  BY <1>1, <1>2, <1>4, <1>5, Zenon

LEMMA ShapeTables ==
    ASSUME NEW s \in Seq(Call), NEW t \in Seq(Call), SameShape(s, t),
           NEW bs, NEW ss, NEW lc, NEW start, NEW len, NEW c,
           NestInv(s, bs, ss), NumberInv(s, ss, lc), ScopeInv(s, start, len), StartInv(s, c),
           \A i \in 1..Len(s) : s[i].kind = "switch" => t[i].cases <= Len(Entries(s, ss, i))
    PROVE  /\ NestInv(t, bs, ss) /\ NumberInv(t, ss, lc) /\ ScopeInv(t, start, len)
           /\ StartInv(t, c)
<1>1. /\ Len(s) \in Nat /\ Len(t) = Len(s)
      /\ \A i \in 1..Len(s) : i \in 0..Len(s) /\ i - 1 \in 0..Len(s)
      /\ Len(s) \in 0..Len(s)
  BY DEF SameShape
<1>2. /\ \A k \in 0..Len(s) : \A kinds : Count(t, k, kinds) = Count(s, k, kinds)
      /\ \A k \in 0..Len(s) : Depth(t, k) = Depth(s, k)
      /\ \A i \in 1..Len(s) : Entries(t, ss, i) = Entries(s, ss, i)
      /\ \A i \in 1..Len(s) : Slots(t, ss, i) = Slots(s, ss, i)
  BY ShapeCount
<1>3. \A i \in 1..Len(s) : /\ t[i].kind = s[i].kind /\ t[i].id = s[i].id
                           /\ t[i].saved_scope_start = s[i].saved_scope_start
                           /\ t[i].saved_local_count = s[i].saved_local_count
                           /\ BreakFrame(t[i]) = BreakFrame(s[i])
  BY DEF SameShape, BreakFrame
<1>4. NestInv(t, bs, ss)
  <2>1. Len(bs) = Count(t, Len(t), Breakable) /\ Len(ss) = Depth(t, Len(t))
    BY <1>1, <1>2, Zenon DEF NestInv
  <2>2. \A i \in 1..Len(t) :
          t[i].kind \in Breakable => bs[Count(t, i, Breakable)] = BreakFrame(t[i])
    <3> TAKE i \in 1..Len(t)
    <3> HAVE t[i].kind \in Breakable
    <3>1. i \in 1..Len(s) /\ s[i].kind \in Breakable /\ BreakFrame(t[i]) = BreakFrame(s[i])
      BY <1>1, <1>3, Zenon
    <3>2. Count(t, i, Breakable) = Count(s, i, Breakable)
      BY <1>1, <1>2, <3>1, Zenon
    <3>3. bs[Count(s, i, Breakable)] = BreakFrame(s[i])
      BY <3>1, Zenon DEF NestInv
    <3> QED
      BY <3>1, <3>2, <3>3, Zenon
  <2>3. \A i \in 1..Len(t) : t[i].kind = "switch" =>
              /\ t[i].cases <= Len(Entries(t, ss, i))
              /\ \A k \in 1..Len(Entries(t, ss, i)) :
                    Entries(t, ss, i)[k].label = t[i].id + k
    <3> TAKE i \in 1..Len(t)
    <3> HAVE t[i].kind = "switch"
    <3>1. i \in 1..Len(s) /\ s[i].kind = "switch" /\ Entries(t, ss, i) = Entries(s, ss, i)
          /\ t[i].id = s[i].id
      BY <1>1, <1>2, <1>3, Zenon
    <3>2. \A k \in 1..Len(Entries(s, ss, i)) : Entries(s, ss, i)[k].label = s[i].id + k
      BY <3>1, Zenon DEF NestInv
    <3> QED
      BY <3>1, <3>2, Zenon
  <2> QED
    BY <2>1, <2>2, <2>3, Zenon DEF NestInv
<1>5. NumberInv(t, ss, lc)
  BY <1>1, <1>2, <1>3, Zenon DEF NumberInv
<1>6. ScopeInv(t, start, len)
  <2>1. \A k \in 0..Len(s) : \A x : StartsAt(s, k, x) => StartsAt(t, k, x)
    BY <1>1, <1>3, StartsSame
  <2> QED
    BY <1>1, <1>3, <2>1, Zenon DEF ScopeInv
<1>7. StartInv(t, c)
  BY <1>1, <1>2, <1>3, Zenon DEF StartInv, HasLabel
<1> QED
  BY <1>4, <1>5, <1>6, <1>7

LEMMA ShapeOwns ==
    ASSUME NEW s \in Seq(Call), NEW t \in Seq(Call), SameShape(s, t), NEW i \in 1..Len(s), NEW p
    PROVE  Owns(t, i, p) <=> Owns(s, i, p)
<1>1. \A j \in (i + 1)..Len(s) : j \in 1..Len(s)
  OBVIOUS
<1> QED
  BY <1>1, Zenon DEF Owns, SameShape

\* The labels to come depend on the cases met and on the else branch.
LEMMA ShapePending ==
    ASSUME NEW s \in Seq(Call), NEW t \in Seq(Call), SameShape(s, t), NEW ss,
           \A i \in 1..Len(s) : t[i].cases = s[i].cases /\ t[i].opt = s[i].opt
    PROVE  Pending(t, ss) = Pending(s, ss)
<1>1. Len(t) = Len(s) /\ \A i \in 1..Len(s) : i \in 0..Len(s)
  BY DEF SameShape
<1>2. /\ \A k \in 0..Len(s) : Depth(t, k) = Depth(s, k)
      /\ \A i \in 1..Len(s) : Slots(t, ss, i) = Slots(s, ss, i)
  BY ShapeCount
<1>4. \A i \in 1..Len(s) : PendingOf(t[i], Slots(t, ss, i), Depth(t, i)) =
                              PendingOf(s[i], Slots(s, ss, i), Depth(s, i))
  <2> TAKE i \in 1..Len(s)
  <2>1. t[i].kind = s[i].kind /\ t[i].id = s[i].id /\ t[i].opt = s[i].opt
        /\ t[i].cases = s[i].cases
    BY DEF SameShape
  <2>2. Slots(t, ss, i) = Slots(s, ss, i) /\ Depth(t, i) = Depth(s, i)
    BY <1>1, <1>2, Zenon
  <2>3. PendingOf(t[i], Slots(s, ss, i), Depth(s, i)) =
           PendingOf(s[i], Slots(s, ss, i), Depth(s, i))
    <3>1. LabelsLeft(t[i]) = LabelsLeft(s[i])
      BY <2>1, Zenon DEF LabelsLeft
    <3>2. \A prefix, x, d : Coming(prefix, t[i], x, d) = Coming(prefix, s[i], x, d)
      BY <2>1, Zenon DEF Coming
    <3>3. \A d : {Coming(prefix, t[i], t[i].id, d) : prefix \in LabelsLeft(t[i])} =
                    {Coming(prefix, s[i], s[i].id, d) : prefix \in LabelsLeft(s[i])}
      BY <2>1, <3>1, <3>2
    <3>4. \A d, n : {Coming("sec", t[i], t[i].id + k, d) : k \in (t[i].cases + 1)..n} =
                       {Coming("sec", s[i], s[i].id + k, d) : k \in (s[i].cases + 1)..n}
      BY <2>1, <3>2
    <3> QED
      BY <3>3, <3>4, Zenon DEF PendingOf
  <2> QED
    BY <2>2, <2>3, Zenon
<1> QED
  BY <1>1, <1>4, Zenon DEF Pending

-----------------------------------------------------------------------------
(***************************************************************************)
(* All the tables together.                                                *)
(***************************************************************************)
\* A call is opened.
LEMMA OpenTables ==
    ASSUME NEW s, NEW bs, NEW ss, NEW lc, NEW start, NEW ls, Tables(s, bs, ss, lc, start, ls),
           NEW f \in Call, NEW e \in SwitchEntry, EntryOK(f, e), NEW lc2 \in Nat, lc <= lc2,
           f.kind \in Numbered => f.id >= lc /\ f.id + SlotsIn(f, e) < lc2,
           f.saved_scope_start = start, f.saved_local_count = Len(ls),
           \A x \in Names : f.names[x] = 0
    PROVE  Tables(Append(s, f), PushBreak(bs, f), PushSwitch(ss, f, e), lc2,
                  IF f.kind \in Scopes THEN Len(ls) ELSE start, ls)
<1>1. /\ s \in Seq(Call) /\ bs \in Seq(BreakEntry) /\ ss \in Seq(SwitchEntry)
      /\ ls \in Seq(Local) /\ lc \in Nat /\ start \in Nat
      /\ NestInv(s, bs, ss) /\ NumberInv(s, ss, lc)
      /\ ScopeInv(s, start, Len(ls)) /\ NameInv(s, ls)
  BY DEF Tables
<1>2. Append(s, f) \in Seq(Call) /\ PushBreak(bs, f) \in Seq(BreakEntry)
      /\ PushSwitch(ss, f, e) \in Seq(SwitchEntry)
  BY <1>1, BreakFrameType DEF PushBreak, PushSwitch
<1>3. Len(ls) \in Nat /\ (IF f.kind \in Scopes THEN Len(ls) ELSE start) \in Nat
      /\ Len(ss) = Depth(s, Len(s))
  BY <1>1 DEF NestInv
<1>4. NestInv(Append(s, f), PushBreak(bs, f), PushSwitch(ss, f, e))
  BY <1>1, PushNest, Zenon
<1>5. NumberInv(Append(s, f), PushSwitch(ss, f, e), lc2)
  BY <1>1, <1>3, PushNumber, Zenon
<1>6. ScopeInv(Append(s, f), IF f.kind \in Scopes THEN Len(ls) ELSE start, Len(ls))
  BY <1>1, <1>3, PushScope, Zenon
<1>7. NameInv(Append(s, f), ls)
  BY <1>1, PushNames, Zenon
<1> QED
  BY <1>1, <1>2, <1>3, <1>4, <1>5, <1>6, <1>7, Zenon DEF Tables

\* The innermost call returns.
LEMMA CloseTables ==
    ASSUME NEW s, NEW bs, NEW ss, NEW lc, NEW start, NEW ls, Tables(s, bs, ss, lc, start, ls),
           NEW f \in Call, NEW o \in Seq(Call), s = Append(o, f)
    PROVE  /\ f.kind \in Scopes =>
                Tables(o, PopBreakOf(bs, f), PopSwitchOf(ss, f), lc, f.saved_scope_start,
                       SubSeq(ls, 1, f.saved_local_count))
           /\ f.kind \notin Scopes =>
                Tables(o, PopBreakOf(bs, f), PopSwitchOf(ss, f), lc, start, ls)
<1>1. /\ bs \in Seq(BreakEntry) /\ ss \in Seq(SwitchEntry)
      /\ ls \in Seq(Local) /\ lc \in Nat /\ start \in Nat
      /\ NestInv(Append(o, f), bs, ss) /\ NumberInv(Append(o, f), ss, lc)
      /\ ScopeInv(Append(o, f), start, Len(ls)) /\ NameInv(Append(o, f), ls)
  BY DEF Tables
<1>2. /\ NestInv(o, PopBreakOf(bs, f), PopSwitchOf(ss, f))
      /\ PopBreakOf(bs, f) \in Seq(BreakEntry)
      /\ PopSwitchOf(ss, f) \in Seq(SwitchEntry)
      /\ TopEntry(ss, f) \in SwitchEntry
      /\ ss = PushSwitch(PopSwitchOf(ss, f), f, TopEntry(ss, f))
  BY <1>1, PopNest
<1>3. NumberInv(o, PopSwitchOf(ss, f), lc)
  <2>1. PICK e \in SwitchEntry : ss = PushSwitch(PopSwitchOf(ss, f), f, e)
    BY <1>2, Zenon
  <2>2. NumberInv(Append(o, f), PushSwitch(PopSwitchOf(ss, f), f, e), lc)
    BY <1>1, <2>1, Zenon
  <2>3. Len(PopSwitchOf(ss, f)) = Depth(o, Len(o))
    BY <1>2, Zenon DEF NestInv
  <2> QED
    BY <1>1, <1>2, <2>2, <2>3, PopNumber, Zenon
<1>4. Len(ls) \in Nat /\ f.saved_scope_start \in Nat /\ f.saved_local_count \in Nat
  BY <1>1 DEF Call
<1>5. /\ f.kind \in Scopes => /\ ScopeInv(o, f.saved_scope_start, f.saved_local_count)
                              /\ f.saved_local_count <= Len(ls)
      /\ f.kind \notin Scopes => ScopeInv(o, start, Len(ls))
  BY <1>1, <1>4, PopScope, Zenon
<1>6. CASE f.kind \in Scopes
  <2>1. NameInv(o, SubSeq(ls, 1, f.saved_local_count))
    BY <1>1, <1>5, <1>6, PopNames, Zenon
  <2>2. /\ SubSeq(ls, 1, f.saved_local_count) \in Seq(Local)
        /\ Len(SubSeq(ls, 1, f.saved_local_count)) = f.saved_local_count
    BY <1>1, <1>4, <1>5, <1>6, Prefix, Zenon
  <2> QED
    BY <1>1, <1>2, <1>3, <1>4, <1>5, <1>6, <2>1, <2>2, Zenon DEF Tables
<1>7. CASE f.kind \notin Scopes
  <2>1. NameInv(o, ls)
    BY <1>1, <1>7, PopNames, Zenon
  <2> QED
    BY <1>1, <1>2, <1>3, <1>4, <1>5, <1>7, <2>1, Zenon DEF Tables
<1> QED
  BY <1>6, <1>7, Zenon

\* A variable is declared in the innermost scope, the m-th call.
LEMMA AddInner ==
    ASSUME NEW s \in Seq(Call), NEW start \in Nat, NEW ls \in Seq(Local),
           ScopeInv(s, start, Len(ls)), NameInv(s, ls),
           NEW v \in Local, v.decl # 0,
           \A i \in (start + 1)..Len(ls) : ls[i].name # v.name,
           NEW m \in 1..Len(s), s[m].kind \in Scopes,
           \A j \in 1..Len(s) : s[j].kind \in Scopes => j <= m,
           NEW t \in Seq(Call), SameShape(s, t), \A i \in 1..Len(s) : i # m => t[i] = s[i],
           t[m].names[v.name] = v.decl,
           \A x \in Names : x # v.name => t[m].names[x] = s[m].names[x]
    PROVE  NameInv(t, Append(ls, v))
<1> DEFINE ls2 == Append(ls, v)
           L == Len(ls)
           n == v.name
           dn == v.decl
<1>1. /\ s \in Seq(Call) /\ ls \in Seq(Local) /\ start \in Nat
      /\ ScopeInv(s, start, L) /\ NameInv(s, ls)
  OBVIOUS
<1>3. /\ ls2 \in Seq(Local) /\ L \in Nat /\ Len(ls2) = L + 1 /\ ls2[L + 1] = v
      /\ \A p \in 1..L : ls2[p] = ls[p]
  BY <1>1, Pushed
<1> HIDE DEF ls2, L
<1>4. \A p \in 1..(L + 1) : p \in 1..L \/ p = L + 1
  BY <1>3
<1>5. (\A p \in 1..L : p \in 1..(L + 1)) /\ L + 1 \in 1..(L + 1)
  BY <1>3
<1>6. \A p \in 1..(L + 1) : ls2[p].decl # 0
  BY <1>1, <1>3, <1>4 DEF NameInv, L
<1>7. Len(s) \in Nat
  BY <1>1
<1>8. start = s[m].saved_local_count
  <2>1. ASSUME NEW k \in 1..Len(s), s[k].kind \in Scopes, start = s[k].saved_local_count,
               \A i \in (k + 1)..Len(s) : s[i].kind \notin Scopes
        PROVE  start = s[m].saved_local_count
    <3>1. k <= m /\ ~(m \in (k + 1)..Len(s))
      BY <2>1
    <3>2. k = m
      BY <3>1
    <3> QED
      BY <2>1, <3>2
  <2>2. StartsAt(s, Len(s), start)
    BY <1>1 DEF ScopeInv
  <2> QED
    BY <2>1, <2>2 DEF StartsAt
<1>9. \A i \in 1..Len(s) : Owns(s, i, L + 1) <=> i = m
  <2>1. s[m].saved_local_count <= L /\ s[m].saved_local_count \in Nat
    BY <1>1, <1>8 DEF ScopeInv
  <2>2. Owns(s, m, L + 1)
    <3>0. \A j \in (m + 1)..Len(s) : j \in 1..Len(s) /\ ~(j <= m)
      BY <1>7
    <3>1. \A j \in (m + 1)..Len(s) : s[j].kind \notin Scopes
      BY <3>0, Zenon
    <3> QED
      BY <1>3, <2>1, <3>1 DEF Owns
  <2>3. ASSUME NEW i \in 1..Len(s), Owns(s, i, L + 1), i # m PROVE FALSE
    <3>1. i <= m
      BY <2>3 DEF Owns
    <3>2. m \in (i + 1)..Len(s)
      BY <2>3, <3>1
    <3>3. L + 1 <= s[m].saved_local_count
      BY <2>3, <3>2 DEF Owns
    <3> QED
      BY <1>3, <2>1, <3>3
  <2> QED
    BY <2>2, <2>3
<1>10. ASSUME NEW p \in 1..L, Owns(s, m, p) PROVE ls[p].name # n
  <2>1. p \in (start + 1)..L
    BY <1>1, <1>3, <1>8, <1>10 DEF Owns
  <2> QED
    BY <2>1 DEF L
<1>11. \A i \in 1..Len(s) : \A p : Owns(t, i, p) <=> Owns(s, i, p)
  BY <1>1, ShapeOwns
<1>12. ASSUME NEW i \in 1..Len(s), NEW x \in Names
       PROVE  /\ t[i].names[x] # 0 =>
                   \E p \in 1..(L + 1) : Owns(t, i, p) /\ ls2[p].name = x
              /\ \A p \in 1..(L + 1) :
                   Owns(t, i, p) /\ ls2[p].name = x => ls2[p].decl = t[i].names[x]
  <2>1. /\ s[i].names[x] # 0 =>
              \E p \in 1..L : Owns(s, i, p) /\ ls[p].name = x
        /\ \A p \in 1..L :
              Owns(s, i, p) /\ ls[p].name = x => ls[p].decl = s[i].names[x]
    BY <1>1, Zenon DEF NameInv, L
  <2>2. CASE i = m /\ x = n
    <3>1. Owns(t, i, L + 1) /\ ls2[L + 1].name = x
      BY <1>3, <1>9, <1>11, <2>2, Zenon
    <3>2. ASSUME NEW p \in 1..(L + 1), Owns(t, i, p), ls2[p].name = x
          PROVE  ls2[p].decl = t[i].names[x]
      <4>1. p \notin 1..L
        BY <1>3, <1>10, <1>11, <2>2, <3>2, Zenon
      <4>2. p = L + 1
        BY <1>4, <4>1, Zenon
      <4> QED
        BY <1>3, <2>2, <4>2, Zenon
    <3> QED
      BY <1>5, <3>1, <3>2, Zenon
  <2>3. CASE ~(i = m /\ x = n)
    <3>1. t[i].names[x] = s[i].names[x]
      BY <2>3, Zenon
    <3>2. ASSUME NEW p \in 1..L, Owns(s, i, p), ls[p].name = x
          PROVE  \E q \in 1..(L + 1) : Owns(t, i, q) /\ ls2[q].name = x
      <4>1. p \in 1..(L + 1) /\ Owns(t, i, p) /\ ls2[p].name = x
        BY <1>3, <1>5, <1>11, <3>2, Zenon
      <4> QED
        BY <4>1, Zenon
    <3>3. ASSUME NEW p \in 1..(L + 1), Owns(t, i, p), ls2[p].name = x
          PROVE  ls2[p].decl = t[i].names[x]
      <4>1. p # L + 1
        BY <1>3, <1>9, <1>11, <2>3, <3>3, Zenon
      <4>2. p \in 1..L
        BY <1>4, <4>1, Zenon
      <4>3. ls2[p] = ls[p] /\ Owns(s, i, p)
        BY <1>3, <1>11, <3>3, <4>2, Zenon
      <4> QED
        BY <2>1, <3>1, <3>3, <4>2, <4>3, Zenon
    <3> QED
      BY <2>1, <3>1, <3>2, <3>3, Zenon
  <2> QED
    BY <2>2, <2>3, Zenon
<1>13. NameInv(t, ls2)
  <2>1. Len(t) = Len(s) /\ Len(ls2) = L + 1
    BY <1>3 DEF SameShape
  <2> QED
    BY <1>6, <1>12, <2>1 DEF NameInv
<1> QED
  BY <1>13 DEF ls2

\* What AddVar does to the open calls, and to locals.
Noted(s, t, n, dn) ==
    LET scopes == {i \in DOMAIN s : s[i].kind \in Scopes}
    IN t = IF scopes = {} THEN s ELSE [s EXCEPT ![Max(scopes)].names[n] = dn]
IsVar(v, n, dn) == v \in Local /\ v.name = n /\ v.decl = dn /\ dn \in Nat /\ dn # 0
NewName(ls, start, n) == ~ \E i \in (start + 1)..Len(ls) : ls[i].name = n

\* A variable is declared.
LEMMA AddTables ==
    ASSUME NEW s, NEW bs, NEW ss, NEW lc, NEW start, NEW ls, Tables(s, bs, ss, lc, start, ls),
           NEW c, StartInv(s, c), NEW n \in Names, NEW dn, NEW v, IsVar(v, n, dn),
           NewName(ls, start, n), NEW t, Noted(s, t, n, dn)
    PROVE  /\ Tables(t, bs, ss, lc, start, Append(ls, v))
           /\ StartInv(t, c) /\ Pending(t, ss) = Pending(s, ss)
           /\ Len(t) = Len(s) /\ Depth(t, Len(t)) = Depth(s, Len(s))
<1>0. PICK scopes : /\ scopes = {i \in DOMAIN s : s[i].kind \in Scopes}
                    /\ scopes = {} => t = s
                    /\ scopes # {} => t = [s EXCEPT ![Max(scopes)].names[n] = dn]
  BY DEF Noted
<1>1. /\ s \in Seq(Call) /\ bs \in Seq(BreakEntry) /\ ss \in Seq(SwitchEntry)
      /\ ls \in Seq(Local) /\ lc \in Nat /\ start \in Nat
      /\ NestInv(s, bs, ss) /\ NumberInv(s, ss, lc)
      /\ ScopeInv(s, start, Len(ls)) /\ NameInv(s, ls)
  BY DEF Tables
<1>2. v \in Local /\ v.name = n /\ v.decl = dn /\ dn \in Nat /\ dn # 0
  BY DEF IsVar
<1> DEFINE ls2 == Append(ls, v)
           L == Len(ls)
<1>3. /\ ls2 \in Seq(Local) /\ L \in Nat /\ Len(ls2) = L + 1 /\ ls2[L + 1] = v
      /\ \A p \in 1..L : ls2[p] = ls[p]
  BY <1>1, <1>2, Pushed
<1>5. DOMAIN s = 1..Len(s) /\ Len(s) \in Nat
  BY <1>1
<1>6. ScopeInv(s, start, Len(ls2))
  <2>0. L \in Nat /\ Len(ls2) = L + 1 /\ ScopeInv(s, start, L)
    BY <1>1, <1>3
  <2> HIDE DEF ls2, L
  <2>1. \A i \in 1..Len(s) : s[i].kind \in Scopes => s[i].saved_local_count <= Len(ls2)
    <3>1. \A i \in 1..Len(s) : s[i].saved_local_count \in Nat
      BY <1>1, CallType
    <3>2. \A i \in 1..Len(s) : s[i].kind \in Scopes => s[i].saved_local_count <= L
      BY <2>0 DEF ScopeInv
    <3> QED
      BY <2>0, <3>1, <3>2
  <2> QED
    BY <2>0, <2>1, Zenon DEF ScopeInv
<1> HIDE DEF ls2, L
<1>7. CASE scopes = {}
  <2>1. t = s
    BY <1>0, <1>7
  <2>2. \A i \in 1..Len(s) : s[i].kind \notin Scopes
    BY <1>0, <1>5, <1>7
  <2>3. \A i \in 1..Len(s) : \A p : ~Owns(s, i, p)
    BY <2>2 DEF Owns
  <2>4. ASSUME NEW i \in 1..Len(s), NEW x \in Names
        PROVE  s[i].names[x] = 0
    BY <1>1, <2>3 DEF NameInv
  <2>5. NameInv(s, ls2)
    <3>1. \A p \in 1..Len(ls2) : ls2[p].decl # 0
      <4>1. \A p \in 1..Len(ls2) : p \in 1..L \/ p = L + 1
        BY <1>3
      <4> QED
        BY <1>1, <1>2, <1>3, <4>1 DEF NameInv, L
    <3> QED
      BY <2>3, <2>4, <3>1, Zenon DEF NameInv
  <2> QED
    BY <1>1, <1>3, <1>6, <2>1, <2>5, Zenon DEF Tables, ls2
<1>8. CASE scopes # {}
  <2>1. PICK m \in 1..Len(s) : m = Max(scopes) /\ s[m].kind \in Scopes
                                 /\ \A j \in 1..Len(s) : s[j].kind \in Scopes => j <= m
    <3>1. scopes \subseteq 0..Len(s)
      BY <1>0, <1>5
    <3>2. Max(scopes) \in scopes /\ \A y \in scopes : y <= Max(scopes)
      BY <1>5, <1>8, <3>1, MaxIsGreatest, Zenon
    <3> QED
      BY <1>0, <1>5, <3>2
  <2>2. PICK g \in Call :
           /\ g.names[n] = dn /\ \A x \in Names : x # n => g.names[x] = s[m].names[x]
           /\ g.kind = s[m].kind /\ g.id = s[m].id /\ g.opt = s[m].opt
           /\ g.cases = s[m].cases /\ g.saved_scope_start = s[m].saved_scope_start
           /\ g.saved_local_count = s[m].saved_local_count
           /\ t = [s EXCEPT ![m] = g]
    <3>1. PICK h \in Call : h = s[m]
      BY <1>1
    <3>2. h.names \in [Names -> Nat]
      BY DEF Call
    <3> DEFINE g == [h EXCEPT !.names[n] = dn]
    <3>3. g \in Call
      BY <1>2 DEF Call
    <3>4. /\ g.names[n] = dn /\ \A x \in Names : x # n => g.names[x] = h.names[x]
          /\ g.kind = h.kind /\ g.id = h.id /\ g.opt = h.opt
          /\ g.cases = h.cases /\ g.saved_scope_start = h.saved_scope_start
          /\ g.saved_local_count = h.saved_local_count
      BY <3>2 DEF Call
    <3>5. t = [s EXCEPT ![m] = g]
      BY <1>0, <1>8, <2>1, <3>1
    <3> HIDE DEF g
    <3> QED
      BY <3>1, <3>3, <3>4, <3>5
  <2>3. PICK u \in Seq(Call) : /\ u = t /\ Len(u) = Len(s) /\ u[m] = g
                               /\ \A i \in 1..Len(s) : i # m => u[i] = s[i]
    <3>1. s \in Seq(Call)
      BY <1>1
    <3>2. /\ [s EXCEPT ![m] = g] \in Seq(Call) /\ Len([s EXCEPT ![m] = g]) = Len(s)
          /\ [s EXCEPT ![m] = g][m] = g
          /\ \A i \in 1..Len(s) : i # m => [s EXCEPT ![m] = g][i] = s[i]
      BY <3>1, Replaced
    <3> QED
      BY <2>2, <3>2
  <2>4. SameShape(s, u) /\ \A i \in 1..Len(s) : u[i].cases = s[i].cases /\ u[i].opt = s[i].opt
    BY <2>2, <2>3 DEF SameShape
  <2>5. NameInv(u, ls2)
    <3>1. u[m].names[n] = dn /\ \A x \in Names : x # n => u[m].names[x] = s[m].names[x]
      BY <2>2, <2>3
    <3>2. s[m].kind \in Scopes /\ \A j \in 1..Len(s) : s[j].kind \in Scopes => j <= m
      BY <2>1
    <3>3. \A i \in 1..Len(s) : i # m => u[i] = s[i]
      BY <2>3
    <3>4. SameShape(s, u)
      BY <2>4
    <3>5. /\ v.decl # 0 /\ \A i \in (start + 1)..Len(ls) : ls[i].name # v.name
          /\ u[m].names[v.name] = v.decl
          /\ \A x \in Names : x # v.name => u[m].names[x] = s[m].names[x]
      BY <1>2, <3>1 DEF NewName
    <3>6. s \in Seq(Call) /\ start \in Nat /\ ls \in Seq(Local)
          /\ ScopeInv(s, start, Len(ls)) /\ NameInv(s, ls)
      BY <1>1
    <3> QED
      BY <1>2, <3>2, <3>3, <3>4, <3>5, <3>6, AddInner, Zenon DEF ls2
  <2>6. Pending(u, ss) = Pending(s, ss) /\ Depth(u, Len(s)) = Depth(s, Len(s))
    <3>1. Len(s) \in 0..Len(s)
      BY <1>5
    <3>2. Pending(u, ss) = Pending(s, ss)
      BY <1>1, <2>4, ShapePending
    <3>3. Depth(u, Len(s)) = Depth(s, Len(s))
      BY <1>1, <2>4, <3>1, ShapeCount
    <3> QED
      BY <3>2, <3>3
  <2>7. /\ NestInv(u, bs, ss) /\ NumberInv(u, ss, lc) /\ ScopeInv(u, start, Len(ls2))
        /\ StartInv(u, c)
    <3>1. \A i \in 1..Len(s) : s[i].kind = "switch" => u[i].cases <= Len(Entries(s, ss, i))
      BY <1>1, <2>4 DEF NestInv
    <3> QED
      BY <1>1, <1>6, <2>4, <3>1, ShapeTables
  <2>8. Tables(u, bs, ss, lc, start, ls2)
    BY <1>1, <1>3, <2>5, <2>7, Zenon DEF Tables
  <2> QED
    BY <2>3, <2>6, <2>7, <2>8 DEF ls2
<1> QED
  BY <1>7, <1>8

-----------------------------------------------------------------------------
(***************************************************************************)
(* The labels that are to come, and those of the open loops.               *)
(***************************************************************************)
LEMMA ComingIs ==
    ASSUME NEW prefix, NEW f, NEW n, NEW d, NEW r, r = Coming(prefix, f, n, d)
    PROVE  r.to = <<prefix, n>> /\ r.to[1] = prefix /\ r.to[2] = n
           /\ r.owner = f.id /\ r.depth = d
  BY DEF Coming

\* The labels a call has still to emit carry its own numbers.
LEMMA PendingOfIs ==
    ASSUME NEW f \in Call, NEW k \in Nat, f.kind # "switch" => k = 0, NEW d,
           NEW r \in PendingOf(f, k, d)
    PROVE  /\ f.kind \in Numbered /\ r.to = <<r.to[1], r.to[2]>> /\ r.to[1] # "usr"
           /\ r.to[2] \in Nat /\ f.id <= r.to[2] /\ r.to[2] <= f.id + k
           /\ r.to[1] = "sec" => f.id < r.to[2] /\ f.kind = "switch"
           /\ r.to[1] # "sec" => r.to[2] = f.id /\ r.to[1] \in LabelsLeft(f)
           /\ r = Coming(r.to[1], f, r.to[2], d)
<1>0. f.id \in Nat /\ f.cases \in Nat
  BY DEF Call
<1>1. ASSUME NEW prefix \in LabelsLeft(f), r = Coming(prefix, f, f.id, d)
      PROVE  /\ f.kind \in Numbered /\ r.to = <<r.to[1], r.to[2]>> /\ r.to[1] # "usr"
             /\ r.to[2] \in Nat /\ f.id <= r.to[2] /\ r.to[2] <= f.id + k
             /\ r.to[1] # "sec"
             /\ r.to[2] = f.id /\ r.to[1] \in LabelsLeft(f)
             /\ r = Coming(r.to[1], f, r.to[2], d)
  <2>1. f.kind \in Numbered /\ prefix # "usr" /\ prefix # "sec"
    BY DEF LabelsLeft, Numbered, Breakable, Loops
  <2>2. r.to = <<prefix, f.id>> /\ r.to[1] = prefix /\ r.to[2] = f.id
    BY <1>1, ComingIs
  <2> QED
    BY <1>0, <1>1, <2>1, <2>2
<1>2. ASSUME NEW j \in (f.cases + 1)..k, r = Coming("sec", f, f.id + j, d)
      PROVE  /\ f.kind \in Numbered /\ r.to = <<r.to[1], r.to[2]>> /\ r.to[1] # "usr"
             /\ r.to[2] \in Nat /\ f.id <= r.to[2] /\ r.to[2] <= f.id + k
             /\ f.id < r.to[2] /\ f.kind = "switch" /\ r.to[1] = "sec"
             /\ r = Coming(r.to[1], f, r.to[2], d)
  <2>1. j > 0 /\ j <= k /\ k # 0
    BY <1>0
  <2>2. f.kind = "switch" /\ f.kind \in Numbered
    BY <2>1 DEF Numbered, Breakable
  <2>3. r.to = <<"sec", f.id + j>> /\ r.to[1] = "sec" /\ r.to[2] = f.id + j
    BY <1>2, ComingIs
  <2> QED
    BY <1>0, <1>2, <2>1, <2>2, <2>3
<1>3. \/ \E prefix \in LabelsLeft(f) : r = Coming(prefix, f, f.id, d)
      \/ \E j \in (f.cases + 1)..k : r = Coming("sec", f, f.id + j, d)
  BY DEF PendingOf
<1> QED
  BY <1>1, <1>2, <1>3, Zenon

LEMMA PendingOfDiffer ==
    ASSUME NEW f \in Call, NEW k \in Nat, f.kind # "switch" => k = 0, NEW d,
           NEW r \in PendingOf(f, k, d), NEW q \in PendingOf(f, k, d), r.to = q.to
    PROVE  r = q
<1>1. r = Coming(r.to[1], f, r.to[2], d)
  BY PendingOfIs, Zenon
<1>2. q = Coming(q.to[1], f, q.to[2], d)
  BY PendingOfIs, Zenon
<1> QED
  BY <1>1, <1>2, Zenon

LEMMA SlotsInNat ==
    ASSUME NEW f, NEW e \in SwitchEntry
    PROVE  SlotsIn(f, e) \in Nat /\ (f.kind # "switch" => SlotsIn(f, e) = 0)
<1>1. e.entries \in Seq([kind : {"case", "default"}, label : Nat])
  BY DEF SwitchEntry
<1> QED
  BY <1>1 DEF SlotsIn

\* A call is opened: labels with new numbers are to come.
LEMMA OpenPending ==
    ASSUME NEW c, NEW s \in Seq(Call), NEW ss \in Seq(SwitchEntry), Len(ss) = Depth(s, Len(s)),
           NEW lc \in Nat, NEW d \in Int, NEW U, CodeInv(c, Pending(s, ss), lc, d, U),
           NEW f \in Call, NEW e \in SwitchEntry, NEW lc2 \in Nat, lc <= lc2,
           f.kind \in Numbered => f.id >= lc /\ f.id + SlotsIn(f, e) < lc2,
           NEW d2, d2 = Depth(Append(s, f), Len(s) + 1)
    PROVE  /\ CodeInv(c, Pending(Append(s, f), PushSwitch(ss, f, e)), lc2, d, U)
           /\ Pending(Append(s, f), PushSwitch(ss, f, e)) =
                 Pending(s, ss) \cup PendingOf(f, SlotsIn(f, e), d2)
<1> DEFINE R == PendingOf(f, SlotsIn(f, e), d2)
           k == SlotsIn(f, e)
<1>1. k \in Nat /\ (f.kind # "switch" => k = 0)
  BY SlotsInNat
<1>2. Pending(Append(s, f), PushSwitch(ss, f, e)) = Pending(s, ss) \cup R
  BY PushPending
<1>3. f.id \in Nat
  BY DEF Call
<1> HIDE DEF k
<1>4. ASSUME NEW r \in PendingOf(f, k, d2)
      PROVE  /\ r.to[1] # "usr" /\ r.to[2] \in Nat
             /\ lc <= r.to[2] /\ r.to[2] < lc2
             /\ r.to = <<r.to[1], r.to[2]>>
  <2>1. /\ f.kind \in Numbered /\ r.to = <<r.to[1], r.to[2]>> /\ r.to[1] # "usr"
        /\ r.to[2] \in Nat /\ f.id <= r.to[2] /\ r.to[2] <= f.id + k
    BY <1>1, PendingOfIs, Zenon
  <2>2. lc <= f.id /\ f.id + k < lc2
    BY <2>1 DEF k
  <2>3. lc <= r.to[2] /\ r.to[2] < lc2
    BY <1>1, <1>3, <2>1, <2>2
  <2> QED
    BY <2>1, <2>3
<1>5. ASSUME NEW r \in PendingOf(f, k, d2), NEW q \in PendingOf(f, k, d2), r.to = q.to
      PROVE  r = q
  BY <1>1, <1>5, PendingOfDiffer, Zenon
<1>6. R = PendingOf(f, k, d2)
  BY DEF k
<1> HIDE DEF R
<1>7. CodeInv(c, Pending(s, ss) \cup R, lc2, d, U)
  <2>1. \A r \in R : /\ r.to[1] # "usr" /\ r.to[2] \in Nat
                     /\ lc <= r.to[2] /\ r.to[2] < lc2
                     /\ r.to = <<r.to[1], r.to[2]>>
    BY <1>4, <1>6, Zenon
  <2>2. \A r, q \in R : r.to = q.to => r = q
    BY <1>5, <1>6, Zenon
  <2> QED
    BY <2>1, <2>2, Announce, Zenon
<1> QED
  BY <1>2, <1>7, Zenon DEF R

\* The labels of the outer calls have smaller numbers than those of the innermost.
LEMMA ClosePending ==
    ASSUME NEW o \in Seq(Call), NEW f \in Call, NEW ss \in Seq(SwitchEntry),
           NEW e \in SwitchEntry, Len(ss) = Depth(o, Len(o)), NEW lc \in Nat,
           NumberInv(Append(o, f), PushSwitch(ss, f, e), lc), f.kind \in Numbered
    PROVE  \A r \in Pending(o, ss) : r.to[2] \in Nat /\ r.to[2] < f.id
<1>1. \A i \in 1..Len(o) : o[i].kind \in Numbered => o[i].id + Slots(o, ss, i) < f.id
  BY PopNumber, Zenon
<1> SUFFICES ASSUME NEW r \in Pending(o, ss)
             PROVE  r.to[2] \in Nat /\ r.to[2] < f.id
  OBVIOUS
<1>2. PICK i \in 1..Len(o) : r \in PendingOf(o[i], Slots(o, ss, i), Depth(o, i))
  BY Zenon DEF Pending
<1>3. o[i] \in Call /\ o[i].id \in Nat /\ f.id \in Nat
  BY CallType DEF Call
<1>4. Slots(o, ss, i) \in Nat /\ (o[i].kind # "switch" => Slots(o, ss, i) = 0)
  <2>1. Slots(o, ss, i) \in Nat
    BY SlotsNat
  <2> QED
    BY <2>1 DEF Slots
<1>5. /\ o[i].kind \in Numbered /\ r.to[2] \in Nat /\ r.to[2] <= o[i].id + Slots(o, ss, i)
  BY <1>2, <1>3, <1>4, PendingOfIs, Zenon
<1>6. o[i].id + Slots(o, ss, i) < f.id
  BY <1>1, <1>5, Zenon
<1> QED
  BY <1>3, <1>4, <1>5, <1>6

\* The labels that the loops have emitted.
LEMMA StartStays ==
    ASSUME NEW s, NEW c \in Seq(Instr), NEW c2 \in Seq(Instr), Extends(c, c2), StartInv(s, c)
    PROVE  StartInv(s, c2)
<1>1. \A q \in 1..Len(c) : q \in 1..Len(c2) /\ c2[q] = c[q]
  BY DEF Extends
<1> QED
  BY <1>1, ZenonT(40) DEF StartInv, HasLabel

LEMMA StartPushed ==
    ASSUME NEW s \in Seq(Call), NEW f \in Call, NEW c
    PROVE  LET t == Append(s, f)
               d == Depth(t, Len(s) + 1)
           IN StartInv(t, c) <=>
                /\ StartInv(s, c)
                /\ f.kind \in Loops => Has(c, Coming("start", f, f.id, d))
                /\ f.kind = "while" => Has(c, Coming("continue", f, f.id, d))
<1> DEFINE t == Append(s, f)
           n == Len(s)
           d == Depth(t, n + 1)
<1>1. /\ n \in Nat /\ Len(t) = n + 1 /\ t[n + 1] = f
      /\ \A i \in 1..n : t[i] = s[i]
  BY Pushed
<1>2. \A i \in 1..n : Depth(t, i) = Depth(s, i)
  BY <1>1, CountPushed DEF Depth
<1>3. \A i : i \in 1..(n + 1) <=> i \in 1..n \/ i = n + 1
  BY <1>1
<1>4. \A prefix : Has(c, Coming(prefix, f, f.id, d)) <=> HasLabel(c, prefix, f, d)
  <2> TAKE prefix
  <2>1. \A x : Is(x, Coming(prefix, f, f.id, d)) <=>
                  IsLabel(x) /\ x.to = <<prefix, f.id>> /\ x.owner = f.id /\ x.depth = d
    <3> HIDE DEF d
    <3> QED
      BY DEF Is, Coming
  <2> QED
    BY <2>1, Zenon DEF Has, HasLabel
<1> DEFINE P(g, h) == /\ g.kind \in Loops => HasLabel(c, "start", g, h)
                      /\ g.kind = "while" => HasLabel(c, "continue", g, h)
<1>5. StartInv(t, c) <=> \A i \in 1..(n + 1) : P(t[i], Depth(t, i))
  BY <1>1, Zenon DEF StartInv
<1>6. StartInv(s, c) <=> \A i \in 1..n : P(s[i], Depth(s, i))
  BY Zenon DEF StartInv
<1>7. P(f, d) <=> /\ f.kind \in Loops => Has(c, Coming("start", f, f.id, d))
                  /\ f.kind = "while" => Has(c, Coming("continue", f, f.id, d))
  BY <1>4, Zenon
<1> HIDE DEF P, t, n
<1>8. StartInv(t, c) <=> StartInv(s, c) /\ P(f, d)
  BY <1>1, <1>2, <1>3, <1>5, <1>6, Zenon
<1> QED
  BY <1>7, <1>8, Zenon DEF t, n

-----------------------------------------------------------------------------
(***************************************************************************)
(* The labels of one call, emitted one by one.                             *)
(***************************************************************************)

\* Labels of call f with these prefixes.
Own(f, prefixes, d) == {Coming(prefix, f, f.id, d) : prefix \in prefixes}

OwnPrefixes == {"start", "continue", "stop", "break", "else", "end"}

\* The numbers of all labels in P are smaller than that of f.
Below(P, f) == \A r \in P : r.to[2] \in Nat /\ r.to[2] < f.id

LEMMA Assoc ==
    ASSUME NEW c \in Seq(Instr), NEW a \in Seq(Instr), NEW b \in Seq(Instr)
    PROVE  c \o (a \o b) = (c \o a) \o b
<1>1. (c \o a) \o b = c \o (a \o b)
  BY ConcatAssociative
<1> QED
  BY <1>1

LEMMA Two ==
    ASSUME NEW c \in Seq(Instr), NEW a \in Instr, NEW b \in Instr
    PROVE  c \o <<a, b>> = (c \o <<a>>) \o <<b>>
<1>1. /\ <<a>> \in Seq(Instr) /\ <<b>> \in Seq(Instr) /\ <<a, b>> \in Seq(Instr)
      /\ Len(<<a>>) = 1 /\ Len(<<a, b>>) = 2
      /\ <<a, b>>[1] = a /\ <<a, b>>[2] = b /\ <<a>>[1] = a
  OBVIOUS
<1>2. /\ Append(<<a>>, b) \in Seq(Instr) /\ Len(Append(<<a>>, b)) = 2
      /\ Append(<<a>>, b)[1] = a /\ Append(<<a>>, b)[2] = b
  BY AppendProperties
<1>3. \A i \in 1..2 : Append(<<a>>, b)[i] = <<a, b>>[i]
  <2>1. \A i \in 1..2 : i = 1 \/ i = 2
    OBVIOUS
  <2> QED
    BY <1>1, <1>2, <2>1
<1>4. Append(<<a>>, b) = <<a, b>>
  BY <1>1, <1>2, <1>3, SeqEqual
<1>5. Append(<<a>>, b) = <<a>> \o <<b>>
  BY <1>1, AppendIsConcat
<1>6. c \o (<<a>> \o <<b>>) = (c \o <<a>>) \o <<b>>
  BY <1>1, Assoc, Zenon
<1> QED
  BY <1>4, <1>5, <1>6, Zenon

LEMMA Transitive ==
    ASSUME NEW a \in Seq(Instr), NEW b \in Seq(Instr), NEW c \in Seq(Instr),
           Extends(a, b), Extends(b, c)
    PROVE  Extends(a, c)
<1>1. Len(a) \in Nat /\ Len(b) \in Nat /\ Len(c) \in Nat
  OBVIOUS
<1>2. \A i \in 1..Len(a) : i \in 1..Len(b) /\ b[i] = a[i]
  BY <1>1 DEF Extends
<1>3. \A i \in 1..Len(b) : c[i] = b[i]
  BY DEF Extends
<1>4. Len(a) <= Len(c)
  BY <1>1 DEF Extends
<1> QED
  BY <1>2, <1>3, <1>4, Zenon DEF Extends

LEMMA OwnMinus ==
    ASSUME NEW f \in Call, NEW P, Below(P, f), NEW d, NEW prefix, NEW prefixes
    PROVE  Minus(P \cup Own(f, prefixes, d), <<prefix, f.id>>) =
              P \cup Own(f, prefixes \ {prefix}, d)
<1>0. f.id \in Nat
  BY DEF Call
<1>1. \A r \in P : r.to # <<prefix, f.id>>
  <2> TAKE r \in P
  <2>1. r.to[2] \in Nat /\ r.to[2] < f.id
    BY DEF Below
  <2> QED
    BY <1>0, <2>1
<1>2. \A x : Coming(x, f, f.id, d).to = <<x, f.id>>
  BY ComingIs
<1>3. \A x : <<x, f.id>> = <<prefix, f.id>> <=> x = prefix
  OBVIOUS
<1>4. \A x : Coming(x, f, f.id, d).to = <<prefix, f.id>> <=> x = prefix
  BY <1>2, <1>3, Zenon
<1>5. \A r : r \in Own(f, prefixes, d) /\ r.to # <<prefix, f.id>>
                <=> r \in Own(f, prefixes \ {prefix}, d)
  BY <1>4, Zenon DEF Own
<1> QED
  BY <1>1, <1>5, Zenon DEF Minus

\* Call f emits one of its labels.
LEMMA EmitOwn ==
    ASSUME NEW f \in Call, NEW P, Below(P, f), NEW prefixes, NEW prefix \in OwnPrefixes,
           prefix \in prefixes,
           NEW c, NEW lc \in Nat, NEW d \in Int, NEW U,
           CodeInv(c, P \cup Own(f, prefixes, d), lc, d, U)
    PROVE  LET c2 == c \o <<Lab(prefix, f.id, d)>>
           IN /\ CodeInv(c2, P \cup Own(f, prefixes \ {prefix}, d), lc, d, U)
              /\ Extends(c, c2) /\ Has(c2, Coming(prefix, f, f.id, d))
              /\ c \in Seq(Instr) /\ c2 \in Seq(Instr)
<1> DEFINE r == Coming(prefix, f, f.id, d)
           x == Lab(prefix, f.id, d)
<1>1. r.to = <<prefix, f.id>> /\ r.owner = f.id /\ r.depth = d
  BY ComingIs
<1>2. r \in P \cup Own(f, prefixes, d)
  BY Zenon DEF Own
<1>3. x \in Instr
  <2>1. prefix \in LabelPrefixes /\ f.id \in Nat \cup Labels
    BY DEF OwnPrefixes, LabelPrefixes, Call
  <2> QED
    BY <2>1, InsType DEF Lab
<1>4. IsLabel(x) /\ x.to = <<prefix, f.id>> /\ x.owner = f.id /\ x.depth = d
  BY DEF Lab, Ins, IsLabel
<1> HIDE DEF r, x
<1>5. x.to = r.to /\ x.owner = r.owner
  BY <1>1, <1>4, Zenon
<1>6. /\ CodeInv(c \o <<x>>, Minus(P \cup Own(f, prefixes, d), r.to), lc, d, U)
      /\ Extends(c, c \o <<x>>) /\ Has(c \o <<x>>, r)
  BY <1>1, <1>2, <1>3, <1>4, <1>5, EmitLabel, Zenon
<1>7. Minus(P \cup Own(f, prefixes, d), r.to) = P \cup Own(f, prefixes \ {prefix}, d)
  <2>1. Minus(P \cup Own(f, prefixes, d), <<prefix, f.id>>) =
           P \cup Own(f, prefixes \ {prefix}, d)
    BY OwnMinus
  <2> QED
    BY <1>1, <2>1
<1>8. c \in Seq(Instr) /\ c \o <<x>> \in Seq(Instr)
  BY <1>6, Zenon DEF CodeInv
<1> QED
  BY <1>6, <1>7, <1>8, Zenon DEF r, x

\* A jump to a label of call f that is to come, or is there.
LEMMA JumpOwn ==
    ASSUME NEW f \in Call, NEW c, NEW P, NEW U, NEW d \in Int,
           NEW op \in {"jmp", "jcc"}, NEW prefix \in OwnPrefixes,
           Coming(prefix, f, f.id, d) \in P \/ Has(c, Coming(prefix, f, f.id, d))
    PROVE  /\ Ins(op, prefix, f.id, f.id, d) \in Instr
           /\ Ins(op, prefix, f.id, f.id, d).depth = d
           /\ Ins(op, prefix, f.id, f.id, d).op = op
           /\ JumpOK(c, Ins(op, prefix, f.id, f.id, d), P, U)
<1> DEFINE r == Coming(prefix, f, f.id, d)
           x == Ins(op, prefix, f.id, f.id, d)
<1>1. r.to = <<prefix, f.id>> /\ r.owner = f.id /\ r.depth = d
  BY ComingIs
<1>2. x \in Instr
  <2>1. prefix \in LabelPrefixes /\ f.id \in Nat \cup Labels
    BY DEF OwnPrefixes, LabelPrefixes, Call
  <2> QED
    BY <2>1, InsType
<1>3. x.to = <<prefix, f.id>> /\ x.owner = f.id /\ x.depth = d /\ x.op = op
  BY DEF Ins
<1> HIDE DEF r, x
<1>4. Matches(x, r)
  BY <1>1, <1>3, Zenon DEF Matches
<1>7. JumpOK(c, x, P, U)
  <2>1. CASE r \in P
    BY <1>4, <2>1, Zenon DEF JumpOK
  <2>2. CASE Has(c, r)
    <3>1. PICK q \in 1..Len(c) : Is(c[q], r)
      BY <2>2, Zenon DEF Has
    <3>2. IsLabel(c[q]) /\ Matches(x, c[q])
      BY <1>1, <1>3, <3>1, Zenon DEF Is, Matches
    <3> QED
      BY <3>2, Zenon DEF JumpOK, Resolved
  <2> QED
    BY <2>1, <2>2, Zenon DEF r
<1> QED
  BY <1>2, <1>3, <1>7, Zenon DEF x

\* What a call that is not a switch has still to emit.
LEMMA PendingOwn ==
    ASSUME NEW f \in Call, NEW k \in Nat, k <= f.cases, NEW d
    PROVE  PendingOf(f, k, d) = Own(f, LabelsLeft(f), d)
<1>1. f.cases \in Nat
  BY DEF Call
<1>2. (f.cases + 1)..k = {}
  BY <1>1
<1>3. {Coming("sec", f, f.id + j, d) : j \in (f.cases + 1)..k} = {}
  BY <1>2
<1> QED
  BY <1>3, Zenon DEF PendingOf, Own

-----------------------------------------------------------------------------
(***************************************************************************)
(* Statements without a body.                                              *)
(***************************************************************************)
LEMMA GoodTypes ==
    ASSUME NEW s, NEW bs, NEW ss, NEW lc, NEW start, NEW ls, NEW c, NEW d, NEW U,
           Good(s, bs, ss, lc, start, ls, c, d, U)
    PROVE  /\ s \in Seq(Call) /\ Len(s) \in Nat /\ bs \in Seq(BreakEntry) /\ ss \in Seq(SwitchEntry)
           /\ ls \in Seq(Local) /\ Len(ls) \in Nat /\ lc \in Nat /\ start \in Nat
           /\ NestInv(s, bs, ss) /\ NumberInv(s, ss, lc)
           /\ ScopeInv(s, start, Len(ls)) /\ NameInv(s, ls)
           /\ Len(ss) = Depth(s, Len(s)) /\ d = Depth(s, Len(s))
           /\ d \in Nat /\ d \in Int
           /\ c \in Seq(Instr) /\ CodeInv(c, Pending(s, ss), lc, d, U) /\ StartInv(s, c)
<1>1. Tables(s, bs, ss, lc, start, ls) /\ d = Depth(s, Len(s))
      /\ CodeInv(c, Pending(s, ss), lc, d, U) /\ StartInv(s, c)
  BY DEF Good
<1>2. s \in Seq(Call) /\ Len(s) \in Nat
  BY <1>1 DEF Tables
<1>3. ls \in Seq(Local) /\ Len(ls) \in Nat
  BY <1>1 DEF Tables
<1>4. Depth(s, Len(s)) \in Nat
  BY <1>2, CountIsNat DEF Depth
<1>5. d \in Nat /\ d \in Int
  BY <1>1, <1>4
<1>6. Len(ss) = Depth(s, Len(s))
  BY <1>1 DEF Tables, NestInv
<1>7. c \in Seq(Instr)
  BY <1>1 DEF CodeInv
<1> QED
  BY <1>1, <1>2, <1>3, <1>5, <1>6, <1>7, Zenon DEF Tables

\* The code grows, and the tables stay.
LEMMA GoodCode ==
    ASSUME NEW s, NEW bs, NEW ss, NEW lc, NEW start, NEW ls, NEW c, NEW d, NEW U,
           Good(s, bs, ss, lc, start, ls, c, d, U),
           NEW c2, Extends(c, c2), CodeInv(c2, Pending(s, ss), lc, d, U)
    PROVE  Good(s, bs, ss, lc, start, ls, c2, d, U)
<1>1. StartInv(s, c2)
  <2>1. c \in Seq(Instr) /\ c2 \in Seq(Instr) /\ StartInv(s, c)
    BY DEF CodeInv, Good
  <2> QED
    BY <2>1, StartStays, Zenon
<1> QED
  BY <1>1, Zenon DEF Good

LEMMA GoodExpr ==
    ASSUME NEW s, NEW bs, NEW ss, NEW lc, NEW start, NEW ls, NEW c, NEW d, NEW U,
           Good(s, bs, ss, lc, start, ls, c, d, U)
    PROVE  Good(s, bs, ss, lc, start, ls, c \o Expr(d), d, U)
<1>1. lc \in Nat /\ d \in Int /\ CodeInv(c, Pending(s, ss), lc, d, U)
  BY GoodTypes, Zenon
<1>2. CodeInv(c \o Expr(d), Pending(s, ss), lc, d, U) /\ Extends(c, c \o Expr(d))
  BY <1>1, EmitExpr, Zenon
<1> QED
  BY <1>2, GoodCode, Zenon

LEMMA GoodJump ==
    ASSUME NEW s, NEW bs, NEW ss, NEW lc, NEW start, NEW ls, NEW c, NEW d, NEW U,
           Good(s, bs, ss, lc, start, ls, c, d, U),
           NEW x \in Instr, x.depth = d, x.op \in {"jmp", "jcc", "ret"},
           IsJump(x) => JumpOK(c, x, Pending(s, ss), U)
    PROVE  Good(s, bs, ss, lc, start, ls, c \o <<x>>, d, U)
<1>1. lc \in Nat /\ d \in Int /\ CodeInv(c, Pending(s, ss), lc, d, U)
  BY GoodTypes, Zenon
<1>2. CodeInv(c \o <<x>>, Pending(s, ss), lc, d, U) /\ Extends(c, c \o <<x>>)
  BY <1>1, EmitJump, Zenon
<1> QED
  BY <1>2, GoodCode, Zenon

LEMMA GoodRet ==
    ASSUME NEW s, NEW bs, NEW ss, NEW lc, NEW start, NEW ls, NEW c, NEW d, NEW U,
           Good(s, bs, ss, lc, start, ls, c, d, U)
    PROVE  /\ Good(s, bs, ss, lc, start, ls, c \o <<Op("ret", d)>>, d, U)
           /\ c \o <<Op("ret", d)>> # <<>> /\ Last(c \o <<Op("ret", d)>>).op = "ret"
<1> DEFINE x == Op("ret", d)
<1>1. c \in Seq(Instr) /\ d \in Int
  BY GoodTypes, Zenon
<1>2. x \in Instr
  <2>1. "" \in LabelPrefixes
    BY DEF LabelPrefixes
  <2> QED
    BY <1>1, <2>1, InsType DEF Op
<1>3. x.op = "ret" /\ x.depth = d /\ ~IsJump(x)
  BY DEF Op, Ins, IsJump
<1> HIDE DEF x
<1>4. Good(s, bs, ss, lc, start, ls, c \o <<x>>, d, U)
  <2>1. x.op \in {"jmp", "jcc", "ret"}
    BY <1>3
  <2> QED
    BY <1>2, <1>3, <2>1, GoodJump, Zenon
<1>5. <<x>> \in Seq(Instr) /\ Len(<<x>>) = 1 /\ <<x>>[1] = x /\ 1 \in 1..1
  BY <1>2
<1>6. /\ c \o <<x>> \in Seq(Instr) /\ Len(c) \in Nat /\ Len(c \o <<x>>) = Len(c) + 1
      /\ (c \o <<x>>)[Len(c) + 1] = x
  BY <1>1, <1>2, <1>5, Joined
<1>7. c \o <<x>> # <<>>
  BY <1>6, EmptySeq
<1>8. Last(c \o <<x>>) = x
  BY <1>6, Zenon DEF Last
<1> QED
  BY <1>3, <1>4, <1>7, <1>8, Zenon DEF x

\* Every count up to the last is that of some call.
LEMMA CountOnto ==
    ASSUME NEW s, NEW n \in Nat, NEW kinds, NEW k \in 1..Count(s, n, kinds)
    PROVE  \E i \in 1..n : s[i].kind \in kinds /\ Count(s, i, kinds) = k
<1> DEFINE T == {i \in 0..n : Count(s, i, kinds) >= k}
<1>1. \A i \in Nat : Count(s, i, kinds) \in Nat
  BY CountIsNat
<1>2. Count(s, 0, kinds) = 0 /\ Count(s, n, kinds) \in Nat
  BY CountIsNat
<1>3. n \in T /\ T \subseteq Nat /\ 0 \notin T
  BY <1>2
<1>4. PICK i \in T : \A y \in T : i <= y
  BY <1>3, Least, Zenon
<1>5. PICK j \in 0..n : i = j + 1
  BY <1>3, <1>4
<1>6. j \notin T /\ j \in Nat /\ i \in 1..n
  BY <1>4, <1>5
<1>7. Count(s, j, kinds) < k /\ Count(s, i, kinds) >= k
  BY <1>1, <1>6
<1>8. Count(s, i, kinds) = Count(s, j, kinds) + One(s[i].kind, kinds)
  BY <1>5, <1>6, CountNext
<1>9. s[i].kind \in kinds /\ Count(s, i, kinds) = k
  BY <1>1, <1>6, <1>7, <1>8 DEF One
<1> QED
  BY <1>6, <1>9

InnermostOf(s, kinds) == Max({i \in DOMAIN s : s[i].kind \in kinds} \cup {0})

LEMMA InnermostIs ==
    ASSUME NEW s \in Seq(Call), NEW kinds
    PROVE  LET m == InnermostOf(s, kinds)
           IN /\ m \in 0..Len(s)
              /\ m # 0 => m \in 1..Len(s) /\ s[m].kind \in kinds
              /\ \A j \in (m + 1)..Len(s) : s[j].kind \notin kinds
              /\ {i \in DOMAIN s : s[i].kind \in kinds} # {} => m # 0
<1> DEFINE O == {i \in DOMAIN s : s[i].kind \in kinds}
           m == Max(O \cup {0})
<1>1. DOMAIN s = 1..Len(s) /\ Len(s) \in Nat
  OBVIOUS
<1>2. O \cup {0} \subseteq 0..Len(s) /\ O \cup {0} # {}
  BY <1>1
<1> HIDE DEF O
<1>3. m \in O \cup {0} /\ \A y \in O \cup {0} : y <= m
  BY <1>1, <1>2, MaxIsGreatest, Zenon
<1> HIDE DEF m
<1>4. m \in 0..Len(s)
  BY <1>2, <1>3
<1>5. m # 0 => m \in 1..Len(s) /\ s[m].kind \in kinds
  BY <1>1, <1>3 DEF O
<1>6. \A j \in (m + 1)..Len(s) : s[j].kind \notin kinds
  <2> SUFFICES ASSUME NEW j \in (m + 1)..Len(s), s[j].kind \in kinds PROVE FALSE
    OBVIOUS
  <2>1. j \in 1..Len(s) /\ ~(j <= m)
    BY <1>1, <1>4
  <2>2. j \in O
    BY <1>1, <2>1 DEF O
  <2> QED
    BY <1>3, <2>1, <2>2
<1>7. O # {} => m # 0
  <2>1. \A y \in O : y # 0 /\ y \in Nat
    BY <1>1 DEF O
  <2> SUFFICES ASSUME NEW y \in O PROVE m # 0
    OBVIOUS
  <2>2. y <= m /\ y # 0 /\ y \in Nat
    BY <1>3, <2>1
  <2> QED
    BY <2>2
<1> QED
  BY <1>4, <1>5, <1>6, <1>7 DEF InnermostOf, O, m

\* A label that an open call has still to emit is one that is to come.
LEMMA OwnPending ==
    ASSUME NEW s, NEW ss, NEW m \in 1..Len(s), NEW prefix \in LabelsLeft(s[m])
    PROVE  Coming(prefix, s[m], s[m].id, Depth(s, m)) \in Pending(s, ss)
<1>1. Coming(prefix, s[m], s[m].id, Depth(s, m)) \in
          PendingOf(s[m], Slots(s, ss, m), Depth(s, m))
  BY Zenon DEF PendingOf
<1> QED
  BY <1>1, Zenon DEF Pending

\* The break of the innermost loop or switch.
LEMMA BreakJump ==
    ASSUME NEW s, NEW bs, NEW ss, NEW lc, NEW start, NEW ls, NEW c, NEW d, NEW U,
           Good(s, bs, ss, lc, start, ls, c, d, U),
           {i \in DOMAIN s : s[i].kind \in Breakable} # {},
           NEW x, x = Ins("jmp", "break", Last(bs).break_label,
                          s[InnermostOf(s, Breakable)].id, d)
    PROVE  Good(s, bs, ss, lc, start, ls, c \o <<x>>, d, U)
<1> DEFINE m == InnermostOf(s, Breakable)
<1>1. /\ s \in Seq(Call) /\ Len(s) \in Nat /\ bs \in Seq(BreakEntry) /\ NestInv(s, bs, ss)
      /\ d = Depth(s, Len(s)) /\ d \in Int
  BY GoodTypes, Zenon
<1>2. /\ m \in 0..Len(s) /\ m # 0
      /\ m # 0 => m \in 1..Len(s) /\ s[m].kind \in Breakable
      /\ \A j \in (m + 1)..Len(s) : s[j].kind \notin Breakable
  BY <1>1, InnermostIs
<1> HIDE DEF m
<1>3. m \in 1..Len(s) /\ m \in Nat /\ m <= Len(s) /\ s[m] \in Call /\ s[m].kind \in Breakable
  BY <1>1, <1>2, CallType
<1>4. Count(s, Len(s), Breakable) = Count(s, m, Breakable)
  BY <1>1, <1>2, <1>3, CountUpTo
<1>5. d = Depth(s, m)
  <2>1. \A j \in (m + 1)..Len(s) : s[j].kind \notin {"switch"}
    BY <1>2 DEF Breakable
  <2> QED
    BY <1>1, <1>3, <2>1, CountUpTo DEF Depth
<1>6. Last(bs).break_label = s[m].id
  <2>1. Last(bs) = bs[Count(s, m, Breakable)]
    BY <1>1, <1>4, Zenon DEF Last, NestInv
  <2>2. bs[Count(s, m, Breakable)] = BreakFrame(s[m])
    BY <1>1, <1>3, Zenon DEF NestInv
  <2>3. BreakFrame(s[m]).break_label = s[m].id
    BY DEF BreakFrame
  <2> QED
    BY <2>1, <2>2, <2>3, Zenon
<1>7. x = Ins("jmp", "break", s[m].id, s[m].id, d)
  BY <1>6, Zenon DEF m
<1>8. "break" \in LabelsLeft(s[m]) /\ "break" \in OwnPrefixes
  BY <1>3 DEF LabelsLeft, Breakable, Loops, OwnPrefixes
<1>9. Coming("break", s[m], s[m].id, d) \in Pending(s, ss)
  BY <1>3, <1>5, <1>8, OwnPending
<1>10. x \in Instr /\ x.depth = d /\ x.op = "jmp" /\ JumpOK(c, x, Pending(s, ss), U)
  <2>1. PICK f \in Call : f = s[m]
    BY <1>3, Zenon
  <2>2. x = Ins("jmp", "break", f.id, f.id, d) /\ Coming("break", f, f.id, d) \in Pending(s, ss)
    BY <1>7, <1>9, <2>1, Zenon
  <2>3. "jmp" \in {"jmp", "jcc"}
    OBVIOUS
  <2>4. /\ Ins("jmp", "break", f.id, f.id, d) \in Instr
        /\ Ins("jmp", "break", f.id, f.id, d).depth = d
        /\ Ins("jmp", "break", f.id, f.id, d).op = "jmp"
        /\ JumpOK(c, Ins("jmp", "break", f.id, f.id, d), Pending(s, ss), U)
    <3>1. "break" \in OwnPrefixes /\ d \in Int /\ Coming("break", f, f.id, d) \in Pending(s, ss)
      BY <1>1, <1>8, <2>2
    <3> QED
      BY <2>3, <3>1, JumpOwn, Zenon
  <2> QED
    BY <2>2, <2>4
<1> QED
  BY <1>10, GoodJump

\* The nearest entry of break_stack that is a loop is that of the innermost loop.
LEMMA ContinueEntry ==
    ASSUME NEW s \in Seq(Call), NEW bs \in Seq(BreakEntry), NEW ss, NestInv(s, bs, ss),
           NEW m \in 1..Len(s), s[m].kind \in Loops,
           \A j \in (m + 1)..Len(s) : s[j].kind \notin Loops
    PROVE  bs[Max({i \in DOMAIN bs : bs[i].continue_label # -1})].continue_label = s[m].id
<1> DEFINE k == Count(s, m, Breakable)
           E == {i \in DOMAIN bs : bs[i].continue_label # -1}
<1>1. s[m] \in Call /\ s[m].id \in Nat /\ Len(s) \in Nat /\ m \in Nat
  BY CallType
<1>2. s[m].kind \in Breakable /\ s[m].kind # "switch"
  BY DEF Breakable, Loops
<1>3. Len(bs) = Count(s, Len(s), Breakable)
  BY DEF NestInv
<1>4. k \in 1..Len(bs)
  BY <1>1, <1>2, <1>3, CountBetween
<1>5. bs[k] = BreakFrame(s[m]) /\ BreakFrame(s[m]).continue_label = s[m].id
  BY <1>2 DEF NestInv, BreakFrame
<1>6. DOMAIN bs = 1..Len(bs) /\ Len(bs) \in Nat
  OBVIOUS
<1> HIDE DEF k
<1>7. k \in E
  BY <1>1, <1>4, <1>5, <1>6
<1>8. ASSUME NEW i \in E, i > k PROVE FALSE
  <2>1. i \in 1..Count(s, Len(s), Breakable) /\ bs[i].continue_label # -1
    BY <1>3, <1>6
  <2>2. PICK j \in 1..Len(s) : s[j].kind \in Breakable /\ Count(s, j, Breakable) = i
    BY <1>1, <2>1, CountOnto
  <2>3. bs[i] = BreakFrame(s[j])
    BY <2>2 DEF NestInv
  <2>4. s[j].kind # "switch"
    BY <2>1, <2>3 DEF BreakFrame
  <2>5. s[j].kind \in Loops
    BY <2>2, <2>4 DEF Breakable
  <2>6. j <= m
    <3>1. j \notin (m + 1)..Len(s)
      BY <2>5
    <3> QED
      BY <1>1, <3>1
  <2>7. Count(s, j, Breakable) <= Count(s, m, Breakable)
    BY <1>1, <2>6, CountMonotone
  <2> QED
    BY <1>4, <1>6, <1>8, <2>2, <2>7 DEF k
<1>9. Max(E) \in E /\ \A y \in E : y <= Max(E)
  <2>1. E \subseteq 0..Len(bs) /\ E # {}
    BY <1>6, <1>7
  <2> HIDE DEF E
  <2> QED
    BY <1>6, <2>1, MaxIsGreatest, Zenon
<1>10. Max(E) = k
  <2>1. Max(E) \in Nat /\ k \in Nat
    BY <1>4, <1>6, <1>9
  <2>2. k <= Max(E) /\ ~(Max(E) > k)
    BY <1>7, <1>8, <1>9
  <2> QED
    BY <2>1, <2>2
<1> QED
  BY <1>5, <1>10, Zenon

\* The continue of the innermost loop.
LEMMA ContinueJump ==
    ASSUME NEW s, NEW bs, NEW ss, NEW lc, NEW start, NEW ls, NEW c, NEW d, NEW U,
           Good(s, bs, ss, lc, start, ls, c, d, U),
           {i \in DOMAIN s : s[i].kind \in Loops} # {},
           NEW x, x = Ins("jmp", "continue",
                          bs[Max({i \in DOMAIN bs : bs[i].continue_label # -1})].continue_label,
                          s[InnermostOf(s, Loops)].id, d)
    PROVE  Good(s, bs, ss, lc, start, ls, c \o <<x>>, d, U)
<1> DEFINE m == InnermostOf(s, Loops)
<1>1. /\ s \in Seq(Call) /\ Len(s) \in Nat /\ bs \in Seq(BreakEntry) /\ NestInv(s, bs, ss)
      /\ d \in Int /\ StartInv(s, c)
  BY GoodTypes, Zenon
<1>2. /\ m \in 0..Len(s) /\ m # 0
      /\ m # 0 => m \in 1..Len(s) /\ s[m].kind \in Loops
      /\ \A j \in (m + 1)..Len(s) : s[j].kind \notin Loops
  BY <1>1, InnermostIs
<1> HIDE DEF m
<1>3. m \in 1..Len(s) /\ s[m] \in Call /\ s[m].kind \in Loops /\ s[m].id \in Nat
  BY <1>1, <1>2, CallType
<1>4. bs[Max({i \in DOMAIN bs : bs[i].continue_label # -1})].continue_label = s[m].id
  BY <1>1, <1>2, <1>3, ContinueEntry, Zenon
<1>5. x = Ins("jmp", "continue", s[m].id, s[m].id, d)
  BY <1>4, Zenon DEF m
<1>6. x.to = <<"continue", s[m].id>> /\ x.owner = s[m].id /\ x.depth = d /\ x.op = "jmp"
      /\ x.to[1] = "continue"
  BY <1>5 DEF Ins
<1>7. x \in Instr
  <2>1. "continue" \in LabelPrefixes /\ s[m].id \in Nat \cup Labels
    BY <1>3 DEF LabelPrefixes
  <2> QED
    BY <1>1, <1>5, <2>1, InsType
<1>8. JumpOK(c, x, Pending(s, ss), U)
  <2>1. CASE s[m].kind = "while"
    <3>1. HasLabel(c, "continue", s[m], Depth(s, m))
      BY <1>1, <1>3, <2>1, Zenon DEF StartInv
    <3>2. PICK q \in 1..Len(c) : IsLabel(c[q]) /\ c[q].to = <<"continue", s[m].id>>
                                   /\ c[q].owner = s[m].id
      BY <3>1, Zenon DEF HasLabel
    <3>3. Matches(x, c[q])
      BY <1>6, <3>2, Zenon DEF Matches
    <3> QED
      BY <3>2, <3>3, Zenon DEF JumpOK, Resolved
  <2>2. CASE s[m].kind # "while"
    <3>1. "continue" \in LabelsLeft(s[m])
      BY <1>3, <2>2 DEF LabelsLeft, Loops
    <3> DEFINE r == Coming("continue", s[m], s[m].id, Depth(s, m))
    <3>2. r \in Pending(s, ss)
      BY <1>3, <3>1, OwnPending, Zenon
    <3>3. r.to = <<"continue", s[m].id>> /\ r.owner = s[m].id
      BY ComingIs
    <3> HIDE DEF r
    <3>4. Matches(x, r)
      BY <1>6, <3>3, Zenon DEF Matches
    <3> QED
      BY <3>2, <3>4, Zenon DEF JumpOK
  <2> QED
    BY <2>1, <2>2
<1> QED
  BY <1>6, <1>7, <1>8, GoodJump

\* A goto to a label of the function.
LEMMA GotoJump ==
    ASSUME NEW s, NEW bs, NEW ss, NEW lc, NEW start, NEW ls, NEW c, NEW d, NEW U,
           Good(s, bs, ss, lc, start, ls, c, d, U), NEW l \in Labels, l \in U
    PROVE  Good(s, bs, ss, lc, start, ls, c \o <<Jmp("usr", l, d)>>, d, U)
<1> DEFINE x == Jmp("usr", l, d)
<1>1. d \in Int
  BY GoodTypes, Zenon
<1>2. x \in Instr
  <2>1. "usr" \in LabelPrefixes /\ l \in Nat \cup Labels
    BY DEF LabelPrefixes
  <2> QED
    BY <1>1, <2>1, InsType DEF Jmp
<1>3. x.op = "jmp" /\ x.depth = d /\ x.to[1] = "usr" /\ x.owner = l /\ x.to[2] = l
  BY DEF Jmp, Ins
<1> HIDE DEF x
<1>4. JumpOK(c, x, Pending(s, ss), U)
  BY <1>3 DEF JumpOK
<1>5. Good(s, bs, ss, lc, start, ls, c \o <<x>>, d, U)
  BY <1>2, <1>3, <1>4, GoodJump
<1> QED
  BY <1>5 DEF x

-----------------------------------------------------------------------------
(***************************************************************************)
(* Statements with a body: what is emitted before it.                      *)
(***************************************************************************)
NewCall(f, start, ls) ==
    /\ f \in Call /\ f.saved_scope_start = start /\ f.saved_local_count = Len(ls)
    /\ f.cases = 0 /\ \A x \in Names : f.names[x] = 0

NoEntry == [entries |-> <<>>, default_label |-> 0]

LEMMA NoEntryType ==
    NoEntry \in SwitchEntry /\ NoEntry.entries = <<>> /\ Len(NoEntry.entries) = 0
  BY DEF NoEntry, SwitchEntry

LEMMA DepthPushed ==
    ASSUME NEW s \in Seq(Call), NEW f \in Call
    PROVE  /\ Depth(Append(s, f), Len(Append(s, f))) =
                 Depth(s, Len(s)) + One(f.kind, {"switch"})
           /\ Len(Append(s, f)) = Len(s) + 1
           /\ Depth(s, Len(s)) \in Nat
<1>1. Len(Append(s, f)) = Len(s) + 1 /\ Len(s) \in Nat
  BY Pushed
<1>2. Depth(Append(s, f), Len(s) + 1) = Depth(s, Len(s)) + One(f.kind, {"switch"})
  BY CountPushed DEF Depth
<1>3. Depth(s, Len(s)) \in Nat
  BY <1>1, CountIsNat DEF Depth
<1> QED
  BY <1>1, <1>2, <1>3, Zenon

\* The labels to come when the innermost call is not a switch.
LEMMA PendingTop ==
    ASSUME NEW s \in Seq(Call), NEW ss \in Seq(SwitchEntry), Len(ss) = Depth(s, Len(s)),
           NEW f \in Call, f.kind # "switch"
    PROVE  Pending(Append(s, f), ss) =
              Pending(s, ss) \cup Own(f, LabelsLeft(f), Depth(s, Len(s)))
<1>1. PushSwitch(ss, f, NoEntry) = ss /\ SlotsIn(f, NoEntry) = 0
  BY DEF PushSwitch, SlotsIn
<1>2. Depth(Append(s, f), Len(s) + 1) = Depth(s, Len(s))
  <2>1. One(f.kind, {"switch"}) = 0
    BY DEF One
  <2> QED
    BY <2>1, DepthPushed
<1>3. Pending(Append(s, f), PushSwitch(ss, f, NoEntry)) =
         Pending(s, ss) \cup PendingOf(f, SlotsIn(f, NoEntry), Depth(Append(s, f), Len(s) + 1))
  BY NoEntryType, PushPending, ZenonT(40)
<1>4. Pending(Append(s, f), ss) = Pending(s, ss) \cup PendingOf(f, 0, Depth(s, Len(s)))
  BY <1>1, <1>2, <1>3, Zenon
<1>5. PendingOf(f, 0, Depth(s, Len(s))) = Own(f, LabelsLeft(f), Depth(s, Len(s)))
  <2>1. 0 <= f.cases /\ 0 \in Nat
    BY DEF Call
  <2> QED
    BY <2>1, PendingOwn, Zenon
<1> QED
  BY <1>4, <1>5, Zenon

LEMMA OpenGood ==
    ASSUME NEW s, NEW bs, NEW ss, NEW lc, NEW start, NEW ls, NEW c, NEW d, NEW U,
           Good(s, bs, ss, lc, start, ls, c, d, U),
           NEW f, NewCall(f, start, ls), f.kind # "switch",
           NEW lc2 \in Nat, lc <= lc2, f.kind \in Numbered => f.id = lc /\ lc2 = lc + 1,
           NEW c2, Extends(c, c2),
           CodeInv(c2, Pending(s, ss) \cup Own(f, LabelsLeft(f), d), lc2, d, U),
           f.kind \in Loops => Has(c2, Coming("start", f, f.id, d)),
           f.kind = "while" => Has(c2, Coming("continue", f, f.id, d))
    PROVE  Good(Append(s, f), PushBreak(bs, f), ss, lc2,
                IF f.kind \in Scopes THEN Len(ls) ELSE start, ls, c2, d, U)
<1> DEFINE t == Append(s, f)
<1>1. /\ s \in Seq(Call) /\ Len(s) \in Nat /\ ss \in Seq(SwitchEntry) /\ lc \in Nat
      /\ Len(ss) = Depth(s, Len(s)) /\ d = Depth(s, Len(s)) /\ d \in Nat
      /\ c \in Seq(Instr) /\ StartInv(s, c)
  BY GoodTypes, Zenon
<1>2. /\ f \in Call /\ f.saved_scope_start = start /\ f.saved_local_count = Len(ls)
      /\ \A x \in Names : f.names[x] = 0
  BY DEF NewCall
<1>3. Depth(t, Len(t)) = d /\ Len(t) = Len(s) + 1
  <2>1. One(f.kind, {"switch"}) = 0
    BY DEF One
  <2> QED
    BY <1>1, <1>2, <2>1, DepthPushed
<1>4. PushSwitch(ss, f, NoEntry) = ss /\ SlotsIn(f, NoEntry) = 0 /\ EntryOK(f, NoEntry)
  BY DEF PushSwitch, SlotsIn, EntryOK
<1>5. Tables(t, PushBreak(bs, f), ss, lc2, IF f.kind \in Scopes THEN Len(ls) ELSE start, ls)
  <2>1. Tables(s, bs, ss, lc, start, ls)
    BY DEF Good
  <2>2. f.kind \in Numbered => f.id >= lc /\ f.id + SlotsIn(f, NoEntry) < lc2
    BY <1>1, <1>4
  <2>3. Tables(t, PushBreak(bs, f), PushSwitch(ss, f, NoEntry), lc2,
               IF f.kind \in Scopes THEN Len(ls) ELSE start, ls)
    BY <1>2, <1>4, <2>1, <2>2, NoEntryType, OpenTables, Zenon
  <2> QED
    BY <1>4, <2>3, Zenon
<1>6. Pending(t, ss) = Pending(s, ss) \cup Own(f, LabelsLeft(f), d)
  BY <1>1, <1>2, PendingTop
<1>7. StartInv(t, c2)
  <2>1. c2 \in Seq(Instr)
    BY DEF CodeInv
  <2>2. StartInv(s, c2)
    BY <1>1, <2>1, StartStays
  <2>3. Depth(t, Len(s) + 1) = d
    BY <1>3
  <2>4. StartInv(t, c2) <=>
           /\ StartInv(s, c2)
           /\ f.kind \in Loops => Has(c2, Coming("start", f, f.id, Depth(t, Len(s) + 1)))
           /\ f.kind = "while" => Has(c2, Coming("continue", f, f.id, Depth(t, Len(s) + 1)))
    BY <1>1, <1>2, StartPushed, Zenon
  <2> QED
    BY <2>2, <2>3, <2>4, Zenon
<1> QED
  BY <1>3, <1>5, <1>6, <1>7, Zenon DEF Good

\* A block, or a statement with a label.
LEMMA OpenPlain ==
    ASSUME NEW s, NEW bs, NEW ss, NEW lc, NEW start, NEW ls, NEW c, NEW d, NEW U,
           Good(s, bs, ss, lc, start, ls, c, d, U),
           NEW f, NewCall(f, start, ls), f.kind \in {"block", "label"}
    PROVE  Good(Append(s, f), bs, ss, lc,
                IF f.kind = "block" THEN Len(ls) ELSE start, ls, c, d, U)
<1>1. c \in Seq(Instr) /\ lc \in Nat /\ CodeInv(c, Pending(s, ss), lc, d, U)
  BY GoodTypes, Zenon
<1>2. /\ f.kind # "switch" /\ f.kind \notin Numbered /\ f.kind \notin Loops /\ f.kind # "while"
      /\ LabelsLeft(f) = {} /\ f.kind \notin Breakable /\ (f.kind \in Scopes <=> f.kind = "block")
  BY DEF Numbered, Breakable, Loops, LabelsLeft, Scopes
<1>3. Own(f, LabelsLeft(f), d) = {}
  BY <1>2, Zenon DEF Own
<1>4. Pending(s, ss) \cup Own(f, LabelsLeft(f), d) = Pending(s, ss)
  BY <1>3, Zenon
<1>5. Extends(c, c) /\ lc <= lc
  BY <1>1 DEF Extends
<1>6. PushBreak(bs, f) = bs
  BY <1>2 DEF PushBreak
<1>7. Good(Append(s, f), PushBreak(bs, f), ss, lc,
           IF f.kind \in Scopes THEN Len(ls) ELSE start, ls, c, d, U)
  <2>1. CodeInv(c, Pending(s, ss) \cup Own(f, LabelsLeft(f), d), lc, d, U)
    BY <1>1, <1>4, Zenon
  <2> QED
    BY <1>1, <1>2, <1>5, <2>1, OpenGood, Zenon
<1> QED
  BY <1>2, <1>6, <1>7, Zenon

\* The call of a statement with a number announces its labels.
LEMMA AnnounceOwn ==
    ASSUME NEW c, NEW P, NEW lc \in Nat, NEW d \in Int, NEW U, CodeInv(c, P, lc, d, U),
           NEW f \in Call, f.id = lc, NEW prefixes, prefixes \subseteq OwnPrefixes
    PROVE  CodeInv(c, P \cup Own(f, prefixes, d), lc + 1, d, U) /\ Below(P, f)
<1>1. \A r \in Own(f, prefixes, d) :
        \E prefix \in prefixes : r = Coming(prefix, f, f.id, d)
  BY Zenon DEF Own
<1>2. ASSUME NEW r \in Own(f, prefixes, d)
      PROVE  /\ r.to[1] # "usr" /\ r.to[2] \in Nat
             /\ lc <= r.to[2] /\ r.to[2] < lc + 1
             /\ r.to = <<r.to[1], r.to[2]>>
  <2>1. PICK prefix \in prefixes : r = Coming(prefix, f, f.id, d)
    BY <1>1
  <2>2. r.to = <<prefix, f.id>> /\ r.to[1] = prefix /\ r.to[2] = f.id
    BY <2>1, ComingIs
  <2>3. prefix # "usr"
    BY DEF OwnPrefixes
  <2> QED
    BY <2>2, <2>3
<1>3. ASSUME NEW r \in Own(f, prefixes, d), NEW q \in Own(f, prefixes, d), r.to = q.to
      PROVE  r = q
  <2>1. PICK p1 \in prefixes : r = Coming(p1, f, f.id, d)
    BY <1>1
  <2>2. PICK p2 \in prefixes : q = Coming(p2, f, f.id, d)
    BY <1>1
  <2>3. r.to[1] = p1 /\ q.to[1] = p2
    BY <2>1, <2>2, ComingIs
  <2> QED
    BY <1>3, <2>1, <2>2, <2>3
<1>4. lc + 1 \in Nat /\ lc <= lc + 1
  OBVIOUS
<1>5. CodeInv(c, P \cup Own(f, prefixes, d), lc + 1, d, U)
  <2>1. \A r \in Own(f, prefixes, d) :
             /\ r.to[1] # "usr" /\ r.to[2] \in Nat
             /\ lc <= r.to[2] /\ r.to[2] < lc + 1
             /\ r.to = <<r.to[1], r.to[2]>>
    BY <1>2, Zenon
  <2>2. \A r, q \in Own(f, prefixes, d) : r.to = q.to => r = q
    BY <1>3, Zenon
  <2> QED
    BY <1>4, <2>1, <2>2, Announce, Zenon
<1>6. Below(P, f)
  BY DEF CodeInv, PendingOK, Below
<1> QED
  BY <1>5, <1>6

LEMMA CondType ==
    ASSUME NEW f \in Call, NEW d \in Int, NEW prefix \in OwnPrefixes
    PROVE  /\ Jcc(prefix, f.id, d) \in Instr /\ <<Jcc(prefix, f.id, d)>> \in Seq(Instr)
           /\ Lab(prefix, f.id, d) \in Instr /\ <<Lab(prefix, f.id, d)>> \in Seq(Instr)
           /\ Jmp(prefix, f.id, d) \in Instr /\ <<Jmp(prefix, f.id, d)>> \in Seq(Instr)
           /\ Cond(prefix, f.id, d) \in Seq(Instr)
<1>1. prefix \in LabelPrefixes /\ f.id \in Nat \cup Labels
  BY DEF OwnPrefixes, LabelPrefixes, Call
<1>2. /\ Jcc(prefix, f.id, d) \in Instr
      /\ Lab(prefix, f.id, d) \in Instr
      /\ Jmp(prefix, f.id, d) \in Instr
  BY <1>1, InsType DEF Jcc, Lab, Jmp
<1>3. /\ <<Jcc(prefix, f.id, d)>> \in Seq(Instr)
      /\ <<Lab(prefix, f.id, d)>> \in Seq(Instr)
      /\ <<Jmp(prefix, f.id, d)>> \in Seq(Instr)
  BY <1>2
<1>4. Cond(prefix, f.id, d) \in Seq(Instr)
  BY <1>3, ExprFlat, Joined DEF Cond
<1> QED
  BY <1>2, <1>3, <1>4, Zenon

\* A jump to a label of call f.
LEMMA EmitOwnJump ==
    ASSUME NEW c, NEW P, NEW lc \in Nat, NEW d \in Int, NEW U, CodeInv(c, P, lc, d, U),
           NEW f \in Call, NEW prefix \in OwnPrefixes,
           Coming(prefix, f, f.id, d) \in P \/ Has(c, Coming(prefix, f, f.id, d))
    PROVE  /\ CodeInv(c \o <<Jmp(prefix, f.id, d)>>, P, lc, d, U)
           /\ Extends(c, c \o <<Jmp(prefix, f.id, d)>>)
           /\ CodeInv(c \o <<Jcc(prefix, f.id, d)>>, P, lc, d, U)
           /\ Extends(c, c \o <<Jcc(prefix, f.id, d)>>)
<1>1. ASSUME NEW op \in {"jmp", "jcc"}
      PROVE  /\ CodeInv(c \o <<Ins(op, prefix, f.id, f.id, d)>>, P, lc, d, U)
             /\ Extends(c, c \o <<Ins(op, prefix, f.id, f.id, d)>>)
  <2> DEFINE x == Ins(op, prefix, f.id, f.id, d)
  <2>1. x \in Instr /\ x.depth = d /\ x.op = op /\ JumpOK(c, x, P, U)
    <3>1. x \in Instr
      BY JumpOwn, Zenon
    <3>2. JumpOK(c, x, P, U)
      BY JumpOwn, Zenon
    <3>3. x.depth = d /\ x.op = op
      BY DEF Ins
    <3> QED
      BY <3>1, <3>2, <3>3, Zenon
  <2> HIDE DEF x
  <2>2. x.op \in {"jmp", "jcc", "ret"}
    BY <2>1
  <2>3. CodeInv(c \o <<x>>, P, lc, d, U) /\ Extends(c, c \o <<x>>)
    BY <2>1, <2>2, EmitJump, Zenon
  <2> QED
    BY <2>3 DEF x
<1>2. "jmp" \in {"jmp", "jcc"} /\ "jcc" \in {"jmp", "jcc"}
  OBVIOUS
<1> QED
  BY <1>1, <1>2, Zenon DEF Jmp, Jcc

\* An expression and a conditional jump.
LEMMA EmitCond ==
    ASSUME NEW c, NEW P, NEW lc \in Nat, NEW d \in Int, NEW U, CodeInv(c, P, lc, d, U),
           NEW f \in Call, NEW prefix \in OwnPrefixes, Coming(prefix, f, f.id, d) \in P
    PROVE  /\ CodeInv(c \o Cond(prefix, f.id, d), P, lc, d, U)
           /\ Extends(c, c \o Cond(prefix, f.id, d))
<1> DEFINE c1 == c \o Expr(d)
           x == Jcc(prefix, f.id, d)
<1>1. CodeInv(c1, P, lc, d, U) /\ Extends(c, c1)
  BY EmitExpr, Zenon
<1> HIDE DEF c1
<1>2. CodeInv(c1 \o <<x>>, P, lc, d, U) /\ Extends(c1, c1 \o <<x>>)
  BY <1>1, EmitOwnJump, Zenon
<1>3. c \in Seq(Instr) /\ c1 \in Seq(Instr) /\ c1 \o <<x>> \in Seq(Instr)
  BY <1>1, <1>2 DEF CodeInv
<1>4. Expr(d) \in Seq(Instr) /\ <<x>> \in Seq(Instr)
  BY ExprFlat, CondType, Zenon
<1> HIDE DEF x
<1>5. c \o (Expr(d) \o <<x>>) = c1 \o <<x>>
  BY <1>3, <1>4, Assoc, Zenon DEF c1
<1>6. Extends(c, c1 \o <<x>>)
  BY <1>1, <1>2, <1>3, Transitive, Zenon
<1> QED
  BY <1>2, <1>5, <1>6, Zenon DEF Cond, x

\* An if statement.
LEMMA OpenIf ==
    ASSUME NEW s, NEW bs, NEW ss, NEW lc, NEW start, NEW ls, NEW c, NEW d, NEW U,
           Good(s, bs, ss, lc, start, ls, c, d, U),
           NEW f, NewCall(f, start, ls), f.kind = "if", f.id = lc
    PROVE  Good(Append(s, f), bs, ss, lc + 1, start, ls,
                c \o Cond(IF f.opt THEN "else" ELSE "end", lc, d), d, U)
<1> DEFINE prefix == IF f.opt THEN "else" ELSE "end"
           Q == Pending(s, ss) \cup Own(f, LabelsLeft(f), d)
           c2 == c \o Cond(prefix, f.id, d)
<1>1. c \in Seq(Instr) /\ lc \in Nat /\ CodeInv(c, Pending(s, ss), lc, d, U) /\ d \in Int
  BY GoodTypes, Zenon
<1>2. f \in Call
  BY DEF NewCall
<1>3. /\ f.kind # "switch" /\ f.kind \notin Loops /\ f.kind # "while" /\ f.kind \notin Scopes
      /\ f.kind \notin Breakable
  BY DEF Breakable, Loops, Scopes
<1>4. prefix \in OwnPrefixes /\ prefix \in LabelsLeft(f) /\ LabelsLeft(f) \subseteq OwnPrefixes
  BY DEF LabelsLeft, OwnPrefixes
<1> HIDE DEF prefix
<1>5. CodeInv(c, Q, lc + 1, d, U)
  BY <1>1, <1>2, <1>4, AnnounceOwn, Zenon
<1>6. Coming(prefix, f, f.id, d) \in Q
  BY <1>4, Zenon DEF Own
<1>7. lc + 1 \in Nat /\ lc <= lc + 1
  BY <1>1
<1> HIDE DEF Q
<1>8. CodeInv(c2, Q, lc + 1, d, U) /\ Extends(c, c2)
  BY <1>1, <1>2, <1>4, <1>5, <1>6, <1>7, EmitCond, Zenon
<1> HIDE DEF c2
<1>9. PushBreak(bs, f) = bs /\ (IF f.kind \in Scopes THEN Len(ls) ELSE start) = start
  BY <1>3 DEF PushBreak
<1>10. Good(Append(s, f), PushBreak(bs, f), ss, lc + 1,
            IF f.kind \in Scopes THEN Len(ls) ELSE start, ls, c2, d, U)
  <2>1. CodeInv(c2, Pending(s, ss) \cup Own(f, LabelsLeft(f), d), lc + 1, d, U)
    BY <1>8, Zenon DEF Q
  <2>2. f.kind \in Numbered => f.id = lc /\ lc + 1 = lc + 1
    OBVIOUS
  <2> QED
    BY <1>3, <1>7, <1>8, <2>1, <2>2, OpenGood, Zenon
<1> QED
  BY <1>9, <1>10, Zenon DEF c2, prefix

\* A loop is announced, and its start label emitted.
LEMMA OpenLoop ==
    ASSUME NEW c, NEW P, NEW lc \in Nat, NEW d \in Int, NEW U, CodeInv(c, P, lc, d, U),
           NEW f \in Call, f.id = lc
    PROVE  LET c2 == c \o <<Lab("start", f.id, d)>>
           IN /\ CodeInv(c2, P \cup Own(f, {"continue", "stop", "break"}, d), lc + 1, d, U)
              /\ Extends(c, c2) /\ Has(c2, Coming("start", f, f.id, d)) /\ Below(P, f)
              /\ c2 \in Seq(Instr)
<1> DEFINE ps == {"start", "continue", "stop", "break"}
           c2 == c \o <<Lab("start", f.id, d)>>
<1>1. ps \subseteq OwnPrefixes /\ "start" \in ps /\ "start" \in OwnPrefixes
      /\ ps \ {"start"} = {"continue", "stop", "break"}
  BY DEF OwnPrefixes
<1> HIDE DEF ps
<1>2. CodeInv(c, P \cup Own(f, ps, d), lc + 1, d, U) /\ Below(P, f)
  BY <1>1, AnnounceOwn, Zenon
<1>3. lc + 1 \in Nat
  OBVIOUS
<1>4. /\ CodeInv(c2, P \cup Own(f, ps \ {"start"}, d), lc + 1, d, U)
      /\ Extends(c, c2) /\ Has(c2, Coming("start", f, f.id, d)) /\ c2 \in Seq(Instr)
  BY <1>1, <1>2, <1>3, EmitOwn, Zenon
<1> QED
  BY <1>1, <1>2, <1>4, Zenon

LEMMA LoopKind ==
    ASSUME NEW f, f.kind \in Loops
    PROVE  /\ f.kind # "switch" /\ f.kind \in Numbered /\ f.kind \in Breakable
           /\ f.kind = "while" => LabelsLeft(f) = {"stop", "break"} /\ f.kind \notin Scopes
           /\ f.kind # "while" => LabelsLeft(f) = {"continue", "stop", "break"}
           /\ f.kind \in Scopes <=> f.kind = "for"
           /\ BreakFrame(f) = [break_label |-> f.id, continue_label |-> f.id]
  BY DEF Numbered, Breakable, Loops, LabelsLeft, Scopes, BreakFrame

\* A loop whose code before the body is c2.
LEMMA LoopGood ==
    ASSUME NEW s, NEW bs, NEW ss, NEW lc, NEW start, NEW ls, NEW c, NEW d, NEW U,
           Good(s, bs, ss, lc, start, ls, c, d, U),
           NEW f, NewCall(f, start, ls), f.kind \in Loops, f.id = lc,
           NEW c2, Extends(c, c2), NEW ps, ps = LabelsLeft(f),
           CodeInv(c2, Pending(s, ss) \cup Own(f, ps, d), lc + 1, d, U),
           Has(c2, Coming("start", f, f.id, d)),
           f.kind = "while" => Has(c2, Coming("continue", f, f.id, d))
    PROVE  Good(Append(s, f), Append(bs, [break_label |-> lc, continue_label |-> lc]), ss,
                lc + 1, IF f.kind = "for" THEN Len(ls) ELSE start, ls, c2, d, U)
<1>1. lc \in Nat
  BY GoodTypes, Zenon
<1>2. /\ f.kind # "switch" /\ f.kind \in Numbered /\ f.kind \in Breakable
      /\ f.kind \in Scopes <=> f.kind = "for"
      /\ BreakFrame(f) = [break_label |-> f.id, continue_label |-> f.id]
  BY LoopKind, Zenon
<1>3. PushBreak(bs, f) = Append(bs, [break_label |-> lc, continue_label |-> lc])
  BY <1>2, Zenon DEF PushBreak
<1>4. lc + 1 \in Nat /\ lc <= lc + 1
  BY <1>1
<1>5. CodeInv(c2, Pending(s, ss) \cup Own(f, LabelsLeft(f), d), lc + 1, d, U)
  BY Zenon
<1>6. f.kind \in Numbered => f.id = lc /\ lc + 1 = lc + 1
  OBVIOUS
<1>7. Good(Append(s, f), PushBreak(bs, f), ss, lc + 1,
           IF f.kind \in Scopes THEN Len(ls) ELSE start, ls, c2, d, U)
  BY <1>2, <1>4, <1>5, <1>6, OpenGood, Zenon
<1> QED
  BY <1>2, <1>3, <1>7, Zenon

LEMMA OpenWhile ==
    ASSUME NEW s, NEW bs, NEW ss, NEW lc, NEW start, NEW ls, NEW c, NEW d, NEW U,
           Good(s, bs, ss, lc, start, ls, c, d, U),
           NEW f, NewCall(f, start, ls), f.kind = "while", f.id = lc
    PROVE  Good(Append(s, f), Append(bs, [break_label |-> lc, continue_label |-> lc]), ss,
                lc + 1, start, ls,
                c \o (<<Lab("start", f.id, d), Lab("continue", f.id, d)>>
                         \o Cond("stop", f.id, d)), d, U)
<1> DEFINE a == Lab("start", f.id, d)
           b == Lab("continue", f.id, d)
           is == Cond("stop", f.id, d)
           c1 == c \o <<a>>
           c2 == c1 \o <<b>>
           c3 == c2 \o is
           P == Pending(s, ss)
           ps == {"stop", "break"}
<1>1. c \in Seq(Instr) /\ lc \in Nat /\ CodeInv(c, P, lc, d, U) /\ d \in Int
  BY GoodTypes, Zenon
<1>2. f \in Call /\ f.kind \in Loops
  BY DEF NewCall, Loops
<1>3. LabelsLeft(f) = ps /\ (IF f.kind = "for" THEN Len(ls) ELSE start) = start
  BY <1>2, LoopKind
<1>4. {"continue", "stop", "break"} \ {"continue"} = ps /\ "stop" \in ps
      /\ "continue" \in {"continue", "stop", "break"}
      /\ "continue" \in OwnPrefixes /\ "stop" \in OwnPrefixes /\ "start" \in OwnPrefixes
  BY DEF OwnPrefixes
<1>5. a \in Instr /\ b \in Instr /\ is \in Seq(Instr) /\ <<a, b>> \in Seq(Instr)
  <2>1. a \in Instr /\ b \in Instr /\ is \in Seq(Instr)
    BY <1>1, <1>2, <1>4, CondType, Zenon
  <2> QED
    BY <2>1
<1>6. lc + 1 \in Nat
  BY <1>1
<1>7. /\ CodeInv(c1, P \cup Own(f, {"continue", "stop", "break"}, d), lc + 1, d, U)
      /\ Extends(c, c1) /\ Has(c1, Coming("start", f, f.id, d)) /\ Below(P, f)
      /\ c1 \in Seq(Instr)
  BY <1>1, <1>2, OpenLoop, Zenon
<1> HIDE DEF c1, P, ps
<1>8. /\ CodeInv(c2, P \cup Own(f, ps, d), lc + 1, d, U)
      /\ Extends(c1, c2) /\ Has(c2, Coming("continue", f, f.id, d)) /\ c2 \in Seq(Instr)
  <2>1. /\ CodeInv(c2, P \cup Own(f, {"continue", "stop", "break"} \ {"continue"}, d), lc + 1, d, U)
        /\ Extends(c1, c2) /\ Has(c2, Coming("continue", f, f.id, d)) /\ c2 \in Seq(Instr)
    BY <1>1, <1>2, <1>4, <1>6, <1>7, EmitOwn, Zenon
  <2> QED
    BY <1>4, <2>1, Zenon
<1> HIDE DEF c2
<1>9. Coming("stop", f, f.id, d) \in P \cup Own(f, ps, d)
  BY <1>4, Zenon DEF Own
<1>10. CodeInv(c3, P \cup Own(f, ps, d), lc + 1, d, U) /\ Extends(c2, c3)
  BY <1>1, <1>2, <1>4, <1>6, <1>8, <1>9, EmitCond, Zenon
<1> HIDE DEF c3
<1>11. c3 \in Seq(Instr)
  BY <1>10, Zenon DEF CodeInv
<1>12. Extends(c1, c3) /\ Extends(c, c3)
  BY <1>1, <1>7, <1>8, <1>10, <1>11, Transitive, Zenon
<1>13. Has(c3, Coming("start", f, f.id, d)) /\ Has(c3, Coming("continue", f, f.id, d))
  <2>1. Len(c1) \in Nat /\ Len(c2) \in Nat /\ Len(c3) \in Nat
    BY <1>7, <1>8, <1>11
  <2>2. Has(c3, Coming("start", f, f.id, d))
    BY <1>7, <1>12, <2>1, HasStays, Zenon
  <2>3. Has(c3, Coming("continue", f, f.id, d))
    BY <1>8, <1>10, <2>1, HasStays, ZenonT(40)
  <2> QED
    BY <2>2, <2>3
<1>14. Good(Append(s, f), Append(bs, [break_label |-> lc, continue_label |-> lc]), ss,
            lc + 1, IF f.kind = "for" THEN Len(ls) ELSE start, ls, c3, d, U)
  <2>1. CodeInv(c3, Pending(s, ss) \cup Own(f, ps, d), lc + 1, d, U)
    BY <1>10, Zenon DEF P
  <2> QED
    BY <1>2, <1>3, <1>12, <1>13, <2>1, LoopGood, Zenon
<1>15. c \o (<<a, b>> \o is) = c3
  <2>1. c \o (<<a, b>> \o is) = (c \o <<a, b>>) \o is
    BY <1>1, <1>5, Assoc, Zenon
  <2>2. c \o <<a, b>> = (c \o <<a>>) \o <<b>>
    BY <1>1, <1>5, Two, Zenon
  <2> QED
    BY <2>1, <2>2, Zenon DEF c3, c2, c1
<1> QED
  BY <1>3, <1>14, <1>15, Zenon

LEMMA OpenDo ==
    ASSUME NEW s, NEW bs, NEW ss, NEW lc, NEW start, NEW ls, NEW c, NEW d, NEW U,
           Good(s, bs, ss, lc, start, ls, c, d, U),
           NEW f, NewCall(f, start, ls), f.kind = "do", f.id = lc
    PROVE  Good(Append(s, f), Append(bs, [break_label |-> lc, continue_label |-> lc]), ss,
                lc + 1, start, ls, c \o <<Lab("start", f.id, d)>>, d, U)
<1> DEFINE c1 == c \o <<Lab("start", f.id, d)>>
           ps == {"continue", "stop", "break"}
<1>1. c \in Seq(Instr) /\ lc \in Nat /\ CodeInv(c, Pending(s, ss), lc, d, U) /\ d \in Int
  BY GoodTypes, Zenon
<1>2. f \in Call /\ f.kind \in Loops /\ f.kind # "while"
  BY DEF NewCall, Loops
<1>3. LabelsLeft(f) = ps /\ (IF f.kind = "for" THEN Len(ls) ELSE start) = start
  BY <1>2, LoopKind
<1>4. /\ CodeInv(c1, Pending(s, ss) \cup Own(f, ps, d), lc + 1, d, U)
      /\ Extends(c, c1) /\ Has(c1, Coming("start", f, f.id, d))
  BY <1>1, <1>2, OpenLoop, Zenon
<1> HIDE DEF c1, ps
<1>5. Good(Append(s, f), Append(bs, [break_label |-> lc, continue_label |-> lc]), ss,
           lc + 1, IF f.kind = "for" THEN Len(ls) ELSE start, ls, c1, d, U)
  BY <1>2, <1>3, <1>4, LoopGood, Zenon
<1> QED
  BY <1>3, <1>5, Zenon DEF c1

LEMMA OpenFor ==
    ASSUME NEW s, NEW bs, NEW ss, NEW lc, NEW start, NEW ls, NEW c, NEW d, NEW U,
           Good(s, bs, ss, lc, start, ls, c, d, U),
           NEW f, NewCall(f, start, ls), f.kind = "for", f.id = lc,
           NEW decl \in BOOLEAN, NEW has_cond \in BOOLEAN
    PROVE  Good(Append(s, f), Append(bs, [break_label |-> lc, continue_label |-> lc]), ss,
                lc + 1, Len(ls), ls,
                c \o ((IF decl THEN Expr(d) ELSE <<>>) \o <<Lab("start", f.id, d)>>
                        \o (IF has_cond THEN Cond("stop", f.id, d) ELSE <<>>)), d, U)
<1> DEFINE is1 == IF decl THEN Expr(d) ELSE <<>>
           is2 == <<Lab("start", f.id, d)>>
           is3 == IF has_cond THEN Cond("stop", f.id, d) ELSE <<>>
           c1 == c \o is1
           c2 == c1 \o is2
           c3 == c2 \o is3
           P == Pending(s, ss)
           ps == {"continue", "stop", "break"}
<1>1. c \in Seq(Instr) /\ lc \in Nat /\ CodeInv(c, P, lc, d, U) /\ d \in Int
  BY GoodTypes, Zenon
<1>2. f \in Call /\ f.kind \in Loops /\ f.kind # "while"
  BY DEF NewCall, Loops
<1>3. LabelsLeft(f) = ps /\ (IF f.kind = "for" THEN Len(ls) ELSE start) = Len(ls)
  BY <1>2, LoopKind
<1>4. "stop" \in ps /\ "stop" \in OwnPrefixes /\ "start" \in OwnPrefixes
  BY DEF OwnPrefixes
<1>5. is1 \in Seq(Instr) /\ is2 \in Seq(Instr) /\ is3 \in Seq(Instr)
  <2>1. Expr(d) \in Seq(Instr) /\ is2 \in Seq(Instr) /\ Cond("stop", f.id, d) \in Seq(Instr)
    BY <1>1, <1>2, <1>4, ExprFlat, CondType, Zenon
  <2>2. <<>> \in Seq(Instr)
    OBVIOUS
  <2> QED
    BY <2>1, <2>2, Zenon
<1>6. lc + 1 \in Nat
  BY <1>1
<1>7. CodeInv(c1, P, lc, d, U) /\ Extends(c, c1)
  <2>1. CASE decl
    BY <1>1, <2>1, EmitExpr
  <2>2. CASE ~decl
    <3>1. c \o <<>> = c
      BY <1>1, ConcatEmptySeq
    <3>2. c1 = c
      BY <2>2, <3>1
    <3>3. Extends(c, c)
      BY <1>1 DEF Extends
    <3> QED
      BY <1>1, <3>2, <3>3, Zenon
  <2> QED
    BY <2>1, <2>2
<1>8. c1 \in Seq(Instr)
  BY <1>7, Zenon DEF CodeInv
<1> HIDE DEF c1, P
<1>9. /\ CodeInv(c2, P \cup Own(f, ps, d), lc + 1, d, U)
      /\ Extends(c1, c2) /\ Has(c2, Coming("start", f, f.id, d)) /\ c2 \in Seq(Instr)
  BY <1>1, <1>2, <1>7, OpenLoop, Zenon
<1> HIDE DEF c2, ps
<1>10. CodeInv(c3, P \cup Own(f, ps, d), lc + 1, d, U) /\ Extends(c2, c3)
  <2>1. CASE has_cond
    <3>1. Coming("stop", f, f.id, d) \in P \cup Own(f, ps, d)
      BY <1>4, Zenon DEF Own
    <3>2. c3 = c2 \o Cond("stop", f.id, d)
      BY <2>1
    <3>3. /\ CodeInv(c2 \o Cond("stop", f.id, d), P \cup Own(f, ps, d), lc + 1, d, U)
          /\ Extends(c2, c2 \o Cond("stop", f.id, d))
      BY <1>1, <1>2, <1>4, <1>6, <1>9, <3>1, EmitCond, Zenon
    <3> QED
      BY <3>2, <3>3, Zenon
  <2>2. CASE ~has_cond
    <3>1. c2 \o <<>> = c2
      BY <1>9, ConcatEmptySeq
    <3>2. c3 = c2
      BY <2>2, <3>1
    <3>3. Extends(c2, c2)
      BY <1>9 DEF Extends
    <3> QED
      BY <1>9, <3>2, <3>3, Zenon
  <2> QED
    BY <2>1, <2>2
<1>11. c3 \in Seq(Instr)
  BY <1>10, Zenon DEF CodeInv
<1> HIDE DEF c3
<1>12. Extends(c1, c3) /\ Extends(c, c3)
  BY <1>1, <1>7, <1>8, <1>9, <1>10, <1>11, Transitive, Zenon
<1>13. Has(c3, Coming("start", f, f.id, d))
  <2>1. Len(c2) \in Nat /\ Len(c3) \in Nat
    BY <1>9, <1>11
  <2> QED
    BY <1>9, <1>10, <2>1, HasStays, Zenon
<1>14. Good(Append(s, f), Append(bs, [break_label |-> lc, continue_label |-> lc]), ss,
            lc + 1, IF f.kind = "for" THEN Len(ls) ELSE start, ls, c3, d, U)
  <2>1. CodeInv(c3, Pending(s, ss) \cup Own(f, ps, d), lc + 1, d, U)
    BY <1>10, Zenon DEF P
  <2> QED
    BY <1>2, <1>3, <1>12, <1>13, <2>1, LoopGood, Zenon
<1> HIDE DEF is1, is2, is3
<1>15. c \o ((is1 \o is2) \o is3) = c3
  <2>0. is1 \o is2 \in Seq(Instr)
    BY <1>5, Joined
  <2>1. c \o ((is1 \o is2) \o is3) = (c \o (is1 \o is2)) \o is3
    BY <1>1, <1>5, <2>0, Assoc, ZenonT(40)
  <2>2. c \o (is1 \o is2) = (c \o is1) \o is2
    BY <1>1, <1>5, Assoc, Zenon
  <2> QED
    BY <2>1, <2>2, Zenon DEF c3, c2, c1
<1> QED
  BY <1>3, <1>14, <1>15, Zenon DEF is1, is2, is3

\* A jump to a label that is coming.
LEMMA JumpComing ==
    ASSUME NEW c, NEW P, NEW U, NEW x, NEW r \in P,
           x.to = r.to, x.owner = r.owner, x.depth = r.depth
    PROVE  JumpOK(c, x, P, U)
  BY DEF JumpOK, Matches

\* A switch statement: x is the jump that is taken when no case is.
LEMMA OpenSwitch ==
    ASSUME NEW s, NEW bs, NEW ss, NEW lc, NEW start, NEW ls, NEW c, NEW d, NEW U,
           Good(s, bs, ss, lc, start, ls, c, d, U),
           NEW f, NewCall(f, start, ls), f.kind = "switch", f.id = lc,
           NEW n \in Nat, NEW e \in SwitchEntry, Len(e.entries) = n,
           \A k \in 1..n : e.entries[k].label = lc + k,
           NEW tests \in Seq(Instr), Flat(tests, d + 1),
           \A i \in 1..Len(tests) :
              tests[i].owner = lc /\ \E k \in 1..n : tests[i].to = <<"sec", lc + k>>,
           NEW x \in Instr, x.depth = d + 1, x.op = "jmp", x.owner = lc,
           x.to = <<"stop", lc>> \/ \E k \in 1..n : x.to = <<"sec", lc + k>>
    PROVE  Good(Append(s, f), Append(bs, [break_label |-> lc, continue_label |-> -1]),
                Append(ss, e), lc + 1 + n, start, ls,
                c \o (((Expr(d) \o <<Op("push", d)>>) \o tests) \o <<x>>), d + 1, U)
<1> DEFINE t == Append(s, f)
           ss2 == PushSwitch(ss, f, e)
           Q == Pending(t, ss2)
           lc2 == lc + 1 + n
           d2 == d + 1
           y == Op("push", d)
           c1 == c \o Expr(d)
           c2 == c1 \o <<y>>
           c3 == c2 \o tests
           c4 == c3 \o <<x>>
<1>1. /\ c \in Seq(Instr) /\ lc \in Nat /\ CodeInv(c, Pending(s, ss), lc, d, U)
      /\ d \in Int /\ s \in Seq(Call) /\ ss \in Seq(SwitchEntry)
      /\ Len(ss) = Depth(s, Len(s)) /\ d = Depth(s, Len(s)) /\ StartInv(s, c)
  <2>1. c \in Seq(Instr) /\ lc \in Nat /\ CodeInv(c, Pending(s, ss), lc, d, U)
    BY GoodTypes, Zenon
  <2>2. d \in Int /\ s \in Seq(Call) /\ ss \in Seq(SwitchEntry)
    BY GoodTypes, Zenon
  <2>3. Len(ss) = Depth(s, Len(s)) /\ d = Depth(s, Len(s)) /\ StartInv(s, c)
    BY GoodTypes
  <2> QED
    BY <2>1, <2>2, <2>3, Zenon
<1>0. Tables(s, bs, ss, lc, start, ls)
  BY Zenon DEF Good
<1>2. /\ f \in Call /\ f.saved_scope_start = start /\ f.saved_local_count = Len(ls)
      /\ f.cases = 0 /\ \A z \in Names : f.names[z] = 0
  BY DEF NewCall
<1>3. /\ f.kind \notin Scopes /\ f.kind \in Breakable /\ f.kind \in Numbered
      /\ f.kind \notin Loops /\ f.kind # "while"
      /\ One(f.kind, {"switch"}) = 1
      /\ LabelsLeft(f) = {"stop", "break"}
  BY DEF Scopes, Breakable, Numbered, Loops, One, LabelsLeft
<1>4. SlotsIn(f, e) = n
  BY DEF SlotsIn
<1>5. EntryOK(f, e)
  BY <1>2 DEF EntryOK
<1>6. lc2 \in Nat /\ lc <= lc2 /\ lc + n < lc2 /\ d2 \in Int
  BY <1>1
<1>7. f.kind \in Numbered => f.id >= lc /\ f.id + SlotsIn(f, e) < lc2
  BY <1>1, <1>4, <1>6
<1>8. Depth(t, Len(t)) = d2 /\ Len(t) = Len(s) + 1 /\ d2 = Depth(t, Len(s) + 1)
  BY <1>1, <1>2, <1>3, DepthPushed
<1> HIDE DEF lc2, d2
<1>9. Tables(t, PushBreak(bs, f), ss2, lc2, IF f.kind \in Scopes THEN Len(ls) ELSE start, ls)
  BY <1>0, <1>2, <1>5, <1>6, <1>7, OpenTables, Zenon
<1>10. CodeInv(c, Q, lc2, d, U) /\ Q = Pending(s, ss) \cup PendingOf(f, n, d2)
  <2>1. CodeInv(c, Q, lc2, d, U)
    BY <1>1, <1>2, <1>6, <1>7, <1>8, OpenPending, Zenon
  <2>2. Q = Pending(s, ss) \cup PendingOf(f, SlotsIn(f, e), Depth(t, Len(s) + 1))
    BY <1>1, <1>2, PushPending
  <2> QED
    BY <1>4, <1>8, <2>1, <2>2, Zenon
<1>11. \A k \in 1..n : Coming("sec", f, f.id + k, d2) \in Q
  <2>1. 1..n = (f.cases + 1)..n
    BY <1>2
  <2>2. \A k \in (f.cases + 1)..n : Coming("sec", f, f.id + k, d2) \in PendingOf(f, n, d2)
    BY Zenon DEF PendingOf
  <2> QED
    BY <1>10, <2>1, <2>2, Zenon
<1>12. Coming("stop", f, f.id, d2) \in Q
  <2>1. "stop" \in LabelsLeft(f)
    BY <1>3
  <2> QED
    BY <1>10, <2>1, Zenon DEF PendingOf
<1> HIDE DEF Q
<1>13. CodeInv(c1, Q, lc2, d, U) /\ Extends(c, c1)
  BY <1>1, <1>6, <1>10, EmitExpr, Zenon
<1>14. c1 \in Seq(Instr)
  BY <1>13, Zenon DEF CodeInv
<1> HIDE DEF c1
<1>15. CodeInv(c2, Q, lc2, d2, U) /\ Extends(c1, c2)
  <2>1. /\ CodeInv(c2, Q, lc2, IF "push" = "push" THEN d + 1 ELSE d - 1, U)
        /\ Extends(c1, c2)
    BY <1>1, <1>6, <1>13, EmitPush
  <2> QED
    BY <2>1 DEF d2
<1>16. c2 \in Seq(Instr)
  BY <1>15, Zenon DEF CodeInv
<1> HIDE DEF c2
<1>17. ASSUME NEW z, z.depth = d2, z.owner = lc,
              z.to = <<"stop", lc>> \/ \E k \in 1..n : z.to = <<"sec", lc + k>>, NEW b
       PROVE  JumpOK(b, z, Q, U)
  <2>1. CASE z.to = <<"stop", lc>>
    <3>1. PICK r \in Q : r = Coming("stop", f, f.id, d2)
      BY <1>12
    <3>2. r.to = <<"stop", lc>> /\ r.owner = lc /\ r.depth = d2
      BY <3>1, ComingIs
    <3> QED
      BY <1>17, <2>1, <3>2, JumpComing, Zenon
  <2>2. ASSUME NEW k \in 1..n, z.to = <<"sec", lc + k>>
        PROVE  JumpOK(b, z, Q, U)
    <3>1. PICK r \in Q : r = Coming("sec", f, f.id + k, d2)
      BY <1>11
    <3>2. r.to = <<"sec", lc + k>> /\ r.owner = lc /\ r.depth = d2
      BY <3>1, ComingIs
    <3> QED
      BY <1>17, <2>2, <3>2, JumpComing, Zenon
  <2> QED
    BY <1>17, <2>1, <2>2, Zenon
<1>18. CodeInv(c3, Q, lc2, d2, U) /\ Extends(c2, c3)
  <2>1. \A i \in 1..Len(tests) : IsJump(tests[i]) => JumpOK(c2, tests[i], Q, U)
    <3> SUFFICES ASSUME NEW i \in 1..Len(tests) PROVE JumpOK(c2, tests[i], Q, U)
      OBVIOUS
    <3>1. tests[i].depth = d2
      BY DEF Flat, d2
    <3> QED
      BY <1>17, <3>1, Zenon
  <2>2. Flat(tests, d2)
    BY Zenon DEF d2
  <2> QED
    BY <1>6, <1>15, <2>1, <2>2, EmitFlat, Zenon
<1>19. c3 \in Seq(Instr)
  BY <1>18, Zenon DEF CodeInv
<1> HIDE DEF c3
<1>20. CodeInv(c4, Q, lc2, d2, U) /\ Extends(c3, c4)
  <2>1. x.depth = d2 /\ x.op \in {"jmp", "jcc", "ret"}
    BY DEF d2
  <2>2. JumpOK(c3, x, Q, U)
    BY <1>17, <2>1, Zenon
  <2> QED
    BY <1>6, <1>18, <2>1, <2>2, EmitJump, Zenon
<1>21. c4 \in Seq(Instr)
  BY <1>20, Zenon DEF CodeInv
<1> HIDE DEF c4
<1>22. Extends(c, c4)
  <2>1. Extends(c, c2)
    BY <1>1, <1>13, <1>14, <1>15, <1>16, Transitive, Zenon
  <2>2. Extends(c, c3)
    BY <1>1, <1>16, <1>18, <1>19, <2>1, Transitive, Zenon
  <2> QED
    BY <1>1, <1>19, <1>20, <1>21, <2>2, Transitive, Zenon
<1>23. StartInv(t, c4)
  <2>1. StartInv(s, c4)
    BY <1>1, <1>21, <1>22, StartStays, Zenon
  <2> QED
    BY <1>1, <1>2, <1>3, <2>1, StartPushed, Zenon
<1>24. /\ PushBreak(bs, f) = Append(bs, [break_label |-> lc, continue_label |-> -1])
       /\ ss2 = Append(ss, e) /\ (IF f.kind \in Scopes THEN Len(ls) ELSE start) = start
  BY <1>3 DEF PushBreak, PushSwitch, BreakFrame
<1>25. Good(t, PushBreak(bs, f), ss2, lc2, start, ls, c4, d2, U)
  <2>1. Tables(t, PushBreak(bs, f), ss2, lc2, start, ls)
    BY <1>9, <1>24, Zenon
  <2>2. CodeInv(c4, Pending(t, ss2), lc2, d2, U)
    BY <1>20, Zenon DEF Q
  <2> QED
    BY <1>8, <1>23, <2>1, <2>2, Zenon DEF Good
<1>26. c \o (((Expr(d) \o <<y>>) \o tests) \o <<x>>) = c4
  <2>1. Expr(d) \in Seq(Instr) /\ <<x>> \in Seq(Instr)
    BY <1>1, ExprFlat
  <2>2. <<y>> \in Seq(Instr)
    <3>1. y \in Instr
      BY <1>1, InsType DEF Op, LabelPrefixes
    <3> QED
      BY <3>1
  <2> HIDE DEF y
  <2> DEFINE a == Expr(d) \o <<y>>
  <2>3. a \in Seq(Instr)
    BY <2>1, <2>2, Joined, Zenon
  <2>a. ASSUME NEW u \in Seq(Instr), NEW w \in Seq(Instr)
        PROVE  c \o (u \o w) = (c \o u) \o w
    BY <1>1, Assoc, ZenonT(40)
  <2>4. c \o a = (c \o Expr(d)) \o <<y>>
    BY <2>1, <2>2, <2>a, ZenonT(40)
  <2> HIDE DEF a
  <2> DEFINE b == a \o tests
  <2>5. b \in Seq(Instr)
    BY <2>3, Joined, Zenon
  <2>6. c \o b = (c \o a) \o tests
    BY <1>1, <2>3, Assoc, Zenon
  <2> HIDE DEF b
  <2>7. ASSUME NEW w \in Seq(Instr)
        PROVE  c \o (b \o w) = (c \o b) \o w
    BY <2>5, <2>a, ZenonT(40)
  <2> QED
    BY <2>1, <2>4, <2>6, <2>7, Zenon DEF c4, c3, c2, c1, a, b
<1> QED
  BY <1>24, <1>25, <1>26, Zenon DEF lc2, d2

\* A switch has emitted one more of its case labels.
LEMMA CaseSlot ==
    ASSUME NEW f \in Call, NEW g \in Call, f.kind = "switch", g.kind = f.kind, g.id = f.id,
           g.opt = f.opt, g.cases = f.cases + 1, NEW K \in Nat, g.cases <= K, NEW d
    PROVE  /\ PendingOf(g, K, d) = Minus(PendingOf(f, K, d), <<"sec", f.id + g.cases>>)
           /\ Coming("sec", f, f.id + g.cases, d) \in PendingOf(f, K, d)
<1>0. f.id \in Nat /\ f.cases \in Nat
  BY DEF Call
<1>1. LabelsLeft(f) = {"stop", "break"} /\ LabelsLeft(g) = {"stop", "break"}
  BY DEF LabelsLeft
<1>2. \A prefix, n : Coming(prefix, g, n, d) = Coming(prefix, f, n, d)
  BY DEF Coming
<1>3. PendingOf(g, K, d) = {Coming(prefix, f, f.id, d) : prefix \in {"stop", "break"}}
                              \cup {Coming("sec", f, f.id + k, d) : k \in (f.cases + 2)..K}
  <2>1. g.cases + 1 = f.cases + 2
    BY <1>0
  <2> QED
    BY <1>1, <1>2, <2>1 DEF PendingOf
<1>4. PendingOf(f, K, d) = {Coming(prefix, f, f.id, d) : prefix \in {"stop", "break"}}
                              \cup {Coming("sec", f, f.id + k, d) : k \in (f.cases + 1)..K}
  BY <1>1, Zenon DEF PendingOf
<1> DEFINE to == <<"sec", f.id + g.cases>>
<1>5. \A prefix \in {"stop", "break"} : Coming(prefix, f, f.id, d).to # to
  BY DEF Coming
<1>6. \A k \in (f.cases + 1)..K :
        Coming("sec", f, f.id + k, d).to # to <=> k \in (f.cases + 2)..K
  <2> SUFFICES ASSUME NEW k \in (f.cases + 1)..K
               PROVE  Coming("sec", f, f.id + k, d).to # to <=> k \in (f.cases + 2)..K
    OBVIOUS
  <2>1. Coming("sec", f, f.id + k, d).to = <<"sec", f.id + k>>
    BY DEF Coming
  <2>2. Coming("sec", f, f.id + k, d).to = to <=> f.id + k = f.id + g.cases
    BY <2>1
  <2>3. f.id + k = f.id + g.cases <=> k = f.cases + 1
    BY <1>0
  <2> QED
    BY <1>0, <2>2, <2>3
<1>7. (f.cases + 2)..K \subseteq (f.cases + 1)..K
  BY <1>0
<1> HIDE DEF to
<1>8. ASSUME NEW q PROVE q \in PendingOf(g, K, d) <=> q \in Minus(PendingOf(f, K, d), to)
  <2>1. q \in PendingOf(g, K, d) => q \in Minus(PendingOf(f, K, d), to)
    BY <1>3, <1>4, <1>5, <1>6, <1>7, Zenon DEF Minus
  <2>2. q \in Minus(PendingOf(f, K, d), to) => q \in PendingOf(g, K, d)
    BY <1>3, <1>4, <1>6, Zenon DEF Minus
  <2> QED
    BY <2>1, <2>2
<1>9. PendingOf(g, K, d) = Minus(PendingOf(f, K, d), to)
  BY <1>8, Zenon
<1>10. Coming("sec", f, f.id + g.cases, d) \in PendingOf(f, K, d)
  <2>1. g.cases \in (f.cases + 1)..K
    BY <1>0
  <2> QED
    BY <1>4, <2>1, Zenon
<1> QED
  BY <1>9, <1>10, Zenon DEF to

\* The labels to come, when the m-th call has emitted one of its case labels.
LEMMA CasePending ==
    ASSUME NEW s \in Seq(Call), NEW t \in Seq(Call), NEW ss \in Seq(SwitchEntry),
           Len(ss) = Depth(s, Len(s)), NEW lc \in Nat,
           NumberInv(s, ss, lc), PendingOK(Pending(s, ss), lc),
           SameShape(s, t), NEW m \in 1..Len(s), s[m].kind = "switch",
           \A i \in 1..Len(s) : i # m => t[i] = s[i],
           t[m].opt = s[m].opt, t[m].cases = s[m].cases + 1, t[m].cases <= Slots(s, ss, m)
    PROVE  /\ Coming("sec", s[m], s[m].id + t[m].cases, Depth(s, m)) \in Pending(s, ss)
           /\ Pending(t, ss) = Minus(Pending(s, ss), <<"sec", s[m].id + t[m].cases>>)
<1>0. PICK r : r = Coming("sec", s[m], s[m].id + t[m].cases, Depth(s, m))
  OBVIOUS
<1> DEFINE O(i) == PendingOf(s[i], Slots(s, ss, i), Depth(s, i))
           N(i) == PendingOf(t[i], Slots(s, ss, i), Depth(s, i))
<1>1. \A i \in 1..Len(s) : Slots(t, ss, i) = Slots(s, ss, i) /\ Depth(t, i) = Depth(s, i)
  <2>1. \A i \in 1..Len(s) : Slots(t, ss, i) = Slots(s, ss, i)
    BY ShapeCount, Zenon
  <2>2. \A i \in 0..Len(s) : Depth(t, i) = Depth(s, i)
    BY ShapeCount, Zenon
  <2>3. \A i \in 1..Len(s) : i \in 0..Len(s)
    OBVIOUS
  <2> QED
    BY <2>1, <2>2, <2>3, Zenon
<1>2. Len(t) = Len(s) /\ t[m].kind = s[m].kind /\ t[m].id = s[m].id
  BY DEF SameShape
<1>3. \A q : q \in Pending(s, ss) <=> \E i \in 1..Len(s) : q \in O(i)
  BY Zenon DEF Pending
<1>4. \A q : q \in Pending(t, ss) <=> \E i \in 1..Len(s) : q \in N(i)
  BY <1>1, <1>2 DEF Pending
<1>5. Slots(s, ss, m) \in Nat
  BY SlotsNat
<1>6. s[m] \in Call /\ t[m] \in Call
  BY <1>2
<1>7. r.to = <<"sec", s[m].id + t[m].cases>> /\ r.owner = s[m].id
  BY <1>0, ComingIs
<1>8. N(m) = Minus(O(m), r.to) /\ r \in O(m)
  <2>1. /\ N(m) = Minus(O(m), <<"sec", s[m].id + t[m].cases>>)
        /\ Coming("sec", s[m], s[m].id + t[m].cases, Depth(s, m)) \in O(m)
    BY <1>2, <1>5, <1>6, CaseSlot
  <2> QED
    BY <1>0, <1>7, <2>1
<1>9. \A i \in 1..Len(s) : i # m => N(i) = O(i)
  OBVIOUS
<1>10. r \in Pending(s, ss)
  BY <1>3, <1>8
<1>11. ASSUME NEW i \in 1..Len(s), i # m, NEW q \in O(i) PROVE q.to # r.to
  <2>1. s[i] \in Call /\ Slots(s, ss, i) \in Nat /\ s[i].id \in Nat /\ s[m].id \in Nat
    BY SlotsNat, CallType
  <2>2. s[i].kind # "switch" => Slots(s, ss, i) = 0
    BY DEF Slots
  <2>3. s[i].kind \in Numbered /\ q = Coming(q.to[1], s[i], q.to[2], Depth(s, i))
    BY <2>1, <2>2, PendingOfIs, ZenonT(40)
  <2>4. q.owner = s[i].id
    <3>1. PICK prefix, n : q = Coming(prefix, s[i], n, Depth(s, i))
      BY <2>3
    <3> QED
      BY <3>1 DEF Coming
  <2>5. s[i].id # s[m].id
    <3>1. s[m].kind \in Numbered
      BY DEF Numbered, Breakable
    <3>2. i < m \/ m < i
      BY <1>11
    <3> QED
      BY <1>5, <2>1, <2>3, <3>1, <3>2 DEF NumberInv
  <2>6. q \in Pending(s, ss)
    BY <1>3, Zenon
  <2>7. q.to = r.to => q = r
    BY <1>10, <2>6, Zenon DEF PendingOK
  <2> QED
    BY <1>7, <2>4, <2>5, <2>7, Zenon
<1> HIDE DEF O, N
<1>12. ASSUME NEW q PROVE q \in Pending(t, ss) <=> q \in Minus(Pending(s, ss), r.to)
  <2>1. ASSUME q \in Pending(t, ss) PROVE q \in Pending(s, ss) /\ q.to # r.to
    <3>1. PICK i \in 1..Len(s) : q \in N(i)
      BY <1>4, <2>1, Zenon
    <3>2. q \in O(i) /\ q.to # r.to
      <4>1. CASE i = m
        BY <1>8, <3>1, <4>1 DEF Minus
      <4>2. CASE i # m
        BY <1>9, <1>11, <3>1, <4>2, Zenon
      <4> QED
        BY <4>1, <4>2
    <3> QED
      BY <1>3, <3>2, Zenon
  <2>2. ASSUME q \in Pending(s, ss), q.to # r.to PROVE q \in Pending(t, ss)
    <3>1. PICK i \in 1..Len(s) : q \in O(i)
      BY <1>3, <2>2, Zenon
    <3>2. q \in N(i)
      <4>1. CASE i = m
        BY <1>8, <2>2, <3>1, <4>1 DEF Minus
      <4>2. CASE i # m
        BY <1>9, <3>1, <4>2, Zenon
      <4> QED
        BY <4>1, <4>2
    <3> QED
      BY <1>4, <3>2, Zenon
  <2> QED
    BY <2>1, <2>2, Zenon DEF Minus
<1>13. Pending(t, ss) = Minus(Pending(s, ss), r.to)
  BY <1>12, Zenon
<1> QED
  BY <1>0, <1>7, <1>10, <1>13, Zenon

\* The calls change in what the tables do not depend on.
LEMMA SameTables ==
    ASSUME NEW s, NEW bs, NEW ss, NEW lc, NEW start, NEW ls, NEW c, NEW d, NEW U,
           Good(s, bs, ss, lc, start, ls, c, d, U),
           NEW t \in Seq(Call), SameShape(s, t),
           \A i \in 1..Len(s) : t[i].names = s[i].names,
           \A i \in 1..Len(s) : s[i].kind = "switch" => t[i].cases <= Len(Entries(s, ss, i))
    PROVE  /\ Tables(t, bs, ss, lc, start, ls) /\ StartInv(t, c)
           /\ Len(t) = Len(s) /\ d = Depth(t, Len(t))
<1>1. /\ s \in Seq(Call) /\ ss \in Seq(SwitchEntry) /\ bs \in Seq(BreakEntry)
      /\ ls \in Seq(Local) /\ lc \in Nat /\ start \in Nat
  BY GoodTypes, Zenon
<1>2. NestInv(s, bs, ss) /\ NumberInv(s, ss, lc) /\ ScopeInv(s, start, Len(ls)) /\ NameInv(s, ls)
  BY GoodTypes, Zenon
<1>3. StartInv(s, c) /\ d = Depth(s, Len(s))
  BY GoodTypes
<1>4. Len(t) = Len(s)
  BY DEF SameShape
<1>5. NestInv(t, bs, ss) /\ NumberInv(t, ss, lc)
  BY <1>1, <1>2, <1>3, ShapeTables, Zenon
<1>6. ScopeInv(t, start, Len(ls)) /\ StartInv(t, c)
  BY <1>1, <1>2, <1>3, ShapeTables, Zenon
<1>7. NameInv(t, ls)
  <2>1. \A i \in 1..Len(s) : \A p : Owns(t, i, p) <=> Owns(s, i, p)
    BY <1>1, ShapeOwns, Zenon
  <2>2. \A i \in 1..Len(t), n \in Names :
           /\ t[i].names[n] # 0 =>
                 \E p \in 1..Len(ls) : Owns(t, i, p) /\ ls[p].name = n
           /\ \A p \in 1..Len(ls) :
                 Owns(t, i, p) /\ ls[p].name = n => ls[p].decl = t[i].names[n]
    <3> TAKE i \in 1..Len(t), n \in Names
    <3>1. i \in 1..Len(s) /\ t[i].names = s[i].names
      BY <1>4
    <3>2. /\ s[i].names[n] # 0 =>
                \E p \in 1..Len(ls) : Owns(s, i, p) /\ ls[p].name = n
          /\ \A p \in 1..Len(ls) :
                Owns(s, i, p) /\ ls[p].name = n => ls[p].decl = s[i].names[n]
      BY <1>2, <3>1, Zenon DEF NameInv
    <3> QED
      BY <2>1, <3>1, <3>2, Zenon
  <2> QED
    BY <1>2, <2>2, Zenon DEF NameInv
<1>8. Tables(t, bs, ss, lc, start, ls)
  BY <1>1, <1>5, <1>6, <1>7, Zenon DEF Tables
<1>9. d = Depth(t, Len(t))
  <2>1. Len(s) \in 0..Len(s)
    BY <1>1
  <2>2. Depth(t, Len(s)) = Depth(s, Len(s))
    BY <1>1, <2>1, ShapeCount, Zenon
  <2> QED
    BY <1>3, <1>4, <2>2
<1> QED
  BY <1>4, <1>6, <1>8, <1>9, Zenon

\* A case or default label of the innermost switch, the m-th call.
LEMMA CaseStep ==
    ASSUME NEW s, NEW bs, NEW ss, NEW lc, NEW start, NEW ls, NEW c, NEW d, NEW U,
           Good(s, bs, ss, lc, start, ls, c, d, U),
           NEW m \in 1..Len(s), s[m].kind = "switch",
           \A j \in (m + 1)..Len(s) : s[j].kind \notin {"switch"},
           NEW t \in Seq(Call), SameShape(s, t),
           \A i \in 1..Len(s) : i # m => t[i] = s[i],
           t[m].opt = s[m].opt, t[m].names = s[m].names, t[m].cases = s[m].cases + 1,
           t[m].cases <= Slots(s, ss, m),
           NEW x \in Instr, IsLabel(x), x.to = <<"sec", s[m].id + t[m].cases>>,
           x.owner = s[m].id, x.depth = d
    PROVE  Good(t, bs, ss, lc, start, ls, c \o <<x>>, d, U)
<1> DEFINE P == Pending(s, ss)
<1>1. /\ s \in Seq(Call) /\ ss \in Seq(SwitchEntry) /\ bs \in Seq(BreakEntry)
      /\ ls \in Seq(Local) /\ lc \in Nat /\ start \in Nat
  BY GoodTypes, Zenon
<1>2. NestInv(s, bs, ss) /\ NumberInv(s, ss, lc) /\ ScopeInv(s, start, Len(ls)) /\ NameInv(s, ls)
  BY GoodTypes, Zenon
<1>3. Len(ss) = Depth(s, Len(s)) /\ d = Depth(s, Len(s)) /\ d \in Int
  BY GoodTypes
<1>4. c \in Seq(Instr) /\ CodeInv(c, P, lc, d, U) /\ StartInv(s, c)
  BY GoodTypes, Zenon
<1>7. Depth(s, m) = d
  <2>1. Depth(s, Len(s)) = Depth(s, m)
    <3>1. m \in Nat /\ Len(s) \in Nat /\ m <= Len(s)
      BY <1>1
    <3> QED
      BY <3>1, CountUpTo, Zenon DEF Depth
  <2> QED
    BY <1>3, <2>1
<1>14. /\ Tables(t, bs, ss, lc, start, ls) /\ StartInv(t, c)
       /\ Len(t) = Len(s) /\ d = Depth(t, Len(t))
  <2>1. \A i \in 1..Len(s) : s[i].kind = "switch" => t[i].cases <= Len(Entries(s, ss, i))
    <3> SUFFICES ASSUME NEW i \in 1..Len(s), s[i].kind = "switch"
                 PROVE  t[i].cases <= Len(Entries(s, ss, i))
      OBVIOUS
    <3>1. CASE i = m
      BY <3>1 DEF Slots
    <3>2. CASE i # m
      BY <1>2, <3>2 DEF NestInv
    <3> QED
      BY <3>1, <3>2
  <2>2. \A i \in 1..Len(s) : t[i].names = s[i].names
    OBVIOUS
  <2>3. Tables(t, bs, ss, lc, start, ls) /\ StartInv(t, c)
    BY <2>1, <2>2, SameTables, Zenon
  <2>4. Len(t) = Len(s) /\ d = Depth(t, Len(t))
    BY <2>1, <2>2, SameTables
  <2> QED
    BY <2>3, <2>4
<1>18. PendingOK(P, lc)
  BY <1>4, Zenon DEF CodeInv
<1>19. Pending(t, ss) = Minus(P, <<"sec", s[m].id + t[m].cases>>)
  BY <1>1, <1>2, <1>3, <1>18, CasePending, Zenon
<1>20. PICK r \in P : x.to = r.to /\ x.owner = r.owner /\ r.depth = d
  <2>1. Coming("sec", s[m], s[m].id + t[m].cases, Depth(s, m)) \in P
    BY <1>1, <1>2, <1>3, <1>18, CasePending, Zenon
  <2>2. PICK r \in P : r = Coming("sec", s[m], s[m].id + t[m].cases, Depth(s, m))
    BY <2>1
  <2>3. x.to = r.to /\ x.owner = r.owner /\ r.depth = d
    BY <1>7, <2>2 DEF Coming
  <2> QED
    BY <2>3
<1> HIDE DEF P
<1>21. CodeInv(c \o <<x>>, Minus(P, r.to), lc, d, U) /\ Extends(c, c \o <<x>>)
  <2>1. CodeInv(c \o <<x>>, Minus(P, r.to), lc, d, U)
    BY <1>1, <1>3, <1>4, <1>20, EmitLabel, Zenon
  <2>2. ASSUME NEW is \in Seq(Instr) PROVE Extends(c, c \o is)
    BY <1>4, Joined DEF Extends
  <2>3. <<x>> \in Seq(Instr)
    OBVIOUS
  <2> QED
    BY <2>1, <2>2, <2>3, Zenon
<1>22. StartInv(t, c \o <<x>>)
  <2>1. c \o <<x>> \in Seq(Instr)
    BY <1>21, Zenon DEF CodeInv
  <2> QED
    BY <1>4, <1>14, <1>21, <2>1, StartStays, Zenon
<1>23. CodeInv(c \o <<x>>, Pending(t, ss), lc, d, U)
  BY <1>19, <1>20, <1>21, Zenon
<1> QED
  BY <1>14, <1>22, <1>23, Zenon DEF Good


\* A user label.
LEMMA UserGood ==
    ASSUME NEW s, NEW bs, NEW ss, NEW lc, NEW start, NEW ls, NEW c, NEW d, NEW U,
           Good(s, bs, ss, lc, start, ls, c, d, U), NEW l \in Labels,
           ~ \E p \in 1..Len(c) : IsLabel(c[p]) /\ c[p].to = <<"usr", l>>
    PROVE  Good(s, bs, ss, lc, start, ls, c \o <<Lab("usr", l, d)>>, d, U)
<1>1. lc \in Nat /\ CodeInv(c, Pending(s, ss), lc, d, U) /\ d \in Int
  BY GoodTypes, Zenon
<1>2. /\ CodeInv(c \o <<Lab("usr", l, d)>>, Pending(s, ss), lc, d, U)
      /\ Extends(c, c \o <<Lab("usr", l, d)>>)
  BY <1>1, EmitUsr, Zenon
<1> QED
  BY <1>2, GoodCode, Zenon

\* A variable is added.
LEMMA AddGood ==
    ASSUME NEW s, NEW bs, NEW ss, NEW lc, NEW start, NEW ls, NEW c, NEW d, NEW U,
           Good(s, bs, ss, lc, start, ls, c, d, U),
           NEW n \in Names, NEW dn, NEW v, IsVar(v, n, dn),
           NewName(ls, start, n), NEW t, Noted(s, t, n, dn)
    PROVE  Good(t, bs, ss, lc, start, Append(ls, v), c, d, U)
<1>1. /\ Tables(s, bs, ss, lc, start, ls) /\ d = Depth(s, Len(s)) /\ StartInv(s, c)
      /\ CodeInv(c, Pending(s, ss), lc, d, U)
  BY Zenon DEF Good
<1>2. Tables(t, bs, ss, lc, start, Append(ls, v)) /\ StartInv(t, c)
  BY <1>1, AddTables, Zenon
<1>3. Pending(t, ss) = Pending(s, ss)
  BY <1>1, AddTables
<1>4. Depth(t, Len(t)) = Depth(s, Len(s))
  BY <1>1, AddTables
<1> QED
  BY <1>1, <1>2, <1>3, <1>4, Zenon DEF Good

\* What is known of the innermost call f when it is left.
LEMMA CloseFacts ==
    ASSUME NEW o \in Seq(Call), NEW f \in Call,
           NEW bs, NEW ss, NEW lc, NEW start, NEW ls, NEW c, NEW d, NEW U,
           Good(Append(o, f), bs, ss, lc, start, ls, c, d, U), f.kind # "switch"
    PROVE  /\ CodeInv(c, Pending(o, ss) \cup Own(f, LabelsLeft(f), d), lc, d, U)
           /\ d = Depth(o, Len(o))
           /\ f.kind \in Numbered => Below(Pending(o, ss), f)
<1>1. /\ ss \in Seq(SwitchEntry) /\ lc \in Nat
      /\ NumberInv(Append(o, f), ss, lc)
  BY GoodTypes, Zenon
<1>2. Len(ss) = Depth(Append(o, f), Len(Append(o, f))) /\ d = Depth(Append(o, f), Len(Append(o, f)))
  BY GoodTypes
<1>3. One(f.kind, {"switch"}) = 0
  BY DEF One
<1>4. d = Depth(o, Len(o)) /\ Len(ss) = Depth(o, Len(o))
  BY <1>2, <1>3, DepthPushed
<1>5. Pending(Append(o, f), ss) = Pending(o, ss) \cup Own(f, LabelsLeft(f), d)
  BY <1>1, <1>4, PendingTop
<1>6. ASSUME f.kind \in Numbered PROVE Below(Pending(o, ss), f)
  <2>1. PushSwitch(ss, f, NoEntry) = ss
    BY DEF PushSwitch
  <2>2. NoEntry \in SwitchEntry
    BY NoEntryType, Zenon
  <2>3. NumberInv(Append(o, f), PushSwitch(ss, f, NoEntry), lc)
    BY <1>1, <2>1, Zenon
  <2>4. \A r \in Pending(o, ss) : r.to[2] \in Nat /\ r.to[2] < f.id
    BY <1>1, <1>4, <1>6, <2>2, <2>3, ClosePending, Zenon
  <2> QED
    BY <2>4 DEF Below
<1>7. CodeInv(c, Pending(Append(o, f), ss), lc, d, U)
  BY GoodTypes, Zenon
<1>8. CodeInv(c, Pending(o, ss) \cup Own(f, LabelsLeft(f), d), lc, d, U)
  BY <1>5, <1>7
<1> QED
  BY <1>4, <1>6, <1>8, Zenon

\* The same for a switch, whose case labels are all emitted.
LEMMA CloseSwitch ==
    ASSUME NEW o \in Seq(Call), NEW f \in Call,
           NEW bs, NEW ss, NEW lc, NEW start, NEW ls, NEW c, NEW d, NEW U,
           Good(Append(o, f), bs, ss, lc, start, ls, c, d, U), f.kind = "switch",
           f.cases = Len(Last(ss).entries)
    PROVE  /\ CodeInv(c, Pending(o, Front(ss)) \cup Own(f, {"stop", "break"}, d), lc, d, U)
           /\ d - 1 = Depth(o, Len(o))
           /\ Below(Pending(o, Front(ss)), f)
<1>1. /\ ss \in Seq(SwitchEntry) /\ lc \in Nat /\ bs \in Seq(BreakEntry)
      /\ NumberInv(Append(o, f), ss, lc) /\ NestInv(Append(o, f), bs, ss)
  BY GoodTypes, Zenon
<1>2. Len(ss) = Depth(Append(o, f), Len(Append(o, f))) /\ d = Depth(Append(o, f), Len(Append(o, f)))
  <2>1. Len(ss) = Depth(Append(o, f), Len(Append(o, f)))
    BY GoodTypes, Zenon
  <2>2. d = Depth(Append(o, f), Len(Append(o, f)))
    BY Zenon DEF Good
  <2> QED
    BY <2>1, <2>2
<1>3. One(f.kind, {"switch"}) = 1
  BY DEF One
<1>4. d = Depth(o, Len(o)) + 1 /\ Depth(o, Len(o)) \in Nat /\ Len(Append(o, f)) = Len(o) + 1
  BY <1>2, <1>3, DepthPushed
<1> DEFINE ss1 == Front(ss)
           e == Last(ss)
<1>5. ss1 \in Seq(SwitchEntry) /\ e \in SwitchEntry /\ ss = Append(ss1, e)
      /\ Len(ss1) = Depth(o, Len(o))
  <2>1. ss # <<>>
    BY <1>1, PopNest
  <2>2. ss1 \in Seq(SwitchEntry) /\ e \in SwitchEntry
    BY <1>1, <2>1, Popped, Zenon
  <2>3. ss = Append(ss1, e)
    BY <1>1, <2>1, Popped, Zenon
  <2>4. Len(ss1) = Len(ss) - 1
    BY <1>1, <2>1, Popped, Zenon
  <2>5. Len(ss) = Depth(o, Len(o)) + 1
    BY <1>2, <1>4, Zenon
  <2> QED
    BY <1>4, <2>2, <2>3, <2>4, <2>5
<1> HIDE DEF ss1, e
<1>6. PushSwitch(ss1, f, e) = ss
  BY <1>5, Zenon DEF PushSwitch
<1>7. SlotsIn(f, e) = f.cases /\ SlotsIn(f, e) \in Nat
  <2>1. SlotsIn(f, e) = f.cases
    BY DEF SlotsIn, e
  <2>2. SlotsIn(f, e) \in Nat
    BY <1>5, SlotsInNat, Zenon
  <2> QED
    BY <2>1, <2>2
<1>8. LabelsLeft(f) = {"stop", "break"} /\ f.kind \in Numbered
  BY DEF LabelsLeft, Numbered, Breakable
<1>9. Pending(Append(o, f), ss) = Pending(o, ss1) \cup PendingOf(f, SlotsIn(f, e), d)
  <2>1. Pending(Append(o, f), PushSwitch(ss1, f, e)) =
          Pending(o, ss1) \cup PendingOf(f, SlotsIn(f, e), Depth(Append(o, f), Len(o) + 1))
    <3>1. ss1 \in Seq(SwitchEntry) /\ e \in SwitchEntry /\ Len(ss1) = Depth(o, Len(o))
      BY <1>5, Zenon
    <3> QED
      BY <3>1, PushPending
  <2>2. d = Depth(Append(o, f), Len(o) + 1)
    BY <1>2, <1>4
  <2> QED
    BY <1>6, <2>1, <2>2
<1>10. PendingOf(f, SlotsIn(f, e), d) = Own(f, {"stop", "break"}, d)
  <2>1. SlotsIn(f, e) <= f.cases
    BY <1>7
  <2>2. PendingOf(f, SlotsIn(f, e), d) = Own(f, LabelsLeft(f), d)
    BY <1>7, <2>1, PendingOwn
  <2> QED
    BY <1>8, <2>2
<1>11. Below(Pending(o, ss1), f)
  <2>1. NumberInv(Append(o, f), PushSwitch(ss1, f, e), lc)
    BY <1>1, <1>6, Zenon
  <2>2. \A r \in Pending(o, ss1) : r.to[2] \in Nat /\ r.to[2] < f.id
    BY <1>1, <1>5, <1>8, <2>1, ClosePending, Zenon
  <2> QED
    BY <2>2, Zenon DEF Below
<1>12. d - 1 = Depth(o, Len(o))
  BY <1>4
<1>13. CodeInv(c, Pending(Append(o, f), ss), lc, d, U)
  BY GoodTypes, Zenon
<1>14. CodeInv(c, Pending(o, ss1) \cup Own(f, {"stop", "break"}, d), lc, d, U)
  BY <1>9, <1>10, <1>13
<1> QED
  BY <1>11, <1>12, <1>14, Zenon DEF ss1

\* The innermost call f is left, with the code c2.
LEMMA CloseGood ==
    ASSUME NEW o \in Seq(Call), NEW f \in Call,
           NEW bs, NEW ss, NEW lc, NEW start, NEW ls, NEW c, NEW d, NEW U,
           Good(Append(o, f), bs, ss, lc, start, ls, c, d, U),
           NEW c2, Extends(c, c2), NEW d2, d2 = Depth(o, Len(o)),
           CodeInv(c2, Pending(o, PopSwitchOf(ss, f)), lc, d2, U)
    PROVE  /\ f.kind \in Scopes =>
                Good(o, PopBreakOf(bs, f), PopSwitchOf(ss, f), lc, f.saved_scope_start,
                     SubSeq(ls, 1, f.saved_local_count), c2, d2, U)
           /\ f.kind \notin Scopes =>
                Good(o, PopBreakOf(bs, f), PopSwitchOf(ss, f), lc, start, ls, c2, d2, U)
<1>1. Tables(Append(o, f), bs, ss, lc, start, ls) /\ StartInv(Append(o, f), c)
  BY Zenon DEF Good
<1>2. c \in Seq(Instr)
  BY GoodTypes, Zenon
<1>3. c2 \in Seq(Instr)
  BY Zenon DEF CodeInv
<1>4. StartInv(o, c)
  BY <1>1, StartPushed, Zenon
<1>5. StartInv(o, c2)
  BY <1>2, <1>3, <1>4, StartStays, Zenon
<1>6. f.kind \in Scopes =>
        Tables(o, PopBreakOf(bs, f), PopSwitchOf(ss, f), lc, f.saved_scope_start,
               SubSeq(ls, 1, f.saved_local_count))
  BY <1>1, CloseTables, Zenon
<1>7. f.kind \notin Scopes =>
        Tables(o, PopBreakOf(bs, f), PopSwitchOf(ss, f), lc, start, ls)
  BY <1>1, CloseTables, Zenon
<1> QED
  BY <1>5, <1>6, <1>7, Zenon DEF Good

LEMMA OwnNone ==
    ASSUME NEW P, NEW f, NEW d
    PROVE  P \cup Own(f, {}, d) = P
  BY DEF Own

\* A block or a labelled statement is left.
LEMMA LeavePlain ==
    ASSUME NEW o \in Seq(Call), NEW f \in Call,
           NEW bs, NEW ss, NEW lc, NEW start, NEW ls, NEW c, NEW d, NEW U,
           Good(Append(o, f), bs, ss, lc, start, ls, c, d, U), f.kind \in {"block", "label"}
    PROVE  /\ f.kind = "block" =>
                Good(o, bs, ss, lc, f.saved_scope_start,
                     SubSeq(ls, 1, f.saved_local_count), c, d, U)
           /\ f.kind = "label" => Good(o, bs, ss, lc, start, ls, c, d, U)
<1>1. /\ f.kind # "switch" /\ f.kind \notin Breakable /\ LabelsLeft(f) = {}
      /\ f.kind = "block" => f.kind \in Scopes
      /\ f.kind = "label" => f.kind \notin Scopes
  BY DEF Breakable, Loops, LabelsLeft, Scopes
<1>2. PopBreakOf(bs, f) = bs /\ PopSwitchOf(ss, f) = ss
  BY <1>1 DEF PopBreakOf, PopSwitchOf
<1>3. CodeInv(c, Pending(o, ss) \cup Own(f, LabelsLeft(f), d), lc, d, U)
  BY <1>1, CloseFacts, Zenon
<1>4. d = Depth(o, Len(o))
  BY <1>1, CloseFacts
<1>5. CodeInv(c, Pending(o, ss), lc, d, U)
  BY <1>1, <1>3, OwnNone
<1>6. c \in Seq(Instr)
  BY GoodTypes, Zenon
<1>7. CodeInv(c, Pending(o, PopSwitchOf(ss, f)), lc, d, U)
  BY <1>2, <1>5
<1>8. Extends(c, c)
  BY <1>6 DEF Extends
<1>9. f.kind \in Scopes =>
        Good(o, PopBreakOf(bs, f), PopSwitchOf(ss, f), lc, f.saved_scope_start,
             SubSeq(ls, 1, f.saved_local_count), c, d, U)
  BY <1>4, <1>7, <1>8, CloseGood, Zenon
<1>10. f.kind \notin Scopes =>
         Good(o, PopBreakOf(bs, f), PopSwitchOf(ss, f), lc, start, ls, c, d, U)
  BY <1>4, <1>7, <1>8, CloseGood, Zenon
<1> QED
  BY <1>1, <1>2, <1>9, <1>10

\* An if statement is left after its last branch.
LEMMA LeaveIf ==
    ASSUME NEW o \in Seq(Call), NEW f \in Call,
           NEW bs, NEW ss, NEW lc, NEW start, NEW ls, NEW c, NEW d, NEW U,
           Good(Append(o, f), bs, ss, lc, start, ls, c, d, U), f.kind = "if", ~f.opt
    PROVE  Good(o, bs, ss, lc, start, ls, c \o <<Lab("end", f.id, d)>>, d, U)
<1> DEFINE P == Pending(o, ss)
           c2 == c \o <<Lab("end", f.id, d)>>
<1>1. /\ f.kind # "switch" /\ f.kind \notin Breakable /\ LabelsLeft(f) = {"end"}
      /\ f.kind \in Numbered /\ f.kind \notin Scopes
  BY DEF Breakable, Loops, LabelsLeft, Scopes, Numbered
<1>2. PopBreakOf(bs, f) = bs /\ PopSwitchOf(ss, f) = ss
  BY <1>1 DEF PopBreakOf, PopSwitchOf
<1>3. CodeInv(c, P \cup Own(f, LabelsLeft(f), d), lc, d, U)
  BY <1>1, CloseFacts, Zenon
<1>4. d = Depth(o, Len(o))
  BY <1>1, CloseFacts
<1>5. Below(P, f)
  BY <1>1, CloseFacts, Zenon
<1>6. lc \in Nat /\ d \in Int
  BY GoodTypes, Zenon
<1>7. CodeInv(c, P \cup Own(f, {"end"}, d), lc, d, U)
  BY <1>1, <1>3
<1>8. {"end"} \ {"end"} = {} /\ "end" \in {"end"} /\ "end" \in OwnPrefixes
  BY DEF OwnPrefixes
<1> HIDE DEF P
<1>9. CodeInv(c2, P \cup Own(f, {"end"} \ {"end"}, d), lc, d, U) /\ Extends(c, c2)
  BY <1>5, <1>6, <1>7, <1>8, EmitOwn, Zenon
<1> HIDE DEF c2
<1>10. CodeInv(c2, P, lc, d, U)
  BY <1>8, <1>9, OwnNone, Zenon
<1>11. CodeInv(c2, Pending(o, PopSwitchOf(ss, f)), lc, d, U)
  BY <1>2, <1>10, Zenon DEF P
<1>12. f.kind \notin Scopes =>
         Good(o, PopBreakOf(bs, f), PopSwitchOf(ss, f), lc, start, ls, c2, d, U)
  BY <1>4, <1>9, <1>11, CloseGood, Zenon
<1> QED
  BY <1>1, <1>2, <1>12 DEF c2

\* The end labels of a loop or a switch.
LEMMA EndLabels ==
    ASSUME NEW f \in Call, NEW P, Below(P, f), NEW c, NEW lc \in Nat, NEW d \in Int, NEW U,
           CodeInv(c, P \cup Own(f, {"stop", "break"}, d), lc, d, U)
    PROVE  LET c2 == c \o <<Lab("stop", f.id, d), Lab("break", f.id, d)>>
           IN CodeInv(c2, P, lc, d, U) /\ Extends(c, c2) /\ c2 \in Seq(Instr)
<1> DEFINE a == Lab("stop", f.id, d)
           b == Lab("break", f.id, d)
           c1 == c \o <<a>>
           c2 == c1 \o <<b>>
<1>1. /\ {"stop", "break"} \ {"stop"} = {"break"} /\ {"break"} \ {"break"} = {}
      /\ "stop" \in {"stop", "break"} /\ "break" \in {"break"}
      /\ "stop" \in OwnPrefixes /\ "break" \in OwnPrefixes
  BY DEF OwnPrefixes
<1>2. a \in Instr /\ b \in Instr
  BY <1>1, CondType, Zenon
<1>3. /\ CodeInv(c1, P \cup Own(f, {"stop", "break"} \ {"stop"}, d), lc, d, U)
      /\ Extends(c, c1) /\ c \in Seq(Instr) /\ c1 \in Seq(Instr)
  BY <1>1, EmitOwn, Zenon
<1> HIDE DEF c1
<1>4. CodeInv(c1, P \cup Own(f, {"break"}, d), lc, d, U)
  BY <1>1, <1>3, Zenon
<1>5. /\ CodeInv(c2, P \cup Own(f, {"break"} \ {"break"}, d), lc, d, U)
      /\ Extends(c1, c2) /\ c2 \in Seq(Instr)
  BY <1>1, <1>4, EmitOwn, Zenon
<1> HIDE DEF c2
<1>6. CodeInv(c2, P, lc, d, U)
  BY <1>1, <1>5, OwnNone, Zenon
<1>7. Extends(c, c2)
  BY <1>3, <1>5, Transitive, Zenon
<1> HIDE DEF a, b
<1>8. c \o <<a, b>> = c2
  <2>1. c \o <<a, b>> = (c \o <<a>>) \o <<b>>
    BY <1>2, <1>3, Two
  <2> QED
    BY <2>1 DEF c2, c1
<1> QED
  BY <1>5, <1>6, <1>7, <1>8, Zenon DEF a, b

\* A switch is left.
LEMMA LeaveSwitch ==
    ASSUME NEW o \in Seq(Call), NEW f \in Call,
           NEW bs, NEW ss, NEW lc, NEW start, NEW ls, NEW c, NEW d, NEW U,
           Good(Append(o, f), bs, ss, lc, start, ls, c, d, U), f.kind = "switch",
           f.cases = Len(Last(ss).entries)
    PROVE  Good(o, Front(bs), Front(ss), lc, start, ls, c \o SwitchTail(f.id, d), d - 1, U)
<1> DEFINE P == Pending(o, Front(ss))
           a == Lab("stop", f.id, d)
           b == Lab("break", f.id, d)
           y == Op("pop", d)
           c2 == c \o <<a, b>>
           c3 == c2 \o <<y>>
<1>1. f.kind \in Breakable /\ f.kind \notin Scopes
  BY DEF Breakable, Scopes
<1>2. PopBreakOf(bs, f) = Front(bs) /\ PopSwitchOf(ss, f) = Front(ss)
  BY <1>1 DEF PopBreakOf, PopSwitchOf
<1>7. CodeInv(c, P \cup Own(f, {"stop", "break"}, d), lc, d, U)
  BY CloseSwitch, Zenon
<1>4. d - 1 = Depth(o, Len(o))
  BY CloseSwitch
<1>5. Below(P, f)
  BY CloseSwitch, Zenon
<1>6. lc \in Nat /\ d \in Int /\ c \in Seq(Instr)
  BY GoodTypes, Zenon
<1> HIDE DEF P
<1>8. CodeInv(c2, P, lc, d, U) /\ Extends(c, c2) /\ c2 \in Seq(Instr)
  BY <1>5, <1>6, <1>7, EndLabels, Zenon
<1> HIDE DEF c2
<1>9. CodeInv(c3, P, lc, d - 1, U) /\ Extends(c2, c3)
  <2>1. /\ CodeInv(c3, P, lc, IF "pop" = "push" THEN d + 1 ELSE d - 1, U)
        /\ Extends(c2, c3)
    BY <1>6, <1>8, EmitPush
  <2> QED
    BY <2>1
<1> HIDE DEF c3
<1>10. c3 \in Seq(Instr)
  BY <1>9, Zenon DEF CodeInv
<1>11. Extends(c, c3)
  BY <1>6, <1>8, <1>9, <1>10, Transitive, Zenon
<1>12. CodeInv(c3, Pending(o, PopSwitchOf(ss, f)), lc, d - 1, U)
  BY <1>2, <1>9, Zenon DEF P
<1>13. f.kind \notin Scopes =>
         Good(o, PopBreakOf(bs, f), PopSwitchOf(ss, f), lc, start, ls, c3, d - 1, U)
  BY <1>4, <1>11, <1>12, CloseGood, Zenon
<1>14. a \in Instr /\ b \in Instr /\ y \in Instr
  <2>1. "stop" \in OwnPrefixes /\ "break" \in OwnPrefixes
    BY DEF OwnPrefixes
  <2>2. a \in Instr /\ b \in Instr
    BY <1>6, <2>1, CondType, Zenon
  <2>3. y \in Instr
    BY <1>6, InsType DEF Op, LabelPrefixes
  <2> QED
    BY <2>2, <2>3
<1>15. c3 = c \o SwitchTail(f.id, d)
  <2> HIDE DEF a, b, y
  <2>1. <<a, b, y>> = <<a, b>> \o <<y>>
    OBVIOUS
  <2>2. <<a, b>> \in Seq(Instr) /\ <<y>> \in Seq(Instr)
    BY <1>14
  <2>3. ASSUME NEW u \in Seq(Instr), NEW w \in Seq(Instr) PROVE c \o (u \o w) = (c \o u) \o w
    BY <1>6, Assoc, Zenon
  <2>4. c3 = c \o <<a, b, y>>
    BY <2>1, <2>2, <2>3, Zenon DEF c3, c2
  <2> QED
    BY <2>4, Zenon DEF SwitchTail, a, b, y
<1> QED
  BY <1>1, <1>2, <1>13, <1>15

\* The else branch of an if statement is begun: g is what is left of the call.
LEMMA LeaveElse ==
    ASSUME NEW o \in Seq(Call), NEW f \in Call, NEW g \in Call,
           NEW bs, NEW ss, NEW lc, NEW start, NEW ls, NEW c, NEW d, NEW U,
           Good(Append(o, f), bs, ss, lc, start, ls, c, d, U), f.kind = "if", f.opt,
           g.kind = f.kind, g.id = f.id, g.saved_scope_start = f.saved_scope_start,
           g.saved_local_count = f.saved_local_count, g.names = f.names, ~g.opt
    PROVE  Good(Append(o, g), bs, ss, lc, start, ls,
                c \o <<Jmp("end", f.id, d), Lab("else", f.id, d)>>, d, U)
<1> DEFINE P == Pending(o, ss)
           s == Append(o, f)
           t == Append(o, g)
           a == Jmp("end", f.id, d)
           b == Lab("else", f.id, d)
           c1 == c \o <<a>>
           c2 == c1 \o <<b>>
           ps == {"end", "else"}
<1>1. /\ f.kind # "switch" /\ LabelsLeft(f) = ps /\ LabelsLeft(g) = {"end"}
      /\ f.kind \in Numbered
  BY DEF LabelsLeft, Numbered
<1>2. /\ ps \ {"else"} = {"end"} /\ "else" \in ps /\ "end" \in ps
      /\ "end" \in OwnPrefixes /\ "else" \in OwnPrefixes
  BY DEF OwnPrefixes
<1>3. CodeInv(c, P \cup Own(f, LabelsLeft(f), d), lc, d, U)
  BY <1>1, CloseFacts, Zenon
<1>4. d = Depth(o, Len(o))
  BY <1>1, CloseFacts
<1>5. Below(P, f)
  BY <1>1, CloseFacts, Zenon
<1>6. lc \in Nat /\ d \in Int /\ c \in Seq(Instr) /\ ss \in Seq(SwitchEntry)
      /\ NestInv(s, bs, ss)
  BY GoodTypes, Zenon
<1>7. Len(ss) = Depth(o, Len(o))
  <2>1. Len(ss) = Depth(s, Len(s))
    BY GoodTypes, Zenon
  <2>2. d = Depth(s, Len(s))
    BY Zenon DEF Good
  <2> QED
    BY <1>4, <2>1, <2>2
<1>8. /\ s \in Seq(Call) /\ t \in Seq(Call) /\ Len(o) \in Nat
      /\ Len(s) = Len(o) + 1 /\ Len(t) = Len(o) + 1
      /\ s[Len(o) + 1] = f /\ t[Len(o) + 1] = g
      /\ \A i \in 1..Len(o) : s[i] = o[i] /\ t[i] = o[i]
  BY Pushed
<1>9. Tables(t, bs, ss, lc, start, ls) /\ StartInv(t, c) /\ d = Depth(t, Len(t))
  <2> HIDE DEF s, t
  <2>0. \A i \in 1..Len(s) : i = Len(o) + 1 \/ i \in 1..Len(o)
    BY <1>8
  <2>1. SameShape(s, t)
    BY <1>8, <2>0 DEF SameShape
  <2>2. \A i \in 1..Len(s) : t[i].names = s[i].names
    BY <1>8, <2>0
  <2>3. \A i \in 1..Len(s) : s[i].kind = "switch" => t[i].cases <= Len(Entries(s, ss, i))
    <3>1. \A i \in 1..Len(s) : s[i].kind = "switch" => t[i] = s[i]
      BY <1>1, <1>8, <2>0
    <3> QED
      BY <1>6, <3>1 DEF NestInv
  <2>4. Good(s, bs, ss, lc, start, ls, c, d, U)
    BY DEF s
  <2>5. Tables(t, bs, ss, lc, start, ls) /\ StartInv(t, c)
    BY <1>8, <2>1, <2>2, <2>3, <2>4, SameTables, Zenon
  <2>6. d = Depth(t, Len(t))
    BY <1>8, <2>1, <2>2, <2>3, <2>4, SameTables
  <2> QED
    BY <2>5, <2>6
<1> HIDE DEF s, t, P, ps
<1>10. CodeInv(c, P \cup Own(f, ps, d), lc, d, U)
  BY <1>1, <1>3, Zenon
<1>11. Coming("end", f, f.id, d) \in P \cup Own(f, ps, d)
  BY <1>2, Zenon DEF Own
<1>12. CodeInv(c1, P \cup Own(f, ps, d), lc, d, U) /\ Extends(c, c1)
  BY <1>2, <1>6, <1>10, <1>11, EmitOwnJump, Zenon
<1> HIDE DEF c1
<1>13. /\ CodeInv(c2, P \cup Own(f, ps \ {"else"}, d), lc, d, U)
       /\ Extends(c1, c2) /\ c1 \in Seq(Instr) /\ c2 \in Seq(Instr)
  BY <1>2, <1>5, <1>6, <1>12, EmitOwn, Zenon
<1> HIDE DEF c2
<1>14. CodeInv(c2, P \cup Own(f, {"end"}, d), lc, d, U)
  BY <1>2, <1>13, Zenon
<1>15. Pending(t, ss) = P \cup Own(f, {"end"}, d)
  <2>1. g.kind # "switch"
    BY <1>1
  <2>2. Pending(t, ss) = P \cup Own(g, LabelsLeft(g), Depth(o, Len(o)))
    BY <1>6, <1>7, <2>1, PendingTop DEF t, P
  <2>3. \A prefix : Coming(prefix, g, g.id, d) = Coming(prefix, f, f.id, d)
    BY DEF Coming
  <2>4. Own(g, {"end"}, d) = Own(f, {"end"}, d)
    BY <2>3, Zenon DEF Own
  <2> QED
    BY <1>1, <1>4, <2>2, <2>4
<1>16. Extends(c, c2)
  BY <1>6, <1>12, <1>13, Transitive, Zenon
<1>17. StartInv(t, c2)
  BY <1>6, <1>9, <1>13, <1>16, StartStays, Zenon
<1>18. CodeInv(c2, Pending(t, ss), lc, d, U)
  BY <1>14, <1>15
<1>19. Good(t, bs, ss, lc, start, ls, c2, d, U)
  BY <1>9, <1>17, <1>18, Zenon DEF Good
<1>20. c \o <<a, b>> = c2
  <2>1. a \in Instr /\ b \in Instr
    BY <1>2, <1>6, CondType, Zenon
  <2> HIDE DEF a, b
  <2>2. c \o <<a, b>> = (c \o <<a>>) \o <<b>>
    BY <1>6, <2>1, Two
  <2> QED
    BY <2>2 DEF c1, c2
<1> QED
  BY <1>19, <1>20, Zenon DEF t, a, b

LEMMA EmitMaybe ==
    ASSUME NEW c, NEW P, NEW lc \in Nat, NEW d \in Int, NEW U, CodeInv(c, P, lc, d, U),
           NEW e \in BOOLEAN
    PROVE  LET is == IF e THEN Expr(d) ELSE <<>>
           IN /\ CodeInv(c \o is, P, lc, d, U) /\ Extends(c, c \o is)
              /\ is \in Seq(Instr)
<1>0. c \in Seq(Instr)
  BY Zenon DEF CodeInv
<1>1. CASE e
  <2>1. Expr(d) \in Seq(Instr)
    BY ExprFlat, Zenon
  <2> QED
    BY <1>1, <2>1, EmitExpr
<1>2. CASE ~e
  <2>1. c \o <<>> = c
    BY <1>0, ConcatEmptySeq
  <2>2. Extends(c, c)
    BY <1>0 DEF Extends
  <2> QED
    BY <1>2, <2>1, <2>2
<1> QED
  BY <1>1, <1>2

\* What a loop emits after its body, before the end labels.
LEMMA TailCode ==
    ASSUME NEW f \in Call, f.kind \in Loops, NEW P, Below(P, f), NEW c, NEW lc \in Nat,
           NEW d \in Int, NEW U, CodeInv(c, P \cup Own(f, LabelsLeft(f), d), lc, d, U),
           Has(c, Coming("start", f, f.id, d))
    PROVE  LET is == LoopTail(f.kind, f.id, f.opt, d)
           IN /\ CodeInv(c \o is, P \cup Own(f, {"stop", "break"}, d), lc, d, U)
              /\ Extends(c, c \o is) /\ is \in Seq(Instr)
<1> DEFINE Q == P \cup Own(f, {"stop", "break"}, d)
           r == Coming("start", f, f.id, d)
<1>0. "start" \in OwnPrefixes /\ "continue" \in OwnPrefixes
      /\ {"continue", "stop", "break"} \ {"continue"} = {"stop", "break"}
      /\ "continue" \in {"continue", "stop", "break"}
  BY DEF OwnPrefixes
<1>1. c \in Seq(Instr)
  BY Zenon DEF CodeInv
<1>2. /\ Jmp("start", f.id, d) \in Instr /\ <<Jmp("start", f.id, d)>> \in Seq(Instr)
      /\ Jcc("start", f.id, d) \in Instr /\ <<Jcc("start", f.id, d)>> \in Seq(Instr)
      /\ <<Lab("continue", f.id, d)>> \in Seq(Instr)
  BY <1>0, CondType, Zenon
<1>3. CASE f.kind = "while"
  <2>1. LabelsLeft(f) = {"stop", "break"} /\ LoopTail(f.kind, f.id, f.opt, d) = <<Jmp("start", f.id, d)>>
    BY <1>3 DEF LabelsLeft, LoopTail
  <2>2. CodeInv(c, Q, lc, d, U)
    BY <2>1
  <2> HIDE DEF Q
  <2>3. /\ CodeInv(c \o <<Jmp("start", f.id, d)>>, Q, lc, d, U)
        /\ Extends(c, c \o <<Jmp("start", f.id, d)>>)
    BY <1>0, <2>2, EmitOwnJump, Zenon
  <2> QED
    BY <1>2, <2>1, <2>3, Zenon DEF Q
<1>4. CASE f.kind # "while"
  <2> DEFINE a == <<Lab("continue", f.id, d)>>
             e == IF f.kind = "do" \/ f.opt THEN Expr(d) ELSE <<>>
             j == IF f.kind = "do" THEN <<Jcc("start", f.id, d)>> ELSE <<Jmp("start", f.id, d)>>
             c1 == c \o a
             c2 == c1 \o e
             c3 == c2 \o j
  <2>1. LabelsLeft(f) = {"continue", "stop", "break"}
    BY <1>4, LoopKind
  <2>2. LoopTail(f.kind, f.id, f.opt, d) = (a \o e) \o j
    <3>1. f.opt \in BOOLEAN
      BY DEF Call
    <3>2. CASE f.kind = "do"
      BY <3>2 DEF LoopTail
    <3>3. CASE f.kind = "for"
      BY <3>1, <3>3 DEF LoopTail
    <3> QED
      BY <1>4, <3>2, <3>3 DEF Loops
  <2>3. CodeInv(c, P \cup Own(f, {"continue", "stop", "break"}, d), lc, d, U)
    BY <2>1
  <2>4. CodeInv(c1, P \cup Own(f, {"continue", "stop", "break"} \ {"continue"}, d), lc, d, U)
    BY <1>0, <2>3, EmitOwn, Zenon
  <2>5. Extends(c, c1) /\ c1 \in Seq(Instr)
    BY <1>0, <2>3, EmitOwn, Zenon
  <2>6. CodeInv(c1, Q, lc, d, U)
    BY <1>0, <2>4
  <2> HIDE DEF c1, Q, a
  <2>7. CodeInv(c2, Q, lc, d, U) /\ Extends(c1, c2) /\ e \in Seq(Instr)
    <3>1. (f.kind = "do" \/ f.opt) \in BOOLEAN
      OBVIOUS
    <3> QED
      BY <2>6, <3>1, EmitMaybe, Zenon
  <2> HIDE DEF c2, e
  <2>8. c2 \in Seq(Instr)
    BY <2>7, Zenon DEF CodeInv
  <2>9. Extends(c, c2)
    BY <1>1, <2>5, <2>7, <2>8, Transitive, Zenon
  <2>10. Has(c2, r)
    <3>1. Len(c) \in Nat /\ Len(c2) \in Nat
      BY <1>1, <2>8
    <3> QED
      BY <2>9, <3>1, HasStays, Zenon
  <2>11. CodeInv(c3, Q, lc, d, U) /\ Extends(c2, c3) /\ j \in Seq(Instr)
    <3>1. /\ CodeInv(c2 \o <<Jmp("start", f.id, d)>>, Q, lc, d, U)
          /\ Extends(c2, c2 \o <<Jmp("start", f.id, d)>>)
      BY <1>0, <2>7, <2>10, EmitOwnJump, Zenon
    <3>2. /\ CodeInv(c2 \o <<Jcc("start", f.id, d)>>, Q, lc, d, U)
          /\ Extends(c2, c2 \o <<Jcc("start", f.id, d)>>)
      BY <1>0, <2>7, <2>10, EmitOwnJump, Zenon
    <3> QED
      BY <1>2, <3>1, <3>2, Zenon
  <2> HIDE DEF c3, j
  <2>12. c3 \in Seq(Instr)
    BY <2>11, Zenon DEF CodeInv
  <2>13. Extends(c, c3)
    BY <1>1, <2>8, <2>9, <2>11, <2>12, Transitive, Zenon
  <2>14. a \in Seq(Instr)
    BY <1>2 DEF a
  <2> DEFINE ae == a \o e
  <2>15. ae \in Seq(Instr)
    BY <2>7, <2>14, Joined
  <2>16. c \o ae = (c \o a) \o e
    BY <1>1, <2>7, <2>14, Assoc, Zenon
  <2> HIDE DEF ae
  <2>17. c \o (ae \o j) = (c \o ae) \o j
    BY <1>1, <2>11, <2>15, Assoc, Zenon
  <2>18. ae \o j \in Seq(Instr)
    BY <2>11, <2>15, Joined
  <2>19. c \o (ae \o j) = c3
    BY <2>16, <2>17 DEF c3, c2, c1
  <2>20. LoopTail(f.kind, f.id, f.opt, d) = ae \o j
    BY <2>2 DEF ae
  <2> QED
    BY <2>11, <2>13, <2>18, <2>19, <2>20, Zenon DEF Q
<1> QED
  BY <1>3, <1>4

\* A loop is left.
LEMMA LeaveLoop ==
    ASSUME NEW o \in Seq(Call), NEW f \in Call,
           NEW bs, NEW ss, NEW lc, NEW start, NEW ls, NEW c, NEW d, NEW U,
           Good(Append(o, f), bs, ss, lc, start, ls, c, d, U), f.kind \in Loops
    PROVE  LET c3 == c \o (LoopTail(f.kind, f.id, f.opt, d)
                              \o <<Lab("stop", f.id, d), Lab("break", f.id, d)>>)
           IN /\ f.kind = "for" =>
                   Good(o, Front(bs), ss, lc, f.saved_scope_start,
                        SubSeq(ls, 1, f.saved_local_count), c3, d, U)
              /\ f.kind # "for" => Good(o, Front(bs), ss, lc, start, ls, c3, d, U)
<1> DEFINE P == Pending(o, ss)
           is == LoopTail(f.kind, f.id, f.opt, d)
           ab == <<Lab("stop", f.id, d), Lab("break", f.id, d)>>
           c2 == c \o is
           c3 == c2 \o ab
<1>1. /\ f.kind # "switch" /\ f.kind \in Numbered /\ f.kind \in Breakable
      /\ f.kind \in Scopes <=> f.kind = "for"
  BY LoopKind, Zenon
<1>2. PopBreakOf(bs, f) = Front(bs) /\ PopSwitchOf(ss, f) = ss
  BY <1>1 DEF PopBreakOf, PopSwitchOf
<1>3. CodeInv(c, P \cup Own(f, LabelsLeft(f), d), lc, d, U)
  BY <1>1, CloseFacts, Zenon
<1>4. d = Depth(o, Len(o))
  BY <1>1, CloseFacts
<1>5. Below(P, f)
  BY <1>1, CloseFacts, Zenon
<1>6. lc \in Nat /\ d \in Int /\ c \in Seq(Instr)
  BY GoodTypes, Zenon
<1>7. Has(c, Coming("start", f, f.id, d))
  <2>1. StartInv(Append(o, f), c)
    BY Zenon DEF Good
  <2>2. Has(c, Coming("start", f, f.id, Depth(Append(o, f), Len(o) + 1)))
    BY <2>1, StartPushed, Zenon
  <2>3. Depth(Append(o, f), Len(o) + 1) = d
    <3>1. One(f.kind, {"switch"}) = 0
      BY <1>1 DEF One
    <3> QED
      BY <1>4, <3>1, DepthPushed
  <2> QED
    BY <2>2, <2>3
<1> HIDE DEF P
<1>8. /\ CodeInv(c2, P \cup Own(f, {"stop", "break"}, d), lc, d, U)
      /\ Extends(c, c2) /\ is \in Seq(Instr)
  BY <1>3, <1>5, <1>6, <1>7, TailCode, Zenon
<1> HIDE DEF c2, is
<1>9. c2 \in Seq(Instr)
  BY <1>8, Zenon DEF CodeInv
<1>10. CodeInv(c3, P, lc, d, U) /\ Extends(c2, c3) /\ c3 \in Seq(Instr)
  BY <1>5, <1>6, <1>8, EndLabels, Zenon
<1> HIDE DEF c3
<1>11. Extends(c, c3)
  BY <1>6, <1>8, <1>9, <1>10, Transitive, Zenon
<1>12. CodeInv(c3, Pending(o, PopSwitchOf(ss, f)), lc, d, U)
  BY <1>2, <1>10, Zenon DEF P
<1>13. f.kind \in Scopes =>
         Good(o, PopBreakOf(bs, f), PopSwitchOf(ss, f), lc, f.saved_scope_start,
              SubSeq(ls, 1, f.saved_local_count), c3, d, U)
  BY <1>4, <1>11, <1>12, CloseGood, Zenon
<1>14. f.kind \notin Scopes =>
         Good(o, PopBreakOf(bs, f), PopSwitchOf(ss, f), lc, start, ls, c3, d, U)
  BY <1>4, <1>11, <1>12, CloseGood, Zenon
<1>15. c \o (is \o ab) = c3
  <2>1. ab \in Seq(Instr)
    <3>1. "stop" \in OwnPrefixes /\ "break" \in OwnPrefixes
      BY DEF OwnPrefixes
    <3>2. Lab("stop", f.id, d) \in Instr /\ Lab("break", f.id, d) \in Instr
      BY <1>6, <3>1, CondType, Zenon
    <3> QED
      BY <3>2
  <2> HIDE DEF ab
  <2> QED
    BY <1>6, <1>8, <2>1, Assoc DEF c3, c2
<1> QED
  BY <1>1, <1>2, <1>13, <1>14, <1>15, Zenon DEF is

-----------------------------------------------------------------------------
(***************************************************************************)
(* The steps of the specification.                                         *)
(***************************************************************************)

BodyTypes ==
    /\ ctx \in Seq(Call) /\ Len(ctx) \in Nat /\ DOMAIN ctx = 1..Len(ctx)
    /\ locals \in Seq(Local) /\ scope_start \in Nat /\ label_count \in Nat
    /\ code \in Seq(Instr) /\ DOMAIN code = 1..Len(code) /\ push_depth \in Nat

LEMMA BodyHasTypes ==
    ASSUME BodyInv
    PROVE  BodyTypes
<1>1. Good(ctx, break_stack, switch_stack, label_count, scope_start, locals, code,
           push_depth, ToSet(user_labels))
  BY DEF BodyInv
<1>2. /\ ctx \in Seq(Call) /\ Len(ctx) \in Nat /\ locals \in Seq(Local)
      /\ scope_start \in Nat /\ label_count \in Nat
  BY <1>1, GoodTypes, Zenon
<1>3. code \in Seq(Instr) /\ push_depth \in Nat
  BY <1>1, GoodTypes, Zenon
<1> QED
  BY <1>2, <1>3 DEF BodyTypes

\* The call that a statement opens.
LEMMA FrameIsNew ==
    ASSUME BodyTypes, NEW kind \in Kinds, NEW i \in Nat, NEW opt \in BOOLEAN
    PROVE  /\ NewCall(Frame(kind, i, opt), scope_start, locals)
           /\ Frame(kind, i, opt).kind = kind /\ Frame(kind, i, opt).id = i
           /\ Frame(kind, i, opt).opt = opt
<1>1. Len(locals) \in Nat
  BY DEF BodyTypes
<1>2. Frame(kind, i, opt) \in Call
  BY <1>1 DEF Frame, Call, BodyTypes
<1> QED
  BY <1>2 DEF Frame, NewCall

LEMMA BodySame ==
    ASSUME BodyInv, UNCHANGED emitter
    PROVE  BodyInv'
  BY DEF BodyInv, emitter

\* A step of the code generator.
LEMMA EmitterStep ==
    ASSUME IInv, pc \in {"stmt", "return"}, pc' \in {"stmt", "return", "error"}, rsp' = rsp,
           user_labels' = user_labels, last_is_return' \in BOOLEAN, decls' \in Nat,
           stmts' \in Nat, BodyInv', EndInv'
    PROVE  IInv'
<1>1. TypeInv'
  BY DEF IInv, TypeInv
<1>2. RunInv'
  BY DEF IInv, RunInv
<1> QED
  BY <1>1, <1>2 DEF IInv

\* A statement that emits its code and is done.
LEMMA SimpleStep ==
    ASSUME IInv, NEW is, NEW b \in BOOLEAN, Simple(is, b),
           Good(ctx, break_stack, switch_stack, label_count, scope_start, locals,
                code \o is, push_depth, ToSet(user_labels)),
           b => code \o is # <<>> /\ Last(code \o is).op = "ret"
    PROVE  IInv'
<1>1. /\ pc = "stmt" /\ pc' = "return" /\ rsp' = rsp /\ user_labels' = user_labels
      /\ last_is_return' = b /\ decls' = decls /\ stmts' = stmts + 1 /\ code' = code \o is
      /\ ctx' = ctx /\ label_count' = label_count /\ break_stack' = break_stack
      /\ switch_stack' = switch_stack /\ locals' = locals /\ scope_start' = scope_start
      /\ push_depth' = push_depth
  BY DEF Simple, Visit, Emit
<1>2. BodyInv'
  BY <1>1 DEF BodyInv
<1>3. EndInv'
  BY <1>1 DEF EndInv
<1>4. decls' \in Nat /\ stmts' \in Nat /\ last_is_return' \in BOOLEAN
  BY <1>1 DEF IInv, TypeInv
<1> QED
  BY <1>1, <1>2, <1>3, <1>4, EmitterStep

LEMMA ExpressionStep ==
    ASSUME IInv, Expression
    PROVE  IInv'
<1>1. Good(ctx, break_stack, switch_stack, label_count, scope_start, locals,
           code \o Expr(push_depth), push_depth, ToSet(user_labels))
  BY GoodExpr, Zenon DEF IInv, BodyInv
<1> QED
  BY <1>1, SimpleStep DEF Expression

LEMMA ReturnStep ==
    ASSUME IInv, Return
    PROVE  IInv'
<1> DEFINE c1 == code \o Expr(push_depth)
           x == Op("ret", push_depth)
<1>1. Good(ctx, break_stack, switch_stack, label_count, scope_start, locals,
           c1, push_depth, ToSet(user_labels))
  BY GoodExpr, Zenon DEF IInv, BodyInv
<1>2. code \in Seq(Instr) /\ push_depth \in Int
  BY BodyHasTypes DEF IInv, BodyTypes
<1>3. code \o (Expr(push_depth) \o <<x>>) = c1 \o <<x>>
  <2>1. x \in Instr
    BY <1>2, InsType DEF Op, LabelPrefixes
  <2>2. <<x>> \in Seq(Instr) /\ Expr(push_depth) \in Seq(Instr)
    BY <1>2, <2>1, ExprFlat
  <2> HIDE DEF x
  <2> QED
    BY <1>2, <2>2, Assoc
<1> HIDE DEF c1
<1>4. Good(ctx, break_stack, switch_stack, label_count, scope_start, locals,
           c1 \o <<x>>, push_depth, ToSet(user_labels))
  BY <1>1, GoodRet, Zenon
<1>5. c1 \o <<x>> # <<>> /\ Last(c1 \o <<x>>).op = "ret"
  BY <1>1, GoodRet, Zenon
<1>6. Simple(Expr(push_depth) \o <<x>>, TRUE)
  BY DEF Return
<1> HIDE DEF x
<1> DEFINE is == Expr(push_depth) \o <<x>>
<1>7. Good(ctx, break_stack, switch_stack, label_count, scope_start, locals,
           code \o is, push_depth, ToSet(user_labels))
  BY <1>3, <1>4
<1>8. code \o is # <<>> /\ Last(code \o is).op = "ret"
  BY <1>3, <1>5
<1> HIDE DEF is
<1>9. Simple(is, TRUE)
  BY <1>6 DEF is
<1> QED
  BY <1>7, <1>8, <1>9, SimpleStep

LEMMA BreakStep ==
    ASSUME IInv, Break
    PROVE  IInv'
<1> DEFINE x == Ins("jmp", "break", Last(break_stack).break_label, BreakOwner, push_depth)
<1>1. Good(ctx, break_stack, switch_stack, label_count, scope_start, locals, code,
           push_depth, ToSet(user_labels))
  BY DEF IInv, BodyInv
<1>2. {i \in DOMAIN ctx : ctx[i].kind \in Breakable} # {}
  BY DEF Break, Open, Breakable
<1>3. x = Ins("jmp", "break", Last(break_stack).break_label,
              ctx[InnermostOf(ctx, Breakable)].id, push_depth)
  BY DEF BreakOwner, Innermost, Open, InnermostOf, Breakable
<1> HIDE DEF x
<1>4. Good(ctx, break_stack, switch_stack, label_count, scope_start, locals,
           code \o <<x>>, push_depth, ToSet(user_labels))
  BY <1>1, <1>2, <1>3, BreakJump, Zenon
<1>5. Simple(<<x>>, FALSE)
  BY DEF Break, x
<1> QED
  BY <1>4, <1>5, SimpleStep

LEMMA ContinueStep ==
    ASSUME IInv, Continue
    PROVE  IInv'
<1> DEFINE x == Ins("jmp", "continue", ContinueTarget, ContinueOwner, push_depth)
<1>1. Good(ctx, break_stack, switch_stack, label_count, scope_start, locals, code,
           push_depth, ToSet(user_labels))
  BY DEF IInv, BodyInv
<1>2. {i \in DOMAIN ctx : ctx[i].kind \in Loops} # {}
  BY DEF Continue, Open
<1>3. x = Ins("jmp", "continue",
              break_stack[Max({i \in DOMAIN break_stack :
                                 break_stack[i].continue_label # -1})].continue_label,
              ctx[InnermostOf(ctx, Loops)].id, push_depth)
  BY DEF ContinueTarget, ContinueOwner, Innermost, Open, InnermostOf
<1> HIDE DEF x
<1>4. Good(ctx, break_stack, switch_stack, label_count, scope_start, locals,
           code \o <<x>>, push_depth, ToSet(user_labels))
  BY <1>1, <1>2, <1>3, ContinueJump, Zenon
<1>5. Simple(<<x>>, FALSE)
  BY DEF Continue, x
<1> QED
  BY <1>4, <1>5, SimpleStep

LEMMA ErrorStep ==
    ASSUME IInv, pc \in {"stmt", "return"}, CompileError
    PROVE  IInv'
<1>1. /\ pc' = "error" /\ rsp' = rsp /\ user_labels' = user_labels /\ decls' = decls
      /\ stmts' = stmts /\ last_is_return' = last_is_return
  BY DEF CompileError, emitter
<1>2. BodyInv'
  BY BodySame DEF IInv, CompileError
<1>3. EndInv'
  BY <1>1 DEF EndInv
<1>4. decls' \in Nat /\ stmts' \in Nat /\ last_is_return' \in BOOLEAN
  BY <1>1 DEF IInv, TypeInv
<1> QED
  BY <1>1, <1>2, <1>3, <1>4, EmitterStep

LEMMA GotoStep ==
    ASSUME IInv, NEW l \in Labels, Goto(l)
    PROVE  IInv'
<1>1. CASE Contains(user_labels, l) /\ Simple(<<Jmp("usr", l, push_depth)>>, FALSE)
  <2>1. l \in ToSet(user_labels)
    <3>1. user_labels \in Seq(Labels)
      BY DEF IInv, TypeInv
    <3> QED
      BY <1>1, <3>1 DEF Contains, ToSet
  <2>2. Good(ctx, break_stack, switch_stack, label_count, scope_start, locals, code,
             push_depth, ToSet(user_labels))
    BY DEF IInv, BodyInv
  <2> DEFINE x == Jmp("usr", l, push_depth)
  <2>3. Good(ctx, break_stack, switch_stack, label_count, scope_start, locals,
             code \o <<x>>, push_depth, ToSet(user_labels))
    BY <2>1, <2>2, GotoJump, Zenon
  <2> HIDE DEF x
  <2>4. Simple(<<x>>, FALSE)
    BY <1>1 DEF x
  <2> QED
    BY <2>3, <2>4, SimpleStep
<1>2. CASE pc = "stmt" /\ CompileError
  BY <1>2, ErrorStep
<1> QED
  BY <1>1, <1>2 DEF Goto

LEMMA NextStatementStep ==
    ASSUME IInv, NextStatement
    PROVE  IInv'
<1>1. /\ pc = "return" /\ pc' = "stmt" /\ rsp' = rsp /\ user_labels' = user_labels
      /\ decls' = decls /\ stmts' = stmts /\ last_is_return' = last_is_return
  BY DEF NextStatement, emitter
<1>2. BodyInv'
  BY BodySame DEF IInv, NextStatement
<1>3. EndInv'
  BY <1>1 DEF EndInv
<1>4. decls' \in Nat /\ stmts' \in Nat /\ last_is_return' \in BOOLEAN
  BY <1>1 DEF IInv, TypeInv
<1> QED
  BY <1>1, <1>2, <1>3, <1>4, EmitterStep

\* What AddVar does.
LEMMA AddVarStep ==
    ASSUME NEW frames, NEW n \in Names, AddVar(frames, n), decls \in Nat
    PROVE  /\ decls' = decls + 1 /\ Noted(frames, ctx', n, decls + 1)
           /\ locals' = Append(locals, [name |-> n, decl |-> decls + 1])
           /\ IsVar([name |-> n, decl |-> decls + 1], n, decls + 1)
<1>1. decls' = decls + 1 /\ locals' = Append(locals, [name |-> n, decl |-> decls + 1])
  BY DEF AddVar
<1>2. Noted(frames, ctx', n, decls + 1)
  BY Zenon DEF AddVar, Noted
<1>3. IsVar([name |-> n, decl |-> decls + 1], n, decls + 1)
  BY DEF IsVar, Local
<1> QED
  BY <1>1, <1>2, <1>3

LEMMA DeclarationStep ==
    ASSUME IInv, NEW n \in Names, Declaration(n)
    PROVE  IInv'
<1>0. /\ pc = "stmt" /\ stmts' = stmts + 1 /\ user_labels' = user_labels /\ rsp' = rsp
      /\ decls \in Nat /\ stmts \in Nat /\ last_is_return \in BOOLEAN
  BY DEF Declaration, Visit, IInv, TypeInv
<1>b. Good(ctx, break_stack, switch_stack, label_count, scope_start, locals, code,
           push_depth, ToSet(user_labels))
  BY DEF IInv, BodyInv
<1>1. CASE Redeclared(n) /\ pc' = "error"
           /\ UNCHANGED <<ctx, label_count, break_stack, switch_stack, locals,
                          scope_start, push_depth, code, last_is_return, decls>>
  <2>1. BodyInv'
    BY <1>0, <1>1 DEF IInv, BodyInv
  <2>2. EndInv'
    BY <1>1 DEF EndInv
  <2>3. stmts' \in Nat /\ decls' \in Nat /\ last_is_return' \in BOOLEAN
    BY <1>0, <1>1
  <2>4. pc' \in {"stmt", "return", "error"} /\ pc \in {"stmt", "return"}
    BY <1>0, <1>1
  <2> QED
    BY <1>0, <2>1, <2>2, <2>3, <2>4, EmitterStep, Zenon
<1>2. CASE /\ ~Redeclared(n) /\ AddVar(ctx, n) /\ Emit(Expr(push_depth)) /\ pc' = "return"
           /\ last_is_return' = FALSE
           /\ UNCHANGED <<label_count, break_stack, switch_stack, scope_start, push_depth>>
  <2> DEFINE v == [name |-> n, decl |-> decls + 1]
  <2>1. /\ decls' = decls + 1 /\ Noted(ctx, ctx', n, decls + 1)
        /\ locals' = Append(locals, v) /\ IsVar(v, n, decls + 1)
    BY <1>0, <1>2, AddVarStep
  <2> HIDE DEF v
  <2>2. NewName(locals, scope_start, n)
    BY <1>2, Zenon DEF Redeclared, NewName
  <2>3. Good(ctx', break_stack, switch_stack, label_count, scope_start, locals', code,
             push_depth, ToSet(user_labels))
    <3>1. Good(ctx', break_stack, switch_stack, label_count, scope_start, Append(locals, v), code,
               push_depth, ToSet(user_labels))
      BY <1>b, <2>1, <2>2, AddGood, Zenon
    <3> QED
      BY <2>1, <3>1
  <2>4. Good(ctx', break_stack, switch_stack, label_count, scope_start, locals',
             code \o Expr(push_depth), push_depth, ToSet(user_labels))
    BY <2>3, GoodExpr, Zenon
  <2>5. BodyInv'
    BY <1>0, <1>2, <2>4 DEF BodyInv, Emit
  <2>6. EndInv'
    BY <1>2 DEF EndInv
  <2>7. stmts' \in Nat /\ decls' \in Nat /\ last_is_return' \in BOOLEAN
    <3>1. stmts' \in Nat
      BY <1>0
    <3>2. decls' \in Nat
      BY <1>0, <2>1
    <3>3. last_is_return' \in BOOLEAN
      BY <1>2
    <3> QED
      BY <3>1, <3>2, <3>3
  <2>8. pc' \in {"stmt", "return", "error"} /\ pc \in {"stmt", "return"}
    BY <1>0, <1>2
  <2> QED
    BY <1>0, <2>5, <2>6, <2>7, <2>8, EmitterStep, Zenon
<1> QED
  BY <1>1, <1>2 DEF Declaration

\* A statement with a body is entered.
LEMMA EnterStep ==
    ASSUME IInv, Visit, pc' = "stmt", last_is_return' = last_is_return, decls' \in Nat,
           Good(ctx', break_stack', switch_stack', label_count', scope_start', locals',
                code', push_depth', ToSet(user_labels))
    PROVE  IInv'
<1>1. /\ pc = "stmt" /\ stmts' = stmts + 1 /\ user_labels' = user_labels /\ rsp' = rsp
      /\ stmts \in Nat /\ last_is_return \in BOOLEAN
  BY DEF Visit, IInv, TypeInv
<1>2. BodyInv'
  BY <1>1 DEF BodyInv
<1>3. EndInv'
  BY DEF EndInv
<1>4. stmts' \in Nat /\ last_is_return' \in BOOLEAN
  BY <1>1
<1>5. pc' \in {"stmt", "return", "error"} /\ pc \in {"stmt", "return"}
  BY <1>1
<1> QED
  BY <1>1, <1>2, <1>3, <1>4, <1>5, EmitterStep, Zenon

LEMMA BlockStep ==
    ASSUME IInv, Block
    PROVE  IInv'
<1> DEFINE f == Frame("block", 0, FALSE)
<1>1. /\ pc = "stmt" /\ pc' = "return" /\ stmts' = stmts + 1 /\ user_labels' = user_labels
      /\ rsp' = rsp /\ ctx' = Append(ctx, f) /\ scope_start' = Len(locals)
      /\ label_count' = label_count /\ break_stack' = break_stack
      /\ switch_stack' = switch_stack /\ locals' = locals /\ push_depth' = push_depth
      /\ code' = code /\ last_is_return' = last_is_return /\ decls' = decls
  BY DEF Block, Visit
<1>2. Good(ctx, break_stack, switch_stack, label_count, scope_start, locals, code,
           push_depth, ToSet(user_labels))
  BY DEF IInv, BodyInv
<1>3. BodyTypes
  BY BodyHasTypes DEF IInv
<1>4. NewCall(f, scope_start, locals) /\ f.kind = "block"
  BY <1>3, FrameIsNew DEF Kinds
<1> HIDE DEF f
<1>5. Good(Append(ctx, f), break_stack, switch_stack, label_count,
           IF f.kind = "block" THEN Len(locals) ELSE scope_start, locals, code,
           push_depth, ToSet(user_labels))
  <2>1. f.kind \in {"block", "label"}
    BY <1>4
  <2> QED
    BY <1>2, <1>4, <2>1, OpenPlain, Zenon
<1>6. BodyInv'
  BY <1>1, <1>4, <1>5 DEF BodyInv
<1>7. EndInv'
  <2>1. ctx' # <<>>
    <3>1. ctx \in Seq(Call) /\ f \in Call
      BY <1>3, <1>4 DEF BodyTypes, NewCall
    <3> QED
      BY <1>1, <3>1, Pushed
  <2> QED
    BY <2>1 DEF EndInv
<1>8. stmts' \in Nat /\ decls' \in Nat /\ last_is_return' \in BOOLEAN
  BY <1>1 DEF IInv, TypeInv
<1>9. pc' \in {"stmt", "return", "error"} /\ pc \in {"stmt", "return"}
  BY <1>1
<1> QED
  BY <1>1, <1>6, <1>7, <1>8, <1>9, EmitterStep, Zenon

LEMMA IfStep ==
    ASSUME IInv, NEW b \in BOOLEAN, If(b)
    PROVE  IInv'
<1> DEFINE f == Frame("if", label_count, b)
<1>1. /\ Visit /\ pc' = "stmt" /\ last_is_return' = last_is_return /\ decls' = decls
      /\ ctx' = Append(ctx, f) /\ label_count' = label_count + 1
      /\ code' = code \o Cond(IF b THEN "else" ELSE "end", label_count, push_depth)
      /\ break_stack' = break_stack /\ switch_stack' = switch_stack /\ locals' = locals
      /\ scope_start' = scope_start /\ push_depth' = push_depth
  BY DEF If, Enter, Emit, id
<1>2. Good(ctx, break_stack, switch_stack, label_count, scope_start, locals, code,
           push_depth, ToSet(user_labels))
  BY DEF IInv, BodyInv
<1>3. BodyTypes
  BY BodyHasTypes DEF IInv
<1>4. NewCall(f, scope_start, locals) /\ f.kind = "if" /\ f.id = label_count /\ f.opt = b
  <2>1. "if" \in Kinds /\ label_count \in Nat
    BY <1>3 DEF Kinds, Numbered, BodyTypes
  <2> QED
    BY <1>3, <2>1, FrameIsNew, Zenon
<1> HIDE DEF f
<1>5. Good(Append(ctx, f), break_stack, switch_stack, label_count + 1, scope_start, locals,
           code \o Cond(IF f.opt THEN "else" ELSE "end", label_count, push_depth),
           push_depth, ToSet(user_labels))
  BY <1>2, <1>4, OpenIf, Zenon
<1>6. decls' \in Nat
  BY <1>1 DEF IInv, TypeInv
<1>7. Good(ctx', break_stack', switch_stack', label_count', scope_start', locals',
           code', push_depth', ToSet(user_labels))
  BY <1>1, <1>4, <1>5
<1> QED
  BY <1>1, <1>6, <1>7, EnterStep, Zenon

LEMMA WhileStep ==
    ASSUME IInv, While
    PROVE  IInv'
<1> DEFINE f == Frame("while", label_count, FALSE)
           is == <<Lab("start", label_count, push_depth), Lab("continue", label_count, push_depth)>>
                    \o Cond("stop", label_count, push_depth)
<1>1. /\ Visit /\ pc' = "stmt" /\ last_is_return' = last_is_return /\ decls' = decls
      /\ ctx' = Append(ctx, f) /\ label_count' = label_count + 1 /\ code' = code \o is
      /\ break_stack' = Append(break_stack, [break_label |-> label_count,
                                             continue_label |-> label_count])
      /\ switch_stack' = switch_stack /\ locals' = locals
      /\ scope_start' = scope_start /\ push_depth' = push_depth
  BY DEF While, Enter, Emit, id, PushLoop
<1>2. Good(ctx, break_stack, switch_stack, label_count, scope_start, locals, code,
           push_depth, ToSet(user_labels))
  BY DEF IInv, BodyInv
<1>3. BodyTypes
  BY BodyHasTypes DEF IInv
<1>4. NewCall(f, scope_start, locals) /\ f.kind = "while" /\ f.id = label_count
  BY <1>3, FrameIsNew DEF Kinds, Numbered, Breakable, Loops, BodyTypes
<1> HIDE DEF f
<1>5. Good(Append(ctx, f),
           Append(break_stack, [break_label |-> label_count, continue_label |-> label_count]),
           switch_stack, label_count + 1, scope_start, locals,
           code \o (<<Lab("start", f.id, push_depth), Lab("continue", f.id, push_depth)>>
                       \o Cond("stop", f.id, push_depth)),
           push_depth, ToSet(user_labels))
  BY <1>2, <1>4, OpenWhile, Zenon
<1>6. decls' \in Nat
  BY <1>1 DEF IInv, TypeInv
<1>7. Good(ctx', break_stack', switch_stack', label_count', scope_start', locals',
           code', push_depth', ToSet(user_labels))
  BY <1>1, <1>4, <1>5
<1> QED
  BY <1>1, <1>6, <1>7, EnterStep, Zenon

LEMMA DoStep ==
    ASSUME IInv, Do
    PROVE  IInv'
<1> DEFINE f == Frame("do", label_count, FALSE)
<1>1. /\ Visit /\ pc' = "stmt" /\ last_is_return' = last_is_return /\ decls' = decls
      /\ ctx' = Append(ctx, f) /\ label_count' = label_count + 1
      /\ code' = code \o <<Lab("start", label_count, push_depth)>>
      /\ break_stack' = Append(break_stack, [break_label |-> label_count,
                                             continue_label |-> label_count])
      /\ switch_stack' = switch_stack /\ locals' = locals
      /\ scope_start' = scope_start /\ push_depth' = push_depth
  BY DEF Do, Enter, Emit, id, PushLoop
<1>2. Good(ctx, break_stack, switch_stack, label_count, scope_start, locals, code,
           push_depth, ToSet(user_labels))
  BY DEF IInv, BodyInv
<1>3. BodyTypes
  BY BodyHasTypes DEF IInv
<1>4. NewCall(f, scope_start, locals) /\ f.kind = "do" /\ f.id = label_count
  BY <1>3, FrameIsNew DEF Kinds, Numbered, Breakable, Loops, BodyTypes
<1> HIDE DEF f
<1>5. Good(Append(ctx, f),
           Append(break_stack, [break_label |-> label_count, continue_label |-> label_count]),
           switch_stack, label_count + 1, scope_start, locals,
           code \o <<Lab("start", f.id, push_depth)>>, push_depth, ToSet(user_labels))
  BY <1>2, <1>4, OpenDo, Zenon
<1>6. decls' \in Nat
  BY <1>1 DEF IInv, TypeInv
<1>7. Good(ctx', break_stack', switch_stack', label_count', scope_start', locals',
           code', push_depth', ToSet(user_labels))
  BY <1>1, <1>4, <1>5
<1> QED
  BY <1>1, <1>6, <1>7, EnterStep, Zenon

LEMMA ForStep ==
    ASSUME IInv, NEW n \in Names, NEW decl \in BOOLEAN, NEW has_cond \in BOOLEAN,
           NEW has_update \in BOOLEAN, For(decl, n, has_cond, has_update)
    PROVE  IInv'
<1> DEFINE f == Frame("for", label_count, has_update)
           is == (IF decl THEN Expr(push_depth) ELSE <<>>)
                    \o <<Lab("start", label_count, push_depth)>>
                    \o (IF has_cond THEN Cond("stop", label_count, push_depth) ELSE <<>>)
           bs == Append(break_stack, [break_label |-> label_count, continue_label |-> label_count])
<1>1. /\ Visit /\ pc' = "stmt" /\ last_is_return' = last_is_return
      /\ label_count' = label_count + 1 /\ code' = code \o is /\ break_stack' = bs
      /\ switch_stack' = switch_stack /\ scope_start' = Len(locals)
      /\ push_depth' = push_depth
  BY DEF For, Emit, id, PushLoop
<1>2. Good(ctx, break_stack, switch_stack, label_count, scope_start, locals, code,
           push_depth, ToSet(user_labels))
  BY DEF IInv, BodyInv
<1>3. BodyTypes
  BY BodyHasTypes DEF IInv
<1>4. NewCall(f, scope_start, locals) /\ f.kind = "for" /\ f.id = label_count
  BY <1>3, FrameIsNew DEF Kinds, Numbered, Breakable, Loops, BodyTypes
<1>5. \/ decl /\ AddVar(Append(ctx, f), n)
      \/ ~decl /\ ctx' = Append(ctx, f) /\ locals' = locals /\ decls' = decls
  BY DEF For, id
<1> HIDE DEF f
<1>6. Good(Append(ctx, f), bs, switch_stack, label_count + 1, Len(locals), locals,
           code \o is, push_depth, ToSet(user_labels))
  <2>1. Good(Append(ctx, f), bs, switch_stack, label_count + 1, Len(locals), locals,
             code \o ((IF decl THEN Expr(push_depth) ELSE <<>>)
                         \o <<Lab("start", f.id, push_depth)>>
                         \o (IF has_cond THEN Cond("stop", f.id, push_depth) ELSE <<>>)),
             push_depth, ToSet(user_labels))
    BY <1>2, <1>4, OpenFor, Zenon
  <2> QED
    BY <1>4, <2>1
<1> HIDE DEF is, bs
<1>7. decls \in Nat
  BY DEF IInv, TypeInv
<1>8. /\ decls' \in Nat
      /\ Good(ctx', bs, switch_stack, label_count + 1, Len(locals), locals',
              code \o is, push_depth, ToSet(user_labels))
  <2>1. CASE ~decl
    BY <1>5, <1>6, <1>7, <2>1
  <2>2. CASE decl
    <3> DEFINE v == [name |-> n, decl |-> decls + 1]
    <3>1. /\ decls' = decls + 1 /\ Noted(Append(ctx, f), ctx', n, decls + 1)
          /\ locals' = Append(locals, v) /\ IsVar(v, n, decls + 1)
      <4>1. AddVar(Append(ctx, f), n)
        BY <1>5, <2>2
      <4> QED
        BY <1>7, <4>1, AddVarStep, Zenon
    <3> HIDE DEF v
    <3>2. NewName(locals, Len(locals), n)
      <4>1. Len(locals) \in Nat
        BY <1>3 DEF BodyTypes
      <4> QED
        BY <4>1 DEF NewName
    <3>3. Good(ctx', bs, switch_stack, label_count + 1, Len(locals), Append(locals, v),
               code \o is, push_depth, ToSet(user_labels))
      BY <1>6, <3>1, <3>2, AddGood, Zenon
    <3>4. decls' \in Nat
      BY <1>7, <3>1
    <3> QED
      BY <3>1, <3>3, <3>4
  <2> QED
    BY <2>1, <2>2
<1>9. Good(ctx', break_stack', switch_stack', label_count', scope_start', locals',
           code', push_depth', ToSet(user_labels))
  BY <1>1, <1>8
<1> QED
  BY <1>1, <1>8, <1>9, EnterStep, Zenon

\* The tests of a switch, for the positions S of its case labels.
TestsOf(S, lc, d) == [i \in 1..Cardinality(S) |-> Ins("jcc", "sec", lc + Nth(S, i), lc, d)]
SecJumps(is, n, lc) ==
    \A i \in 1..Len(is) : is[i].owner = lc /\ \E k \in 1..n : is[i].to = <<"sec", lc + k>>

LEMMA SwitchTests ==
    ASSUME NEW n \in Nat, NEW S, S \subseteq 1..n, NEW lc \in Nat, NEW d \in Int
    PROVE  /\ TestsOf(S, lc, d) \in Seq(Instr) /\ Flat(TestsOf(S, lc, d), d)
           /\ SecJumps(TestsOf(S, lc, d), n, lc)
<1> DEFINE tests == TestsOf(S, lc, d)
<1>0. tests = [i \in 1..Cardinality(S) |-> Ins("jcc", "sec", lc + Nth(S, i), lc, d)]
  BY DEF TestsOf
<1> HIDE DEF tests
<1>1. Cardinality(S) \in Nat
  <2>1. IsFiniteSet(1..n)
    BY FS_Interval
  <2>2. IsFiniteSet(S)
    BY <2>1, FS_Subset
  <2> QED
    BY <2>2, FS_CardinalityType
<1>2. PICK m \in Nat : m = Cardinality(S)
  BY <1>1
<1>3. ASSUME NEW i \in 1..m
      PROVE  /\ tests[i] \in Instr /\ tests[i].depth = d /\ tests[i].op = "jcc"
             /\ tests[i].owner = lc /\ \E k \in 1..n : tests[i].to = <<"sec", lc + k>>
  <2>1. Nth(S, i) \in S
    BY <1>2, NthIsMember
  <2>2. PICK k \in 1..n : k = Nth(S, i)
    BY <2>1
  <2>3. tests[i] = Ins("jcc", "sec", lc + k, lc, d)
    BY <1>0, <1>2, <2>2
  <2>4. lc + k \in Nat \cup Labels /\ lc \in Nat \cup Labels
    OBVIOUS
  <2>5. Ins("jcc", "sec", lc + k, lc, d) \in Instr
    BY <2>4, InsType DEF LabelPrefixes
  <2>6. /\ Ins("jcc", "sec", lc + k, lc, d).depth = d
        /\ Ins("jcc", "sec", lc + k, lc, d).op = "jcc"
        /\ Ins("jcc", "sec", lc + k, lc, d).owner = lc
        /\ Ins("jcc", "sec", lc + k, lc, d).to = <<"sec", lc + k>>
    BY DEF Ins
  <2> QED
    BY <2>3, <2>5, <2>6, Zenon
<1>4. DOMAIN tests = 1..m /\ tests = [i \in 1..m |-> tests[i]]
  BY <1>0, <1>2
<1>5. tests \in Seq(Instr) /\ Len(tests) = m
  <2>1. tests \in [1..m -> Instr]
    BY <1>3, <1>4
  <2>2. tests \in Seq(Instr)
    <3>1. tests \in UNION {[1..k -> Instr] : k \in Nat}
      BY <2>1
    <3> QED
      BY <3>1, SeqDef
  <2>3. Len(tests) \in Nat /\ DOMAIN tests = 1..Len(tests)
    BY <2>2, LenProperties, Zenon
  <2>4. 1..Len(tests) = 1..m
    BY <1>4, <2>3, Zenon
  <2>5. ASSUME NEW k \in Nat, 1..k = 1..m PROVE k = m
    <3>1. k \in 1..m \/ k = 0
      BY <2>5
    <3>2. m \in 1..k \/ m = 0
      BY <2>5
    <3> QED
      BY <2>5, <3>1, <3>2
  <2> QED
    BY <2>2, <2>3, <2>4, <2>5, Zenon
<1>6. Flat(tests, d)
  BY <1>3, <1>5 DEF Flat
<1> QED
  BY <1>3, <1>5, <1>6, Zenon DEF tests, SecJumps

LEMMA SwitchStep ==
    ASSUME IInv, NEW kinds \in Seq({"case", "default"}), Switch(kinds)
    PROVE  IInv'
<1> DEFINE f == Frame("switch", label_count, FALSE)
           n == Len(kinds)
           ds == {k \in DOMAIN kinds : kinds[k] = "default"}
           cases == {k \in DOMAIN kinds : kinds[k] = "case"}
           e == collect_switch_labels(kinds)
           d2 == push_depth + 1
           tests == [i \in 1..Cardinality(cases) |->
                        Ins("jcc", "sec", label_count + Nth(cases, i), label_count, d2)]
           x == IF e.default_label # -1
                THEN Ins("jmp", "sec", e.default_label, label_count, d2)
                ELSE Jmp("stop", label_count, d2)
           is == ((Expr(push_depth) \o <<Op("push", push_depth)>>) \o tests) \o <<x>>
<1>1. /\ Visit /\ pc' = "stmt" /\ last_is_return' = last_is_return /\ decls' = decls
      /\ ctx' = Append(ctx, f) /\ label_count' = label_count + 1 + n /\ code' = code \o is
      /\ break_stack' = Append(break_stack, [break_label |-> label_count, continue_label |-> -1])
      /\ switch_stack' = Append(switch_stack, e) /\ locals' = locals
      /\ scope_start' = scope_start /\ push_depth' = d2
  <2>1. (IF e.default_label # -1
         THEN <<Ins("jmp", "sec", e.default_label, label_count, d2)>>
         ELSE <<Jmp("stop", label_count, d2)>>) = <<x>>
    OBVIOUS
  <2> QED
    BY <2>1, Zenon DEF Switch, Enter, Emit, id
<1>2. Good(ctx, break_stack, switch_stack, label_count, scope_start, locals, code,
           push_depth, ToSet(user_labels))
  BY DEF IInv, BodyInv
<1>3. BodyTypes
  BY BodyHasTypes DEF IInv
<1>4. NewCall(f, scope_start, locals) /\ f.kind = "switch" /\ f.id = label_count
  BY <1>3, FrameIsNew DEF Kinds, Numbered, Breakable, BodyTypes
<1>5. n \in Nat /\ DOMAIN kinds = 1..n /\ label_count \in Nat /\ d2 \in Int
  BY <1>3 DEF BodyTypes
<1>6. /\ e \in SwitchEntry /\ Len(e.entries) = n
      /\ \A k \in 1..n : e.entries[k].label = label_count + k
      /\ e.default_label = -1 \/ \E k \in 1..n : e.default_label = label_count + k
  <2> DEFINE es == [k \in 1..n |-> [kind |-> kinds[k], label |-> label_count + k]]
             def == IF ds = {} THEN -1 ELSE label_count + Max(ds)
  <2>1. e = [entries |-> es, default_label |-> def]
    BY <1>5 DEF collect_switch_labels, id
  <2>2. es \in Seq([kind : {"case", "default"}, label : Nat]) /\ Len(es) = n
    <3>1. \A k \in 1..n : [kind |-> kinds[k], label |-> label_count + k]
                              \in [kind : {"case", "default"}, label : Nat]
      BY <1>5
    <3> QED
      BY <1>5, <3>1
  <2>3. def = -1 \/ \E k \in 1..n : def = label_count + k
    <3>1. ds \subseteq 1..n /\ ds \subseteq 0..n
      BY <1>5
    <3>2. ds # {} => Max(ds) \in ds
      BY <1>5, <3>1, MaxIsGreatest, Zenon
    <3> QED
      BY <3>1, <3>2
  <2>4. def \in Int
    BY <1>5, <2>3
  <2> HIDE DEF def, es
  <2>5. e.entries = es /\ e.default_label = def
    BY <2>1
  <2>6. e \in SwitchEntry
    BY <2>1, <2>2, <2>4 DEF SwitchEntry
  <2>7. \A k \in 1..n : es[k].label = label_count + k
    BY DEF es
  <2> QED
    BY <2>2, <2>3, <2>5, <2>6, <2>7
<1> HIDE DEF f, e
<1>7. /\ tests \in Seq(Instr) /\ Flat(tests, d2)
      /\ \A i \in 1..Len(tests) :
            /\ tests[i].owner = label_count
            /\ \E k \in 1..n : tests[i].to = <<"sec", label_count + k>>
  <2>1. cases \subseteq 1..n
    BY <1>5
  <2>2. tests = TestsOf(cases, label_count, d2)
    BY DEF TestsOf
  <2> HIDE DEF cases, n, d2, tests
  <2>3. n \in Nat /\ label_count \in Nat /\ d2 \in Int
    BY <1>5, Zenon
  <2>4. TestsOf(cases, label_count, d2) \in Seq(Instr)
    BY <2>1, <2>3, SwitchTests, Zenon
  <2>5. Flat(TestsOf(cases, label_count, d2), d2)
    BY <2>1, <2>3, SwitchTests, Zenon
  <2>6. SecJumps(TestsOf(cases, label_count, d2), n, label_count)
    BY <2>1, <2>3, SwitchTests, Zenon
  <2> QED
    BY <2>2, <2>4, <2>5, <2>6, Zenon DEF SecJumps
<1>8. /\ x \in Instr /\ x.depth = d2 /\ x.op = "jmp" /\ x.owner = label_count
      /\ x.to = <<"stop", label_count>> \/ \E k \in 1..n : x.to = <<"sec", label_count + k>>
  <2>1. CASE e.default_label = -1
    <3>1. x = Ins("jmp", "stop", label_count, label_count, d2)
      BY <2>1 DEF Jmp
    <3>2. label_count \in Nat \cup Labels
      BY <1>5
    <3>3. Ins("jmp", "stop", label_count, label_count, d2) \in Instr
      BY <1>5, <3>2, InsType DEF LabelPrefixes
    <3> QED
      BY <3>1, <3>3 DEF Ins
  <2>2. CASE e.default_label # -1
    <3>1. PICK k \in 1..n : e.default_label = label_count + k
      BY <1>6, <2>2
    <3>2. x = Ins("jmp", "sec", label_count + k, label_count, d2)
      BY <2>2, <3>1
    <3>3. label_count \in Nat \cup Labels /\ label_count + k \in Nat \cup Labels
      BY <1>5
    <3>4. Ins("jmp", "sec", label_count + k, label_count, d2) \in Instr
      BY <1>5, <3>3, InsType DEF LabelPrefixes
    <3> QED
      BY <3>2, <3>4 DEF Ins
  <2> QED
    BY <2>1, <2>2
<1> HIDE DEF x, tests, n
<1>9. Good(Append(ctx, f),
           Append(break_stack, [break_label |-> label_count, continue_label |-> -1]),
           Append(switch_stack, e), label_count + 1 + n, scope_start, locals,
           code \o is, push_depth + 1, ToSet(user_labels))
  BY <1>2, <1>4, <1>5, <1>6, <1>7, <1>8, OpenSwitch, ZenonT(60)
<1>10. decls' \in Nat
  BY <1>1 DEF IInv, TypeInv
<1>11. Good(ctx', break_stack', switch_stack', label_count', scope_start', locals',
            code', push_depth', ToSet(user_labels))
  BY <1>1, <1>9
<1> QED
  BY <1>1, <1>10, <1>11, EnterStep, Zenon

\* The call of the innermost switch, when a case label is found.
LEMMA CaseCalls ==
    ASSUME NEW s \in Seq(Call), NEW m \in 1..Len(s), NEW k \in Nat,
           NEW t, t = [s EXCEPT ![m].cases = k]
    PROVE  /\ t \in Seq(Call) /\ SameShape(s, t)
           /\ \A i \in 1..Len(s) : i # m => t[i] = s[i]
           /\ t[m].opt = s[m].opt /\ t[m].names = s[m].names /\ t[m].cases = k
<1>1. PICK h \in Call : h = s[m]
  BY CallType
<1>2. PICK g \in Call :
         /\ g.kind = h.kind /\ g.id = h.id /\ g.opt = h.opt /\ g.names = h.names
         /\ g.saved_scope_start = h.saved_scope_start
         /\ g.saved_local_count = h.saved_local_count /\ g.cases = k
         /\ g = [h EXCEPT !.cases = k]
  <2> DEFINE g == [h EXCEPT !.cases = k]
  <2>1. g \in Call
    BY DEF Call
  <2>2. /\ g.kind = h.kind /\ g.id = h.id /\ g.opt = h.opt /\ g.names = h.names
        /\ g.saved_scope_start = h.saved_scope_start
        /\ g.saved_local_count = h.saved_local_count /\ g.cases = k
    BY DEF Call
  <2> HIDE DEF g
  <2>3. g = [h EXCEPT !.cases = k]
    BY DEF g
  <2> QED
    BY <2>1, <2>2, <2>3
<1>3. t = [s EXCEPT ![m] = g]
  BY <1>1, <1>2
<1>4. /\ [s EXCEPT ![m] = g] \in Seq(Call) /\ Len([s EXCEPT ![m] = g]) = Len(s)
      /\ [s EXCEPT ![m] = g][m] = g
      /\ \A i \in 1..Len(s) : i # m => [s EXCEPT ![m] = g][i] = s[i]
  BY Replaced
<1>5. PICK u : /\ u = t /\ u \in Seq(Call) /\ Len(u) = Len(s) /\ u[m] = g
               /\ \A i \in 1..Len(s) : i # m => u[i] = s[i]
  BY <1>3, <1>4, Zenon
<1>6. SameShape(s, u)
  BY <1>1, <1>2, <1>5 DEF SameShape
<1>7. u[m].opt = s[m].opt /\ u[m].names = s[m].names /\ u[m].cases = k
  BY <1>1, <1>2, <1>5
<1> QED
  BY <1>5, <1>6, <1>7, Zenon

LEMMA CaseActionStep ==
    ASSUME IInv, NEW kind, Case(kind)
    PROVE  IInv'
<1> DEFINE m == Innermost({"switch"})
           k == ctx[m].cases + 1
           t == [ctx EXCEPT ![m].cases = k]
           f == Frame("label", 0, FALSE)
           x == Ins("label", "sec", Last(switch_stack).entries[k].label, ctx[m].id, push_depth)
<1>1. /\ Visit /\ pc' = "stmt" /\ last_is_return' = last_is_return /\ decls' = decls
      /\ m # 0 /\ k <= Len(Last(switch_stack).entries)
      /\ ctx' = Append(t, f) /\ code' = code \o <<x>>
      /\ label_count' = label_count /\ break_stack' = break_stack
      /\ switch_stack' = switch_stack /\ locals' = locals
      /\ scope_start' = scope_start /\ push_depth' = push_depth
  BY DEF Case, Emit
<1>2. Good(ctx, break_stack, switch_stack, label_count, scope_start, locals, code,
           push_depth, ToSet(user_labels))
  BY DEF IInv, BodyInv
<1>3. BodyTypes
  BY BodyHasTypes DEF IInv
<1>4. NewCall(f, scope_start, locals) /\ f.kind = "label"
  BY <1>3, FrameIsNew DEF Kinds
<1>5. ctx \in Seq(Call) /\ push_depth \in Int
  BY <1>3 DEF BodyTypes
<1>6. /\ m \in 1..Len(ctx) /\ ctx[m].kind = "switch"
      /\ \A j \in (m + 1)..Len(ctx) : ctx[j].kind \notin {"switch"}
  <2>1. m = InnermostOf(ctx, {"switch"})
    BY DEF Innermost, InnermostOf, Open
  <2> HIDE DEF m
  <2> QED
    BY <1>1, <1>5, <2>1, InnermostIs
<1> HIDE DEF m, f
<1>7. ctx[m].cases \in Nat /\ ctx[m].id \in Nat
  BY <1>5, <1>6, CallType
<1>8. k \in Nat
  BY <1>7
<1>9. Slots(ctx, switch_stack, m) = Len(Last(switch_stack).entries)
      /\ Entries(ctx, switch_stack, m) = Last(switch_stack).entries
  <2>1. Len(switch_stack) = Depth(ctx, Len(ctx))
    BY <1>2, GoodTypes, Zenon
  <2>2. Depth(ctx, Len(ctx)) = Depth(ctx, m)
    <3>1. m \in Nat /\ Len(ctx) \in Nat /\ m <= Len(ctx)
      BY <1>5, <1>6
    <3> QED
      BY <1>6, <3>1, CountUpTo, Zenon DEF Depth
  <2> QED
    BY <1>6, <2>1, <2>2 DEF Slots, Entries, Last
<1>10. Last(switch_stack).entries[k].label = ctx[m].id + k
  <2>1. Slots(ctx, switch_stack, m) \in Nat
    <3>1. switch_stack \in Seq(SwitchEntry) /\ Len(switch_stack) = Depth(ctx, Len(ctx))
      BY <1>2, GoodTypes, Zenon
    <3> QED
      BY <1>5, <1>6, <3>1, SlotsNat
  <2>2. k \in 1..Len(Entries(ctx, switch_stack, m))
    BY <1>1, <1>7, <1>9, <2>1
  <2>3. NestInv(ctx, break_stack, switch_stack)
    BY <1>2, GoodTypes, Zenon
  <2>4. \A j \in 1..Len(Entries(ctx, switch_stack, m)) :
           Entries(ctx, switch_stack, m)[j].label = ctx[m].id + j
    BY <1>6, <2>3, Zenon DEF NestInv
  <2> QED
    BY <1>9, <2>2, <2>4
<1> HIDE DEF k
<1>11. t \in Seq(Call) /\ SameShape(ctx, t)
  BY <1>5, <1>6, <1>8, CaseCalls, Zenon
<1>12. \A i \in 1..Len(ctx) : i # m => t[i] = ctx[i]
  BY <1>5, <1>6, <1>8, CaseCalls
<1>13. t[m].opt = ctx[m].opt /\ t[m].names = ctx[m].names /\ t[m].cases = k
  BY <1>5, <1>6, <1>8, CaseCalls
<1> HIDE DEF t
<1>14. /\ x \in Instr /\ IsLabel(x) /\ x.to = <<"sec", ctx[m].id + t[m].cases>>
       /\ x.owner = ctx[m].id /\ x.depth = push_depth
  <2>1. x = Ins("label", "sec", ctx[m].id + k, ctx[m].id, push_depth)
    BY <1>10
  <2>2. ctx[m].id \in Nat \cup Labels /\ ctx[m].id + k \in Nat \cup Labels
    BY <1>7, <1>8
  <2>3. Ins("label", "sec", ctx[m].id + k, ctx[m].id, push_depth) \in Instr
    BY <1>5, <2>2, InsType DEF LabelPrefixes
  <2> QED
    BY <1>13, <2>1, <2>3 DEF Ins, IsLabel
<1> HIDE DEF x
<1>15. t[m].cases = ctx[m].cases + 1 /\ t[m].cases <= Slots(ctx, switch_stack, m)
  BY <1>1, <1>9, <1>13 DEF k
<1>16. Good(t, break_stack, switch_stack, label_count, scope_start, locals, code \o <<x>>,
            push_depth, ToSet(user_labels))
  BY <1>2, <1>6, <1>11, <1>12, <1>13, <1>14, <1>15, CaseStep, Zenon
<1>17. Good(Append(t, f), break_stack, switch_stack, label_count,
            IF f.kind = "block" THEN Len(locals) ELSE scope_start, locals, code \o <<x>>,
            push_depth, ToSet(user_labels))
  <2>1. f.kind \in {"block", "label"}
    BY <1>4
  <2> QED
    BY <1>4, <1>16, <2>1, OpenPlain, Zenon
<1>18. decls' \in Nat
  BY <1>1 DEF IInv, TypeInv
<1>19. Good(ctx', break_stack', switch_stack', label_count', scope_start', locals',
            code', push_depth', ToSet(user_labels))
  BY <1>1, <1>4, <1>17
<1> QED
  BY <1>1, <1>18, <1>19, EnterStep, Zenon

LEMMA UserLabelStep ==
    ASSUME IInv, NEW l \in Labels, UserLabel(l)
    PROVE  IInv'
<1> DEFINE f == Frame("label", 0, FALSE)
           c2 == code \o <<Lab("usr", l, push_depth)>>
<1>1. /\ Visit /\ pc' = "stmt" /\ last_is_return' = last_is_return /\ decls' = decls
      /\ ctx' = Append(ctx, f) /\ code' = c2 /\ ~Emitted(l)
      /\ label_count' = label_count /\ break_stack' = break_stack
      /\ switch_stack' = switch_stack /\ locals' = locals
      /\ scope_start' = scope_start /\ push_depth' = push_depth
  BY DEF UserLabel, Enter, Emit
<1>2. Good(ctx, break_stack, switch_stack, label_count, scope_start, locals, code,
           push_depth, ToSet(user_labels))
  BY DEF IInv, BodyInv
<1>3. BodyTypes
  BY BodyHasTypes DEF IInv
<1>4. NewCall(f, scope_start, locals) /\ f.kind = "label"
  BY <1>3, FrameIsNew DEF Kinds
<1> HIDE DEF f
<1>5. ~ \E p \in 1..Len(code) : IsLabel(code[p]) /\ code[p].to = <<"usr", l>>
  BY <1>1, <1>3 DEF Emitted, IsLabel, BodyTypes
<1>6. Good(ctx, break_stack, switch_stack, label_count, scope_start, locals, c2,
           push_depth, ToSet(user_labels))
  BY <1>2, <1>5, UserGood, Zenon
<1> HIDE DEF c2
<1>7. Good(Append(ctx, f), break_stack, switch_stack, label_count,
           IF f.kind = "block" THEN Len(locals) ELSE scope_start, locals, c2,
           push_depth, ToSet(user_labels))
  <2>1. f.kind \in {"block", "label"}
    BY <1>4
  <2> QED
    BY <1>4, <1>6, <2>1, OpenPlain, Zenon
<1>8. decls' \in Nat
  BY <1>1 DEF IInv, TypeInv
<1>9. Good(ctx', break_stack', switch_stack', label_count', scope_start', locals',
           code', push_depth', ToSet(user_labels))
  BY <1>1, <1>4, <1>7
<1> QED
  BY <1>1, <1>8, <1>9, EnterStep, Zenon

LEMMA LeaveStep ==
    ASSUME IInv, Leave
    PROVE  IInv'
<1>1. /\ pc = "return" /\ ctx # <<>> /\ last_is_return' = FALSE /\ label_count' = label_count
      /\ user_labels' = user_labels /\ stmts' = stmts /\ decls' = decls /\ rsp' = rsp
  BY DEF Leave
<1>2. BodyTypes
  BY BodyHasTypes DEF IInv
<1>3. Outer \in Seq(Call) /\ Top \in Call /\ ctx = Append(Outer, Top)
  <2>1. ctx \in Seq(Call)
    BY <1>2 DEF BodyTypes
  <2>2. Front(ctx) \in Seq(Call) /\ Last(ctx) \in Call
    BY <1>1, <2>1, Popped, Zenon
  <2>3. ctx = Append(Front(ctx), Last(ctx))
    BY <1>1, <2>1, Popped, Zenon
  <2> QED
    BY <2>2, <2>3, Zenon DEF Outer, Top
<1>4. PICK o \in Seq(Call), f \in Call : o = Outer /\ f = Top
  BY <1>3
<1>5. Good(Append(o, f), break_stack, switch_stack, label_count, scope_start, locals, code,
           push_depth, ToSet(user_labels))
  BY <1>3, <1>4 DEF IInv, BodyInv
<1>6. /\ pc' \in {"stmt", "return"}
      /\ Good(ctx', break_stack', switch_stack', label_count, scope_start', locals',
              code', push_depth', ToSet(user_labels))
  <2>1. CASE /\ f.kind = "block"
             /\ LeaveScope
             /\ ctx' = o
             /\ UNCHANGED <<pc, code, break_stack, switch_stack, push_depth>>
    <3>1. f.kind \in {"block", "label"}
      BY <2>1
    <3>2. Good(o, break_stack, switch_stack, label_count, f.saved_scope_start,
               SubSeq(locals, 1, f.saved_local_count), code, push_depth, ToSet(user_labels))
      BY <1>5, <2>1, <3>1, LeavePlain, Zenon
    <3>3. locals' = SubSeq(locals, 1, f.saved_local_count) /\ scope_start' = f.saved_scope_start
      BY <1>4, <2>1 DEF LeaveScope
    <3> QED
      BY <1>1, <2>1, <3>2, <3>3
  <2>2. CASE /\ f.kind = "label"
             /\ ctx' = o
             /\ UNCHANGED <<pc, code, break_stack, switch_stack, locals, scope_start,
                            push_depth>>
    <3>1. f.kind \in {"block", "label"}
      BY <2>2
    <3>2. Good(o, break_stack, switch_stack, label_count, scope_start, locals, code,
               push_depth, ToSet(user_labels))
      BY <1>5, <2>2, <3>1, LeavePlain, Zenon
    <3> QED
      BY <1>1, <2>2, <3>2
  <2>3. CASE /\ f.kind = "if" /\ f.opt
             /\ ctx' = o \o <<[f EXCEPT !.opt = FALSE]>>
             /\ Emit(<<Jmp("end", f.id, push_depth), Lab("else", f.id, push_depth)>>)
             /\ pc' = "stmt"
             /\ UNCHANGED <<break_stack, switch_stack, locals, scope_start, push_depth>>
    <3> DEFINE g == [f EXCEPT !.opt = FALSE]
    <3>1. /\ g \in Call /\ g.kind = f.kind /\ g.id = f.id
          /\ g.saved_scope_start = f.saved_scope_start
          /\ g.saved_local_count = f.saved_local_count /\ g.names = f.names
      BY DEF Call
    <3>2. ~g.opt
      BY DEF Call
    <3>3. ctx' = o \o <<g>>
      BY <2>3
    <3> HIDE DEF g
    <3>4. o \o <<g>> = Append(o, g)
      BY <3>1, AppendIsConcat
    <3>5. Good(Append(o, g), break_stack, switch_stack, label_count, scope_start, locals,
               code \o <<Jmp("end", f.id, push_depth), Lab("else", f.id, push_depth)>>,
               push_depth, ToSet(user_labels))
      BY <1>5, <2>3, <3>1, <3>2, LeaveElse, Zenon
    <3> QED
      BY <2>3, <3>3, <3>4, <3>5 DEF Emit
  <2>4. CASE /\ f.kind = "if" /\ ~f.opt
             /\ ctx' = o
             /\ Emit(<<Lab("end", f.id, push_depth)>>)
             /\ UNCHANGED <<pc, break_stack, switch_stack, locals, scope_start, push_depth>>
    <3>1. Good(o, break_stack, switch_stack, label_count, scope_start, locals,
               code \o <<Lab("end", f.id, push_depth)>>, push_depth, ToSet(user_labels))
      BY <1>5, <2>4, LeaveIf, Zenon
    <3> QED
      BY <1>1, <2>4, <3>1 DEF Emit
  <2>5. CASE /\ f.kind \in Loops
             /\ ctx' = o
             /\ Emit(LoopTail(f.kind, f.id, f.opt, push_depth)
                        \o <<Lab("stop", f.id, push_depth), Lab("break", f.id, push_depth)>>)
             /\ break_stack' = PopBreak(f.kind)
             /\ IF f.kind = "for" THEN LeaveScope ELSE UNCHANGED <<locals, scope_start>>
             /\ UNCHANGED <<pc, switch_stack, push_depth>>
    <3> DEFINE c3 == code \o (LoopTail(f.kind, f.id, f.opt, push_depth)
                                \o <<Lab("stop", f.id, push_depth), Lab("break", f.id, push_depth)>>)
    <3>1. /\ ctx' = o /\ code' = c3 /\ break_stack' = Front(break_stack) /\ pc' = pc
          /\ switch_stack' = switch_stack /\ push_depth' = push_depth
      BY <2>5 DEF Emit, PopBreak
    <3>2. /\ f.kind = "for" =>
                Good(o, Front(break_stack), switch_stack, label_count, f.saved_scope_start,
                     SubSeq(locals, 1, f.saved_local_count), c3, push_depth, ToSet(user_labels))
          /\ f.kind # "for" =>
                Good(o, Front(break_stack), switch_stack, label_count, scope_start, locals, c3,
                     push_depth, ToSet(user_labels))
      BY <1>5, <2>5, LeaveLoop, Zenon
    <3> HIDE DEF c3
    <3>3. /\ f.kind = "for" => /\ locals' = SubSeq(locals, 1, f.saved_local_count)
                               /\ scope_start' = f.saved_scope_start
          /\ f.kind # "for" => locals' = locals /\ scope_start' = scope_start
      BY <1>4, <2>5 DEF LeaveScope
    <3> QED
      BY <1>1, <3>1, <3>2, <3>3
  <2>6. CASE /\ f.kind = "switch"
             /\ f.cases = Len(Last(switch_stack).entries)
             /\ ctx' = o
             /\ switch_stack' = Front(switch_stack)
             /\ break_stack' = PopBreak(f.kind)
             /\ Emit(SwitchTail(f.id, push_depth))
             /\ push_depth' = push_depth - 1
             /\ UNCHANGED <<pc, locals, scope_start>>
    <3>1. Good(o, Front(break_stack), Front(switch_stack), label_count, scope_start, locals,
               code \o SwitchTail(f.id, push_depth), push_depth - 1, ToSet(user_labels))
      BY <1>5, <2>6, LeaveSwitch, Zenon
    <3> QED
      BY <1>1, <2>6, <3>1 DEF Emit, PopBreak
  <2> QED
    BY <1>4, <2>1, <2>2, <2>3, <2>4, <2>5, <2>6, Zenon DEF Leave
<1>7. BodyInv'
  BY <1>1, <1>6 DEF BodyInv
<1>8. EndInv'
  BY <1>1 DEF EndInv
<1>9. stmts' \in Nat /\ decls' \in Nat /\ last_is_return' \in BOOLEAN
  <2>1. last_is_return' \in BOOLEAN
    BY <1>1
  <2>2. stmts' \in Nat /\ decls' \in Nat
    BY <1>1 DEF IInv, TypeInv
  <2> QED
    BY <2>1, <2>2
<1>10. pc' \in {"stmt", "return", "error"} /\ pc \in {"stmt", "return"}
  BY <1>1, <1>6
<1> QED
  BY <1>1, <1>7, <1>8, <1>9, <1>10, EmitterStep, Zenon

LEMMA CollectStep ==
    ASSUME IInv, collect_user_labels
    PROVE  IInv'
  BY ErrorStep DEF collect_user_labels

LEMMA FunctionEndStep ==
    ASSUME IInv, FunctionEnd
    PROVE  IInv'
<1>1. /\ pc = "return" /\ ctx = <<>> /\ \A l \in ToSet(user_labels) : Emitted(l)
      /\ pc' = "run" /\ ip' = 1 /\ rsp' = rsp /\ ctx' = ctx /\ label_count' = label_count
      /\ break_stack' = break_stack /\ switch_stack' = switch_stack /\ locals' = locals
      /\ scope_start' = scope_start /\ push_depth' = push_depth
      /\ user_labels' = user_labels /\ last_is_return' = last_is_return
      /\ stmts' = stmts /\ decls' = decls
      /\ IF ~last_is_return THEN code' = code \o <<Op("ret", push_depth)>>
         ELSE code' = code
  BY DEF FunctionEnd, NeedsEpilogue, Emit
<1>2. Good(ctx, break_stack, switch_stack, label_count, scope_start, locals, code,
           push_depth, ToSet(user_labels))
  BY DEF IInv, BodyInv
<1>3. code \in Seq(Instr)
  BY <1>2, GoodTypes, Zenon
<1>4. PICK c2 : /\ code' = c2 /\ c2 # <<>> /\ Last(c2).op = "ret" /\ Extends(code, c2)
                /\ Good(ctx, break_stack, switch_stack, label_count, scope_start, locals,
                        c2, push_depth, ToSet(user_labels))
  <2>1. CASE ~last_is_return
    <3> DEFINE c2 == code \o <<Op("ret", push_depth)>>
    <3>1. /\ Good(ctx, break_stack, switch_stack, label_count, scope_start, locals, c2,
                  push_depth, ToSet(user_labels))
          /\ c2 # <<>> /\ Last(c2).op = "ret"
      BY <1>2, GoodRet, Zenon
    <3>2. Extends(code, c2)
      <4>1. push_depth \in Int
        BY <1>2, GoodTypes, Zenon
      <4>2. Op("ret", push_depth) \in Instr
        BY <4>1, InsType DEF Op, LabelPrefixes
      <4>3. <<Op("ret", push_depth)>> \in Seq(Instr)
        BY <4>2
      <4>4. Len(code) <= Len(c2) /\ \A i \in 1..Len(code) : c2[i] = code[i]
        BY <1>3, <4>3, Joined
      <4> QED
        BY <4>4, Zenon DEF Extends
    <3>3. code' = c2
      BY <1>1, <2>1
    <3> HIDE DEF c2
    <3> QED
      BY <3>1, <3>2, <3>3, Zenon
  <2>2. CASE last_is_return
    <3>1. code # <<>> /\ Last(code).op = "ret"
      BY <1>1, <2>2 DEF IInv, EndInv
    <3>2. Extends(code, code)
      BY <1>3 DEF Extends
    <3> QED
      BY <1>1, <1>2, <2>2, <3>1, <3>2
  <2> QED
    BY <2>1, <2>2
<1>5. c2 \in Seq(Instr) /\ CodeInv(c2, Pending(ctx, switch_stack), label_count, push_depth,
                                   ToSet(user_labels))
  BY <1>4, GoodTypes, Zenon
<1>6. 1 \in DOMAIN c2 /\ c2[1].depth = 0
  <2>1. Len(c2) # 0 /\ Len(c2) \in Nat /\ DOMAIN c2 = 1..Len(c2)
    BY <1>4, <1>5, EmptySeq
  <2>2. c2[1].depth = 0
    BY <1>4, <1>5 DEF CodeInv, Flow
  <2> QED
    BY <2>1, <2>2
<1>7. \A l \in ToSet(user_labels') : Emitted(l)'
  <2> SUFFICES ASSUME NEW l \in ToSet(user_labels) PROVE Emitted(l)'
    BY <1>1
  <2>1. PICK i \in DOMAIN code : code[i].op = "label" /\ code[i].to = <<"usr", l>>
    BY <1>1 DEF Emitted
  <2>2. i \in DOMAIN c2 /\ c2[i] = code[i]
    BY <1>3, <1>4, <1>5 DEF Extends
  <2> QED
    BY <1>4, <2>1, <2>2 DEF Emitted
<1>8. TypeInv'
  BY <1>1 DEF IInv, TypeInv
<1>9. BodyInv'
  BY <1>1, <1>4 DEF BodyInv
<1>10. EndInv'
  BY <1>1 DEF EndInv
<1>11. rsp' = 0
  BY <1>1 DEF IInv, RunInv
<1>12. RunInv'
  <2>1. /\ pc' = "run" /\ ctx' = <<>> /\ code' # <<>> /\ Last(code').op = "ret"
        /\ ip' \in DOMAIN code' /\ rsp' = code'[ip'].depth
    BY <1>1, <1>4, <1>6, <1>11
  <2> QED
    BY <1>7, <2>1 DEF RunInv
<1> QED
  BY <1>8, <1>9, <1>10, <1>12 DEF IInv

-----------------------------------------------------------------------------
(***************************************************************************)
(* The code when it runs.                                                  *)
(***************************************************************************)

\* Label q of c is the one that jump j of c goes to.
Goes(c, j, q) ==
    /\ IsLabel(c[q]) /\ c[q].to = c[j].to /\ c[q].owner = c[j].owner
    /\ c[j].to[1] \notin {"continue", "usr"} => c[q].depth = c[j].depth
    /\ \A p \in 1..Len(c) : IsLabel(c[p]) /\ c[p].to = c[j].to => p = q

\* In code that waits for no label, every jump has one label to go to.
LEMMA JumpGoes ==
    ASSUME NEW c, NEW lc, NEW d, NEW U, CodeInv(c, {}, lc, d, U),
           \A l \in U : \E q \in 1..Len(c) : IsLabel(c[q]) /\ c[q].to = <<"usr", l>>,
           NEW j \in 1..Len(c), IsJump(c[j])
    PROVE  \E q \in 1..Len(c) : Goes(c, j, q)
<1>1. c \in Seq(Instr) /\ LabelsOf(c, {}, lc) /\ JumpsOf(c, {}, U)
  BY DEF CodeInv
<1>2. c[j].to = <<c[j].to[1], c[j].to[2]>>
  <2>1. c[j] \in Instr
    BY <1>1
  <2>2. \A A, B : \A w \in A \X B : w = <<w[1], w[2]>>
    OBVIOUS
  <2>3. c[j].to \in {"", "start", "continue", "stop", "break", "else", "end", "sec", "usr"}
                       \X (Nat \cup Labels)
    BY <2>1 DEF Instr
  <2> QED
    BY <2>2, <2>3, Zenon
<1>3. \/ Resolved(c, c[j])
      \/ c[j].to[1] = "usr" /\ c[j].owner = c[j].to[2] /\ c[j].to[2] \in U
  BY <1>1 DEF JumpsOf, JumpOK
<1>4. PICK q \in 1..Len(c) :
         /\ IsLabel(c[q]) /\ c[q].to = c[j].to /\ c[q].owner = c[j].owner
         /\ c[j].to[1] \notin {"continue", "usr"} => c[q].depth = c[j].depth
  <2>1. CASE Resolved(c, c[j])
    BY <2>1 DEF Resolved, Matches
  <2>2. CASE c[j].to[1] = "usr" /\ c[j].owner = c[j].to[2] /\ c[j].to[2] \in U
    <3>1. PICK q \in 1..Len(c) : IsLabel(c[q]) /\ c[q].to = <<"usr", c[j].to[2]>>
      BY <2>2, Zenon
    <3>2. c[q].to = c[j].to
      BY <1>2, <2>2, <3>1
    <3>3. c[q].to[1] = "usr" /\ c[q].to[2] = c[j].to[2]
      BY <2>2, <3>2
    <3>4. c[q].owner = c[q].to[2]
      BY <1>1, <3>1, <3>3, Zenon DEF LabelsOf
    <3> QED
      BY <2>2, <3>1, <3>2, <3>3, <3>4
  <2> QED
    BY <1>3, <2>1, <2>2
<1>5. \A p \in 1..Len(c) : IsLabel(c[p]) /\ c[p].to = c[j].to => p = q
  BY <1>1, <1>4, Zenon DEF LabelsOf
<1>6. Goes(c, j, q)
  BY <1>4, <1>5, Zenon DEF Goes
<1> QED
  BY <1>6, Zenon

\* The code of a finished function is complete.
LEMMA Finished ==
    ASSUME IInv, pc \in {"run", "halt"}
    PROVE  /\ code \in Seq(Instr) /\ DOMAIN code = 1..Len(code) /\ Len(code) \in Nat
           /\ Flow(code, push_depth)
           /\ \A j \in Jumps : \E q \in DOMAIN code : Goes(code, j, q)
           /\ \A j \in Jumps, q \in DOMAIN code : Goes(code, j, q) => Target(code[j].to) = q
<1>1. ctx = <<>> /\ \A l \in ToSet(user_labels) : Emitted(l)
  BY DEF IInv, RunInv
<1>2. CodeInv(code, Pending(ctx, switch_stack), label_count, push_depth, ToSet(user_labels))
  BY GoodTypes, Zenon DEF IInv, BodyInv
<1>3. Pending(ctx, switch_stack) = {}
  BY <1>1 DEF Pending
<1>4. CodeInv(code, {}, label_count, push_depth, ToSet(user_labels))
  BY <1>2, <1>3
<1>5. code \in Seq(Instr) /\ Flow(code, push_depth)
  BY <1>4 DEF CodeInv
<1>6. DOMAIN code = 1..Len(code) /\ Len(code) \in Nat
  BY <1>5
<1>7. \A l \in ToSet(user_labels) :
         \E q \in 1..Len(code) : IsLabel(code[q]) /\ code[q].to = <<"usr", l>>
  BY <1>1, <1>6, Zenon DEF Emitted, IsLabel
<1>8. \A j \in Jumps : \E q \in DOMAIN code : Goes(code, j, q)
  <2> SUFFICES ASSUME NEW j \in Jumps PROVE \E q \in 1..Len(code) : Goes(code, j, q)
    BY <1>6
  <2>1. j \in 1..Len(code) /\ IsJump(code[j])
    BY <1>6 DEF Jumps, IsJump
  <2> QED
    BY <1>4, <1>7, <2>1, JumpGoes, Zenon
<1>9. \A j \in Jumps, q \in DOMAIN code : Goes(code, j, q) => Target(code[j].to) = q
  <2> SUFFICES ASSUME NEW j \in Jumps, NEW q \in DOMAIN code, Goes(code, j, q)
               PROVE  Target(code[j].to) = q
    OBVIOUS
  <2>1. code[q].op = "label" /\ code[q].to = code[j].to
    BY DEF Goes, IsLabel
  <2>2. \A p \in DOMAIN code : code[p].op = "label" /\ code[p].to = code[j].to => p = q
    BY <1>6, Zenon DEF Goes, IsLabel
  <2> QED
    BY <2>1, <2>2, Zenon DEF Target
<1> QED
  BY <1>5, <1>6, <1>8, <1>9, Zenon

LEMMA RunStep ==
    ASSUME IInv, Run
    PROVE  IInv'
<1> DEFINE i == code[ip]
<1>1. /\ pc = "run" /\ ip \in DOMAIN code
      /\ ip' \in CASE i.op = "jmp" -> {Target(i.to)}
                   [] i.op = "jcc" -> {ip + 1, Target(i.to)}
                   [] OTHER -> {ip + 1}
      /\ rsp' = CASE i.op = "push" -> rsp + 1 [] i.op = "pop" -> rsp - 1
                  [] i.op = "ret" -> 0 [] OTHER -> rsp
      /\ pc' = IF i.op = "ret" THEN "halt" ELSE "run"
      /\ UNCHANGED emitter
  BY DEF Run
<1>2. /\ ctx' = ctx /\ code' = code /\ user_labels' = user_labels
      /\ last_is_return' = last_is_return /\ stmts' = stmts /\ decls' = decls
  BY <1>1 DEF emitter
<1>3. BodyInv'
  BY <1>1, BodySame DEF IInv
<1>4. pc' \in {"run", "halt"}
  BY <1>1
<1>5. TypeInv'
  BY <1>2, <1>4 DEF IInv, TypeInv
<1>6. EndInv'
  BY <1>4 DEF EndInv
<1>7. /\ ctx = <<>> /\ code # <<>> /\ Last(code).op = "ret"
      /\ \A l \in ToSet(user_labels) : Emitted(l)
      /\ ~CrossesSwitch => rsp = code[ip].depth
  BY <1>1 DEF IInv, RunInv
<1>8. /\ ctx' = <<>> /\ code' # <<>> /\ Last(code').op = "ret"
      /\ \A l \in ToSet(user_labels') : Emitted(l)'
  BY <1>2, <1>7 DEF Emitted
<1>9. CASE i.op = "ret"
  <2>1. pc' = "halt"
    BY <1>1, <1>9
  <2> QED
    BY <1>3, <1>5, <1>6, <1>8, <2>1 DEF IInv, RunInv
<1>10. CASE i.op # "ret"
  <2>1. /\ code \in Seq(Instr) /\ DOMAIN code = 1..Len(code) /\ Len(code) \in Nat
        /\ Flow(code, push_depth)
    BY <1>1, Finished, Zenon
  <2>2. /\ ip \in 1..(Len(code) - 1) /\ ip + 1 \in DOMAIN code
        /\ code[ip + 1].depth = After(i)
    <3>1. Last(code) = code[Len(code)]
      BY DEF Last
    <3>2. ip # Len(code)
      BY <1>7, <1>10, <3>1
    <3>3. ip \in 1..(Len(code) - 1) /\ ip + 1 \in DOMAIN code
      BY <1>1, <2>1, <3>2
    <3> QED
      BY <2>1, <3>3 DEF Flow
  <2>3. CASE ip' = ip + 1
    <3>1. ~CrossesSwitch => rsp' = After(i)
      <4> SUFFICES ASSUME ~CrossesSwitch PROVE rsp' = After(i)
        OBVIOUS
      <4>1. rsp = i.depth
        BY <1>7
      <4> QED
        BY <1>1, <1>10, <4>1 DEF After
    <3>2. ip' \in DOMAIN code' /\ code'[ip'].depth = After(i)
      BY <1>2, <2>2, <2>3
    <3> QED
      BY <3>1, <3>2, <1>1, <1>2, <1>3, <1>5, <1>6, <1>8, <1>10 DEF IInv, RunInv, CrossesSwitch, Jumps, Target
  <2>4. CASE ip' # ip + 1
    <3>1. i.op \in {"jmp", "jcc"} /\ ip' = Target(i.to)
      BY <1>1, <2>4
    <3>2. ip \in Jumps
      BY <1>1, <3>1 DEF Jumps
    <3>3. PICK q \in DOMAIN code : Goes(code, ip, q)
      BY <1>1, <3>2, Finished, Zenon
    <3>4. Target(i.to) = q
      BY <1>1, <3>2, <3>3, Finished, Zenon
    <3>5. ~CrossesSwitch => code[q].depth = i.depth
      <4>1. i.to[1] \notin {"continue", "usr"} => code[q].depth = i.depth
        BY <3>3, Zenon DEF Goes
      <4>2. ~CrossesSwitch /\ i.to[1] \in {"continue", "usr"} => code[q].depth = i.depth
        BY <3>2, <3>4, Zenon DEF CrossesSwitch
      <4> QED
        BY <4>1, <4>2
    <3>6. rsp' = rsp
      BY <1>1, <3>1
    <3>7. ip' \in DOMAIN code' /\ code'[ip'] = code[q]
      BY <1>2, <3>1, <3>4
    <3>8. CrossesSwitch' = CrossesSwitch
      BY <1>2 DEF CrossesSwitch, Jumps, Target
    <3> QED
      BY <1>2, <1>3, <1>4, <1>5, <1>6, <1>7, <1>8, <3>5, <3>6, <3>7, <3>8 DEF IInv, RunInv
  <2> QED
    BY <2>3, <2>4
<1> QED
  BY <1>9, <1>10

-----------------------------------------------------------------------------
(***************************************************************************)
(* The theorems.                                                           *)
(***************************************************************************)
LEMMA BoundedIsSeq ==
    ASSUME NEW S, NEW n \in Nat
    PROVE  \A s \in BoundedSeq(S, n) : s \in Seq(S)
<1>1. \A m \in 0..n : [1..m -> S] \subseteq Seq(S)
  OBVIOUS
<1> QED
  BY <1>1, Zenon DEF BoundedSeq, SeqOf

LEMMA InitGood == Init => IInv
<1> SUFFICES ASSUME Init PROVE IInv
  OBVIOUS
<1>1. /\ pc = "return" /\ ctx = <<>> /\ label_count = 1 /\ break_stack = <<>>
      /\ switch_stack = <<>> /\ locals = <<>> /\ scope_start = 0 /\ push_depth = 0
      /\ code = <<>> /\ last_is_return = FALSE /\ stmts = 0 /\ decls = 0 /\ rsp = 0
  BY DEF Init
<1>2. user_labels \in Seq(Labels)
  BY BoundedIsSeq DEF Init
<1>3. TypeInv
  BY <1>1, <1>2 DEF TypeInv
<1>4. EndInv /\ RunInv
  BY <1>1 DEF EndInv, RunInv
<1>5. Len(<<>>) = 0 /\ \A i \in 1..Len(<<>>) : FALSE
  OBVIOUS
<1>6. \A kinds : Count(<<>>, 0, kinds) = 0
  BY CountIsNat
<1>7. Pending(<<>>, <<>>) = {}
  BY <1>5 DEF Pending
<1>8. CodeInv(<<>>, {}, 1, 0, ToSet(user_labels))
  <2>1. PendingOK({}, 1)
    BY DEF PendingOK
  <2>2. Flow(<<>>, 0)
    BY DEF Flow
  <2>3. LabelsOf(<<>>, {}, 1) /\ JumpsOf(<<>>, {}, ToSet(user_labels))
    BY <1>5, Zenon DEF LabelsOf, JumpsOf
  <2> QED
    BY <2>1, <2>2, <2>3 DEF CodeInv
<1>9. Tables(<<>>, <<>>, <<>>, 1, 0, <<>>)
  <2>1. NestInv(<<>>, <<>>, <<>>)
    BY <1>5, <1>6 DEF NestInv, Depth
  <2>2. NumberInv(<<>>, <<>>, 1)
    BY <1>5, Zenon DEF NumberInv
  <2>3. ScopeInv(<<>>, 0, Len(<<>>))
    BY <1>5 DEF ScopeInv, StartsAt
  <2>4. NameInv(<<>>, <<>>)
    BY <1>5, Zenon DEF NameInv
  <2> QED
    BY <2>1, <2>2, <2>3, <2>4 DEF Tables
<1>10. StartInv(<<>>, <<>>)
  BY <1>5, Zenon DEF StartInv
<1>11. Good(<<>>, <<>>, <<>>, 1, 0, <<>>, <<>>, 0, ToSet(user_labels))
  BY <1>5, <1>6, <1>7, <1>8, <1>9, <1>10 DEF Good, Depth
<1>12. BodyInv
  BY <1>1, <1>11 DEF BodyInv
<1> QED
  BY <1>3, <1>4, <1>12 DEF IInv

LEMMA StepGood == IInv /\ [Next]_vars => IInv'
<1> SUFFICES ASSUME IInv, [Next]_vars PROVE IInv'
  OBVIOUS
<1>1. CASE collect_user_labels \/ NextStatement
  BY <1>1, CollectStep, NextStatementStep
<1>2. CASE \E n \in Names : Declaration(n)
  BY <1>2, DeclarationStep
<1>3. CASE Expression \/ Return \/ Break \/ Continue
  BY <1>3, ExpressionStep, ReturnStep, BreakStep, ContinueStep
<1>4. CASE \E l \in Labels : Goto(l) \/ UserLabel(l)
  BY <1>4, GotoStep, UserLabelStep
<1>5. CASE Block \/ While \/ Do
  BY <1>5, BlockStep, WhileStep, DoStep
<1>6. CASE \E b \in BOOLEAN : If(b)
  BY <1>6, IfStep
<1>7. CASE \E n \in Names, decl, has_cond, has_update \in BOOLEAN :
              For(decl, n, has_cond, has_update)
  BY <1>7, ForStep
<1>8. CASE \E kinds \in BoundedSeq({"case", "default"}, MaxCases) : Switch(kinds)
  <2>1. PICK kinds \in BoundedSeq({"case", "default"}, MaxCases) : Switch(kinds)
    BY <1>8
  <2>2. kinds \in Seq({"case", "default"})
    BY <2>1, BoundedIsSeq, CodegenStmtAssumption
  <2> QED
    BY <2>1, <2>2, SwitchStep
<1>9. CASE \E kind \in {"case", "default"} : Case(kind)
  BY <1>9, CaseActionStep
<1>10. CASE Leave \/ FunctionEnd \/ Run
  BY <1>10, LeaveStep, FunctionEndStep, RunStep
<1>11. CASE UNCHANGED vars
  <2>1. /\ BodyInv' /\ pc' = pc /\ ctx' = ctx /\ last_is_return' = last_is_return
        /\ code' = code /\ user_labels' = user_labels /\ decls' = decls /\ stmts' = stmts
        /\ ip' = ip /\ rsp' = rsp
    BY <1>11, BodySame DEF vars, emitter, IInv
  <2>2. TypeInv'
    BY <2>1 DEF IInv, TypeInv
  <2>3. EndInv'
    BY <2>1 DEF IInv, EndInv
  <2>4. CrossesSwitch' = CrossesSwitch
    BY <2>1 DEF CrossesSwitch, Jumps, Target
  <2>5. \A l : Emitted(l)' <=> Emitted(l)
    BY <2>1 DEF Emitted
  <2>6. RunInv'
    BY <2>1, <2>4, <2>5 DEF IInv, RunInv
  <2> QED
    BY <2>1, <2>2, <2>3, <2>6 DEF IInv
<1> QED
  BY <1>1, <1>2, <1>3, <1>4, <1>5, <1>6, <1>7, <1>8, <1>9, <1>10, <1>11, Zenon DEF Next

\* For every body, the inductive invariant holds: the tables of the code
\* generator mirror the open calls of codegen_statement, the code emitted so far
\* waits for just the labels those calls have still to emit, and the code that
\* runs is complete.
THEOREM BodyAlwaysGood == Spec => []IInv
<1>1. Init => IInv
  BY InitGood
<1>2. IInv /\ [Next]_vars => IInv'
  BY StepGood
<1> QED
  BY <1>1, <1>2, PTL DEF Spec

\* For every body, break_stack, switch_stack and push_depth mirror the enclosing
\* loops and switches at every statement codegen_statement emits.
THEOREM StacksAlwaysMatchNesting == Spec => []StacksMatchNesting
<1>1. IInv => StacksMatchNesting
  <2> SUFFICES ASSUME IInv PROVE StacksMatchNesting
    OBVIOUS
  <2>1. /\ ctx \in Seq(Call) /\ Len(ctx) \in Nat /\ NestInv(ctx, break_stack, switch_stack)
        /\ push_depth = Depth(ctx, Len(ctx))
    BY GoodTypes, Zenon DEF IInv, BodyInv
  <2>2. \A kinds : Open(kinds) = Indices(ctx, Len(ctx), kinds)
    BY <2>1 DEF Open, Indices
  <2>3. \A i \in Open(Breakable) :
           /\ i \in 1..Len(ctx) /\ ctx[i].kind \in Breakable
           /\ {j \in Open(Breakable) : j <= i} = Indices(ctx, i, Breakable)
    BY <2>1 DEF Open, Indices
  <2>4. Len(break_stack) = Cardinality(Open(Breakable))
    BY <2>1, <2>2 DEF NestInv, Count
  <2>5. Len(switch_stack) = Cardinality(Open({"switch"}))
        /\ push_depth = Cardinality(Open({"switch"}))
    BY <2>1, <2>2 DEF NestInv, Depth, Count
  <2>6. ASSUME NEW i \in Open(Breakable)
        PROVE  LET entry == break_stack[Cardinality({j \in Open(Breakable) : j <= i})]
               IN /\ entry.break_label = ctx[i].id
                  /\ entry.continue_label = IF ctx[i].kind = "switch" THEN -1 ELSE ctx[i].id
    <3>1. break_stack[Count(ctx, i, Breakable)] = BreakFrame(ctx[i])
      BY <2>1, <2>3 DEF NestInv
    <3>2. Cardinality({j \in Open(Breakable) : j <= i}) = Count(ctx, i, Breakable)
      BY <2>3 DEF Count
    <3> QED
      BY <3>1, <3>2 DEF BreakFrame
  <2>7. Loops \cup {"switch"} = Breakable
    BY DEF Breakable
  <2> QED
    BY <2>4, <2>5, <2>6, <2>7, Zenon DEF StacksMatchNesting
<1> QED
  BY <1>1, BodyAlwaysGood, PTL

\* For every body, each jump of the finished function has exactly one label to go
\* to, and it is that of the statement C says the jump belongs to: break and
\* continue take theirs from break_stack, case labels theirs from switch_stack.
THEOREM JumpsAlwaysResolved == Spec => []JumpsResolved
<1>1. IInv => JumpsResolved
  <2> SUFFICES ASSUME IInv, pc \in {"run", "halt"}, NEW j \in Jumps
               PROVE  LET targets == {i \in DOMAIN code :
                                        code[i].op = "label" /\ code[i].to = code[j].to}
                      IN /\ Cardinality(targets) = 1
                         /\ \A i \in targets : code[i].owner = code[j].owner
    BY DEF JumpsResolved
  <2> DEFINE targets == {i \in DOMAIN code :
                            code[i].op = "label" /\ code[i].to = code[j].to}
  <2>1. DOMAIN code = 1..Len(code)
    BY Finished, Zenon
  <2>2. PICK q \in DOMAIN code : Goes(code, j, q)
    BY Finished, Zenon
  <2>3. /\ code[q].op = "label" /\ code[q].to = code[j].to
        /\ code[q].owner = code[j].owner
        /\ \A p \in DOMAIN code : code[p].op = "label" /\ code[p].to = code[j].to => p = q
    BY <2>1, <2>2, Zenon DEF Goes, IsLabel
  <2>4. targets = {q}
    BY <2>2, <2>3
  <2>5. Cardinality(targets) = 1
    BY <2>4, FS_Singleton
  <2>6. \A i \in targets : code[i].owner = code[j].owner
    BY <2>3, <2>4
  <2> QED
    BY <2>5, <2>6
<1> QED
  BY <1>1, BodyAlwaysGood, PTL

\* For every body without a continue or a goto that crosses the border of a
\* switch, rsp is where codegen_statement counted it in push_depth, at every
\* instruction of every path through the code.
THEOREM RspAlwaysAsAssumed == Spec => []RspAsAssumed
<1>1. IInv => RspAsAssumed
  BY DEF IInv, RunInv, RspAsAssumed
<1> QED
  BY <1>1, BodyAlwaysGood, PTL

\* For every body, control stays in the code of the function: the epilogue that
\* codegen_function leaves out is never the one that is needed.
THEOREM AlwaysStaysInFunction == Spec => []StaysInFunction
<1>1. IInv => StaysInFunction
  BY DEF IInv, RunInv, StaysInFunction
<1> QED
  BY <1>1, BodyAlwaysGood, PTL

\* The variable that codegen_find_var takes.
LEMMA FindVar ==
    ASSUME locals \in Seq(Local), NEW n, \E p \in 1..Len(locals) : locals[p].name = n
    PROVE  \E x \in 1..Len(locals) :
              /\ codegen_find_var(n) = x /\ locals[x].name = n
              /\ \A p \in 1..Len(locals) : locals[p].name = n => p <= x
<1> DEFINE S == {p \in 1..Len(locals) : locals[p].name = n}
           x == Max(S)
<1>1. DOMAIN locals = 1..Len(locals) /\ Len(locals) \in Nat
  OBVIOUS
<1>2. S \subseteq 0..Len(locals) /\ S # {}
  BY <1>1
<1>3. Max(S) \in S /\ \A y \in S : y <= Max(S)
  <2> HIDE DEF S
  <2> QED
    BY <1>1, <1>2, MaxIsGreatest, Zenon
<1>4. x \in 1..Len(locals) /\ locals[x].name = n
      /\ \A p \in 1..Len(locals) : locals[p].name = n => p <= x
  BY <1>3
<1> HIDE DEF x
<1>5. \A j \in (x + 1)..Len(locals) : locals[j].name # n
  BY <1>1, <1>4
<1>6. \A i \in DOMAIN locals :
         locals[i].name = n /\ (\A j \in (i + 1)..Len(locals) : locals[j].name # n) => i = x
  <2> SUFFICES ASSUME NEW i \in 1..Len(locals), locals[i].name = n, i # x,
                      \A j \in (i + 1)..Len(locals) : locals[j].name # n
               PROVE  FALSE
    BY <1>1
  <2>1. i <= x
    BY <1>4
  <2>2. x \in (i + 1)..Len(locals)
    BY <1>1, <1>4, <2>1
  <2> QED
    BY <1>4, <2>2
<1>7. codegen_find_var(n) = x
  BY <1>1, <1>4, <1>5, <1>6, Zenon DEF codegen_find_var
<1> QED
  BY <1>4, <1>7, Zenon

\* A position behind the start of some scope belongs to one that is no further
\* out.
LEMMA OwnerOf ==
    ASSUME NEW s \in Seq(Call), NEW m \in 1..Len(s), NEW x \in Nat,
           s[m].kind \in Scopes, s[m].saved_local_count < x
    PROVE  \E i \in m..Len(s) : Owns(s, i, x)
<1> DEFINE S == {i \in m..Len(s) : s[i].kind \in Scopes /\ s[i].saved_local_count < x}
           g == Max(S)
<1>1. Len(s) \in Nat /\ m \in m..Len(s)
  OBVIOUS
<1>2. S \subseteq 0..Len(s) /\ S # {}
  BY <1>1
<1>3. g \in S /\ \A y \in S : y <= g
  <2> HIDE DEF S
  <2> QED
    BY <1>1, <1>2, MaxIsGreatest, Zenon
<1>4. /\ g \in m..Len(s) /\ s[g].kind \in Scopes /\ s[g].saved_local_count < x
      /\ \A y \in m..Len(s) : s[y].kind \in Scopes /\ s[y].saved_local_count < x => y <= g
  BY <1>3
<1> HIDE DEF g
<1>5. \A j \in (g + 1)..Len(s) : s[j].kind \in Scopes => x <= s[j].saved_local_count
  <2> SUFFICES ASSUME NEW j \in (g + 1)..Len(s), s[j].kind \in Scopes
               PROVE  x <= s[j].saved_local_count
    OBVIOUS
  <2>1. j \in m..Len(s) /\ ~(j <= g) /\ j \in 1..Len(s)
    BY <1>1, <1>4
  <2>2. ~(s[j].saved_local_count < x)
    BY <1>4, <2>1
  <2>3. s[j].saved_local_count \in Nat
    BY <2>1, CallType
  <2> QED
    BY <2>2, <2>3
<1>6. Owns(s, g, x)
  BY <1>4, <1>5, Zenon DEF Owns
<1> QED
  BY <1>4, <1>6, Zenon

\* For every body, a name is looked up as C's scope rule says: codegen_find_var
\* finds the declaration of the innermost enclosing scope that has one, whatever
\* scopes have come and gone.
THEOREM NamesAlwaysScoped == Spec => []VarScoping
<1>1. IInv => VarScoping
  <2> SUFFICES ASSUME IInv, NEW n \in Names
               PROVE  LET declaring == {i \in DOMAIN ctx : ctx[i].names[n] # 0}
                      IN declaring # {} =>
                            /\ \E i \in DOMAIN locals : locals[i].name = n
                            /\ locals[codegen_find_var(n)].decl = ctx[Max(declaring)].names[n]
    BY DEF VarScoping
  <2> DEFINE declaring == {i \in DOMAIN ctx : ctx[i].names[n] # 0}
             m == Max(declaring)
  <2> SUFFICES ASSUME declaring # {}
               PROVE  /\ \E i \in DOMAIN locals : locals[i].name = n
                      /\ locals[codegen_find_var(n)].decl = ctx[m].names[n]
    OBVIOUS
  <2>1. /\ ctx \in Seq(Call) /\ locals \in Seq(Local) /\ Len(locals) \in Nat
        /\ Len(ctx) \in Nat /\ NameInv(ctx, locals)
    BY GoodTypes, Zenon DEF IInv, BodyInv
  <2>2. DOMAIN ctx = 1..Len(ctx) /\ DOMAIN locals = 1..Len(locals)
    BY <2>1
  <2>3. declaring \subseteq 0..Len(ctx)
    BY <2>1, <2>2
  <2>4. m \in declaring /\ \A y \in declaring : y <= m
    <3> HIDE DEF declaring
    <3> QED
      BY <2>1, <2>3, MaxIsGreatest, Zenon
  <2>5. /\ m \in 1..Len(ctx) /\ ctx[m].names[n] # 0
        /\ \A y \in 1..Len(ctx) : ctx[y].names[n] # 0 => y <= m
    BY <2>2, <2>4
  <2> HIDE DEF m, declaring
  <2>6. PICK p \in 1..Len(locals) : Owns(ctx, m, p) /\ locals[p].name = n
    BY <2>1, <2>5, Zenon DEF NameInv
  <2>7. PICK x \in 1..Len(locals) :
           /\ codegen_find_var(n) = x /\ locals[x].name = n
           /\ \A y \in 1..Len(locals) : locals[y].name = n => y <= x
    BY <2>1, <2>6, FindVar, Zenon
  <2>8. ctx[m].kind \in Scopes /\ ctx[m].saved_local_count < p
    BY <2>6, Zenon DEF Owns
  <2>9. ctx[m].saved_local_count < x
    <3>1. p <= x
      BY <2>6, <2>7
    <3>2. ctx[m].saved_local_count \in Nat
      BY <2>1, <2>5, CallType
    <3> QED
      BY <2>8, <3>1, <3>2
  <2>10. PICK i \in m..Len(ctx) : Owns(ctx, i, x)
    <3>1. x \in Nat
      OBVIOUS
    <3> QED
      BY <2>1, <2>5, <2>8, <2>9, <3>1, OwnerOf, Zenon
  <2>11. i \in 1..Len(ctx)
    BY <2>1, <2>5
  <2>12. locals[x].decl = ctx[i].names[n] /\ locals[x].decl # 0
    BY <2>1, <2>7, <2>10, <2>11, Zenon DEF NameInv
  <2>13. i = m
    <3>1. i <= m
      BY <2>5, <2>11, <2>12
    <3> QED
      BY <2>5, <3>1
  <2> QED
    BY <2>2, <2>6, <2>7, <2>12, <2>13
<1> QED
  BY <1>1, BodyAlwaysGood, PTL

\* A call that is not aligned to 16 bytes has one cause only, a continue or a
\* goto that crosses the border of a switch: without one, the padding that
\* codegen derives from push_depth aligns every call of every path.
THEOREM AlignedUnlessCrossing == Spec => [](~CrossesSwitch => CallsAligned)
<1>1. IInv => (~CrossesSwitch => CallsAligned)
  <2> SUFFICES ASSUME IInv, ~CrossesSwitch, pc = "run", ip \in DOMAIN code
               PROVE  (rsp + (code[ip].depth % 2)) % 2 = 0
    BY DEF CallsAligned
  <2>1. code[ip] \in Instr
    BY BodyHasTypes DEF IInv, BodyTypes
  <2>2. code[ip].depth \in Int /\ rsp = code[ip].depth
    BY <2>1 DEF IInv, RunInv, Instr
  <2>3. \A d \in Int : (d + (d % 2)) % 2 = 0
    OBVIOUS
  <2> QED
    BY <2>2, <2>3
<1> QED
  BY <1>1, BodyAlwaysGood, PTL
=============================================================================
