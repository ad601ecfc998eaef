----------------------------- MODULE StackProofs ----------------------------
(***************************************************************************)
(* Proofs about the stack of a function: its frame, and the words that     *)
(* expressions push below it.                                              *)
(*                                                                         *)
(* The frame, for every set of types and every function: its slots never   *)
(* overlap, and they fit in the frame unless it has structs or literals of *)
(* less than 8-byte alignment.  The bytes are counted by one walk and the  *)
(* slots handed out by another part of codegen.c, much later, so the       *)
(* argument needs what neither of them keeps: how much had been counted    *)
(* before each node.  The inductive invariant says that such running       *)
(* totals exist (Totals) and that the allocators never get ahead of them   *)
(* (Placed):                                                               *)
(*   TypeInv    the values of the variables                                *)
(*   CountInv   running totals, and the allocators within them             *)
(*   SlotInv    the slots below the scratch cursor, above the scratch      *)
(*              region, and below stack_offset                             *)
(*                                                                         *)
(* Expressions, for every signature, every nesting and every number of     *)
(* argument registers: push_depth is the number of words that are pushed,  *)
(* and a call finds an even number.  The invariant is about code that has  *)
(* not run yet: what is left of every open expression takes the stack from *)
(* where the one inside it leaves it back to where it was at its own       *)
(* beginning (Held), where a piece of code takes the stack from d words to *)
(* e when a number of words can be given to each of its places so that     *)
(* every instruction goes from one to the next and every jump stays on its *)
(* level (Brings).  That the code of each expression does, EmissionBrings, *)
(* is shown piece by piece, the pieces joined by BringsJoin.               *)
(***************************************************************************)
EXTENDS Frame, Calls, TLAPS, SequenceTheorems, WellFoundedInduction

AnyType == UNION {TypesOf(c) : c \in Categories}

\* The prologue has been emitted.
Laid == phase \in {"bind", "body"}

TypeInv ==
    /\ phase \in Categories \cup {"prologue", "bind", "body"}
    /\ is_variadic \in BOOLEAN /\ returns_memory_struct \in BOOLEAN
    /\ nodes \in [Categories -> Seq(AnyType)]
    /\ \A c \in Categories : nodes[c] \in Seq(TypesOf(c))
    /\ bytes \in [Categories -> Nat]
    /\ \E k \in Nat : bytes["call"] = 8 * k
    /\ done \in [Categories -> Nat]
    /\ \A c \in Categories : done[c] <= Len(nodes[c])
    /\ stack_size \in Nat
    /\ stack_offset \in Nat
    /\ struct_ret_scratch_cursor \in Nat
    /\ ~Laid => slots = {} /\ \A c \in Categories : done[c] = 0
    /\ Laid => stack_size = RoundUp(FrameBytes, 16)

\* Where the scratch region begins and ends, and where the variables begin.
SavedBytes == IF is_variadic THEN 224 ELSE 40
ScratchTop == SavedBytes + bytes["call"]
Hidden == IF returns_memory_struct THEN 8 ELSE 0

\* q[i] is what the walk had counted for category c before its i-th node.
RunsTo(c, q) ==
    /\ q[1] = 0
    /\ \A i \in 1..Len(nodes[c]) : q[i + 1] = q[i] + Bytes(c, nodes[c][i])
    /\ q[Len(nodes[c]) + 1] = bytes[c]
    /\ \A i \in 1..(Len(nodes[c]) + 1) : q[i] <= bytes[c]

Totals(p) == p \in [Categories -> [Nat -> Nat]] /\ \A c \in Categories : RunsTo(c, p[c])

\* What had been counted for the nodes of category c that have their slot.
Upto(p, c) == p[c][done[c] + 1]

AllAligned == WellCounted("decl") /\ WellCounted("literal")

Placed(p) ==
    /\ struct_ret_scratch_cursor <= SavedBytes + Upto(p, "call")
    /\ AllAligned =>
         RoundUp(stack_offset, 8) <= ScratchTop + Hidden + Upto(p, "param")
              + Upto(p, "mem_param") + Upto(p, "literal") + Upto(p, "decl")

CountInv == \E p : Totals(p) /\ (Laid => Placed(p))

SlotInv ==
    /\ Laid => ScratchTop <= stack_offset
    /\ \A s \in slots :
          /\ s.lo \in Nat /\ s.hi \in Nat /\ s.lo <= s.hi
          /\ s.hi <= struct_ret_scratch_cursor \/ ScratchTop <= s.lo
          /\ s.hi <= stack_offset

IInv == TypeInv /\ CountInv /\ SlotInv /\ SlotsDisjoint

-----------------------------------------------------------------------------
(***************************************************************************)
(* Rounding up.                                                            *)
(***************************************************************************)

\* Rounding up reaches the number and stays within one alignment of it.
LEMMA RoundUpFacts ==
    ASSUME NEW n \in Nat, NEW a \in {1, 2, 4, 8, 16}
    PROVE  /\ RoundUp(n, a) \in Nat
           /\ n <= RoundUp(n, a)
           /\ RoundUp(n, a) <= n + a - 1
<1>1. CASE a = 1
  BY <1>1 DEF RoundUp
<1>2. CASE a = 2
  BY <1>2 DEF RoundUp
<1>3. CASE a = 4
  BY <1>3 DEF RoundUp
<1>4. CASE a = 8
  BY <1>4 DEF RoundUp
<1>5. CASE a = 16
  BY <1>5 DEF RoundUp
<1> QED
  BY <1>1, <1>2, <1>3, <1>4, <1>5

\* A multiple of 8 that is large enough is large enough after rounding.
LEMMA RoundUpLeast ==
    ASSUME NEW n \in Nat, NEW m \in Nat, n <= 8 * m, NEW a \in {1, 2, 4, 8}
    PROVE  RoundUp(n, a) <= 8 * m
<1>1. CASE a = 1
  BY <1>1 DEF RoundUp
<1>2. CASE a = 2
  BY <1>2 DEF RoundUp
<1>3. CASE a = 4
  BY <1>3 DEF RoundUp
<1>4. CASE a = 8
  BY <1>4 DEF RoundUp
<1> QED
  BY <1>1, <1>2, <1>3, <1>4

\* Rounding up to 8 gives a multiple of 8.
LEMMA RoundUpEight ==
    ASSUME NEW n \in Nat
    PROVE  \E k \in Nat : RoundUp(n, 8) = 8 * k
<1>1. (n + 8 - 1) \div 8 \in Nat
  OBVIOUS
<1>2. RoundUp(n, 8) = 8 * ((n + 8 - 1) \div 8)
  BY DEF RoundUp
<1> QED
  BY <1>1, <1>2

\* What codegen_add_var reserves: the slot lies above everything handed out,
\* and the padding is paid for by rounding offset and size up to 8.
LEMMA Reserve ==
    ASSUME NEW off \in Nat, NEW size \in Nat, NEW a \in {1, 2, 4, 8}
    PROVE  /\ RoundUp(off + size, a) \in Nat
           /\ off + size <= RoundUp(off + size, a)
           /\ RoundUp(off, 8) \in Nat /\ RoundUp(size, 8) \in Nat
           /\ RoundUp(RoundUp(off + size, a), 8) <= RoundUp(off, 8) + RoundUp(size, 8)
<1> DEFINE new == RoundUp(off + size, a)
<1>1. off + size \in Nat /\ a \in {1, 2, 4, 8, 16}
  OBVIOUS
<1>2. new \in Nat /\ off + size <= new
  BY <1>1, RoundUpFacts
<1>3. /\ RoundUp(off, 8) \in Nat /\ off <= RoundUp(off, 8)
      /\ RoundUp(size, 8) \in Nat /\ size <= RoundUp(size, 8)
  BY RoundUpFacts
<1>4. PICK j \in Nat : RoundUp(off, 8) = 8 * j
  BY RoundUpEight
<1>5. PICK k \in Nat : RoundUp(size, 8) = 8 * k
  BY RoundUpEight
<1>6. off + size <= 8 * (j + k) /\ j + k \in Nat
  BY <1>3, <1>4, <1>5
<1>7. new <= 8 * (j + k)
  BY <1>1, <1>6, RoundUpLeast
<1> HIDE DEF new
<1>8. RoundUp(new, 8) <= 8 * (j + k)
  BY <1>2, <1>6, <1>7, RoundUpLeast
<1>9. 8 * (j + k) = RoundUp(off, 8) + RoundUp(size, 8)
  BY <1>4, <1>5
<1> QED
  BY <1>2, <1>3, <1>8, <1>9 DEF new

-----------------------------------------------------------------------------
(***************************************************************************)
(* The types, and what is counted for them.                                *)
(***************************************************************************)

\* Every type has a size and an alignment.
LEMMA TypeFacts ==
    ASSUME NEW c \in Categories, NEW t \in TypesOf(c)
    PROVE  /\ t.size \in Nat \ {0}
           /\ t.align \in {1, 2, 4, 8}
           /\ t.shape \in Shapes
           /\ t.shape = "scalar" => t.align = t.size
           /\ c = "param" => t.shape \in {"scalar", "struct"}
           /\ c = "mem_param" => t.shape = "struct"
           /\ c = "literal" => t.shape # "static"
<1>1. CASE c = "param"
  BY <1>1, FrameAssumption DEF TypesOf, IsType
<1>2. CASE c = "mem_param"
  BY <1>2, FrameAssumption DEF TypesOf, IsType
<1>3. CASE c = "literal"
  BY <1>3, FrameAssumption DEF TypesOf, IsType
<1>4. CASE c = "decl"
  BY <1>4, FrameAssumption DEF TypesOf, IsType
<1>5. CASE c = "call"
  <2>1. PICK s \in CallSizes : t = [shape |-> "struct", size |-> s, align |-> 8]
    BY <1>5 DEF TypesOf
  <2> QED
    BY <1>5, <2>1, FrameAssumption DEF Shapes
<1> QED
  BY <1>1, <1>2, <1>3, <1>4, <1>5 DEF Categories

\* What is counted for a node is a number, for a call a multiple of 8.
LEMMA BytesFacts ==
    ASSUME NEW c \in Categories, NEW t \in TypesOf(c)
    PROVE  /\ Bytes(c, t) \in Nat
           /\ c = "call" => \E k \in Nat : Bytes(c, t) = 8 * k
<1>1. /\ t.size \in Nat /\ t.align \in {1, 2, 4, 8} /\ t.size # 0
      /\ RoundUp(t.size, 8) \in Nat
  BY TypeFacts, RoundUpFacts
<1>2. t.align - 1 \in Nat /\ t.size + (t.align - 1) \in Nat
  BY <1>1
<1>3. CASE c \in {"param", "mem_param"}
  BY <1>1, <1>3 DEF Bytes
<1>4. CASE c = "literal"
  BY <1>2, <1>4 DEF Bytes
<1>5. CASE c = "decl"
  <2>1. DeclBytes(t) \in Nat
    BY <1>1, <1>2 DEF DeclBytes
  <2> QED
    BY <1>5, <2>1 DEF Bytes
<1>6. CASE c = "call"
  <2>1. Bytes(c, t) = RoundUp(t.size, 8) + 8
    BY <1>6 DEF Bytes
  <2>2. PICK k \in Nat : RoundUp(t.size, 8) = 8 * k
    BY <1>1, RoundUpEight
  <2>3. Bytes(c, t) = 8 * (k + 1) /\ k + 1 \in Nat
    BY <2>1, <2>2
  <2>4. Bytes(c, t) \in Nat
    BY <1>1, <2>1
  <2> QED
    BY <2>3, <2>4
<1> QED
  BY <1>3, <1>4, <1>5, <1>6 DEF Categories

\* The walk counts at least the size of a slot, rounded up to 8.
LEMMA Enough ==
    ASSUME NEW c \in Categories, NEW t \in TypesOf(c),
           c \in {"decl", "literal"} /\ (t.shape = "struct" \/ c = "literal")
               => t.align = 8
    PROVE  t.shape # "static" => RoundUp(t.size, 8) <= Bytes(c, t)
<1>1. /\ t.size \in Nat /\ t.align \in {1, 2, 4, 8} /\ t.size # 0
      /\ t.shape \in Shapes
      /\ t.shape = "scalar" => t.align = t.size
      /\ c \in {"param", "mem_param"} => t.shape \in {"scalar", "struct"}
  BY TypeFacts
<1>2. RoundUp(t.size, 8) \in Nat /\ RoundUp(t.size, 8) <= t.size + 7
  <2>1. RoundUp(t.size, 8) \in Nat /\ RoundUp(t.size, 8) <= t.size + 8 - 1
    BY <1>1, RoundUpFacts
  <2> QED
    BY <1>1, <2>1
<1>3. t.shape = "scalar" => RoundUp(t.size, 8) <= 8
  <2>1. t.shape = "scalar" => t.size <= 8 * 1
    BY <1>1
  <2> QED
    BY <1>1, <2>1, RoundUpLeast
<1>4. CASE c \in {"param", "mem_param"}
  BY <1>1, <1>2, <1>3, <1>4 DEF Bytes
<1>5. CASE c = "literal"
  BY <1>1, <1>2, <1>5 DEF Bytes
<1>6. CASE c = "decl"
  BY <1>1, <1>2, <1>3, <1>6 DEF Bytes, DeclBytes, Shapes
<1>7. CASE c = "call"
  BY <1>2, <1>7 DEF Bytes
<1> QED
  BY <1>4, <1>5, <1>6, <1>7 DEF Categories

-----------------------------------------------------------------------------
(***************************************************************************)
(* The steps.                                                              *)
(***************************************************************************)

\* The initial state.
LEMMA InitInv ==
    ASSUME Init
    PROVE  IInv
<1>1. TypeInv
  <2>1. \A c \in Categories : nodes[c] = <<>> /\ bytes[c] = 0 /\ done[c] = 0
    BY DEF Init
  <2>2. "call" \in Categories /\ "param" \in Categories
    BY DEF Categories
  <2>3. bytes["call"] = 8 * 0 /\ 0 \in Nat
    BY <2>1, <2>2
  <2>4. ~Laid
    BY DEF Init, Laid
  <2>5. /\ nodes \in [Categories -> Seq(AnyType)] /\ bytes \in [Categories -> Nat]
        /\ done \in [Categories -> Nat]
    BY DEF Init
  <2>6. ASSUME NEW c \in Categories
        PROVE  nodes[c] \in Seq(TypesOf(c)) /\ done[c] <= Len(nodes[c])
    <3>1. nodes[c] = <<>> /\ done[c] = 0
      BY <2>1
    <3> QED
      BY <3>1
  <2> QED
    BY <2>1, <2>2, <2>3, <2>4, <2>5, <2>6 DEF Init, TypeInv
<1>2. CountInv
  <2> DEFINE p == [c \in Categories |-> [i \in Nat |-> 0]]
  <2>1. p \in [Categories -> [Nat -> Nat]]
    OBVIOUS
  <2>2. ASSUME NEW c \in Categories PROVE RunsTo(c, p[c])
    <3>1. p[c] = [i \in Nat |-> 0] /\ nodes[c] = <<>> /\ bytes[c] = 0
      BY DEF Init
    <3> QED
      BY <3>1 DEF RunsTo
  <2>3. ~Laid
    BY DEF Init, Laid
  <2> QED
    BY <2>1, <2>2, <2>3 DEF CountInv, Totals
<1>3. SlotInv /\ SlotsDisjoint
  BY DEF Init, SlotInv, SlotsDisjoint, Laid
<1> QED
  BY <1>1, <1>2, <1>3 DEF IInv

\* A walk meets one more node: the totals go on.
LEMMA WalkStep ==
    ASSUME IInv, NEW c \in Categories, NEW t \in TypesOf(c), Walk(c, t)
    PROVE  IInv'
<1>1. /\ phase = c /\ ~Laid /\ ~Laid'
      /\ nodes' = [nodes EXCEPT ![c] = Append(nodes[c], t)]
      /\ bytes' = [bytes EXCEPT ![c] = bytes[c] + Bytes(c, t)]
      /\ UNCHANGED <<phase, is_variadic, returns_memory_struct, stack_size,
                     stack_offset, struct_ret_scratch_cursor, done, slots>>
  BY DEF Walk, Laid, Categories
<1>2. /\ nodes \in [Categories -> Seq(AnyType)] /\ bytes \in [Categories -> Nat]
      /\ \A d \in Categories : nodes[d] \in Seq(TypesOf(d))
      /\ slots = {} /\ \A d \in Categories : done[d] = 0
  BY <1>1 DEF IInv, TypeInv
<1>3. Bytes(c, t) \in Nat /\ (c = "call" => \E k \in Nat : Bytes(c, t) = 8 * k)
  BY BytesFacts
<1>4. /\ nodes'[c] = Append(nodes[c], t) /\ bytes'[c] = bytes[c] + Bytes(c, t)
      /\ \A d \in Categories : d # c => nodes'[d] = nodes[d] /\ bytes'[d] = bytes[d]
  BY <1>1, <1>2
<1>5. TypeInv'
  <2>1. t \in AnyType
    BY DEF AnyType
  <2>2. nodes' \in [Categories -> Seq(AnyType)] /\ bytes' \in [Categories -> Nat]
    BY <1>1, <1>2, <1>3, <2>1
  <2>3. \A d \in Categories : nodes'[d] \in Seq(TypesOf(d))
    <3>1. ASSUME NEW s \in Seq(TypesOf(c)) PROVE Append(s, t) \in Seq(TypesOf(c))
      OBVIOUS
    <3> QED
      BY <1>2, <1>4, <3>1
  <2>4. \E k \in Nat : bytes'["call"] = 8 * k
    <3>1. PICK j \in Nat : bytes["call"] = 8 * j
      BY DEF IInv, TypeInv
    <3>2. CASE c = "call"
      <4>1. PICK k \in Nat : Bytes(c, t) = 8 * k
        BY <1>3, <3>2
      <4>2. bytes'["call"] = 8 * (j + k) /\ j + k \in Nat
        BY <1>4, <3>1, <3>2, <4>1
      <4> QED
        BY <4>2
    <3>3. CASE c # "call"
      BY <1>4, <3>1, <3>3 DEF Categories
    <3> QED
      BY <3>2, <3>3
  <2>5. \A d \in Categories : done'[d] = 0 /\ done'[d] <= Len(nodes'[d])
    BY <1>1, <1>2, <2>3
  <2> QED
    BY <1>1, <1>2, <2>2, <2>3, <2>4, <2>5 DEF IInv, TypeInv
<1>6. CountInv'
  <2>1. PICK p : Totals(p)
    BY DEF IInv, CountInv
  <2> DEFINE n == Len(nodes[c])
  <2>2. p \in [Categories -> [Nat -> Nat]] /\ n \in Nat /\ bytes[c] \in Nat
    <3>1. nodes[c] \in Seq(TypesOf(c))
      BY <1>2
    <3>2. n \in Nat
      BY <3>1, LenProperties
    <3>3. p \in [Categories -> [Nat -> Nat]]
      BY <2>1 DEF Totals
    <3>4. bytes[c] \in Nat
      BY <1>2
    <3> QED
      BY <3>2, <3>3, <3>4
  <2>3. PICK r : /\ r \in [Nat -> Nat]
                 /\ \A i \in 1..(n + 1) : r[i] = p[c][i]
                 /\ r[n + 2] = bytes[c] + Bytes(c, t)
    <3> DEFINE f == [i \in Nat |-> IF i <= n + 1 THEN p[c][i]
                                               ELSE bytes[c] + Bytes(c, t)]
    <3>1. f \in [Nat -> Nat]
      <4>1. p[c] \in [Nat -> Nat]
        BY <2>2
      <4>2. Bytes(c, t) \in Nat /\ bytes[c] \in Nat
        BY <1>3, <2>2
      <4>3. bytes[c] + Bytes(c, t) \in Nat
        BY <4>2
      <4>4. \A i \in Nat : p[c][i] \in Nat
        BY <4>1
      <4> QED
        BY <4>3, <4>4
    <3>2. (\A i \in 1..(n + 1) : f[i] = p[c][i]) /\ f[n + 2] = bytes[c] + Bytes(c, t)
      BY <2>2
    <3> QED
      BY <3>1, <3>2
  <2>4. PICK q : /\ q \in [Categories -> [Nat -> Nat]] /\ q[c] = r
                 /\ \A d \in Categories : d # c => q[d] = p[d]
    <3> DEFINE f == [p EXCEPT ![c] = r]
    <3>1. f \in [Categories -> [Nat -> Nat]] /\ f[c] = r
      BY <2>2, <2>3
    <3>2. \A d \in Categories : d # c => f[d] = p[d]
      BY <2>2
    <3> QED
      BY <3>1, <3>2
  <2>5. /\ Len(nodes'[c]) = n + 1 /\ nodes'[c][n + 1] = t
        /\ \A i \in 1..n : nodes'[c][i] = nodes[c][i]
    BY <1>2, <1>4
  <2>6. RunsTo(c, p[c])
    BY <2>1 DEF Totals
  <2> DEFINE pc == p[c]
  <2>7. /\ pc[1] = 0 /\ \A i \in 1..n : pc[i + 1] = pc[i] + Bytes(c, nodes[c][i])
        /\ pc[n + 1] = bytes[c] /\ \A i \in 1..(n + 1) : pc[i] <= bytes[c]
    BY <2>6 DEF RunsTo
  <2>8. pc \in [Nat -> Nat]
    BY <2>2
  <2>9. /\ \A i \in 1..(n + 1) : r[i] = pc[i]
        /\ r[n + 2] = bytes[c] + Bytes(c, t)
    BY <2>3
  <2> HIDE DEF n, pc
  <2>10. ASSUME NEW i \in 1..(n + 1)
         PROVE  r[i + 1] = r[i] + Bytes(c, nodes'[c][i])
    <3>1. CASE i \in 1..n
      <4>1. i + 1 \in 1..(n + 1)
        BY <2>2, <3>1
      <4> QED
        BY <2>5, <2>7, <2>9, <3>1, <4>1
    <3>2. CASE i = n + 1
      <4>1. i + 1 = n + 2
        BY <2>2, <3>2
      <4> QED
        BY <2>5, <2>7, <2>9, <3>2, <4>1
    <3> QED
      BY <2>2, <3>1, <3>2
  <2>11. ASSUME NEW i \in 1..(n + 2)
         PROVE  r[i] <= bytes[c] + Bytes(c, t)
    <3>1. CASE i \in 1..(n + 1)
      BY <1>3, <2>2, <2>7, <2>8, <2>9, <3>1
    <3>2. CASE i = n + 2
      BY <1>3, <2>2, <2>9, <3>2
    <3> QED
      BY <2>2, <3>1, <3>2
  <2>12. RunsTo(c, r)'
    <3>1. Len(nodes'[c]) + 1 = n + 2 /\ 1 \in 1..(n + 1)
      BY <2>2, <2>5
    <3> QED
      BY <1>4, <2>5, <2>7, <2>9, <2>10, <2>11, <3>1 DEF RunsTo
  <2>13. \A d \in Categories : RunsTo(d, q[d])'
    <3>1. ASSUME NEW d \in Categories, d # c PROVE RunsTo(d, p[d])'
      <4>1. RunsTo(d, p[d])
        BY <2>1 DEF Totals
      <4> QED
        BY <1>4, <3>1, <4>1 DEF RunsTo
    <3> QED
      BY <2>4, <2>12, <3>1
  <2> QED
    BY <1>1, <2>4, <2>13 DEF CountInv, Totals
<1>7. SlotInv' /\ SlotsDisjoint'
  BY <1>1, <1>2 DEF SlotInv, SlotsDisjoint
<1> QED
  BY <1>5, <1>6, <1>7 DEF IInv

\* A walk ends.
LEMMA WalkEndStep ==
    ASSUME IInv, WalkEnd
    PROVE  IInv'
<1>1. /\ phase \in Categories /\ ~Laid
      /\ UNCHANGED <<is_variadic, returns_memory_struct, nodes, bytes, stack_size,
                     stack_offset, struct_ret_scratch_cursor, done, slots>>
  BY DEF WalkEnd, Laid, Categories
<1>2. phase' \in Categories \cup {"prologue"} /\ ~Laid'
  BY DEF WalkEnd, After, Categories, Laid
<1>3. TypeInv'
  BY <1>1, <1>2 DEF IInv, TypeInv
<1>4. PICK p : Totals(p)
  BY DEF IInv, CountInv
<1>5. Totals(p)'
  BY <1>1, <1>4 DEF Totals, RunsTo
<1>6. CountInv'
  BY <1>2, <1>5 DEF CountInv
<1>7. SlotInv' /\ SlotsDisjoint'
  BY <1>1, <1>2 DEF IInv, TypeInv, SlotInv, SlotsDisjoint
<1> QED
  BY <1>3, <1>6, <1>7 DEF IInv

\* The frame is fixed.  Its first slots lie in order.
LEMMA PrologueStep ==
    ASSUME IInv, Prologue
    PROVE  IInv'
<1> DEFINE top == ScratchTop + Hidden
<1>1. /\ phase = "prologue" /\ ~Laid /\ phase' = "bind" /\ Laid'
      /\ UNCHANGED <<is_variadic, returns_memory_struct, nodes, bytes, done>>
  BY DEF Prologue, Laid
<1>2. /\ bytes \in [Categories -> Nat] /\ bytes["call"] \in Nat
      /\ \A c \in Categories : done[c] = 0
  BY <1>1 DEF IInv, TypeInv, Categories
<1>3. RoundUp(SavedRegs, 16) = 48
  BY DEF RoundUp, SavedRegs
<1>4. /\ SavedBytes \in Nat /\ SavedBytes >= 40 /\ ScratchTop \in Nat /\ Hidden \in Nat
      /\ SavedBytes <= ScratchTop
  BY <1>2 DEF SavedBytes, ScratchTop, Hidden
<1>5. (IF is_variadic THEN RoundUp(SavedRegs, 16) + RegSaveArea ELSE SavedRegs) = SavedBytes
  BY <1>3 DEF SavedBytes, RegSaveArea, SavedRegs
<1>6. /\ stack_size' = RoundUp(FrameBytes, 16)
      /\ struct_ret_scratch_cursor' = SavedBytes
      /\ stack_offset' = IF returns_memory_struct THEN ScratchTop + 8 ELSE ScratchTop
      /\ slots' = {Slot(SavedRegs, SavedRegs, "saved")}
            \cup (IF is_variadic THEN {Slot(SavedBytes, RegSaveArea, "varargs")} ELSE {})
            \cup (IF returns_memory_struct
                  THEN {Slot(stack_offset', 8, "sret")} ELSE {})
  BY <1>5 DEF Prologue, ScratchStart, ScratchEnd, ScratchTop
<1>7. stack_offset' = top /\ top \in Nat
  BY <1>4, <1>6 DEF Hidden
<1>8. FrameBytes \in Nat
  <2>1. /\ bytes["param"] \in Nat /\ bytes["mem_param"] \in Nat
        /\ bytes["decl"] \in Nat /\ bytes["literal"] \in Nat
    BY <1>2 DEF Categories
  <2> QED
    BY <1>2, <2>1 DEF FrameBytes, SavedRegs, RegSaveArea
<1>9. TypeInv'
  <2>1. stack_size' \in Nat
    BY <1>6, <1>8, RoundUpFacts
  <2>2. FrameBytes' = FrameBytes
    BY <1>1 DEF FrameBytes
  <2> QED
    BY <1>1, <1>4, <1>6, <1>7, <2>1, <2>2 DEF IInv, TypeInv
<1>10. CountInv'
  <2>1. PICK p : Totals(p)
    BY DEF IInv, CountInv
  <2>2. Totals(p)'
    BY <1>1, <2>1 DEF Totals, RunsTo
  <2>3. \A c \in Categories : Upto(p, c)' = 0
    <3> TAKE c \in Categories
    <3>1. done'[c] + 1 = 1
      BY <1>1, <1>2
    <3> QED
      BY <2>1, <3>1 DEF Upto, Totals, RunsTo
  <2>4. /\ Upto(p, "call")' = 0 /\ Upto(p, "param")' = 0 /\ Upto(p, "mem_param")' = 0
        /\ Upto(p, "literal")' = 0 /\ Upto(p, "decl")' = 0
    BY <2>3 DEF Categories
  <2>5. RoundUp(top, 8) <= top
    <3>1. PICK k \in Nat : bytes["call"] = 8 * k
      BY DEF IInv, TypeInv
    <3>2. PICK j \in Nat : SavedBytes + Hidden = 8 * j
      <4>1. \/ SavedBytes + Hidden = 8 * 28 \/ SavedBytes + Hidden = 8 * 29
            \/ SavedBytes + Hidden = 8 * 5 \/ SavedBytes + Hidden = 8 * 6
        BY DEF SavedBytes, Hidden
      <4> QED
        BY <4>1
    <3>3. top = 8 * (k + j) /\ k + j \in Nat
      BY <1>2, <1>4, <3>1, <3>2 DEF ScratchTop
    <3> HIDE DEF top
    <3> QED
      BY <1>7, <3>3, RoundUpLeast
  <2>6. SavedBytes' = SavedBytes /\ ScratchTop' = ScratchTop /\ Hidden' = Hidden
    BY <1>1 DEF SavedBytes, ScratchTop, Hidden
  <2>7. Placed(p)'
    <3>1. struct_ret_scratch_cursor' <= SavedBytes' + Upto(p, "call")'
      BY <1>4, <1>6, <2>4, <2>6
    <3>2. RoundUp(stack_offset', 8) <= ScratchTop' + Hidden' + Upto(p, "param")'
             + Upto(p, "mem_param")' + Upto(p, "literal")' + Upto(p, "decl")'
      BY <1>4, <1>7, <2>4, <2>5, <2>6
    <3> QED
      BY <3>1, <3>2 DEF Placed
  <2> QED
    BY <2>2, <2>7 DEF CountInv
<1>11. ASSUME NEW s \in slots'
       PROVE  \/ s.lo = 0 /\ s.hi = 40
              \/ SavedBytes = 224 /\ s.lo = 48 /\ s.hi = 224
              \/ s.lo = ScratchTop /\ s.hi = ScratchTop + 8 /\ stack_offset' = s.hi
  <2>1. CASE s = Slot(SavedRegs, SavedRegs, "saved")
    BY <2>1 DEF Slot, SavedRegs
  <2>2. CASE is_variadic /\ s = Slot(SavedBytes, RegSaveArea, "varargs")
    BY <2>2 DEF Slot, SavedBytes, RegSaveArea
  <2>3. CASE returns_memory_struct /\ s = Slot(stack_offset', 8, "sret")
    <3>1. stack_offset' = ScratchTop + 8
      BY <1>6, <2>3
    <3> QED
      BY <1>4, <2>3, <3>1 DEF Slot
  <2> QED
    BY <1>6, <1>11, <2>1, <2>2, <2>3
<1>12. SlotInv'
  <2>1. ScratchTop' = ScratchTop /\ ScratchTop <= stack_offset' /\ 40 <= stack_offset'
    BY <1>1, <1>4, <1>7 DEF ScratchTop, SavedBytes
  <2>2. SavedBytes <= stack_offset' /\ stack_offset' \in Nat
    BY <1>4, <1>7
  <2>3. ASSUME NEW s \in slots'
        PROVE  /\ s.lo \in Nat /\ s.hi \in Nat /\ s.lo <= s.hi
               /\ s.hi <= struct_ret_scratch_cursor' \/ ScratchTop' <= s.lo
               /\ s.hi <= stack_offset'
    <3>1. CASE s.lo = 0 /\ s.hi = 40
      BY <1>4, <1>6, <2>1, <3>1
    <3>2. CASE SavedBytes = 224 /\ s.lo = 48 /\ s.hi = 224
      BY <1>6, <2>2, <3>2
    <3>3. CASE s.lo = ScratchTop /\ s.hi = ScratchTop + 8 /\ stack_offset' = s.hi
      BY <1>4, <2>1, <3>3
    <3> QED
      BY <1>11, <3>1, <3>2, <3>3
  <2> QED
    BY <2>1, <2>3 DEF SlotInv
<1>13. SlotsDisjoint'
  <2> SUFFICES ASSUME NEW s \in slots', NEW t \in slots', s # t
               PROVE  s.hi <= t.lo \/ t.hi <= s.lo
    BY DEF SlotsDisjoint
  <2>1. \A u \in slots' : \/ u = Slot(SavedRegs, SavedRegs, "saved")
                          \/ is_variadic /\ u = Slot(SavedBytes, RegSaveArea, "varargs")
                          \/ returns_memory_struct /\ u = Slot(stack_offset', 8, "sret")
    BY <1>6
  <2>2. /\ Slot(SavedRegs, SavedRegs, "saved").lo = 0
        /\ Slot(SavedRegs, SavedRegs, "saved").hi = 40
    BY DEF Slot, SavedRegs
  <2>3. is_variadic => /\ Slot(SavedBytes, RegSaveArea, "varargs").lo = 48
                       /\ Slot(SavedBytes, RegSaveArea, "varargs").hi = 224
                       /\ 224 <= ScratchTop
    BY <1>2 DEF Slot, SavedBytes, RegSaveArea, ScratchTop
  <2>4. returns_memory_struct => Slot(stack_offset', 8, "sret").lo = ScratchTop
    <3>1. returns_memory_struct => stack_offset' = ScratchTop + 8
      BY <1>6
    <3> QED
      BY <1>4, <3>1 DEF Slot
  <2>5. 40 <= ScratchTop
    BY <1>4
  <2> HIDE DEF top
  <2> QED
    BY <1>4, <2>1, <2>2, <2>3, <2>4, <2>5
<1> QED
  BY <1>9, <1>10, <1>12, <1>13 DEF IInv

\* The bounds of the regions are numbers.
LEMMA RegionTypes ==
    ASSUME IInv
    PROVE  /\ stack_offset \in Nat /\ struct_ret_scratch_cursor \in Nat
           /\ bytes["call"] \in Nat
           /\ SavedBytes \in Nat /\ ScratchTop \in Nat /\ Hidden \in Nat
<1>1. bytes \in [Categories -> Nat] /\ "call" \in Categories
  BY DEF IInv, TypeInv, Categories
<1>2. bytes["call"] \in Nat
  BY <1>1
<1>3. SavedBytes \in Nat /\ Hidden \in Nat
  BY DEF SavedBytes, Hidden
<1>4. ScratchTop \in Nat
  BY <1>2, <1>3 DEF ScratchTop
<1> QED
  BY <1>2, <1>3, <1>4 DEF IInv, TypeInv

\* A node gets its slot: the totals tell what was counted for it.
LEMMA Advance ==
    ASSUME IInv, NEW c \in Categories, Pending(c), Complete(c), NEW p, Totals(p),
           UNCHANGED <<is_variadic, returns_memory_struct, nodes, bytes>>
    PROVE  /\ Totals(p)'
           /\ NextNode(c) \in TypesOf(c)
           /\ Upto(p, c)' = Upto(p, c) + Bytes(c, NextNode(c))
           /\ \A d \in Categories : d # c => Upto(p, d)' = Upto(p, d)
           /\ \A d \in Categories : /\ Upto(p, d) \in Nat /\ Upto(p, d)' \in Nat
                                    /\ Upto(p, d)' <= bytes[d]
           /\ done' \in [Categories -> Nat]
           /\ \A d \in Categories : done'[d] <= Len(nodes[d])
<1>1. /\ done \in [Categories -> Nat] /\ done[c] < Len(nodes[c])
      /\ \A d \in Categories : done[d] <= Len(nodes[d])
      /\ \A d \in Categories : nodes[d] \in Seq(TypesOf(d))
      /\ p \in [Categories -> [Nat -> Nat]]
  BY DEF IInv, TypeInv, Pending, Totals
<1>2. \A d \in Categories : Len(nodes[d]) \in Nat /\ done[d] \in Nat
  BY <1>1, LenProperties
<1>3. /\ done' = [done EXCEPT ![c] = done[c] + 1]
      /\ done'[c] = done[c] + 1
      /\ \A d \in Categories : d # c => done'[d] = done[d]
  BY <1>1 DEF Complete
<1>4. done' \in [Categories -> Nat]
  BY <1>1, <1>2, <1>3
<1>5. ASSUME NEW d \in Categories PROVE done'[d] <= Len(nodes[d])
  <2>1. Len(nodes[d]) \in Nat /\ done[d] \in Nat /\ done[d] <= Len(nodes[d])
    BY <1>1, <1>2
  <2>2. CASE d = c
    <3>1. done[d] < Len(nodes[d]) /\ done'[d] = done[d] + 1
      BY <1>1, <1>3, <2>2
    <3> QED
      BY <2>1, <3>1
  <2>3. CASE d # c
    BY <1>3, <2>1, <2>3
  <2> QED
    BY <2>2, <2>3
<1>6. Totals(p)'
  BY DEF Totals, RunsTo
<1>7. done[c] + 1 \in 1..Len(nodes[c])
  <2>1. Len(nodes[c]) \in Nat /\ done[c] \in Nat
    BY <1>2
  <2>2. done[c] < Len(nodes[c])
    BY <1>1
  <2> QED
    BY <2>1, <2>2
<1>8. NextNode(c) \in TypesOf(c)
  <2>1. nodes[c] \in Seq(TypesOf(c))
    BY <1>1
  <2> QED
    BY <1>7, <2>1, ElementOfSeq DEF NextNode
<1>9. Upto(p, c)' = Upto(p, c) + Bytes(c, NextNode(c))
  <2>1. Upto(p, c)' = p[c][(done[c] + 1) + 1]
    BY <1>3 DEF Upto
  <2>2. RunsTo(c, p[c])
    BY DEF Totals
  <2> QED
    BY <1>7, <2>1, <2>2 DEF RunsTo, Upto, NextNode
<1>10. ASSUME NEW d \in Categories
       PROVE  /\ Upto(p, d) \in Nat /\ Upto(p, d)' \in Nat /\ Upto(p, d)' <= bytes[d]
  <2>1. p[d] \in [Nat -> Nat]
    BY <1>1
  <2>2. done[d] + 1 \in Nat /\ done'[d] \in Nat
    BY <1>2, <1>4
  <2>3. done'[d] + 1 \in 1..(Len(nodes[d]) + 1) /\ done'[d] + 1 \in Nat
    BY <1>2, <1>5, <2>2
  <2>4. RunsTo(d, p[d])
    BY DEF Totals
  <2>5. p[d][done'[d] + 1] <= bytes[d]
    BY <2>3, <2>4 DEF RunsTo
  <2> QED
    BY <2>1, <2>2, <2>3, <2>5 DEF Upto
<1>11. \A d \in Categories : d # c => Upto(p, d)' = Upto(p, d)
  BY <1>3 DEF Upto
<1> QED
  BY <1>4, <1>5, <1>6, <1>8, <1>9, <1>10, <1>11

\* What codegen_add_var does to the slots.
LEMMA AddVar ==
    ASSUME IInv, Laid, Laid', NEW size \in Nat, NEW a \in {1, 2, 4, 8}, NEW what,
           codegen_add_var(size, a, what),
           UNCHANGED <<is_variadic, bytes, struct_ret_scratch_cursor>>
    PROVE  /\ stack_offset' \in Nat
           /\ RoundUp(stack_offset, 8) \in Nat /\ RoundUp(stack_offset', 8) \in Nat
           /\ RoundUp(stack_offset', 8) <= RoundUp(stack_offset, 8) + RoundUp(size, 8)
           /\ SlotInv' /\ SlotsDisjoint'
<1> DEFINE new == stack_offset'
           s0 == Slot(stack_offset', size, what)
<1>1. stack_offset \in Nat /\ bytes["call"] \in Nat /\ ScratchTop \in Nat
  BY RegionTypes
<1>2. new = RoundUp(stack_offset + size, a) /\ slots' = slots \cup {s0}
  BY DEF codegen_add_var
<1>3. /\ new \in Nat /\ stack_offset + size <= new
      /\ RoundUp(stack_offset, 8) \in Nat /\ RoundUp(size, 8) \in Nat
      /\ RoundUp(new, 8) <= RoundUp(stack_offset, 8) + RoundUp(size, 8)
  BY <1>1, <1>2, Reserve
<1>4. RoundUp(new, 8) \in Nat
  BY <1>3, RoundUpFacts
<1>5. s0.hi = new /\ s0.lo = new - size
  BY DEF Slot
<1> HIDE DEF s0, new
<1>6. s0.lo \in Nat /\ s0.lo <= s0.hi /\ stack_offset <= s0.lo /\ stack_offset <= new
  BY <1>1, <1>3, <1>5
<1>7. ScratchTop' = ScratchTop /\ ScratchTop <= stack_offset
  BY DEF ScratchTop, SavedBytes, IInv, SlotInv
<1>8. \A s \in slots : /\ s.lo \in Nat /\ s.hi \in Nat /\ s.lo <= s.hi
                       /\ s.hi <= struct_ret_scratch_cursor \/ ScratchTop <= s.lo
                       /\ s.hi <= stack_offset
  BY DEF IInv, SlotInv
<1>9. SlotInv'
  <2>1. \A s \in slots : s.hi <= new
    BY <1>1, <1>3, <1>6, <1>8
  <2>2. ScratchTop <= new /\ ScratchTop <= s0.lo
    BY <1>1, <1>3, <1>6, <1>7
  <2>3. s0.hi \in Nat /\ s0.hi <= new
    BY <1>3, <1>5
  <2> QED
    BY <1>2, <1>6, <1>7, <1>8, <2>1, <2>2, <2>3 DEF SlotInv, new
<1>10. SlotsDisjoint'
  <2>1. \A s \in slots : s.hi <= s0.lo
    BY <1>1, <1>6, <1>8
  <2> QED
    BY <1>2, <2>1 DEF IInv, SlotsDisjoint
<1> QED
  BY <1>3, <1>4, <1>9, <1>10 DEF new

\* The invariant after a variable of category c has its slot.
LEMMA PlaceVar ==
    ASSUME IInv, Laid, UNCHANGED phase,
           NEW c \in {"param", "mem_param", "literal", "decl"},
           Pending(c), Complete(c),
           stack_offset' \in Nat,
           AllAligned => RoundUp(stack_offset', 8)
                            <= RoundUp(stack_offset, 8) + Bytes(c, NextNode(c)),
           RoundUp(stack_offset, 8) \in Nat, RoundUp(stack_offset', 8) \in Nat,
           SlotInv', SlotsDisjoint',
           UNCHANGED <<is_variadic, returns_memory_struct, nodes, bytes,
                       stack_size, struct_ret_scratch_cursor>>
    PROVE  IInv'
<1>1. PICK p : Totals(p) /\ Placed(p)
  BY DEF IInv, CountInv
<1>2. c \in Categories /\ c # "call"
  BY DEF Categories
<1>3. /\ Totals(p)'
      /\ NextNode(c) \in TypesOf(c)
      /\ Upto(p, c)' = Upto(p, c) + Bytes(c, NextNode(c))
      /\ \A d \in Categories : d # c => Upto(p, d)' = Upto(p, d)
      /\ \A d \in Categories : /\ Upto(p, d) \in Nat /\ Upto(p, d)' \in Nat
                               /\ Upto(p, d)' <= bytes[d]
      /\ done' \in [Categories -> Nat]
      /\ \A d \in Categories : done'[d] <= Len(nodes[d])
  BY <1>1, <1>2, Advance
<1>4. Bytes(c, NextNode(c)) \in Nat
  BY <1>2, <1>3, BytesFacts
<1>5. Laid' /\ FrameBytes' = FrameBytes /\ AllAligned' = AllAligned
  BY DEF Laid, FrameBytes, AllAligned, WellCounted
<1>6. SavedBytes' = SavedBytes /\ ScratchTop' = ScratchTop /\ Hidden' = Hidden
  BY DEF SavedBytes, ScratchTop, Hidden
<1>7. TypeInv'
  BY <1>3, <1>5 DEF IInv, TypeInv
<1>8. Placed(p)'
  <2>1. struct_ret_scratch_cursor' <= SavedBytes' + Upto(p, "call")'
    BY <1>1, <1>2, <1>3, <1>6 DEF Placed, Categories
  <2>2. ASSUME AllAligned
        PROVE RoundUp(stack_offset', 8) <= ScratchTop' + Hidden' + Upto(p, "param")'
             + Upto(p, "mem_param")' + Upto(p, "literal")' + Upto(p, "decl")'
    <3> DEFINE b == ScratchTop + Hidden
               n == Bytes(c, NextNode(c))
               r == RoundUp(stack_offset, 8)
               r1 == RoundUp(stack_offset', 8)
               w == Upto(p, "param")
               x == Upto(p, "mem_param")
               y == Upto(p, "literal")
               z == Upto(p, "decl")
               w1 == Upto(p, "param")'
               x1 == Upto(p, "mem_param")'
               y1 == Upto(p, "literal")'
               z1 == Upto(p, "decl")'
    <3>1. b \in Nat /\ n \in Nat /\ r \in Nat /\ r1 \in Nat
      BY <1>4, RegionTypes
    <3>2. w \in Nat /\ x \in Nat /\ y \in Nat /\ z \in Nat
      BY <1>3 DEF Categories
    <3>3. r <= b + w + x + y + z /\ r1 <= r + n
      BY <1>1, <2>2 DEF Placed
    <3>4. \/ w1 = w + n /\ x1 = x /\ y1 = y /\ z1 = z
          \/ w1 = w /\ x1 = x + n /\ y1 = y /\ z1 = z
          \/ w1 = w /\ x1 = x /\ y1 = y + n /\ z1 = z
          \/ w1 = w /\ x1 = x /\ y1 = y /\ z1 = z + n
      BY <1>3 DEF Categories
    <3>5. ScratchTop' + Hidden' = b
      BY <1>6
    <3> HIDE DEF b, n, r, r1, w, x, y, z, w1, x1, y1, z1
    <3>6. r1 <= b + w1 + x1 + y1 + z1
      BY <3>1, <3>2, <3>3, <3>4
    <3> QED
      BY <3>5, <3>6 DEF r1, w1, x1, y1, z1
  <2> QED
    BY <1>5, <2>1, <2>2 DEF Placed
<1>9. CountInv'
  BY <1>3, <1>8 DEF CountInv
<1> QED
  BY <1>7, <1>9 DEF IInv

\* A parameter is bound.
LEMMA BindStep ==
    ASSUME IInv, BindParam
    PROVE  IInv'
<1>1. PICK c \in {"param", "mem_param"} :
        /\ phase = "bind" /\ Pending(c)
        /\ IF NextNode(c).shape = "struct"
           THEN codegen_add_var(RoundUp(NextNode(c).size, 8), 8, "param")
           ELSE codegen_add_var(NextNode(c).size, NextNode(c).align, "param")
        /\ Complete(c)
        /\ UNCHANGED <<phase, is_variadic, returns_memory_struct, nodes, bytes,
                       stack_size, struct_ret_scratch_cursor>>
  BY DEF BindParam
<1> DEFINE t == NextNode(c)
<1>2. c \in Categories /\ Laid /\ Laid' /\ c \in {"param", "mem_param", "literal", "decl"}
  BY <1>1 DEF Categories, Laid
<1>3. t \in TypesOf(c)
  <2>1. PICK p : Totals(p)
    BY DEF IInv, CountInv
  <2> QED
    BY <1>1, <1>2, <2>1, Advance
<1>4. /\ t.size \in Nat /\ t.align \in {1, 2, 4, 8}
      /\ RoundUp(t.size, 8) \in Nat
  BY <1>2, <1>3, TypeFacts, RoundUpFacts
<1> HIDE DEF t
<1>5. t.shape # "static" /\ RoundUp(t.size, 8) <= Bytes(c, t) /\ Bytes(c, t) \in Nat
  BY <1>1, <1>2, <1>3, TypeFacts, Enough, BytesFacts
<1>6. /\ stack_offset' \in Nat
      /\ RoundUp(stack_offset, 8) \in Nat /\ RoundUp(stack_offset', 8) \in Nat
      /\ RoundUp(stack_offset', 8) <= RoundUp(stack_offset, 8) + RoundUp(t.size, 8)
      /\ SlotInv' /\ SlotsDisjoint'
  <2>1. CASE t.shape = "struct"
    <3> DEFINE size == RoundUp(t.size, 8)
    <3>1. size \in Nat /\ codegen_add_var(size, 8, "param")
      BY <1>1, <1>4, <2>1 DEF t
    <3>2. RoundUp(size, 8) <= size
      <4>1. PICK k \in Nat : size = 8 * k
        BY <1>4, RoundUpEight
      <4> HIDE DEF size
      <4> QED
        BY <3>1, <4>1, RoundUpLeast
    <3> HIDE DEF size
    <3>3. RoundUp(size, 8) \in Nat
      BY <3>1, RoundUpFacts
    <3>4. /\ stack_offset' \in Nat
          /\ RoundUp(stack_offset, 8) \in Nat /\ RoundUp(stack_offset', 8) \in Nat
          /\ RoundUp(stack_offset', 8) <= RoundUp(stack_offset, 8) + RoundUp(size, 8)
          /\ SlotInv' /\ SlotsDisjoint'
      BY <1>1, <1>2, <3>1, AddVar
    <3>5. RoundUp(stack_offset', 8) <= RoundUp(stack_offset, 8) + size
      BY <3>1, <3>2, <3>3, <3>4
    <3> QED
      BY <3>4, <3>5 DEF size
  <2>2. CASE t.shape # "struct"
    <3>1. codegen_add_var(t.size, t.align, "param")
      BY <1>1, <2>2 DEF t
    <3> QED
      BY <1>1, <1>2, <1>4, <3>1, AddVar
  <2> QED
    BY <2>1, <2>2
<1>7. RoundUp(stack_offset', 8) <= RoundUp(stack_offset, 8) + Bytes(c, t)
  BY <1>4, <1>5, <1>6
<1> QED
  BY <1>1, <1>2, <1>6, <1>7, PlaceVar DEF t

\* What an aligned node needs, in terms of the offset it starts from.
LEMMA AlignedRoom ==
    ASSUME IInv, Laid, Laid', NEW c \in {"literal", "decl"}, Pending(c), Complete(c),
           NEW what,
           NextNode(c).shape # "static",
           codegen_add_var(NextNode(c).size, NextNode(c).align, what),
           UNCHANGED <<is_variadic, returns_memory_struct, nodes, bytes,
                       struct_ret_scratch_cursor>>
    PROVE  /\ stack_offset' \in Nat
           /\ AllAligned => RoundUp(stack_offset', 8)
                                <= RoundUp(stack_offset, 8) + Bytes(c, NextNode(c))
           /\ RoundUp(stack_offset, 8) \in Nat /\ RoundUp(stack_offset', 8) \in Nat
           /\ SlotInv' /\ SlotsDisjoint'
<1> DEFINE t == NextNode(c)
<1>1. c \in Categories
  BY DEF Categories
<1>2. t \in TypesOf(c)
  <2>1. PICK p : Totals(p)
    BY DEF IInv, CountInv
  <2> QED
    BY <1>1, <2>1, Advance
<1>3. t.size \in Nat /\ t.align \in {1, 2, 4, 8} /\ RoundUp(t.size, 8) \in Nat
  BY <1>1, <1>2, TypeFacts, RoundUpFacts
<1>4. AllAligned => (t.shape = "struct" \/ c = "literal" => t.align = 8)
  <2>1. nodes[c] \in Seq(TypesOf(c)) /\ done[c] \in Nat /\ done[c] < Len(nodes[c])
    BY <1>1 DEF IInv, TypeInv, Pending
  <2>2. done[c] + 1 \in DOMAIN nodes[c]
    BY <2>1
  <2> QED
    BY <2>2 DEF AllAligned, WellCounted, NextNode
<1> HIDE DEF t
<1>5. AllAligned => RoundUp(t.size, 8) <= Bytes(c, t)
  BY <1>1, <1>2, <1>4, Enough DEF t
<1>6. Bytes(c, t) \in Nat
  BY <1>1, <1>2, BytesFacts
<1>7. /\ stack_offset' \in Nat
      /\ RoundUp(stack_offset, 8) \in Nat /\ RoundUp(stack_offset', 8) \in Nat
      /\ RoundUp(stack_offset', 8) <= RoundUp(stack_offset, 8) + RoundUp(t.size, 8)
      /\ SlotInv' /\ SlotsDisjoint'
  BY <1>3, AddVar DEF t
<1>8. AllAligned => RoundUp(stack_offset', 8) <= RoundUp(stack_offset, 8) + Bytes(c, t)
  BY <1>3, <1>5, <1>6, <1>7
<1> QED
  BY <1>7, <1>8 DEF t

\* A compound literal gets its slot.
LEMMA LiteralStep ==
    ASSUME IInv, ScanLiteral
    PROVE  IInv'
<1>1. /\ Laid /\ Laid' /\ UNCHANGED phase /\ Pending("literal") /\ Complete("literal")
      /\ codegen_add_var(NextNode("literal").size, NextNode("literal").align, "literal")
      /\ UNCHANGED <<is_variadic, returns_memory_struct, nodes, bytes,
                     stack_size, struct_ret_scratch_cursor>>
  BY DEF ScanLiteral, Laid
<1>2. NextNode("literal").shape # "static"
  <2>1. PICK p : Totals(p)
    BY DEF IInv, CountInv
  <2>2. NextNode("literal") \in TypesOf("literal")
    BY <1>1, <2>1, Advance DEF Categories
  <2> QED
    BY <2>2, TypeFacts DEF Categories
<1>3. /\ stack_offset' \in Nat
      /\ AllAligned => RoundUp(stack_offset', 8)
              <= RoundUp(stack_offset, 8) + Bytes("literal", NextNode("literal"))
      /\ RoundUp(stack_offset, 8) \in Nat /\ RoundUp(stack_offset', 8) \in Nat
      /\ SlotInv' /\ SlotsDisjoint'
  BY <1>1, <1>2, AlignedRoom
<1> QED
  BY <1>1, <1>3, PlaceVar

\* A local declaration, static or not.
LEMMA DeclareStep ==
    ASSUME IInv, Declare
    PROVE  IInv'
<1>1. /\ Laid /\ Laid' /\ UNCHANGED phase /\ Pending("decl") /\ Complete("decl")
      /\ UNCHANGED <<is_variadic, returns_memory_struct, nodes, bytes,
                     stack_size, struct_ret_scratch_cursor>>
      /\ IF NextNode("decl").shape = "static"
         THEN UNCHANGED <<stack_offset, slots>>
         ELSE codegen_add_var(NextNode("decl").size, NextNode("decl").align, "local")
  BY DEF Declare, Laid
<1>2. CASE NextNode("decl").shape = "static"
  <2>1. stack_offset' = stack_offset /\ slots' = slots /\ stack_offset \in Nat
    BY <1>1, <1>2, RegionTypes
  <2>2. RoundUp(stack_offset, 8) \in Nat
    BY <2>1, RoundUpFacts
  <2>3. SlotInv' /\ SlotsDisjoint'
    BY <1>1, <2>1 DEF IInv, SlotInv, SlotsDisjoint, ScratchTop, SavedBytes
  <2>4. Bytes("decl", NextNode("decl")) \in Nat
    <3>1. PICK p : Totals(p)
      BY DEF IInv, CountInv
    <3>2. NextNode("decl") \in TypesOf("decl")
      BY <1>1, <3>1, Advance DEF Categories
    <3> QED
      BY <3>2, BytesFacts DEF Categories
  <2>5. RoundUp(stack_offset', 8)
            <= RoundUp(stack_offset, 8) + Bytes("decl", NextNode("decl"))
    BY <2>1, <2>2, <2>4
  <2> QED
    BY <1>1, <2>1, <2>2, <2>3, <2>5, PlaceVar
<1>3. CASE NextNode("decl").shape # "static"
  <2>1. /\ stack_offset' \in Nat
        /\ AllAligned => RoundUp(stack_offset', 8)
                <= RoundUp(stack_offset, 8) + Bytes("decl", NextNode("decl"))
        /\ RoundUp(stack_offset, 8) \in Nat /\ RoundUp(stack_offset', 8) \in Nat
        /\ SlotInv' /\ SlotsDisjoint'
    BY <1>1, <1>3, AlignedRoom
  <2> QED
    BY <1>1, <2>1, PlaceVar
<1> QED
  BY <1>2, <1>3

\* The body begins.
LEMMA BodyStartStep ==
    ASSUME IInv, BodyStart
    PROVE  IInv'
<1>1. /\ Laid /\ Laid' /\ phase' = "body"
      /\ UNCHANGED <<is_variadic, returns_memory_struct, nodes, bytes, stack_size,
                     stack_offset, struct_ret_scratch_cursor, done, slots>>
  BY DEF BodyStart, Laid
<1>2. TypeInv'
  BY <1>1 DEF IInv, TypeInv, FrameBytes
<1>3. PICK p : Totals(p) /\ Placed(p)
  BY <1>1 DEF IInv, CountInv
<1>4. Totals(p)' /\ Placed(p)'
  BY <1>1, <1>3 DEF Totals, RunsTo, Placed, AllAligned, WellCounted, Upto,
                    ScratchTop, SavedBytes, Hidden
<1>5. CountInv'
  BY <1>4 DEF CountInv
<1>6. SlotInv' /\ SlotsDisjoint'
  BY <1>1 DEF IInv, SlotInv, SlotsDisjoint, ScratchTop, SavedBytes
<1> QED
  BY <1>2, <1>5, <1>6 DEF IInv

\* A call takes its temporary: it lies within the scratch region because the
\* walk counted at least its size for every call.
LEMMA ClaimStep ==
    ASSUME IInv, claim_struct_ret_temp
    PROVE  IInv'
<1> DEFINE size == RoundUp(NextNode("call").size, 8)
           cur == struct_ret_scratch_cursor
           s0 == Slot(struct_ret_scratch_cursor', size, "temp")
<1>1. /\ Laid /\ Laid' /\ phase' = phase /\ Pending("call") /\ Complete("call")
      /\ UNCHANGED <<is_variadic, returns_memory_struct, nodes, bytes, stack_size,
                     stack_offset>>
      /\ struct_ret_scratch_cursor' = cur + size
      /\ slots' = slots \cup {s0}
  BY DEF claim_struct_ret_temp, Laid
<1>2. PICK p : Totals(p) /\ Placed(p)
  BY <1>1 DEF IInv, CountInv
<1>3. /\ Totals(p)'
      /\ NextNode("call") \in TypesOf("call")
      /\ Upto(p, "call")' = Upto(p, "call") + Bytes("call", NextNode("call"))
      /\ \A d \in Categories : d # "call" => Upto(p, d)' = Upto(p, d)
      /\ \A d \in Categories : /\ Upto(p, d) \in Nat /\ Upto(p, d)' \in Nat
                               /\ Upto(p, d)' <= bytes[d]
      /\ done' \in [Categories -> Nat]
      /\ \A d \in Categories : done'[d] <= Len(nodes[d])
  BY <1>1, <1>2, Advance DEF Categories
<1>4. /\ stack_offset \in Nat /\ cur \in Nat /\ bytes["call"] \in Nat
      /\ SavedBytes \in Nat /\ ScratchTop \in Nat
  BY RegionTypes
<1>5. NextNode("call").size \in Nat
  BY <1>3, TypeFacts DEF Categories
<1>6. size \in Nat /\ Bytes("call", NextNode("call")) = size + 8
  BY <1>5, RoundUpFacts DEF Bytes
<1> HIDE DEF size
<1>7. /\ s0.hi = cur + size /\ s0.lo = cur
      /\ struct_ret_scratch_cursor' = cur + size /\ cur + size \in Nat
  BY <1>1, <1>4, <1>6 DEF Slot
<1>8. cur + size <= SavedBytes + Upto(p, "call")'
  <2>1. cur <= SavedBytes + Upto(p, "call") /\ Upto(p, "call") \in Nat
    BY <1>2, <1>3 DEF Placed, Categories
  <2>2. Upto(p, "call")' = Upto(p, "call") + (size + 8)
    BY <1>3, <1>6
  <2> QED
    BY <1>4, <1>6, <2>1, <2>2
<1>9. cur + size <= ScratchTop
  <2>1. Upto(p, "call")' <= bytes["call"] /\ Upto(p, "call")' \in Nat
    BY <1>3 DEF Categories
  <2> QED
    BY <1>4, <1>6, <1>8, <2>1 DEF ScratchTop
<1>10. ScratchTop <= stack_offset
  BY <1>1 DEF IInv, SlotInv
<1>11. SavedBytes' = SavedBytes /\ ScratchTop' = ScratchTop /\ Hidden' = Hidden
       /\ AllAligned' = AllAligned /\ FrameBytes' = FrameBytes
  BY <1>1 DEF SavedBytes, ScratchTop, Hidden, AllAligned, WellCounted, FrameBytes
<1> HIDE DEF s0, cur
<1>12. TypeInv'
  BY <1>1, <1>3, <1>7, <1>11 DEF IInv, TypeInv
<1>13. CountInv'
  <2>1. /\ Upto(p, "param")' = Upto(p, "param")
        /\ Upto(p, "mem_param")' = Upto(p, "mem_param")
        /\ Upto(p, "literal")' = Upto(p, "literal")
        /\ Upto(p, "decl")' = Upto(p, "decl")
    BY <1>3 DEF Categories
  <2>2. Placed(p)'
    BY <1>1, <1>2, <1>7, <1>8, <1>11, <2>1 DEF Placed
  <2> QED
    BY <1>3, <2>2 DEF CountInv
<1>14. \A s \in slots : /\ s.lo \in Nat /\ s.hi \in Nat /\ s.lo <= s.hi
                        /\ s.hi <= cur \/ ScratchTop <= s.lo
                        /\ s.hi <= stack_offset
  BY DEF IInv, SlotInv, cur
<1>15. SlotInv'
  <2>1. \A s \in slots : s.hi <= cur + size \/ ScratchTop <= s.lo
    BY <1>4, <1>6, <1>14
  <2>2. /\ s0.lo \in Nat /\ s0.hi \in Nat /\ s0.lo <= s0.hi
        /\ s0.hi <= cur + size /\ s0.hi <= stack_offset
    BY <1>4, <1>6, <1>7, <1>9, <1>10
  <2> QED
    BY <1>1, <1>7, <1>10, <1>11, <1>14, <2>1, <2>2 DEF SlotInv
<1>16. SlotsDisjoint'
  <2>1. \A s \in slots : s.hi <= s0.lo \/ s0.hi <= s.lo
    BY <1>4, <1>6, <1>7, <1>9, <1>14
  <2> QED
    BY <1>1, <2>1 DEF IInv, SlotsDisjoint
<1> QED
  BY <1>12, <1>13, <1>15, <1>16 DEF IInv

\* IInv is an invariant of the frame layout.
LEMMA Inductive == Spec => []IInv
<1>1. Init => IInv
  BY InitInv
<1>2. IInv /\ [Next]_vars => IInv'
  <2> SUFFICES ASSUME IInv, [Next]_vars PROVE IInv'
    OBVIOUS
  <2>1. CASE UNCHANGED vars
    <3>1. UNCHANGED <<phase, is_variadic, returns_memory_struct, nodes, bytes,
                      stack_size, stack_offset, struct_ret_scratch_cursor, done, slots>>
      BY <2>1 DEF vars
    <3>2. TypeInv'
      BY <3>1 DEF IInv, TypeInv, Laid, FrameBytes
    <3>3. PICK p : Totals(p) /\ (Laid => Placed(p))
      BY DEF IInv, CountInv
    <3>4. Totals(p)' /\ (Laid => Placed(p))' /\ Laid' = Laid
      BY <3>1, <3>3 DEF Totals, RunsTo, Placed, AllAligned, WellCounted, Upto,
                        ScratchTop, SavedBytes, Hidden, Laid
    <3>5. CountInv'
      BY <3>4 DEF CountInv
    <3>6. SlotInv' /\ SlotsDisjoint'
      BY <3>1 DEF IInv, SlotInv, SlotsDisjoint, ScratchTop, SavedBytes, Laid
    <3> QED
      BY <3>2, <3>5, <3>6 DEF IInv
  <2>2. CASE Next
    BY <2>2, WalkStep, WalkEndStep, PrologueStep, BindStep, LiteralStep,
       BodyStartStep, DeclareStep, ClaimStep DEF Next
  <2> QED
    BY <2>1, <2>2
<1> QED
  BY <1>1, <1>2, PTL DEF Spec

-----------------------------------------------------------------------------
(***************************************************************************)
(* The theorems.                                                           *)
(***************************************************************************)

\* No two slots of a frame share a byte, whatever the function declares and
\* calls: a struct result's temporary never reaches the variables above the
\* scratch region, nor a variable one handed out before it.
THEOREM SlotsNeverOverlap == Spec => []SlotsDisjoint
<1>1. IInv => SlotsDisjoint
  BY DEF IInv
<1> QED
  BY <1>1, Inductive, PTL

\* The frame the prologue reserves holds every slot of a function whose local
\* structs and literals are 8-byte aligned: what compute_decl_bytes and the
\* other walks counted covers the padding codegen_add_var inserts.
THEOREM FrameHoldsSlots == Spec => []FitsWhenAligned
<1>1. IInv => FitsWhenAligned
  <2> SUFFICES ASSUME IInv, AllAligned, NEW s \in slots PROVE s.hi <= stack_size
    BY DEF FitsWhenAligned, Fits, AllAligned
  <2>1. Laid
    BY DEF IInv, TypeInv
  <2>2. PICK p : Totals(p) /\ Placed(p)
    BY <2>1 DEF IInv, CountInv
  <2>3. ASSUME NEW d \in Categories
        PROVE  Upto(p, d) \in Nat /\ Upto(p, d) <= bytes[d] /\ bytes[d] \in Nat
    <3>1. /\ nodes[d] \in Seq(TypesOf(d)) /\ done[d] \in Nat /\ bytes[d] \in Nat
          /\ done[d] <= Len(nodes[d])
      BY DEF IInv, TypeInv
    <3>2. Len(nodes[d]) \in Nat
      BY <3>1, LenProperties
    <3>3. done[d] + 1 \in 1..(Len(nodes[d]) + 1) /\ done[d] + 1 \in Nat
      BY <3>1, <3>2
    <3>4. RunsTo(d, p[d]) /\ p[d] \in [Nat -> Nat]
      BY <2>2 DEF Totals
    <3> QED
      BY <3>1, <3>3, <3>4 DEF RunsTo, Upto
  <2> DEFINE w == Upto(p, "param")
             x == Upto(p, "mem_param")
             y == Upto(p, "literal")
             z == Upto(p, "decl")
             r == RoundUp(stack_offset, 8)
  <2>4. /\ w \in Nat /\ x \in Nat /\ y \in Nat /\ z \in Nat
        /\ w <= bytes["param"] /\ x <= bytes["mem_param"]
        /\ y <= bytes["literal"] /\ z <= bytes["decl"]
        /\ bytes["param"] \in Nat /\ bytes["mem_param"] \in Nat
        /\ bytes["literal"] \in Nat /\ bytes["decl"] \in Nat
    BY <2>3 DEF Categories
  <2>5. r <= ScratchTop + Hidden + w + x + y + z
    BY <2>2 DEF Placed
  <2>6. /\ stack_offset \in Nat /\ ScratchTop \in Nat /\ Hidden \in Nat
        /\ bytes["call"] \in Nat /\ SavedBytes \in Nat
    BY RegionTypes
  <2>7. stack_offset <= r /\ r \in Nat
    BY <2>6, RoundUpFacts
  <2>8. FrameBytes = bytes["param"] + bytes["mem_param"] + bytes["decl"]
                        + bytes["literal"] + bytes["call"] + Hidden + SavedBytes
    <3>1. FrameBytes = bytes["param"] + bytes["mem_param"] + bytes["decl"]
              + bytes["literal"] + bytes["call"] + Hidden + 40
              + (IF is_variadic THEN 184 ELSE 0)
      BY DEF FrameBytes, Hidden, SavedRegs, RegSaveArea
    <3> HIDE DEF Hidden
    <3>2. CASE is_variadic
      BY <2>4, <2>6, <3>1, <3>2 DEF SavedBytes
    <3>3. CASE ~is_variadic
      BY <2>4, <2>6, <3>1, <3>3 DEF SavedBytes
    <3> QED
      BY <3>2, <3>3
  <2> HIDE DEF w, x, y, z, r
  <2>9. r <= FrameBytes /\ FrameBytes \in Nat
    BY <2>4, <2>5, <2>6, <2>7, <2>8 DEF ScratchTop
  <2>10. FrameBytes <= stack_size /\ stack_size \in Nat
    BY <2>1, <2>9, RoundUpFacts DEF IInv, TypeInv
  <2>11. s.hi <= stack_offset /\ s.hi \in Nat
    BY DEF IInv, SlotInv
  <2> QED
    BY <2>6, <2>7, <2>9, <2>10, <2>11
<1> QED
  BY <1>1, Inductive, PTL

-----------------------------------------------------------------------------
(***************************************************************************)
(* The words that a piece of code finds and leaves on the stack.           *)
(***************************************************************************)
FlatOps == {"eval", "addr", "jcc", "jmp", "store", "load", "loadfn", "call", "padcall"}
PopOps == {"pop", "popfn", "popleft"}
Ops == FlatOps \cup PopOps \cup {"push", "sub", "add"}

Reg == [bank : {"none", "gp", "fp", "stack"}, no : Int]
Instruction == [op : Ops, n : Nat, reg : Reg]

\* Instruction x finds d words and leaves e; a call finds an even number.
Changes(x, d, e) ==
    /\ x.op \in FlatOps => e = d
    /\ x.op \in PopOps => e + 1 = d
    /\ x.op = "push" => e = d + 1
    /\ x.op = "sub" => e = d + x.n
    /\ x.op = "add" => e + x.n = d
    /\ x.op = "call" => d % 2 = 0

\* A jump goes to a place in t, or to its end, where as many words are pushed.
Lands(t, h, i) ==
    t[i].op \in {"jcc", "jmp"} => i + t[i].n <= Len(t) /\ h[i + t[i].n + 1] = h[i]

\* h[i] is the number of words pushed before the i-th instruction of t.
Tracks(t, h) ==
    /\ h \in [Nat -> Nat]
    /\ \A i \in 1..Len(t) : Changes(t[i], h[i], h[i + 1]) /\ Lands(t, h, i)

\* t finds d words on the stack and leaves e.
Brings(t, d, e) ==
    /\ t \in Seq(Instruction)
    /\ \E h : Tracks(t, h) /\ h[1] = d /\ h[Len(t) + 1] = e

IsJumpOp(x) == x.op \in {"jcc", "jmp"}

LEMMA BringsNat ==
    ASSUME NEW t, NEW d, NEW e, Brings(t, d, e)
    PROVE  d \in Nat /\ e \in Nat /\ t \in Seq(Instruction)
<1>1. t \in Seq(Instruction) /\ Len(t) \in Nat
  BY DEF Brings
<1>2. PICK h : h \in [Nat -> Nat] /\ h[1] = d /\ h[Len(t) + 1] = e
  BY DEF Brings, Tracks
<1> QED
  BY <1>1, <1>2

LEMMA BringsNil ==
    ASSUME NEW d \in Nat
    PROVE  Brings(<<>>, d, d)
<1> DEFINE h == [i \in Nat |-> d]
<1>1. Tracks(<<>>, h)
  BY DEF Tracks
<1>2. h[1] = d /\ h[Len(<<>>) + 1] = d
  OBVIOUS
<1> HIDE DEF h
<1> QED
  BY <1>1, <1>2 DEF Brings

\* One instruction.
LEMMA BringsOne ==
    ASSUME NEW x \in Instruction, ~IsJumpOp(x), NEW d \in Nat, NEW e \in Nat, Changes(x, d, e)
    PROVE  Brings(<<x>>, d, e)
<1> DEFINE h == [i \in Nat |-> IF i = 1 THEN d ELSE e]
           t == <<x>>
<1>1. t \in Seq(Instruction) /\ Len(t) = 1 /\ t[1] = x
  OBVIOUS
<1>2. h \in [Nat -> Nat] /\ h[1] = d /\ h[2] = e /\ 1 + 1 = 2
  OBVIOUS
<1> HIDE DEF h, t
<1>3. \A i \in 1..Len(t) : Changes(t[i], h[i], h[i + 1]) /\ Lands(t, h, i)
  <2> SUFFICES ASSUME NEW i \in 1..Len(t) PROVE Changes(t[i], h[i], h[i + 1]) /\ Lands(t, h, i)
    OBVIOUS
  <2>1. i = 1
    BY <1>1
  <2>2. Changes(t[i], h[i], h[i + 1])
    BY <1>1, <1>2, <2>1
  <2>3. Lands(t, h, i)
    BY <1>1, <2>1 DEF Lands, IsJumpOp
  <2> QED
    BY <2>2, <2>3
<1>4. Tracks(t, h)
  BY <1>2, <1>3 DEF Tracks
<1>5. h[Len(t) + 1] = e
  BY <1>1, <1>2
<1>6. Brings(t, d, e)
  BY <1>1, <1>2, <1>4, <1>5 DEF Brings
<1> QED
  BY <1>6 DEF t

\* One piece of code after another.
LEMMA BringsJoin ==
    ASSUME NEW a, NEW b, NEW d, NEW e, NEW f, Brings(a, d, e), Brings(b, e, f)
    PROVE  Brings(a \o b, d, f)
<1> DEFINE t == a \o b
           m == Len(a)
           n == Len(b)
<1>1. a \in Seq(Instruction) /\ b \in Seq(Instruction) /\ m \in Nat /\ n \in Nat
  BY DEF Brings
<1>2. PICK g : Tracks(a, g) /\ g[1] = d /\ g[Len(a) + 1] = e
  BY DEF Brings
<1>3. PICK k : Tracks(b, k) /\ k[1] = e /\ k[Len(b) + 1] = f
  BY DEF Brings
<1> DEFINE h == [i \in Nat |-> IF i <= m + 1 THEN g[i] ELSE k[i - m]]
<1>4. /\ t \in Seq(Instruction) /\ Len(t) = m + n
      /\ \A i \in 1..(m + n) : t[i] = IF i <= m THEN a[i] ELSE b[i - m]
  BY <1>1, ConcatProperties
<1>5. h \in [Nat -> Nat]
  <2>1. g \in [Nat -> Nat] /\ k \in [Nat -> Nat]
    BY <1>2, <1>3 DEF Tracks
  <2>2. \A i \in Nat : (IF i <= m + 1 THEN g[i] ELSE k[i - m]) \in Nat
    <3> SUFFICES ASSUME NEW i \in Nat PROVE (IF i <= m + 1 THEN g[i] ELSE k[i - m]) \in Nat
      OBVIOUS
    <3>1. ~(i <= m + 1) => i - m \in Nat
      BY <1>1
    <3> QED
      BY <2>1, <3>1
  <2> QED
    BY <2>2
<1>6. \A i \in 1..(m + 1) : h[i] = g[i]
  BY <1>1
<1>7. \A i \in 1..(n + 1) : h[m + i] = k[i]
  <2> SUFFICES ASSUME NEW i \in 1..(n + 1) PROVE h[m + i] = k[i]
    OBVIOUS
  <2>1. m + i \in Nat /\ m + i - m = i /\ 1 \in 1..(n + 1)
    BY <1>1
  <2>2. CASE i = 1
    BY <1>1, <1>2, <1>3, <2>1, <2>2
  <2>3. CASE i # 1
    <3>1. ~(m + i <= m + 1)
      BY <1>1, <2>3
    <3> QED
      BY <2>1, <3>1
  <2> QED
    BY <2>2, <2>3
<1>8. h[1] = d /\ h[Len(t) + 1] = f
  <2>1. 1 \in 1..(m + 1) /\ n + 1 \in 1..(n + 1) /\ Len(t) + 1 = m + (n + 1)
    BY <1>1, <1>4
  <2> QED
    BY <1>2, <1>3, <1>6, <1>7, <2>1
<1> HIDE DEF h
<1>9. ASSUME NEW i \in 1..m
      PROVE  Changes(t[i], h[i], h[i + 1]) /\ Lands(t, h, i)
  <2>1. t[i] = a[i]
    BY <1>1, <1>4
  <2>2. i \in 1..(m + 1) /\ i + 1 \in 1..(m + 1)
    BY <1>1
  <2>3. h[i] = g[i] /\ h[i + 1] = g[i + 1]
    BY <1>6, <2>2
  <2>4. Changes(a[i], g[i], g[i + 1]) /\ Lands(a, g, i)
    BY <1>2 DEF Tracks
  <2>5. Lands(t, h, i)
    <3> SUFFICES ASSUME a[i].op \in {"jcc", "jmp"}
                 PROVE  i + a[i].n <= Len(t) /\ h[i + a[i].n + 1] = h[i]
      BY <2>1 DEF Lands
    <3>0. a[i] \in Instruction
      BY <1>1
    <3>1. a[i].n \in Nat
      BY <3>0 DEF Instruction
    <3>2. i + a[i].n <= m /\ g[i + a[i].n + 1] = g[i]
      BY <2>4 DEF Lands
    <3>3. i + a[i].n + 1 \in 1..(m + 1) /\ i + a[i].n <= m + n
      BY <1>1, <3>1, <3>2
    <3> QED
      BY <1>4, <1>6, <2>3, <3>2, <3>3
  <2> QED
    BY <2>1, <2>3, <2>4, <2>5
<1>10. ASSUME NEW j \in 1..n
       PROVE  Changes(t[m + j], h[m + j], h[m + j + 1]) /\ Lands(t, h, m + j)
  <2>1. t[m + j] = b[j]
    <3>1. m + j \in 1..(m + n) /\ ~(m + j <= m) /\ m + j - m = j
      BY <1>1
    <3> QED
      BY <1>4, <3>1
  <2>2. j \in 1..(n + 1) /\ j + 1 \in 1..(n + 1) /\ m + j + 1 = m + (j + 1)
    BY <1>1
  <2>3. h[m + j] = k[j] /\ h[m + j + 1] = k[j + 1]
    BY <1>7, <2>2
  <2>4. Changes(b[j], k[j], k[j + 1]) /\ Lands(b, k, j)
    BY <1>3 DEF Tracks
  <2>5. Lands(t, h, m + j)
    <3> SUFFICES ASSUME b[j].op \in {"jcc", "jmp"}
                 PROVE  m + j + b[j].n <= Len(t) /\ h[m + j + b[j].n + 1] = h[m + j]
      BY <2>1 DEF Lands
    <3>0. b[j] \in Instruction
      BY <1>1
    <3>1. b[j].n \in Nat
      BY <3>0 DEF Instruction
    <3>2. j + b[j].n <= n /\ k[j + b[j].n + 1] = k[j]
      BY <2>4 DEF Lands
    <3>3. j + b[j].n + 1 \in 1..(n + 1) /\ m + j + b[j].n + 1 = m + (j + b[j].n + 1)
          /\ m + j + b[j].n <= m + n
      BY <1>1, <3>1, <3>2
    <3> QED
      BY <1>4, <1>7, <2>3, <3>2, <3>3
  <2> QED
    BY <2>1, <2>3, <2>4, <2>5
<1>11. ASSUME NEW i \in 1..Len(t)
       PROVE  Changes(t[i], h[i], h[i + 1]) /\ Lands(t, h, i)
  <2>1. CASE i \in 1..m
    BY <1>9, <2>1
  <2>2. CASE i \notin 1..m
    <3>1. i - m \in 1..n /\ m + (i - m) = i
      BY <1>1, <1>4, <2>2
    <3> QED
      BY <1>10, <3>1
  <2> QED
    BY <2>1, <2>2
<1>12. Tracks(t, h)
  BY <1>5, <1>11 DEF Tracks
<1> QED
  BY <1>4, <1>8, <1>12 DEF Brings

\* What is left of a piece of code after its k first instructions.
LEMMA RestAt ==
    ASSUME NEW t \in Seq(Instruction), NEW k \in Nat, NEW m \in Nat, Len(t) = k + m
    PROVE  /\ SubSeq(t, k + 1, Len(t)) \in Seq(Instruction)
           /\ Len(SubSeq(t, k + 1, Len(t))) = m
           /\ \A i \in 1..m : SubSeq(t, k + 1, Len(t))[i] = t[k + i]
<1> DEFINE r == SubSeq(t, k + 1, k + m)
<1>1. \A i \in (k + 1)..(k + m) : t[i] \in Instruction
  OBVIOUS
<1>2. /\ r \in Seq(Instruction)
      /\ Len(r) = IF k + 1 <= k + m THEN (k + m) - (k + 1) + 1 ELSE 0
      /\ \A i \in 1..((k + m) - (k + 1) + 1) : r[i] = t[k + 1 + i - 1]
  BY <1>1, SubSeqProperties
<1>3. (IF k + 1 <= k + m THEN (k + m) - (k + 1) + 1 ELSE 0) = m
      /\ (k + m) - (k + 1) + 1 = m
  OBVIOUS
<1>4. \A i \in 1..m : k + 1 + i - 1 = k + i
  OBVIOUS
<1> HIDE DEF r
<1>5. r \in Seq(Instruction) /\ Len(r) = m /\ \A i \in 1..m : r[i] = t[k + i]
  BY <1>2, <1>3, <1>4
<1> QED
  BY <1>5 DEF r

LEMMA BringsRest ==
    ASSUME NEW t \in Seq(Instruction), NEW h, Tracks(t, h), NEW k \in 0..Len(t)
    PROVE  Brings(SubSeq(t, k + 1, Len(t)), h[k + 1], h[Len(t) + 1])
<1>1. PICK m \in Nat : Len(t) = k + m /\ k \in Nat
  <2>1. Len(t) - k \in Nat /\ Len(t) = k + (Len(t) - k) /\ k \in Nat
    OBVIOUS
  <2> QED
    BY <2>1
<1>2. PICK r : /\ r = SubSeq(t, k + 1, Len(t)) /\ r \in Seq(Instruction) /\ Len(r) = m
               /\ \A i \in 1..m : r[i] = t[k + i]
  <2> DEFINE r == SubSeq(t, k + 1, Len(t))
  <2>1. r \in Seq(Instruction) /\ Len(r) = m /\ \A i \in 1..m : r[i] = t[k + i]
    BY <1>1, RestAt
  <2> HIDE DEF r
  <2>2. r = SubSeq(t, k + 1, Len(t))
    BY DEF r
  <2> QED
    BY <2>1, <2>2, Zenon
<1>3. PICK g : g \in [Nat -> Nat] /\ \A i \in Nat : g[i] = h[k + i]
  <2> DEFINE g == [i \in Nat |-> h[k + i]]
  <2>1. h \in [Nat -> Nat]
    BY DEF Tracks
  <2>2. \A i \in Nat : h[k + i] \in Nat
    BY <1>1, <2>1
  <2>3. g \in [Nat -> Nat] /\ \A i \in Nat : g[i] = h[k + i]
    BY <2>2
  <2> HIDE DEF g
  <2> QED
    BY <2>3
<1>4. g[1] = h[k + 1] /\ g[m + 1] = h[Len(t) + 1]
  <2>1. 1 \in Nat /\ m + 1 \in Nat /\ k + (m + 1) = Len(t) + 1
    BY <1>1
  <2>2. g[1] = h[k + 1]
    BY <1>3, <2>1, Zenon
  <2>3. g[m + 1] = h[k + (m + 1)]
    BY <1>3, <2>1, Zenon
  <2> QED
    BY <2>1, <2>2, <2>3, Zenon
<1>5. ASSUME NEW i \in 1..m
      PROVE  Changes(r[i], g[i], g[i + 1]) /\ Lands(r, g, i)
  <2>1. i \in Nat /\ i + 1 \in Nat /\ k + i \in 1..Len(t) /\ k + (i + 1) = k + i + 1
    BY <1>1
  <2>2. r[i] = t[k + i] /\ g[i] = h[k + i] /\ g[i + 1] = h[k + (i + 1)]
    BY <1>2, <1>3, <2>1, Zenon
  <2>3. Changes(t[k + i], h[k + i], h[k + i + 1]) /\ Lands(t, h, k + i)
    BY <2>1, Zenon DEF Tracks
  <2>4. Lands(r, g, i)
    <3> SUFFICES ASSUME t[k + i].op \in {"jcc", "jmp"}
                 PROVE  i + t[k + i].n <= Len(r) /\ g[i + t[k + i].n + 1] = g[i]
      BY <2>2, Zenon DEF Lands
    <3>0. t[k + i] \in Instruction
      BY <2>1
    <3>1. PICK n \in Nat : n = t[k + i].n
      BY <3>0 DEF Instruction
    <3>2. k + i + n <= Len(t) /\ h[k + i + n + 1] = h[k + i]
      BY <2>3, <3>1, Zenon DEF Lands
    <3>3. i + n + 1 \in Nat /\ k + (i + n + 1) = k + i + n + 1 /\ i + n <= m
      BY <1>1, <2>1, <3>2
    <3>4. g[i + n + 1] = h[k + (i + n + 1)]
      BY <1>3, <3>3, Zenon
    <3>5. g[i + n + 1] = g[i]
      BY <2>2, <3>2, <3>3, <3>4, Zenon
    <3> QED
      BY <1>2, <3>1, <3>3, <3>5
  <2> QED
    BY <2>1, <2>2, <2>3, <2>4, Zenon
<1>6. Tracks(r, g)
  BY <1>2, <1>3, <1>5, Zenon DEF Tracks
<1>7. Brings(r, h[k + 1], h[Len(t) + 1])
  BY <1>2, <1>4, <1>6, Zenon DEF Brings
<1> QED
  BY <1>2, <1>7, Zenon

-----------------------------------------------------------------------------
(***************************************************************************)
(* Recursive functions on an interval.                                     *)
(***************************************************************************)

\* A set of natural numbers has a least one.
LEMMA Smallest ==
    ASSUME NEW T, T \subseteq Nat, T # {}
    PROVE  \E x \in T : \A y \in T : x <= y
<1>1. PICK x \in T : \A y \in T : ~(<<y, x>> \in OpToRel(<, Nat))
  BY NatLessThanWellFounded, WFMin
<1>2. \A y \in T : ~(y < x)
  BY <1>1 DEF OpToRel
<1>3. \A y \in T : x <= y
  BY <1>2
<1> QED
  BY <1>3

\* Step by step from b: g[i] is what F[i] makes of g[i - 1].
Runs(g, k, S, b, F) ==
    g \in [0..k -> S] /\ g[0] = b /\ \A i \in 1..k : g[i] = F[i][g[i - 1]]

LEMMA Recursion ==
    ASSUME NEW n \in Nat, NEW S, NEW b \in S, NEW F \in [1..n -> [S -> S]]
    PROVE  \E g : Runs(g, n, S, b, F)
<1> DEFINE T == {k \in 0..n : ~ \E g : Runs(g, k, S, b, F)}
<1> SUFFICES ASSUME T # {} PROVE FALSE
  <2>1. n \in 0..n
    OBVIOUS
  <2> QED
    BY <2>1, Zenon
<1>1. T \subseteq Nat
  OBVIOUS
<1>2. PICK k \in T : \A y \in T : k <= y
  <2> HIDE DEF T
  <2> QED
    BY <1>1, Smallest, Zenon
<1>3. k \in 0..n /\ ~ \E g : Runs(g, k, S, b, F)
  BY <1>2
<1>4. k # 0
  <2> DEFINE g == [i \in 0..0 |-> b]
  <2>1. g \in [0..0 -> S] /\ g[0] = b
    OBVIOUS
  <2>2. Runs(g, 0, S, b, F)
    BY <2>1 DEF Runs
  <2> HIDE DEF g
  <2> QED
    BY <1>3, <2>2
<1>5. PICK j \in Nat : k = j + 1 /\ j \in 0..n /\ k \in 1..n
  <2>1. k - 1 \in Nat /\ k = (k - 1) + 1 /\ k - 1 \in 0..n /\ k \in 1..n
    BY <1>3, <1>4
  <2> QED
    BY <2>1
<1>6. j \notin T
  BY <1>2, <1>5
<1>7. PICK g : Runs(g, j, S, b, F)
  BY <1>5, <1>6
<1> DEFINE v == F[k][g[j]]
           h == [i \in 0..k |-> IF i = k THEN v ELSE g[i]]
<1>8. g \in [0..j -> S] /\ g[0] = b /\ \A i \in 1..j : g[i] = F[i][g[i - 1]]
  BY <1>7 DEF Runs
<1>9. v \in S
  <2>1. g[j] \in S
    BY <1>8
  <2>2. F[k] \in [S -> S]
    BY <1>5
  <2> QED
    BY <2>1, <2>2
<1> HIDE DEF v
<1>10. h \in [0..k -> S] /\ h[k] = v /\ \A i \in 0..j : h[i] = g[i]
  <2>1. \A i \in 0..k : i # k => i \in 0..j
    BY <1>5
  <2>2. \A i \in 0..k : (IF i = k THEN v ELSE g[i]) \in S
    BY <1>8, <1>9, <2>1
  <2>3. \A i \in 0..j : i \in 0..k /\ i # k
    BY <1>5
  <2>4. k \in 0..k
    BY <1>5
  <2> QED
    BY <2>2, <2>3, <2>4
<1> HIDE DEF h
<1>11. \A i \in 1..k : h[i] = F[i][h[i - 1]]
  <2> SUFFICES ASSUME NEW i \in 1..k PROVE h[i] = F[i][h[i - 1]]
    OBVIOUS
  <2>1. CASE i = k
    <3>1. i - 1 = j /\ j \in 0..j
      BY <1>5, <2>1
    <3>2. h[i - 1] = g[j]
      BY <1>10, <3>1
    <3> QED
      BY <1>10, <2>1, <3>2 DEF v
  <2>2. CASE i # k
    <3>1. i \in 1..j /\ i \in 0..j /\ i - 1 \in 0..j
      BY <1>5, <2>2
    <3>2. h[i] = g[i] /\ h[i - 1] = g[i - 1]
      BY <1>10, <3>1
    <3> QED
      BY <1>8, <3>1, <3>2
  <2> QED
    BY <2>1, <2>2
<1>12. h[0] = b
  <2>1. 0 \in 0..j
    BY <1>5
  <2> QED
    BY <1>8, <1>10, <2>1
<1>13. Runs(h, k, S, b, F)
  BY <1>10, <1>11, <1>12 DEF Runs
<1> QED
  BY <1>3, <1>13

\* Concat, step by step.
LEMMA ConcatIs ==
    ASSUME NEW S, NEW f \in Seq(Seq(S))
    PROVE  \E c : /\ c \in [0..Len(f) -> Seq(S)] /\ c[0] = <<>> /\ Concat(f) = c[Len(f)]
                  /\ \A i \in 1..Len(f) : c[i] = c[i - 1] \o f[i]
<1> DEFINE n == Len(f)
           F == [i \in 1..n |-> [v \in Seq(S) |-> v \o f[i]]]
           c == CHOOSE c : c = [i \in 0..n |-> IF i = 0 THEN <<>> ELSE c[i - 1] \o f[i]]
<1>1. n \in Nat /\ \A i \in 1..n : f[i] \in Seq(S)
  OBVIOUS
<1>2. F \in [1..n -> [Seq(S) -> Seq(S)]]
  <2>1. \A i \in 1..n : \A v \in Seq(S) : v \o f[i] \in Seq(S)
    BY <1>1, ConcatProperties
  <2>2. \A i \in 1..n : [v \in Seq(S) |-> v \o f[i]] \in [Seq(S) -> Seq(S)]
    BY <2>1, Zenon
  <2> QED
    BY <2>2, Zenon
<1>3. <<>> \in Seq(S)
  OBVIOUS
<1> HIDE DEF n
<1>4. PICK g : Runs(g, n, Seq(S), <<>>, F)
  <2> HIDE DEF F
  <2> QED
    BY <1>1, <1>2, <1>3, Recursion, Zenon
<1>5. g \in [0..n -> Seq(S)] /\ g[0] = <<>> /\ \A i \in 1..n : g[i] = F[i][g[i - 1]]
  BY <1>4, Zenon DEF Runs
<1>6. \A i \in 1..n : i - 1 \in 0..n
  BY <1>1
<1>7. \A i \in 1..n : g[i] = g[i - 1] \o f[i]
  BY <1>5, <1>6, Zenon
<1>8. g = [i \in 0..n |-> IF i = 0 THEN <<>> ELSE g[i - 1] \o f[i]]
  <2>1. \A i \in 0..n : i = 0 \/ i \in 1..n
    BY <1>1
  <2>2. \A i \in 0..n : g[i] = IF i = 0 THEN <<>> ELSE g[i - 1] \o f[i]
    BY <1>5, <1>7, <2>1, Zenon
  <2> QED
    BY <1>5, <2>2, Zenon
<1>9. c = [i \in 0..n |-> IF i = 0 THEN <<>> ELSE c[i - 1] \o f[i]]
  BY <1>8, Zenon
<1>10. Concat(f) = c[n]
  BY Zenon DEF Concat, n
<1> HIDE DEF c
<1> DEFINE Q == {i \in 0..n : c[i] # g[i]}
<1>11. c[0] = <<>> /\ \A i \in 1..n : c[i] = c[i - 1] \o f[i]
  <2>1. 0 \in 0..n /\ \A i \in 1..n : i \in 0..n /\ i # 0
    BY <1>1
  <2> QED
    BY <1>9, <2>1, Zenon
<1>12. Q = {}
  <2> SUFFICES ASSUME Q # {} PROVE FALSE
    OBVIOUS
  <2>1. PICK k \in Q : \A y \in Q : k <= y
    <3>1. Q \subseteq Nat
      BY <1>1
    <3> HIDE DEF Q
    <3> QED
      BY <3>1, Smallest, Zenon
  <2>2. k \in 0..n /\ c[k] # g[k]
    BY <2>1
  <2>3. k # 0
    BY <1>5, <1>11, <2>2
  <2>4. k \in 1..n /\ k - 1 \in 0..n /\ ~(k <= k - 1)
    BY <1>1, <2>2, <2>3
  <2>5. k - 1 \notin Q
    BY <2>1, <2>4
  <2>6. c[k - 1] = g[k - 1]
    BY <2>4, <2>5
  <2> QED
    BY <1>7, <1>11, <2>2, <2>4, <2>6
<1>13. \A i \in 0..n : c[i] = g[i]
  BY <1>12
<1>14. c = g
  <2>1. c = [i \in 0..n |-> c[i]]
    BY <1>9, Zenon
  <2>2. g = [i \in 0..n |-> g[i]]
    BY <1>5, Zenon
  <2> QED
    BY <1>13, <2>1, <2>2, Zenon
<1> QED
  BY <1>5, <1>10, <1>11, <1>14, Zenon DEF n

-----------------------------------------------------------------------------
(***************************************************************************)
(* compute_call_layout, step by step.                                      *)
(***************************************************************************)
SlotType == [bank : {"none", "gp", "fp", "stack"}, at : Nat]
LayoutState == [gp_next : Nat, xmm_next : Nat, stack_off : Nat, slot : SlotType]

FirstLayout(sret) ==
    [gp_next |-> IF sret THEN 1 ELSE 0, xmm_next |-> 0, stack_off |-> 0,
     slot |-> ArgSlot("none", 0)]

\* The counters and the slot after an argument of class a.
LayoutStep(p, a) ==
    CASE a = "fp" /\ p.xmm_next < NXMM ->
            [p EXCEPT !.xmm_next = @ + 1, !.slot = ArgSlot("fp", p.xmm_next)]
      [] a \in {"gp", "s1", "s2"} /\ FitsInRegs(p.gp_next, Words(a)) ->
            [p EXCEPT !.gp_next = @ + Words(a), !.slot = ArgSlot("gp", p.gp_next)]
      [] OTHER ->
            [p EXCEPT !.stack_off = @ + Words(a), !.slot = ArgSlot("stack", p.stack_off)]

LEMMA WordsNat ==
    ASSUME NEW a \in Classes
    PROVE  Words(a) \in Nat /\ Words(a) >= 1
  BY DEF Words, Classes

LEMMA SlotIs ==
    ASSUME NEW bank \in {"none", "gp", "fp", "stack"}, NEW at \in Nat
    PROVE  ArgSlot(bank, at) \in SlotType
  BY DEF ArgSlot, SlotType

LEMMA LayoutStepType ==
    ASSUME NEW p \in LayoutState, NEW a \in Classes
    PROVE  LayoutStep(p, a) \in LayoutState
<1>1. Words(a) \in Nat
  BY WordsNat
<1>2. p.xmm_next \in Nat /\ p.gp_next \in Nat /\ p.stack_off \in Nat /\ p.slot \in SlotType
  BY DEF LayoutState
<1>3. ASSUME NEW v \in SlotType PROVE [p EXCEPT !.xmm_next = @ + 1, !.slot = v] \in LayoutState
  <2>1. p.xmm_next + 1 \in Nat
    BY <1>2
  <2> QED
    BY <2>1, Zenon DEF LayoutState
<1>4. ASSUME NEW v \in SlotType
      PROVE  [p EXCEPT !.gp_next = @ + Words(a), !.slot = v] \in LayoutState
  <2>1. p.gp_next + Words(a) \in Nat
    BY <1>1, <1>2
  <2> QED
    BY <2>1, Zenon DEF LayoutState
<1>5. ASSUME NEW v \in SlotType
      PROVE  [p EXCEPT !.stack_off = @ + Words(a), !.slot = v] \in LayoutState
  <2>1. p.stack_off + Words(a) \in Nat
    BY <1>1, <1>2
  <2> QED
    BY <2>1, Zenon DEF LayoutState
<1>6. /\ ArgSlot("fp", p.xmm_next) \in SlotType /\ ArgSlot("gp", p.gp_next) \in SlotType
      /\ ArgSlot("stack", p.stack_off) \in SlotType
  BY <1>2, SlotIs
<1>7. CASE a = "fp" /\ p.xmm_next < NXMM
  <2>1. LayoutStep(p, a) = [p EXCEPT !.xmm_next = @ + 1, !.slot = ArgSlot("fp", p.xmm_next)]
    BY <1>7 DEF LayoutStep
  <2> QED
    BY <1>3, <1>6, <2>1, Zenon
<1>8. CASE ~(a = "fp" /\ p.xmm_next < NXMM) /\ a \in {"gp", "s1", "s2"}
              /\ FitsInRegs(p.gp_next, Words(a))
  <2>1. LayoutStep(p, a) =
           [p EXCEPT !.gp_next = @ + Words(a), !.slot = ArgSlot("gp", p.gp_next)]
    BY <1>8 DEF LayoutStep
  <2> QED
    BY <1>4, <1>6, <2>1, Zenon
<1>9. CASE ~(a = "fp" /\ p.xmm_next < NXMM)
              /\ ~(a \in {"gp", "s1", "s2"} /\ FitsInRegs(p.gp_next, Words(a)))
  <2>1. LayoutStep(p, a) =
           [p EXCEPT !.stack_off = @ + Words(a), !.slot = ArgSlot("stack", p.stack_off)]
    BY <1>9 DEF LayoutStep
  <2> QED
    BY <1>5, <1>6, <2>1, Zenon
<1> QED
  BY <1>7, <1>8, <1>9, Zenon

LEMMA LayoutIs ==
    ASSUME NEW args \in Seq(Classes), NEW sret \in BOOLEAN
    PROVE  \E g : /\ g \in [0..Len(args) -> LayoutState] /\ g[0] = FirstLayout(sret)
                  /\ \A i \in 1..Len(args) : g[i] = LayoutStep(g[i - 1], args[i])
                  /\ compute_call_layout(args, sret) =
                        [items |-> [i \in 1..Len(args) |-> g[i].slot],
                         stack_words |-> g[Len(args)].stack_off]
<1> DEFINE n == Len(args)
           b == FirstLayout(sret)
           F == [i \in 1..n |-> [v \in LayoutState |-> LayoutStep(v, args[i])]]
           c == CHOOSE c : c = [i \in 0..n |-> IF i = 0 THEN b
                                               ELSE LayoutStep(c[i - 1], args[i])]
<1>1. n \in Nat /\ \A i \in 1..n : args[i] \in Classes
  OBVIOUS
<1>2. F \in [1..n -> [LayoutState -> LayoutState]]
  <2>1. \A i \in 1..n : \A v \in LayoutState : LayoutStep(v, args[i]) \in LayoutState
    BY <1>1, LayoutStepType, Zenon
  <2>2. \A i \in 1..n : [v \in LayoutState |-> LayoutStep(v, args[i])]
                            \in [LayoutState -> LayoutState]
    BY <2>1, Zenon
  <2> QED
    BY <2>2, Zenon
<1>3. b \in LayoutState
  BY SlotIs DEF FirstLayout, LayoutState
<1> HIDE DEF n
<1>4. PICK g : Runs(g, n, LayoutState, b, F)
  <2> HIDE DEF F, b
  <2> QED
    BY <1>1, <1>2, <1>3, Recursion, Zenon
<1>5. g \in [0..n -> LayoutState] /\ g[0] = b /\ \A i \in 1..n : g[i] = F[i][g[i - 1]]
  BY <1>4, Zenon DEF Runs
<1>10. compute_call_layout(args, sret) =
          [items |-> [i \in 1..n |-> c[i].slot], stack_words |-> c[n].stack_off]
  BY Zenon DEF compute_call_layout, n, LayoutStep, FirstLayout
<1> HIDE DEF b
<1>6. \A i \in 1..n : i - 1 \in 0..n
  BY <1>1
<1>7. \A i \in 1..n : g[i] = LayoutStep(g[i - 1], args[i])
  BY <1>5, <1>6, Zenon
<1>8. g = [i \in 0..n |-> IF i = 0 THEN b ELSE LayoutStep(g[i - 1], args[i])]
  <2>1. \A i \in 0..n : i = 0 \/ i \in 1..n
    BY <1>1
  <2>2. \A i \in 0..n : g[i] = IF i = 0 THEN b ELSE LayoutStep(g[i - 1], args[i])
    BY <1>5, <1>7, <2>1, Zenon
  <2> QED
    BY <1>5, <2>2, Zenon
<1>9. c = [i \in 0..n |-> IF i = 0 THEN b ELSE LayoutStep(c[i - 1], args[i])]
  BY <1>8, Zenon
<1> HIDE DEF c
<1> DEFINE Q == {i \in 0..n : c[i] # g[i]}
<1>11. c[0] = b /\ \A i \in 1..n : c[i] = LayoutStep(c[i - 1], args[i])
  <2>1. 0 \in 0..n /\ \A i \in 1..n : i \in 0..n /\ i # 0
    BY <1>1
  <2> QED
    BY <1>9, <2>1, Zenon
<1>12. Q = {}
  <2> SUFFICES ASSUME Q # {} PROVE FALSE
    OBVIOUS
  <2>1. PICK k \in Q : \A y \in Q : k <= y
    <3>1. Q \subseteq Nat
      BY <1>1
    <3> HIDE DEF Q
    <3> QED
      BY <3>1, Smallest, Zenon
  <2>2. k \in 0..n /\ c[k] # g[k]
    BY <2>1
  <2>3. k # 0
    BY <1>5, <1>11, <2>2
  <2>4. k \in 1..n /\ k - 1 \in 0..n /\ ~(k <= k - 1)
    BY <1>1, <2>2, <2>3
  <2>5. k - 1 \notin Q
    BY <2>1, <2>4
  <2>6. c[k - 1] = g[k - 1]
    BY <2>4, <2>5
  <2> QED
    BY <1>7, <1>11, <2>2, <2>4, <2>6
<1>13. \A i \in 0..n : c[i] = g[i]
  BY <1>12
<1>14. c = g
  <2>1. c = [i \in 0..n |-> c[i]]
    BY <1>9, Zenon
  <2>2. g = [i \in 0..n |-> g[i]]
    BY <1>5, Zenon
  <2> QED
    BY <1>13, <2>1, <2>2, Zenon
<1> QED
  BY <1>5, <1>7, <1>10, <1>14, Zenon DEF n, b

LEMMA LayoutType ==
    ASSUME NEW args \in Seq(Classes), NEW sret \in BOOLEAN
    PROVE  /\ compute_call_layout(args, sret).stack_words \in Nat
           /\ \A i \in 1..Len(args) : compute_call_layout(args, sret).items[i] \in SlotType
<1>1. PICK g : /\ g \in [0..Len(args) -> LayoutState]
               /\ compute_call_layout(args, sret) =
                     [items |-> [i \in 1..Len(args) |-> g[i].slot],
                      stack_words |-> g[Len(args)].stack_off]
  BY LayoutIs, Zenon
<1>2. Len(args) \in 0..Len(args) /\ \A i \in 1..Len(args) : i \in 0..Len(args)
  OBVIOUS
<1>3. g[Len(args)] \in LayoutState /\ \A i \in 1..Len(args) : g[i] \in LayoutState
  BY <1>1, <1>2
<1>4. g[Len(args)].stack_off \in Nat /\ \A i \in 1..Len(args) : g[i].slot \in SlotType
  BY <1>3 DEF LayoutState
<1> QED
  BY <1>1, <1>4

-----------------------------------------------------------------------------
(***************************************************************************)
(* The pieces of code.                                                     *)
(***************************************************************************)
LEMMA InstructionType ==
    ASSUME NEW op \in Ops, NEW n \in Nat
    PROVE  /\ I(op, n) \in Instruction /\ I(op, n).op = op /\ I(op, n).n = n
           /\ \A r \in Reg : R(op, n, r) \in Instruction /\ R(op, n, r).op = op
                                /\ R(op, n, r).n = n /\ R(op, n, r).reg = r
<1>1. GP(0) \in Reg
  BY DEF GP, Reg
<1>2. \A r \in Reg : [op |-> op, n |-> n, reg |-> r] \in Instruction
  BY DEF Instruction
<1> QED
  BY <1>1, <1>2 DEF I, R

\* Instructions that neither push nor pop, and are no calls and no jumps.
QuietOps == {"eval", "addr", "store", "load", "loadfn", "padcall"}

LEMMA BringsOp ==
    ASSUME NEW op \in Ops, NEW n \in Nat, NEW d \in Nat
    PROVE  /\ op \in QuietOps => Brings(<<I(op, n)>>, d, d)
           /\ op = "call" /\ d % 2 = 0 => Brings(<<I(op, n)>>, d, d)
           /\ op \in PopOps => Brings(<<I(op, n)>>, d + 1, d)
           /\ op = "push" => Brings(<<I(op, n)>>, d, d + 1)
           /\ op = "sub" => Brings(<<I(op, n)>>, d, d + n)
           /\ op = "add" => Brings(<<I(op, n)>>, d + n, d)
<1>1. PICK x \in Instruction : x = I(op, n) /\ x.op = op /\ x.n = n
  BY InstructionType
<1>2. d + 1 \in Nat /\ d + n \in Nat
  OBVIOUS
<1>3. op \in QuietOps => ~IsJumpOp(x) /\ Changes(x, d, d)
  BY <1>1 DEF QuietOps, IsJumpOp, Changes, FlatOps, PopOps
<1>4. op = "call" /\ d % 2 = 0 => ~IsJumpOp(x) /\ Changes(x, d, d)
  BY <1>1 DEF IsJumpOp, Changes, FlatOps, PopOps
<1>5. op \in PopOps => ~IsJumpOp(x) /\ Changes(x, d + 1, d)
  BY <1>1 DEF IsJumpOp, Changes, FlatOps, PopOps
<1>6. op = "push" => ~IsJumpOp(x) /\ Changes(x, d, d + 1)
  BY <1>1 DEF IsJumpOp, Changes, FlatOps, PopOps
<1>7. op = "sub" => ~IsJumpOp(x) /\ Changes(x, d, d + n)
  BY <1>1 DEF IsJumpOp, Changes, FlatOps, PopOps
<1>8. op = "add" => ~IsJumpOp(x) /\ Changes(x, d + n, d)
  BY <1>1 DEF IsJumpOp, Changes, FlatOps, PopOps
<1>9. \A a, b \in Nat : ~IsJumpOp(x) /\ Changes(x, a, b) => Brings(<<x>>, a, b)
  BY BringsOne, Zenon
<1> QED
  BY <1>1, <1>2, <1>3, <1>4, <1>5, <1>6, <1>7, <1>8, <1>9, Zenon

LEMMA BringsSub ==
    ASSUME NEW n \in Nat, NEW d \in Nat
    PROVE  Brings(Sub(n), d, d + n) /\ Brings(Add(n), d + n, d)
<1>1. CASE n = 0
  <2>1. Sub(n) = <<>> /\ Add(n) = <<>> /\ d + n = d
    BY <1>1 DEF Sub, Add
  <2> QED
    BY <2>1, BringsNil
<1>2. CASE n # 0
  <2>1. Sub(n) = <<I("sub", n)>> /\ Add(n) = <<I("add", n)>>
    BY <1>2, Zenon DEF Sub, Add
  <2>2. "sub" \in Ops /\ "add" \in Ops
    BY DEF Ops
  <2>3. Brings(<<I("sub", n)>>, d, d + n) /\ Brings(<<I("add", n)>>, d + n, d)
    BY <2>2, BringsOp, Zenon
  <2> QED
    BY <2>1, <2>3, Zenon
<1> QED
  BY <1>1, <1>2

\* Code of quiet instructions.
LEMMA BringsQuiet ==
    ASSUME NEW t \in Seq(Instruction), NEW d \in Nat,
           \A i \in 1..Len(t) : t[i].op \in QuietOps
    PROVE  Brings(t, d, d)
<1>1. PICK h : h \in [Nat -> Nat] /\ \A i \in Nat : h[i] = d
  <2> DEFINE h == [i \in Nat |-> d]
  <2>1. h \in [Nat -> Nat] /\ \A i \in Nat : h[i] = d
    OBVIOUS
  <2> HIDE DEF h
  <2> QED
    BY <2>1
<1>2. ASSUME NEW i \in 1..Len(t)
      PROVE  Changes(t[i], h[i], h[i + 1]) /\ Lands(t, h, i)
  <2>1. h[i] = d /\ h[i + 1] = d
    BY <1>1
  <2>2. t[i].op \in QuietOps
    OBVIOUS
  <2>3. Changes(t[i], d, d)
    BY <2>2 DEF Changes, QuietOps, FlatOps, PopOps
  <2>4. Lands(t, h, i)
    BY <2>2 DEF Lands, QuietOps
  <2> QED
    BY <2>1, <2>3, <2>4
<1>3. Tracks(t, h)
  BY <1>1, <1>2, Zenon DEF Tracks
<1>4. h[1] = d /\ h[Len(t) + 1] = d
  BY <1>1
<1> QED
  BY <1>3, <1>4, Zenon DEF Brings

\* Code that pushes, and code that pops, one word in each instruction.
LEMMA BringsPushes ==
    ASSUME NEW t \in Seq(Instruction), NEW d \in Nat,
           \A i \in 1..Len(t) : t[i].op = "push"
    PROVE  Brings(t, d, d + Len(t))
<1> DEFINE n == Len(t)
<1>0. n \in Nat
  OBVIOUS
<1>1. PICK h : h \in [Nat -> Nat] /\ \A i \in 1..(n + 1) : h[i] + 1 = d + i
  <2> DEFINE h == [i \in Nat |-> IF i = 0 THEN 0 ELSE d + i - 1]
  <2>1. \A i \in Nat : (IF i = 0 THEN 0 ELSE d + i - 1) \in Nat
    OBVIOUS
  <2>2. h \in [Nat -> Nat]
    BY <2>1
  <2>3. \A i \in 1..(n + 1) : i \in Nat /\ i # 0 /\ d + i - 1 + 1 = d + i
    BY <1>0
  <2>4. \A i \in 1..(n + 1) : h[i] + 1 = d + i
    BY <2>3
  <2> HIDE DEF h
  <2> QED
    BY <2>2, <2>4
<1>2. ASSUME NEW i \in 1..n
      PROVE  Changes(t[i], h[i], h[i + 1]) /\ Lands(t, h, i)
  <2>1. i \in 1..(n + 1) /\ i + 1 \in 1..(n + 1) /\ i \in Nat /\ i + 1 \in Nat
    BY <1>0
  <2>2. h[i] \in Nat /\ h[i + 1] \in Nat /\ h[i] + 1 = d + i /\ h[i + 1] + 1 = d + (i + 1)
    BY <1>1, <2>1
  <2>3. h[i + 1] = h[i] + 1
    <3>1. \A a, b \in Nat : a + 1 = d + i /\ b + 1 = d + (i + 1) => b = a + 1
      OBVIOUS
    <3> QED
      BY <2>2, <3>1, Zenon
  <2>4. t[i].op = "push"
    OBVIOUS
  <2>5. Changes(t[i], h[i], h[i] + 1)
    BY <2>4 DEF Changes, FlatOps, PopOps
  <2>6. Lands(t, h, i)
    BY <2>4 DEF Lands
  <2> QED
    BY <2>3, <2>5, <2>6
<1>3. Tracks(t, h)
  BY <1>1, <1>2, Zenon DEF Tracks
<1>4. h[1] = d /\ h[n + 1] = d + n
  <2>1. 1 \in 1..(n + 1) /\ n + 1 \in 1..(n + 1) /\ n + 1 \in Nat
    BY <1>0
  <2>2. h[1] \in Nat /\ h[n + 1] \in Nat /\ h[1] + 1 = d + 1 /\ h[n + 1] + 1 = d + (n + 1)
    BY <1>1, <2>1
  <2>3. \A a, b \in Nat : a + 1 = d + 1 /\ b + 1 = d + (n + 1) => a = d /\ b = d + n
    BY <1>0
  <2> QED
    BY <2>2, <2>3, Zenon
<1> QED
  BY <1>3, <1>4, Zenon DEF Brings

LEMMA BringsPops ==
    ASSUME NEW t \in Seq(Instruction), NEW d \in Nat,
           \A i \in 1..Len(t) : t[i].op \in PopOps
    PROVE  Brings(t, d + Len(t), d)
<1> DEFINE n == Len(t)
<1>0. n \in Nat
  OBVIOUS
<1>1. PICK h : h \in [Nat -> Nat] /\ \A i \in 1..(n + 1) : h[i] + i = d + n + 1
  <2> DEFINE h == [i \in Nat |-> IF i <= n + 1 THEN d + n + 1 - i ELSE 0]
  <2>1. \A i \in Nat : (IF i <= n + 1 THEN d + n + 1 - i ELSE 0) \in Nat
    BY <1>0
  <2>2. h \in [Nat -> Nat]
    BY <2>1
  <2>3. \A i \in 1..(n + 1) : i \in Nat /\ i <= n + 1 /\ (d + n + 1 - i) + i = d + n + 1
    BY <1>0
  <2>4. \A i \in 1..(n + 1) : h[i] + i = d + n + 1
    BY <2>3
  <2> HIDE DEF h
  <2> QED
    BY <2>2, <2>4
<1>2. ASSUME NEW i \in 1..n
      PROVE  Changes(t[i], h[i], h[i + 1]) /\ Lands(t, h, i)
  <2>1. i \in 1..(n + 1) /\ i + 1 \in 1..(n + 1) /\ i \in Nat /\ i + 1 \in Nat
    BY <1>0
  <2>2. h[i] \in Nat /\ h[i + 1] \in Nat /\ h[i] + i = d + n + 1
        /\ h[i + 1] + (i + 1) = d + n + 1
    BY <1>1, <2>1
  <2>3. h[i + 1] + 1 = h[i]
    BY <1>0, <2>1, <2>2
  <2>4. t[i].op \in PopOps
    OBVIOUS
  <2>5. \A a, b \in Nat : b + 1 = a => Changes(t[i], a, b)
    BY <2>4 DEF Changes, FlatOps, PopOps
  <2>6. Lands(t, h, i)
    BY <2>4 DEF Lands, PopOps
  <2> QED
    BY <2>2, <2>3, <2>5, <2>6, Zenon
<1>3. Tracks(t, h)
  BY <1>1, <1>2, Zenon DEF Tracks
<1>4. h[1] = d + n /\ h[n + 1] = d
  <2>1. 1 \in 1..(n + 1) /\ n + 1 \in 1..(n + 1) /\ n + 1 \in Nat
    BY <1>0
  <2>2. h[1] \in Nat /\ h[n + 1] \in Nat /\ h[1] + 1 = d + n + 1 /\ h[n + 1] + (n + 1) = d + n + 1
    BY <1>1, <2>1
  <2> QED
    BY <1>0, <2>2
<1> QED
  BY <1>3, <1>4, Zenon DEF Brings

\* A row of pieces, each of which takes up where the one before it ended.
LEMMA BringsConcat ==
    ASSUME NEW f \in Seq(Seq(Instruction)), NEW p \in [0..Len(f) -> Nat],
           \A i \in 1..Len(f) : Brings(f[i], p[i - 1], p[i])
    PROVE  Brings(Concat(f), p[0], p[Len(f)])
<1>1. PICK c : /\ c \in [0..Len(f) -> Seq(Instruction)] /\ c[0] = <<>> /\ Concat(f) = c[Len(f)]
               /\ \A i \in 1..Len(f) : c[i] = c[i - 1] \o f[i]
  <2>1. \E c : /\ c \in [0..Len(f) -> Seq(Instruction)] /\ c[0] = <<>> /\ Concat(f) = c[Len(f)]
               /\ \A i \in 1..Len(f) : c[i] = c[i - 1] \o f[i]
    BY ConcatIs, Zenon
  <2> QED
    BY <2>1, Zenon
<1> DEFINE n == Len(f)
           Q == {i \in 0..n : ~Brings(c[i], p[0], p[i])}
<1>2. n \in Nat
  OBVIOUS
<1> HIDE DEF n
<1>3. Q = {}
  <2> SUFFICES ASSUME Q # {} PROVE FALSE
    OBVIOUS
  <2>1. PICK k \in Q : \A y \in Q : k <= y
    <3>1. Q \subseteq Nat
      BY <1>2
    <3> HIDE DEF Q
    <3> QED
      BY <3>1, Smallest, Zenon
  <2>2. k \in 0..n /\ ~Brings(c[k], p[0], p[k])
    BY <2>1
  <2>3. k # 0
    <3>1. p[0] \in Nat
      BY <1>2 DEF n
    <3>2. Brings(c[0], p[0], p[0])
      BY <1>1, <3>1, BringsNil
    <3> QED
      BY <2>2, <3>2
  <2>4. k \in 1..n /\ k - 1 \in 0..n /\ ~(k <= k - 1)
    BY <1>2, <2>2, <2>3
  <2>5. k - 1 \notin Q
    BY <2>1, <2>4
  <2>6. Brings(c[k - 1], p[0], p[k - 1])
    BY <2>4, <2>5
  <2>7. Brings(f[k], p[k - 1], p[k])
    BY <2>4 DEF n
  <2>8. Brings(c[k - 1] \o f[k], p[0], p[k])
    BY <2>6, <2>7, BringsJoin, Zenon
  <2> QED
    BY <1>1, <2>2, <2>4, <2>8 DEF n
<1>4. n \in 0..n
  BY <1>2
<1>5. Brings(c[n], p[0], p[n])
  BY <1>3, <1>4
<1> QED
  BY <1>1, <1>5 DEF n

\* Three pieces one after the other.
LEMMA BringsJoin3 ==
    ASSUME NEW s, NEW t, NEW u, NEW a, NEW b, NEW c, NEW d,
           Brings(s, a, b), Brings(t, b, c), Brings(u, c, d)
    PROVE  Brings(s \o t \o u, a, d)
<1>1. Brings(s \o t, a, c)
  BY BringsJoin, Zenon
<1> QED
  BY <1>1, BringsJoin, Zenon

LEMMA PairIs ==
    ASSUME NEW x, NEW y
    PROVE  <<x>> \o <<y>> = <<x, y>>
<1> DEFINE a == <<x>>
           b == <<y>>
           c == <<x, y>>
<1>1. a \in Seq({x, y}) /\ b \in Seq({x, y}) /\ Len(a) = 1 /\ Len(b) = 1 /\ a[1] = x /\ b[1] = y
  OBVIOUS
<1>2. c \in Seq({x, y}) /\ Len(c) = 2 /\ c[1] = x /\ c[2] = y
  OBVIOUS
<1> HIDE DEF a, b, c
<1>3. /\ a \o b \in Seq({x, y}) /\ Len(a \o b) = 2
      /\ (a \o b)[1] = x /\ (a \o b)[2] = y
  <2>1. /\ a \o b \in Seq({x, y}) /\ Len(a \o b) = Len(a) + Len(b)
        /\ \A i \in 1..(Len(a) + Len(b)) :
              (a \o b)[i] = IF i <= Len(a) THEN a[i] ELSE b[i - Len(a)]
    BY <1>1, ConcatProperties, ZenonT(40)
  <2>2. 1 + 1 = 2 /\ 2 - 1 = 1 /\ 1 \in 1..2 /\ 2 \in 1..2 /\ 1 <= 1 /\ ~(2 <= 1)
    OBVIOUS
  <2>3. Len(a \o b) = 2 /\ \A i \in 1..2 : (a \o b)[i] = IF i <= 1 THEN a[i] ELSE b[i - 1]
    BY <1>1, <2>1, <2>2
  <2> QED
    BY <1>1, <2>1, <2>2, <2>3
<1>4. \A i \in 1..2 : i = 1 \/ i = 2
  OBVIOUS
<1>5. a \o b = c
  BY <1>2, <1>3, <1>4, SeqEqual
<1> QED
  BY <1>5 DEF a, b, c

LEMMA EvalPushBrings ==
    ASSUME NEW i \in Nat, NEW w \in Nat, NEW d \in Nat
    PROVE  Brings(<<I("eval", i), I("push", w)>>, d, d + 1)
<1>1. "eval" \in Ops /\ "push" \in Ops /\ "eval" \in QuietOps
  BY DEF Ops, FlatOps, QuietOps
<1>2. Brings(<<I("eval", i)>>, d, d) /\ Brings(<<I("push", w)>>, d, d + 1)
  BY <1>1, BringsOp, Zenon
<1>3. Brings(<<I("eval", i)>> \o <<I("push", w)>>, d, d + 1)
  BY <1>2, BringsJoin, Zenon
<1> QED
  BY <1>3, PairIs, Zenon

\* Pieces that push one word each.
LEMMA BringsEach ==
    ASSUME NEW f \in Seq(Seq(Instruction)), NEW d \in Nat,
           \A i \in 1..Len(f) : \A e \in Nat : Brings(f[i], e, e + 1)
    PROVE  Brings(Concat(f), d, d + Len(f))
<1> DEFINE n == Len(f)
           p == [i \in 0..n |-> d + i]
<1>1. n \in Nat
  OBVIOUS
<1>2. p \in [0..n -> Nat]
  BY <1>1
<1>3. \A i \in 0..n : p[i] = d + i
  OBVIOUS
<1>4. p[0] = d /\ p[n] = d + n
  BY <1>1, <1>3
<1> HIDE DEF p
<1>5. ASSUME NEW i \in 1..n PROVE Brings(f[i], p[i - 1], p[i])
  <2>1. i - 1 \in 0..n /\ i \in 0..n /\ d + (i - 1) \in Nat /\ (d + (i - 1)) + 1 = d + i
    BY <1>1
  <2>2. p[i - 1] = d + (i - 1) /\ p[i] = (d + (i - 1)) + 1
    BY <1>3, <2>1
  <2>3. Brings(f[i], d + (i - 1), (d + (i - 1)) + 1)
    BY <2>1, Zenon
  <2> QED
    BY <2>2, <2>3, Zenon
<1>6. Brings(Concat(f), p[0], p[n])
  BY <1>2, <1>5, BringsConcat, Zenon
<1> QED
  BY <1>4, <1>6

LEMMA PushAllBrings ==
    ASSUME NEW n \in Nat, NEW d \in Nat
    PROVE  Brings(PushAll(n), d, d + n)
<1> DEFINE f == [i \in 1..n |-> EvalPush(i)]
<1>1. \A i \in 1..n : \A e \in Nat : Brings(EvalPush(i), e, e + 1)
  <2>1. \A i \in 1..n : i \in Nat /\ 1 \in Nat
    OBVIOUS
  <2> QED
    BY <2>1, EvalPushBrings, Zenon DEF EvalPush
<1>2. \A i \in 1..n : EvalPush(i) \in Seq(Instruction)
  <2>1. 0 \in Nat
    OBVIOUS
  <2> QED
    BY <1>1, <2>1, BringsNat, Zenon
<1>3. f \in Seq(Seq(Instruction)) /\ Len(f) = n /\ \A i \in 1..n : f[i] = EvalPush(i)
  BY <1>2
<1> HIDE DEF f
<1>4. Brings(Concat(f), d, d + n)
  <2>1. \A i \in 1..Len(f) : \A e \in Nat : Brings(f[i], e, e + 1)
    BY <1>1, <1>3
  <2>2. Brings(Concat(f), d, d + Len(f))
    BY <1>3, <2>1, BringsEach, Zenon
  <2> QED
    BY <1>3, <2>2
<1> QED
  BY <1>4 DEF PushAll, f

LEMMA PushStackArgsBrings ==
    ASSUME NEW n \in Nat, NEW m \in Nat, NGP \in Nat, n = NGP + m, NEW d \in Nat
    PROVE  Brings(PushStackArgs(n), d, d + m)
<1> DEFINE f == [k \in 1..m |-> EvalPush(n + 1 - k)]
<1>0. n - NGP = m /\ \A k \in 1..m : n + 1 - k \in Nat /\ 1 \in Nat
  OBVIOUS
<1>1. \A k \in 1..m : \A e \in Nat : Brings(EvalPush(n + 1 - k), e, e + 1)
  BY <1>0, EvalPushBrings, Zenon DEF EvalPush
<1>2. \A k \in 1..m : EvalPush(n + 1 - k) \in Seq(Instruction)
  <2>1. 0 \in Nat
    OBVIOUS
  <2> QED
    BY <1>1, <2>1, BringsNat, Zenon
<1>3. f \in Seq(Seq(Instruction)) /\ Len(f) = m
      /\ \A k \in 1..m : f[k] = EvalPush(n + 1 - k)
  BY <1>2
<1>5. PushStackArgs(n) = Concat(f)
  BY <1>0, Zenon DEF PushStackArgs
<1> HIDE DEF f
<1>4. Brings(Concat(f), d, d + m)
  <2>1. \A i \in 1..Len(f) : \A e \in Nat : Brings(f[i], e, e + 1)
    BY <1>1, <1>3
  <2>2. Brings(Concat(f), d, d + Len(f))
    BY <1>3, <2>1, BringsEach, Zenon
  <2> QED
    BY <1>3, <2>2
<1> QED
  BY <1>4, <1>5

LEMMA PopAllBrings ==
    ASSUME NEW n \in Nat, NEW d \in Nat
    PROVE  Brings(PopAll(n), d + n, d)
<1>1. "pop" \in Ops /\ "pop" \in PopOps
  BY DEF Ops, PopOps
<1>2. \A i \in 1..n : GP(n - i) \in Reg
  BY DEF GP, Reg
<1>3. \A i \in 1..n : R("pop", 0, GP(n - i)) \in Instruction /\ R("pop", 0, GP(n - i)).op = "pop"
  BY <1>1, <1>2, InstructionType
<1>4. /\ PopAll(n) \in Seq(Instruction) /\ Len(PopAll(n)) = n
      /\ \A i \in 1..n : PopAll(n)[i].op \in PopOps
  BY <1>1, <1>3 DEF PopAll
<1>5. Brings(PopAll(n), d + Len(PopAll(n)), d)
  BY <1>4, BringsPops
<1> QED
  BY <1>4, <1>5

-----------------------------------------------------------------------------
(***************************************************************************)
(* The layout-driven path, piece by piece.                                 *)
(***************************************************************************)
PathWords(sig, i) == IF sig.kind = "direct" THEN Words(sig.args[i]) ELSE 1
InMemory(L, i) == L.items[i].bank = "stack"
StoredCode(sig, L, i) ==
    IF InMemory(L, i)
    THEN <<I("eval", i)>> \o
         [w \in 1..PathWords(sig, i) |-> R("store", L.items[i].at + w - 1, GP(w - 1))]
    ELSE <<>>
SpillCode(sig, L, i) ==
    IF InMemory(L, i) THEN <<>>
    ELSE <<I("eval", i)>> \o [w \in 1..PathWords(sig, i) |-> I("push", w)]
PathRegs(sig, L, i) ==
    IF InMemory(L, i) THEN <<>>
    ELSE [w \in 1..PathWords(sig, i) |->
            [bank |-> L.items[i].bank, no |-> L.items[i].at + w - 1]]
PathSret(sig) == sig.kind = "direct" /\ Sret(sig)
SretRegs(sig) == IF PathSret(sig) THEN <<GP(0)>> ELSE <<>>
SretCode(sig) == IF PathSret(sig) THEN <<I("eval", 0), I("push", 0)>> ELSE <<>>
Spilled(sig, L) ==
    SretRegs(sig) \o Concat([i \in 1..Len(sig.args) |-> PathRegs(sig, L, i)])
LoadCode(sp, k) == [j \in 1..k |-> R("load", SpillOffset(j, k), sp[j])]

LEMMA LayoutPathIs ==
    ASSUME NEW sig, NEW L, NEW region
    PROVE  LayoutPath(sig, L, region) =
              Sub(region) \o Concat([i \in 1..Len(sig.args) |-> StoredCode(sig, L, i)])
                \o SretCode(sig)
                \o Concat([i \in 1..Len(sig.args) |-> SpillCode(sig, L, i)])
                \o LoadCode(Spilled(sig, L), Len(Spilled(sig, L)))
                \o Add(Len(Spilled(sig, L)))
  BY Zenon DEF LayoutPath, PathWords, InMemory, StoredCode, SpillCode, PathRegs, PathSret, SretRegs,
         SretCode, Spilled, LoadCode

\* L gives each argument a slot.
PathOK(sig, L) ==
    /\ sig.args \in Seq(Classes)
    /\ \A i \in 1..Len(sig.args) : L.items[i] \in SlotType

LEMMA PathWordsNat ==
    ASSUME NEW sig, NEW L, PathOK(sig, L), NEW i \in 1..Len(sig.args)
    PROVE  /\ PathWords(sig, i) \in Nat /\ i \in Nat
           /\ L.items[i].at \in Nat /\ L.items[i].bank \in {"none", "gp", "fp", "stack"}
<1>1. sig.args[i] \in Classes /\ i \in Nat
  BY DEF PathOK
<1>2. Words(sig.args[i]) \in Nat
  BY <1>1, WordsNat
<1>3. L.items[i] \in SlotType
  BY DEF PathOK
<1>4. L.items[i].at \in Nat /\ L.items[i].bank \in {"none", "gp", "fp", "stack"}
  BY <1>3 DEF SlotType
<1> QED
  BY <1>1, <1>2, <1>4 DEF PathWords

LEMMA StoredBrings ==
    ASSUME NEW sig, NEW L, PathOK(sig, L), NEW i \in 1..Len(sig.args), NEW d \in Nat
    PROVE  Brings(StoredCode(sig, L, i), d, d)
<1>1. CASE ~InMemory(L, i)
  BY <1>1, BringsNil DEF StoredCode
<1>2. CASE InMemory(L, i)
  <2>1. PICK n \in Nat, at \in Nat : n = PathWords(sig, i) /\ at = L.items[i].at /\ i \in Nat
    BY PathWordsNat
  <2> DEFINE c == [w \in 1..n |-> R("store", at + w - 1, GP(w - 1))]
  <2>2. \A w \in 1..n : at + w - 1 \in Nat /\ GP(w - 1) \in Reg
    BY DEF GP, Reg
  <2>3. "store" \in Ops /\ "store" \in QuietOps /\ "eval" \in Ops /\ "eval" \in QuietOps
    BY DEF Ops, FlatOps, QuietOps
  <2>4. \A w \in 1..n : /\ R("store", at + w - 1, GP(w - 1)) \in Instruction
                        /\ R("store", at + w - 1, GP(w - 1)).op = "store"
    BY <2>2, <2>3, InstructionType
  <2>5. c \in Seq(Instruction) /\ \A w \in 1..Len(c) : c[w].op \in QuietOps
    <3>1. c \in [1..n -> Instruction] /\ \A w \in 1..n : c[w].op = "store"
      BY <2>4, Zenon
    <3> HIDE DEF c
    <3> QED
      BY <2>3, <3>1
  <2>6. StoredCode(sig, L, i) = <<I("eval", i)>> \o c
    BY <1>2, <2>1, Zenon DEF StoredCode
  <2> HIDE DEF c
  <2>7. Brings(c, d, d)
    BY <2>5, BringsQuiet
  <2>8. Brings(<<I("eval", i)>>, d, d)
    BY <2>1, <2>3, BringsOp, Zenon
  <2> QED
    BY <2>6, <2>7, <2>8, BringsJoin, Zenon
<1> QED
  BY <1>1, <1>2

LEMMA SpillBrings ==
    ASSUME NEW sig, NEW L, PathOK(sig, L), NEW i \in 1..Len(sig.args), NEW d \in Nat
    PROVE  /\ PathRegs(sig, L, i) \in Seq(Reg)
           /\ Brings(SpillCode(sig, L, i), d, d + Len(PathRegs(sig, L, i)))
<1>1. CASE InMemory(L, i)
  <2>1. SpillCode(sig, L, i) = <<>> /\ PathRegs(sig, L, i) = <<>>
    BY <1>1 DEF SpillCode, PathRegs
  <2>2. <<>> \in Seq(Reg) /\ d + Len(<<>>) = d
    OBVIOUS
  <2> QED
    BY <2>1, <2>2, BringsNil
<1>2. CASE ~InMemory(L, i)
  <2>1. PICK n \in Nat, at \in Nat, bank \in {"none", "gp", "fp", "stack"} :
           n = PathWords(sig, i) /\ at = L.items[i].at /\ bank = L.items[i].bank /\ i \in Nat
    BY PathWordsNat
  <2> DEFINE c == [w \in 1..n |-> I("push", w)]
             r == [w \in 1..n |-> [bank |-> bank, no |-> at + w - 1]]
  <2>2. \A w \in 1..n : w \in Nat /\ [bank |-> bank, no |-> at + w - 1] \in Reg
    BY DEF Reg
  <2>3. r \in Seq(Reg) /\ Len(r) = n
    <3>1. r \in [1..n -> Reg]
      BY <2>2, Zenon
    <3> HIDE DEF r
    <3> QED
      BY <3>1
  <2>4. "push" \in Ops /\ "eval" \in Ops /\ "eval" \in QuietOps
    BY DEF Ops, FlatOps, QuietOps
  <2>5. \A w \in 1..n : I("push", w) \in Instruction /\ I("push", w).op = "push"
    BY <2>2, <2>4, InstructionType
  <2>6. c \in Seq(Instruction) /\ Len(c) = n /\ \A w \in 1..Len(c) : c[w].op = "push"
    BY <2>5
  <2>7. SpillCode(sig, L, i) = <<I("eval", i)>> \o c
    BY <1>2, <2>1, Zenon DEF SpillCode
  <2>8. PathRegs(sig, L, i) = r
    BY <1>2, <2>1, Zenon DEF PathRegs
  <2> HIDE DEF c, r
  <2>9. Brings(c, d, d + Len(c))
    BY <2>6, BringsPushes
  <2>10. Brings(<<I("eval", i)>>, d, d)
    BY <2>1, <2>4, BringsOp, Zenon
  <2>11. Brings(<<I("eval", i)>> \o c, d, d + Len(c))
    BY <2>9, <2>10, BringsJoin, Zenon
  <2> QED
    BY <2>3, <2>6, <2>7, <2>8, <2>11
<1> QED
  BY <1>1, <1>2

LEMMA AllStored ==
    ASSUME NEW sig, NEW L, PathOK(sig, L), NEW d \in Nat
    PROVE  Brings(Concat([i \in 1..Len(sig.args) |-> StoredCode(sig, L, i)]), d, d)
<1> DEFINE n == Len(sig.args)
           f == [i \in 1..n |-> StoredCode(sig, L, i)]
           p == [i \in 0..n |-> d]
<1>1. n \in Nat
  BY DEF PathOK
<1>2. \A i \in 1..n : Brings(StoredCode(sig, L, i), d, d)
  BY StoredBrings, Zenon
<1>3. \A i \in 1..n : StoredCode(sig, L, i) \in Seq(Instruction)
  BY <1>2, BringsNat, Zenon
<1> SUFFICES Brings(Concat(f), d, d)
  OBVIOUS
<1>4. f \in [1..n -> Seq(Instruction)] /\ \A i \in 1..n : Brings(f[i], d, d)
  BY <1>2, <1>3, Zenon
<1> HIDE DEF f, n
<1>5. f \in Seq(Seq(Instruction)) /\ Len(f) = n
  BY <1>1, <1>4
<1>6. p \in [0..n -> Nat] /\ \A i \in 0..n : p[i] = d
  OBVIOUS
<1> HIDE DEF p
<1>7. \A i \in 1..n : i \in 0..n /\ i - 1 \in 0..n
  BY <1>1
<1>8. \A i \in 1..n : Brings(f[i], p[i - 1], p[i])
  BY <1>4, <1>6, <1>7
<1>9. 0 \in 0..n /\ n \in 0..n
  BY <1>1
<1>10. Brings(Concat(f), p[0], p[n])
  BY <1>5, <1>6, <1>8, BringsConcat, Zenon
<1> QED
  BY <1>6, <1>9, <1>10

LEMMA AllSpills ==
    ASSUME NEW sig, NEW L, PathOK(sig, L), NEW d \in Nat
    PROVE  LET rs == Concat([i \in 1..Len(sig.args) |-> PathRegs(sig, L, i)])
           IN /\ rs \in Seq(Reg)
              /\ Brings(Concat([i \in 1..Len(sig.args) |-> SpillCode(sig, L, i)]), d, d + Len(rs))
<1> DEFINE n == Len(sig.args)
           f == [i \in 1..n |-> SpillCode(sig, L, i)]
           r == [i \in 1..n |-> PathRegs(sig, L, i)]
<1>1. n \in Nat
  BY DEF PathOK
<1>2. \A i \in 1..n : PathRegs(sig, L, i) \in Seq(Reg)
  BY SpillBrings, Zenon
<1>3. \A i \in 1..n : \A e \in Nat :
         Brings(SpillCode(sig, L, i), e, e + Len(PathRegs(sig, L, i)))
  BY SpillBrings, Zenon
<1>4. \A i \in 1..n : SpillCode(sig, L, i) \in Seq(Instruction)
  BY <1>3, BringsNat, Zenon
<1> SUFFICES Concat(r) \in Seq(Reg) /\ Brings(Concat(f), d, d + Len(Concat(r)))
  BY Zenon
<1>5. /\ f \in [1..n -> Seq(Instruction)] /\ r \in [1..n -> Seq(Reg)]
      /\ \A i \in 1..n : \A e \in Nat : Brings(f[i], e, e + Len(r[i]))
  BY <1>2, <1>3, <1>4, Zenon
<1> HIDE DEF f, n, r
<1>6. f \in Seq(Seq(Instruction)) /\ Len(f) = n /\ r \in Seq(Seq(Reg)) /\ Len(r) = n
  BY <1>1, <1>5
<1>7. PICK c : /\ c \in [0..Len(r) -> Seq(Reg)] /\ c[0] = <<>> /\ Concat(r) = c[Len(r)]
               /\ \A i \in 1..Len(r) : c[i] = c[i - 1] \o r[i]
  <2>1. \E c : /\ c \in [0..Len(r) -> Seq(Reg)] /\ c[0] = <<>> /\ Concat(r) = c[Len(r)]
               /\ \A i \in 1..Len(r) : c[i] = c[i - 1] \o r[i]
    BY <1>6, ConcatIs, Zenon
  <2> QED
    BY <2>1, Zenon
<1>8. \A i \in 0..n : c[i] \in Seq(Reg)
  BY <1>6, <1>7
<1> DEFINE p == [i \in 0..n |-> d + Len(c[i])]
<1>9. \A i \in 0..n : d + Len(c[i]) \in Nat
  <2>1. \A i \in 0..n : Len(c[i]) \in Nat
    BY <1>8, LenProperties, Zenon
  <2>2. \A a \in Nat : d + a \in Nat
    OBVIOUS
  <2> QED
    BY <2>1, <2>2, Zenon
<1>10. p \in [0..n -> Nat] /\ \A i \in 0..n : p[i] = d + Len(c[i])
  BY <1>9, Zenon
<1> HIDE DEF p
<1>11. ASSUME NEW i \in 1..n PROVE Brings(f[i], p[i - 1], p[i])
  <2>1. i \in 0..n /\ i - 1 \in 0..n
    BY <1>1
  <2>2. c[i - 1] \in Seq(Reg) /\ r[i] \in Seq(Reg) /\ c[i] = c[i - 1] \o r[i]
    BY <1>5, <1>6, <1>7, <1>8, <2>1
  <2>3. Len(c[i]) = Len(c[i - 1]) + Len(r[i])
    BY <2>2, ConcatProperties, ZenonT(40)
  <2>4. Len(c[i - 1]) \in Nat /\ Len(r[i]) \in Nat
    BY <2>2, LenProperties, Zenon
  <2>5. \A a, b \in Nat : d + (a + b) = (d + a) + b
    OBVIOUS
  <2>6. p[i - 1] = d + Len(c[i - 1]) /\ p[i] = d + Len(c[i]) /\ p[i - 1] \in Nat
    BY <1>10, <2>1
  <2>7. p[i] = p[i - 1] + Len(r[i])
    BY <2>3, <2>4, <2>5, <2>6, Zenon
  <2>8. Brings(f[i], p[i - 1], p[i - 1] + Len(r[i]))
    BY <1>5, <2>6, Zenon
  <2> QED
    BY <2>7, <2>8, Zenon
<1>12. 0 \in 0..n /\ n \in 0..n
  BY <1>1
<1>13. Brings(Concat(f), p[0], p[n])
  BY <1>6, <1>10, <1>11, BringsConcat, Zenon
<1>14. p[0] = d
  <2>1. Len(c[0]) = 0 /\ d + 0 = d
    BY <1>7
  <2>2. p[0] = d + Len(c[0])
    BY <1>10, <1>12, Zenon
  <2> QED
    BY <2>1, <2>2, Zenon
<1>15. p[n] = d + Len(Concat(r)) /\ Concat(r) \in Seq(Reg)
  BY <1>6, <1>7, <1>8, <1>10, <1>12, Zenon
<1> QED
  BY <1>13, <1>14, <1>15, Zenon

LEMMA LoadBrings ==
    ASSUME NEW sp \in Seq(Reg), NEW k, k = Len(sp), NEW d \in Nat
    PROVE  Brings(LoadCode(sp, k), d, d)
<1>1. k \in Nat
  OBVIOUS
<1>2. \A j \in 1..k : SpillOffset(j, k) \in Nat /\ sp[j] \in Reg
  BY <1>1 DEF SpillOffset
<1>3. "load" \in Ops /\ "load" \in QuietOps
  BY DEF Ops, FlatOps, QuietOps
<1>4. \A j \in 1..k : /\ R("load", SpillOffset(j, k), sp[j]) \in Instruction
                      /\ R("load", SpillOffset(j, k), sp[j]).op = "load"
  BY <1>2, <1>3, InstructionType
<1>5. LoadCode(sp, k) \in [1..k -> Instruction] /\ \A j \in 1..k : LoadCode(sp, k)[j].op = "load"
  BY <1>4, Zenon DEF LoadCode
<1>6. LoadCode(sp, k) \in Seq(Instruction) /\ Len(LoadCode(sp, k)) = k
  BY <1>1, <1>5
<1>7. \A j \in 1..Len(LoadCode(sp, k)) : LoadCode(sp, k)[j].op \in QuietOps
  BY <1>3, <1>5, <1>6
<1> QED
  BY <1>6, <1>7, BringsQuiet, Zenon

\* The layout-driven path leaves its stack arguments on the stack, and no spill.
LEMMA LayoutPathBrings ==
    ASSUME NEW sig, NEW L, PathOK(sig, L), NEW region \in Nat, NEW d \in Nat
    PROVE  Brings(LayoutPath(sig, L, region), d, d + region)
<1> DEFINE rs == Concat([i \in 1..Len(sig.args) |-> PathRegs(sig, L, i)])
           m == Len(Spilled(sig, L))
           e == d + region
<1>1. e \in Nat /\ Brings(Sub(region), d, e)
  BY BringsSub
<1>2. rs \in Seq(Reg) /\ \A a \in Nat :
         Brings(Concat([i \in 1..Len(sig.args) |-> SpillCode(sig, L, i)]), a, a + Len(rs))
  BY AllSpills, Zenon
<1>3. Brings(Concat([i \in 1..Len(sig.args) |-> StoredCode(sig, L, i)]), e, e)
  BY <1>1, AllStored, Zenon
<1>4. PICK s \in Nat : Brings(SretCode(sig), e, e + s) /\ SretRegs(sig) \in Seq(Reg)
                          /\ Len(SretRegs(sig)) = s
  <2>1. CASE PathSret(sig)
    <3>1. SretRegs(sig) = <<GP(0)>> /\ SretCode(sig) = <<I("eval", 0), I("push", 0)>>
      BY <2>1, Zenon DEF SretRegs, SretCode
    <3>2. GP(0) \in Reg
      BY DEF GP, Reg
    <3>3. <<GP(0)>> \in Seq(Reg) /\ Len(<<GP(0)>>) = 1 /\ 0 \in Nat /\ 1 \in Nat
      BY <3>2
    <3>4. Brings(<<I("eval", 0), I("push", 0)>>, e, e + 1)
      BY <1>1, <3>3, EvalPushBrings, Zenon
    <3> QED
      BY <3>1, <3>3, <3>4, Zenon
  <2>2. CASE ~PathSret(sig)
    <3>1. SretRegs(sig) = <<>> /\ SretCode(sig) = <<>>
      BY <2>2, Zenon DEF SretRegs, SretCode
    <3>2. <<>> \in Seq(Reg) /\ Len(<<>>) = 0 /\ e + 0 = e /\ 0 \in Nat
      BY <1>1
    <3>3. Brings(<<>>, e, e)
      BY <1>1, BringsNil, Zenon
    <3> QED
      BY <3>1, <3>2, <3>3, Zenon
  <2> QED
    BY <2>1, <2>2
<1>5. Spilled(sig, L) \in Seq(Reg) /\ m = s + Len(rs)
  <2>1. Spilled(sig, L) = SretRegs(sig) \o rs
    BY Zenon DEF Spilled
  <2> HIDE DEF rs
  <2> QED
    BY <1>2, <1>4, <2>1, ConcatProperties, Zenon
<1>6. Len(rs) \in Nat /\ m \in Nat
  BY <1>2, <1>5, LenProperties, Zenon
<1> HIDE DEF rs, m, e
<1>7. e + s \in Nat /\ e + m \in Nat /\ (e + s) + Len(rs) = e + m
  <2>1. \A a, b, c \in Nat : c = b + a => e + b \in Nat /\ e + c \in Nat /\ (e + b) + a = e + c
    BY <1>1
  <2> QED
    BY <1>5, <1>6, <2>1, Zenon
<1>8. Brings(Concat([i \in 1..Len(sig.args) |-> SpillCode(sig, L, i)]), e + s, e + m)
  <2>1. Brings(Concat([i \in 1..Len(sig.args) |-> SpillCode(sig, L, i)]), e + s, (e + s) + Len(rs))
    BY <1>2, <1>7, Zenon
  <2> QED
    BY <1>7, <2>1, Zenon
<1>9. Brings(LoadCode(Spilled(sig, L), m), e + m, e + m)
  BY <1>5, <1>7, LoadBrings, Zenon DEF m
<1>10. Brings(Add(m), e + m, e)
  BY <1>1, <1>6, BringsSub, Zenon
<1>11. Brings(Sub(region) \o Concat([i \in 1..Len(sig.args) |-> StoredCode(sig, L, i)])
                \o SretCode(sig), d, e + s)
  BY <1>1, <1>3, <1>4, BringsJoin3, Zenon
<1>12. Brings(Sub(region) \o Concat([i \in 1..Len(sig.args) |-> StoredCode(sig, L, i)])
                \o SretCode(sig) \o Concat([i \in 1..Len(sig.args) |-> SpillCode(sig, L, i)])
                \o LoadCode(Spilled(sig, L), m), d, e + m)
  BY <1>8, <1>9, <1>11, BringsJoin3, Zenon
<1>13. Brings(Sub(region) \o Concat([i \in 1..Len(sig.args) |-> StoredCode(sig, L, i)])
                \o SretCode(sig) \o Concat([i \in 1..Len(sig.args) |-> SpillCode(sig, L, i)])
                \o LoadCode(Spilled(sig, L), m) \o Add(m), d, e)
  BY <1>10, <1>12, BringsJoin, Zenon
<1> QED
  BY <1>13, LayoutPathIs, Zenon DEF m, e

-----------------------------------------------------------------------------
(***************************************************************************)
(* The code of an expression.                                              *)
(***************************************************************************)
LEMMA PaddedEven ==
    ASSUME NEW w \in Nat, NEW d \in Nat
    PROVE  /\ Padded(w, d) \in Nat /\ Padded(w, d) - w \in Nat
           /\ w + (Padded(w, d) - w) = Padded(w, d) /\ (Padded(w, d) - w) + w = Padded(w, d)
           /\ (d + Padded(w, d)) % 2 = 0
<1>1. PICK r \in Nat : r = (d + w) % 2 /\ (r = 0 \/ r = 1)
  <2>1. (d + w) % 2 \in 0..1
    OBVIOUS
  <2> QED
    BY <2>1
<1>2. Padded(w, d) = w + r
  BY <1>1 DEF Padded
<1>3. (d + (w + r)) % 2 = 0
  BY <1>1
<1>4. w + r \in Nat /\ (w + r) - w \in Nat /\ w + ((w + r) - w) = w + r
      /\ ((w + r) - w) + w = w + r
  OBVIOUS
<1> QED
  BY <1>2, <1>3, <1>4

LEMMA StackPathBrings ==
    ASSUME NEW n \in Nat, NEW m \in Nat, NGP \in Nat, n = NGP + m, NEW pad \in Nat, NEW d \in Nat
    PROVE  Brings(StackPath(n, pad), d, d + (pad + m))
<1>1. d + pad \in Nat /\ (d + pad) + m \in Nat /\ (d + pad) + m = d + (pad + m)
      /\ ((d + pad) + m) + NGP \in Nat
  OBVIOUS
<1>2. Brings(Sub(pad), d, d + pad)
  BY BringsSub, Zenon
<1>3. Brings(PushStackArgs(n), d + pad, (d + pad) + m)
  BY <1>1, PushStackArgsBrings, Zenon
<1>4. Brings(PushAll(NGP), (d + pad) + m, ((d + pad) + m) + NGP)
  BY <1>1, PushAllBrings, Zenon
<1>5. Brings(PopAll(NGP), ((d + pad) + m) + NGP, (d + pad) + m)
  BY <1>1, PopAllBrings, Zenon
<1>6. Brings(Sub(pad) \o PushStackArgs(n) \o PushAll(NGP), d, ((d + pad) + m) + NGP)
  BY <1>2, <1>3, <1>4, BringsJoin3, Zenon
<1>7. Brings(Sub(pad) \o PushStackArgs(n) \o PushAll(NGP) \o PopAll(NGP), d, (d + pad) + m)
  BY <1>5, <1>6, BringsJoin, Zenon
<1> QED
  BY <1>1, <1>7, Zenon DEF StackPath

LEMMA CallBrings ==
    ASSUME NEW n \in Nat, NEW d \in Nat
    PROVE  /\ d % 2 = 0 => Brings(<<I("call", 0)>>, d, d)
           /\ Brings(<<I("padcall", 0)>>, d, d)
           /\ Brings(<<I("loadfn", n)>>, d, d)
           /\ Brings(<<I("popfn", 0)>>, d + 1, d)
<1>1. /\ "call" \in Ops /\ "padcall" \in Ops /\ "loadfn" \in Ops /\ "popfn" \in Ops
      /\ "padcall" \in QuietOps /\ "loadfn" \in QuietOps /\ "popfn" \in PopOps
  BY DEF Ops, FlatOps, QuietOps, PopOps
<1>2. 0 \in Nat
  OBVIOUS
<1> QED
  BY <1>1, <1>2, BringsOp, Zenon

LEMMA DirectCallBrings ==
    ASSUME NEW sig, sig.args \in Seq(Classes), NEW d \in Nat, NGP \in Nat
    PROVE  Brings(DirectCall(sig, d), d, d)
<1> DEFINE n == Len(sig.args)
           L == compute_call_layout(sig.args, Sret(sig))
           region == Padded(L.stack_words, d)
           area == Padded(n - NGP, d)
           layout == sig.ret # "gp" \/ HasSpecial(sig.args)
<1>1. n \in Nat
  OBVIOUS
<1>2. L.stack_words \in Nat /\ PathOK(sig, L)
  <2>1. Sret(sig) \in BOOLEAN
    BY DEF Sret
  <2> QED
    BY <2>1, LayoutType, Zenon DEF PathOK
<1>3. CASE layout
  <2>1. DirectCall(sig, d) = LayoutPath(sig, L, region) \o <<I("call", 0)>> \o Add(region)
    BY <1>3 DEF DirectCall
  <2> HIDE DEF L
  <2>2. region \in Nat /\ d + region \in Nat /\ (d + region) % 2 = 0
    <3>1. region \in Nat /\ (d + region) % 2 = 0
      BY <1>2, PaddedEven, Zenon
    <3> QED
      BY <3>1
  <2> HIDE DEF region
  <2>3. Brings(LayoutPath(sig, L, region), d, d + region)
    BY <1>2, <2>2, LayoutPathBrings, Zenon
  <2>4. Brings(<<I("call", 0)>>, d + region, d + region)
    BY <2>2, CallBrings, Zenon
  <2>5. Brings(Add(region), d + region, d)
    BY <2>2, BringsSub, Zenon
  <2> QED
    BY <2>1, <2>3, <2>4, <2>5, BringsJoin3, Zenon
<1>4. CASE ~layout /\ n <= NGP
  <2>1. DirectCall(sig, d) = PushAll(n) \o PopAll(n) \o <<I("padcall", 0)>>
    BY <1>4 DEF DirectCall
  <2> HIDE DEF n
  <2>2. Brings(PushAll(n), d, d + n) /\ Brings(PopAll(n), d + n, d)
    BY <1>1, PushAllBrings, PopAllBrings, Zenon
  <2>3. Brings(<<I("padcall", 0)>>, d, d)
    BY <1>1, CallBrings, Zenon
  <2> QED
    BY <2>1, <2>2, <2>3, BringsJoin3, Zenon
<1>5. CASE ~layout /\ ~(n <= NGP)
  <2>1. DirectCall(sig, d) = StackPath(n, area - (n - NGP)) \o <<I("call", 0)>> \o Add(area)
    BY <1>5 DEF DirectCall
  <2>2. PICK m \in Nat : m = n - NGP /\ n = NGP + m
    BY <1>1, <1>5
  <2> HIDE DEF n
  <2>3. /\ area \in Nat /\ area - m \in Nat /\ (area - m) + m = area
        /\ (d + area) % 2 = 0
    BY <2>2, PaddedEven, Zenon
  <2>4. d + area \in Nat
    BY <2>3
  <2> HIDE DEF area
  <2>5. Brings(StackPath(n, area - m), d, d + ((area - m) + m))
    BY <1>1, <2>2, <2>3, StackPathBrings, Zenon
  <2>6. Brings(StackPath(n, area - (n - NGP)), d, d + area)
    BY <2>2, <2>3, <2>5, Zenon
  <2>7. Brings(<<I("call", 0)>>, d + area, d + area)
    BY <1>1, <2>3, <2>4, CallBrings, Zenon
  <2>8. Brings(Add(area), d + area, d)
    BY <2>3, BringsSub, Zenon
  <2> QED
    BY <2>1, <2>6, <2>7, <2>8, BringsJoin3, Zenon
<1> QED
  BY <1>3, <1>4, <1>5, Zenon

LEMMA CallThroughBrings ==
    ASSUME NEW n \in Nat, NEW d \in Nat, d % 2 = 0
    PROVE  Brings(<<I("loadfn", n), I("call", 0)>>, d, d)
<1>1. Brings(<<I("loadfn", n)>>, d, d) /\ Brings(<<I("call", 0)>>, d, d)
  BY CallBrings, Zenon
<1>2. Brings(<<I("loadfn", n)>> \o <<I("call", 0)>>, d, d)
  BY <1>1, BringsJoin, Zenon
<1> QED
  BY <1>2, PairIs, Zenon

LEMMA IndirectCallBrings ==
    ASSUME NEW sig, sig.args \in Seq(Classes), NEW e \in Nat, NGP \in Nat
    PROVE  Brings(IndirectCall(sig, e), e, e)
<1> DEFINE n == Len(sig.args)
           d == e + 1
           kinds == [i \in 1..n |-> IF sig.args[i] = "fp" THEN "fp" ELSE "gp"]
           L == compute_call_layout(kinds, FALSE)
           region == Padded(L.stack_words, d)
           area == Padded(n - NGP, d)
           fp == \E i \in 1..n : kinds[i] = "fp"
           through == LayoutPath(sig, L, region)
                        \o <<I("loadfn", region), I("call", 0)>> \o Add(region + 1)
           scalar == PushAll(n) \o PopAll(n) \o <<I("popfn", 0), I("padcall", 0)>>
           long == StackPath(n, area - (n - NGP))
                      \o <<I("loadfn", CalleeSlot(n, area)), I("call", 0)>>
                      \o Add(Cleanup(area))
           code == CASE fp -> through [] ~fp /\ n <= NGP -> scalar [] OTHER -> long
<1>0. IndirectCall(sig, e) = <<I("eval", 0), I("push", 0)>> \o code
  BY Zenon DEF IndirectCall
<1>1. n \in Nat /\ d \in Nat
  OBVIOUS
<1>2. L.stack_words \in Nat /\ PathOK(sig, L)
  <2>1. \A i \in 1..n : (IF sig.args[i] = "fp" THEN "fp" ELSE "gp") \in Classes
    BY DEF Classes
  <2>2. kinds \in [1..n -> Classes]
    BY <2>1, Zenon
  <2> HIDE DEF kinds
  <2>3. kinds \in Seq(Classes) /\ Len(kinds) = n
    BY <1>1, <2>2
  <2>4. L.stack_words \in Nat /\ \A i \in 1..Len(kinds) : L.items[i] \in SlotType
    BY <2>3, LayoutType, Zenon
  <2>5. \A i \in 1..n : L.items[i] \in SlotType
    BY <2>3, <2>4, Zenon
  <2> QED
    BY <2>4, <2>5, Zenon DEF PathOK
<1>3. Brings(<<I("eval", 0), I("push", 0)>>, e, d)
  <2>1. 0 \in Nat
    OBVIOUS
  <2> QED
    BY <2>1, EvalPushBrings, Zenon
<1>4. Brings(through, d, e)
  <2> HIDE DEF L, kinds, d
  <2>1. region \in Nat /\ (d + region) % 2 = 0
    BY <1>1, <1>2, PaddedEven, Zenon
  <2> HIDE DEF region
  <2>2. d + region \in Nat /\ region + 1 \in Nat /\ e + (region + 1) = d + region
    BY <2>1 DEF d
  <2>3. Brings(LayoutPath(sig, L, region), d, d + region)
    BY <1>1, <1>2, <2>1, LayoutPathBrings, Zenon
  <2>4. Brings(<<I("loadfn", region), I("call", 0)>>, d + region, d + region)
    BY <2>1, <2>2, CallThroughBrings, Zenon
  <2>5. Brings(Add(region + 1), e + (region + 1), e)
    BY <2>2, BringsSub, Zenon
  <2>6. Brings(Add(region + 1), d + region, e)
    BY <2>2, <2>5, Zenon
  <2> QED
    BY <2>3, <2>4, <2>6, BringsJoin3, Zenon
<1>5. Brings(scalar, d, e)
  <2> HIDE DEF n
  <2>1. Brings(PushAll(n), d, d + n) /\ Brings(PopAll(n), d + n, d)
    BY <1>1, PushAllBrings, PopAllBrings, Zenon
  <2>2. Brings(<<I("popfn", 0)>>, d, e) /\ Brings(<<I("padcall", 0)>>, e, e)
    BY <1>1, CallBrings, Zenon
  <2>3. Brings(<<I("popfn", 0), I("padcall", 0)>>, d, e)
    BY <2>2, BringsJoin, PairIs, Zenon
  <2> QED
    BY <2>1, <2>3, BringsJoin3, Zenon
<1>6. CASE fp
  <2>1. code = through
    <3> HIDE DEF fp, through, scalar, long, n
    <3> QED
      BY <1>6
  <2> HIDE DEF code, through
  <2> QED
    BY <1>0, <1>3, <1>4, <2>1, BringsJoin, Zenon
<1>7. CASE ~fp /\ n <= NGP
  <2>1. code = scalar
    <3> HIDE DEF fp, through, scalar, long, n
    <3> QED
      BY <1>7
  <2> HIDE DEF code, scalar
  <2> QED
    BY <1>0, <1>3, <1>5, <2>1, BringsJoin, Zenon
<1>8. CASE ~fp /\ ~(n <= NGP)
  <2>1. code = long
    <3> HIDE DEF fp, through, scalar, long, n
    <3> QED
      BY <1>8
  <2>2. PICK m \in Nat : m = n - NGP /\ n = NGP + m
    <3> HIDE DEF fp
    <3> QED
      BY <1>1, <1>8
  <2>10. Brings(long, d, e)
    <3> HIDE DEF n, d
    <3>1. /\ area \in Nat /\ area - m \in Nat /\ (area - m) + m = area
          /\ (d + area) % 2 = 0
      BY <1>1, <2>2, PaddedEven, Zenon
    <3> HIDE DEF area
    <3>2. d + area \in Nat /\ area + 1 \in Nat /\ e + (area + 1) = d + area
      BY <3>1 DEF d
    <3>3. Brings(StackPath(n, area - m), d, d + ((area - m) + m))
      BY <1>1, <2>2, <3>1, StackPathBrings, Zenon
    <3>4. Brings(StackPath(n, area - (n - NGP)), d, d + area)
      BY <2>2, <3>1, <3>3, Zenon
    <3>5. Brings(<<I("loadfn", CalleeSlot(n, area)), I("call", 0)>>, d + area, d + area)
      BY <3>1, <3>2, CallThroughBrings, Zenon DEF CalleeSlot
    <3>6. Brings(Add(area + 1), e + (area + 1), e)
      BY <3>2, BringsSub, Zenon
    <3>7. Brings(Add(Cleanup(area)), d + area, e)
      BY <3>2, <3>6, Zenon DEF Cleanup
    <3> QED
      BY <3>4, <3>5, <3>7, BringsJoin3, Zenon
  <2> HIDE DEF code, long
  <2> QED
    BY <1>0, <1>3, <2>1, <2>10, BringsJoin, Zenon
<1> HIDE DEF fp, n
<1> QED
  BY <1>6, <1>7, <1>8, Zenon

\* Code that pushes nothing and jumps only within itself.
LEMMA BringsFlat ==
    ASSUME NEW t \in Seq(Instruction), NEW d \in Nat,
           \A i \in 1..Len(t) : /\ t[i].op \in FlatOps /\ t[i].op # "call"
                                /\ IsJumpOp(t[i]) => i + t[i].n <= Len(t)
    PROVE  Brings(t, d, d)
<1>1. PICK h : h \in [Nat -> Nat] /\ \A i \in Nat : h[i] = d
  <2> DEFINE h == [i \in Nat |-> d]
  <2>1. h \in [Nat -> Nat] /\ \A i \in Nat : h[i] = d
    OBVIOUS
  <2> HIDE DEF h
  <2> QED
    BY <2>1
<1>2. ASSUME NEW i \in 1..Len(t)
      PROVE  Changes(t[i], h[i], h[i + 1]) /\ Lands(t, h, i)
  <2>1. i \in Nat /\ i + 1 \in Nat /\ h[i] = d /\ h[i + 1] = d
    BY <1>1
  <2>2. t[i].op \in FlatOps /\ t[i].op # "call"
    OBVIOUS
  <2>3. Changes(t[i], d, d)
    BY <2>2 DEF Changes, FlatOps, PopOps
  <2>4. t[i] \in Instruction
    OBVIOUS
  <2>5. t[i].n \in Nat
    BY <2>4 DEF Instruction
  <2>6. h[i + t[i].n + 1] = h[i]
    <3>1. \A k \in Nat : i + k + 1 \in Nat
      BY <2>1
    <3> QED
      BY <1>1, <2>1, <2>5, <3>1, Zenon
  <2>7. Lands(t, h, i)
    BY <2>6, Zenon DEF Lands, IsJumpOp
  <2> QED
    BY <2>1, <2>3, <2>7, Zenon
<1>3. Tracks(t, h)
  BY <1>1, <1>2, Zenon DEF Tracks
<1>4. h[1] = d /\ h[Len(t) + 1] = d
  BY <1>1
<1> QED
  BY <1>3, <1>4, Zenon DEF Brings

LEMMA EvalBrings ==
    ASSUME NEW i \in Nat, NEW d \in Nat
    PROVE  Brings(<<I("eval", i)>>, d, d) /\ Brings(<<I("addr", i)>>, d, d)
<1>1. "eval" \in Ops /\ "eval" \in QuietOps /\ "addr" \in Ops /\ "addr" \in QuietOps
  BY DEF Ops, FlatOps, QuietOps
<1> QED
  BY <1>1, BringsOp, Zenon

LEMMA AboveBrings ==
    ASSUME NEW a \in Nat, NEW i \in Nat, NEW d \in Nat
    PROVE  Brings(Above(a, i), d, d)
<1>1. "push" \in Ops /\ "eval" \in Ops /\ "eval" \in QuietOps /\ "popleft" \in Ops
      /\ "popleft" \in PopOps
  BY DEF Ops, FlatOps, QuietOps, PopOps
<1> DEFINE x == I("push", 1)
           y == I("eval", i)
           z == I("popleft", a)
<1>2. x \in Instruction /\ y \in Instruction /\ z \in Instruction
      /\ x.op = "push" /\ y.op = "eval" /\ z.op = "popleft"
  BY <1>1, InstructionType
<1> HIDE DEF x, y, z
<1> DEFINE t == <<x, y, z>>
           h == [k \in Nat |-> IF k = 2 \/ k = 3 THEN d + 1 ELSE d]
<1>3. t \in Seq(Instruction) /\ Len(t) = 3 /\ t[1] = x /\ t[2] = y /\ t[3] = z
  BY <1>2
<1>4. h \in [Nat -> Nat] /\ h[1] = d /\ h[2] = d + 1 /\ h[3] = d + 1 /\ h[4] = d
  OBVIOUS
<1> HIDE DEF t, h
<1>5. /\ Changes(x, d, d + 1) /\ Changes(y, d + 1, d + 1) /\ Changes(z, d + 1, d)
      /\ ~IsJumpOp(x) /\ ~IsJumpOp(y) /\ ~IsJumpOp(z)
  BY <1>2 DEF Changes, FlatOps, PopOps, IsJumpOp
<1>6. 1 + 1 = 2 /\ 2 + 1 = 3 /\ 3 + 1 = 4 /\ \A k \in 1..3 : k = 1 \/ k = 2 \/ k = 3
  OBVIOUS
<1>7. ASSUME NEW k \in 1..3 PROVE Changes(t[k], h[k], h[k + 1]) /\ Lands(t, h, k)
  <2>1. Changes(t[1], h[1], h[1 + 1]) /\ Changes(t[2], h[2], h[2 + 1])
        /\ Changes(t[3], h[3], h[3 + 1])
    BY <1>3, <1>4, <1>5, <1>6, Zenon
  <2>2. ~IsJumpOp(t[1]) /\ ~IsJumpOp(t[2]) /\ ~IsJumpOp(t[3])
    BY <1>3, <1>5, Zenon
  <2>3. Lands(t, h, 1) /\ Lands(t, h, 2) /\ Lands(t, h, 3)
    BY <2>2, Zenon DEF Lands, IsJumpOp
  <2> QED
    BY <1>6, <2>1, <2>3, Zenon
<1>8. Tracks(t, h)
  BY <1>3, <1>4, <1>7, Zenon DEF Tracks
<1>9. Brings(t, d, d)
  BY <1>3, <1>4, <1>6, <1>8, Zenon DEF Brings
<1> QED
  BY <1>9 DEF t, x, y, z, Above

LEMMA OperatorsBring ==
    ASSUME NEW d \in Nat
    PROVE  /\ Brings(Binary, d, d) /\ Brings(emit_array_index_addr, d, d)
           /\ Brings(AssignMember, d, d) /\ Brings(AssignDeref, d, d)
           /\ Brings(AssignElement, d, d) /\ Brings(AssignVariable, d, d)
           /\ Brings(Unary, d, d) /\ Brings(IncDec, d, d) /\ Brings(AddressOf, d, d)
           /\ Brings(Deref, d, d) /\ Brings(MemberAccess, d, d)
<1>1. 1 \in Nat /\ 2 \in Nat /\ 3 \in Nat /\ 4 \in Nat
  OBVIOUS
<1>2. /\ Brings(<<I("eval", 1)>>, d, d) /\ Brings(<<I("eval", 2)>>, d, d)
      /\ Brings(<<I("addr", 4)>>, d, d)
  BY <1>1, EvalBrings, Zenon
<1>3. Brings(Above(1, 2), d, d) /\ Brings(Above(2, 1), d, d) /\ Brings(Above(4, 3), d, d)
  BY <1>1, AboveBrings, Zenon
<1>4. Brings(<<I("eval", 1)>> \o Above(1, 2), d, d) /\ Brings(<<I("eval", 2)>> \o Above(2, 1), d, d)
  BY <1>2, <1>3, BringsJoin, Zenon
<1>5. Brings(emit_array_index_addr, d, d)
  BY <1>4, Zenon DEF emit_array_index_addr
<1>6. Brings(AssignElement, d, d)
  BY <1>2, <1>3, <1>5, BringsJoin3, Zenon DEF AssignElement
<1> QED
  BY <1>2, <1>4, <1>5, <1>6, Zenon DEF Binary, AssignMember, AssignDeref, AssignVariable, Unary,
     IncDec, AddressOf, Deref, MemberAccess

LEMMA BranchesBring ==
    ASSUME NEW d \in Nat
    PROVE  /\ Brings(Logical, d, d) /\ Brings(Conditional, d, d) /\ Brings(Comma, d, d)
           /\ Brings(CompoundLiteral, d, d)
<1>1. "eval" \in Ops /\ "jcc" \in Ops /\ "jmp" \in Ops /\ "eval" \in FlatOps /\ "jcc" \in FlatOps
      /\ "jmp" \in FlatOps
  BY DEF Ops, FlatOps
<1>2. \A k \in Nat : /\ I("eval", k) \in Instruction /\ I("eval", k).op = "eval"
                     /\ I("jcc", k) \in Instruction /\ I("jcc", k).op = "jcc" /\ I("jcc", k).n = k
                     /\ I("jmp", k) \in Instruction /\ I("jmp", k).op = "jmp" /\ I("jmp", k).n = k
  BY <1>1, InstructionType
<1>3. PICK e1, e2, e3, j1, j2, m1 :
         /\ e1 = I("eval", 1) /\ e2 = I("eval", 2) /\ e3 = I("eval", 3)
         /\ j1 = I("jcc", 1) /\ j2 = I("jcc", 2) /\ m1 = I("jmp", 1)
  OBVIOUS
<1>4. /\ e1 \in Instruction /\ e2 \in Instruction /\ e3 \in Instruction
      /\ j1 \in Instruction /\ j2 \in Instruction /\ m1 \in Instruction
      /\ e1.op = "eval" /\ e2.op = "eval" /\ e3.op = "eval" /\ j1.op = "jcc" /\ j2.op = "jcc"
      /\ m1.op = "jmp" /\ j1.n = 1 /\ j2.n = 2 /\ m1.n = 1
  <2>1. 1 \in Nat /\ 2 \in Nat /\ 3 \in Nat
    OBVIOUS
  <2> QED
    BY <1>2, <1>3, <2>1, Zenon
<1>5. Logical = <<e1, j1, e2>> /\ Conditional = <<e1, j2, e2, m1, e3>> /\ Comma = <<e1, e2>>
      /\ CompoundLiteral = <<e1, e2, e3>>
  BY <1>3, Zenon DEF Logical, Conditional, Comma, CompoundLiteral
<1>6. Brings(<<e1, j1, e2>>, d, d)
  <2>1. PICK t : t = <<e1, j1, e2>>
    OBVIOUS
  <2>2. t \in Seq(Instruction) /\ Len(t) = 3 /\ t[1] = e1 /\ t[2] = j1 /\ t[3] = e2
    BY <1>4, <2>1
  <2>3. ASSUME NEW i \in 1..Len(t)
        PROVE  t[i].op \in FlatOps /\ t[i].op # "call" /\ (IsJumpOp(t[i]) => i + t[i].n <= Len(t))
    <3>1. i = 1 \/ i = 2 \/ i = 3
      BY <2>2
    <3> QED
      BY <1>4, <2>2, <3>1 DEF FlatOps, IsJumpOp
  <2>4. Brings(t, d, d)
    BY <2>2, <2>3, BringsFlat, Zenon
  <2> QED
    BY <2>1, <2>4, Zenon
<1>7. Brings(<<e1, j2, e2, m1, e3>>, d, d)
  <2>1. PICK t : t = <<e1, j2, e2, m1, e3>>
    OBVIOUS
  <2>2. /\ t \in Seq(Instruction) /\ Len(t) = 5 /\ t[1] = e1 /\ t[2] = j2 /\ t[3] = e2
        /\ t[4] = m1 /\ t[5] = e3
    BY <1>4, <2>1
  <2>3. ASSUME NEW i \in 1..Len(t)
        PROVE  t[i].op \in FlatOps /\ t[i].op # "call" /\ (IsJumpOp(t[i]) => i + t[i].n <= Len(t))
    <3>1. i = 1 \/ i = 2 \/ i = 3 \/ i = 4 \/ i = 5
      BY <2>2
    <3> QED
      BY <1>4, <2>2, <3>1 DEF FlatOps, IsJumpOp
  <2>4. Brings(t, d, d)
    BY <2>2, <2>3, BringsFlat, Zenon
  <2> QED
    BY <2>1, <2>4, Zenon
<1>8. Brings(<<e1, e2>>, d, d) /\ Brings(<<e1, e2, e3>>, d, d)
  <2>1. PICK t : t = <<e1, e2, e3>>
    OBVIOUS
  <2>2. t \in Seq(Instruction) /\ Len(t) = 3 /\ t[1] = e1 /\ t[2] = e2 /\ t[3] = e3
    BY <1>4, <2>1
  <2>3. \A i \in 1..Len(t) : t[i].op \in QuietOps
    BY <1>4, <2>2 DEF QuietOps
  <2>4. Brings(t, d, d)
    BY <2>2, <2>3, BringsQuiet, Zenon
  <2>5. PICK u : u = <<e1, e2>>
    OBVIOUS
  <2>6. u \in Seq(Instruction) /\ Len(u) = 2 /\ u[1] = e1 /\ u[2] = e2
    BY <1>4, <2>5
  <2>7. \A i \in 1..Len(u) : u[i].op \in QuietOps
    BY <1>4, <2>6 DEF QuietOps
  <2>8. Brings(u, d, d)
    BY <2>6, <2>7, BringsQuiet, Zenon
  <2> QED
    BY <2>1, <2>4, <2>5, <2>8, Zenon
<1> QED
  BY <1>5, <1>6, <1>7, <1>8, Zenon

\* The code of every expression leaves the stack as it finds it, is given an even
\* number of words at each call, and jumps only to where as many are pushed.
LEMMA EmissionBrings ==
    ASSUME NEW sig, IsSig(sig), NEW d \in Nat, NGP \in Nat
    PROVE  Brings(Emission(sig, d), d, d)
<1>1. sig.args \in Seq(Classes)
  BY DEF IsSig
<1>2. sig.kind \in {"direct", "indirect", "unary", "inc_dec", "address_of", "deref", "member",
                    "binary", "index", "logical", "comma", "assign_var", "assign_member",
                    "assign_deref", "assign_element", "conditional", "literal"}
  BY DEF IsSig, Operators
<1>3. Brings(DirectCall(sig, d), d, d) /\ Brings(IndirectCall(sig, d), d, d)
  BY <1>1, DirectCallBrings, IndirectCallBrings
<1>4. PICK k : k = sig.kind
  OBVIOUS
<1> DEFINE B(c) == Brings(c, d, d)
<1>5. /\ B(DirectCall(sig, d)) /\ B(IndirectCall(sig, d)) /\ B(Binary) /\ B(emit_array_index_addr)
      /\ B(AssignMember) /\ B(AssignDeref) /\ B(AssignElement) /\ B(AssignVariable) /\ B(Unary)
      /\ B(IncDec) /\ B(AddressOf) /\ B(Deref) /\ B(MemberAccess) /\ B(Logical)
      /\ B(Conditional) /\ B(Comma) /\ B(CompoundLiteral)
  BY <1>3, OperatorsBring, BranchesBring, Zenon
<1> HIDE DEF B
<1>6. B(Emission(sig, d))
  BY <1>2, <1>5 DEF Emission
<1> QED
  BY <1>6 DEF B

-----------------------------------------------------------------------------
(***************************************************************************)
(* The expressions being evaluated.                                        *)
(***************************************************************************)
WordType == [call : Nat, arg : Nat, word : Int]
OpenCall == [id : Nat, sig : OuterCalls \cup InnerCalls, value : WordType, words : Nat,
             todo : Seq(Instruction)]

\* What is left of the code of each open expression brings the stack from where
\* the one nested in it leaves it, or from the m words that are there now, back
\* to where it was when that expression began.
Held(fs, m) ==
    /\ fs \in Seq(OpenCall)
    /\ \A k \in 1..Len(fs) :
          Brings(fs[k].todo, IF k = Len(fs) THEN m ELSE fs[k + 1].words, fs[k].words)

CallInv ==
    /\ stack \in Seq(WordType) /\ push_depth = Len(stack)
    /\ acc \in WordType
    /\ calls \in Nat
    /\ Held(open, Len(stack))

LEMMA HeadBrings ==
    ASSUME NEW t, NEW d, NEW e, Brings(t, d, e), t # <<>>
    PROVE  /\ Head(t) \in Instruction
           /\ \E c \in Nat : Changes(Head(t), d, c) /\ Brings(Tail(t), c, e)
           /\ IsJumpOp(Head(t)) => Brings(SubSeq(t, 2 + Head(t).n, Len(t)), d, e)
<1>1. t \in Seq(Instruction)
  BY DEF Brings
<1>2. PICK h : Tracks(t, h) /\ h[1] = d /\ h[Len(t) + 1] = e
  BY DEF Brings
<1>3. Len(t) \in Nat /\ Len(t) >= 1 /\ Head(t) = t[1] /\ t[1] \in Instruction
      /\ Tail(t) = SubSeq(t, 2, Len(t))
  BY <1>1
<1>4. 1 \in 1..Len(t) /\ 1 \in 0..Len(t) /\ 1 + 1 = 2 /\ 2 \in Nat
  BY <1>3
<1>5. Changes(t[1], h[1], h[2]) /\ Lands(t, h, 1) /\ h \in [Nat -> Nat]
  BY <1>2, <1>4 DEF Tracks
<1>6. h[2] \in Nat
  BY <1>4, <1>5
<1>7. Brings(SubSeq(t, 1 + 1, Len(t)), h[1 + 1], h[Len(t) + 1])
  BY <1>1, <1>2, <1>4, BringsRest, Zenon
<1>8. Changes(Head(t), d, h[2]) /\ Brings(Tail(t), h[2], e)
  BY <1>2, <1>3, <1>4, <1>5, <1>7, Zenon
<1>9. ASSUME IsJumpOp(Head(t)) PROVE Brings(SubSeq(t, 2 + Head(t).n, Len(t)), d, e)
  <2>1. PICK n \in Nat : n = t[1].n /\ n = Head(t).n
    BY <1>3 DEF Instruction
  <2>2. 1 + n <= Len(t) /\ h[1 + n + 1] = d
    BY <1>2, <1>3, <1>5, <1>9, <2>1 DEF Lands, IsJumpOp
  <2>3. 1 + n \in 0..Len(t) /\ 1 + n + 1 = 2 + n
    BY <1>3, <2>2
  <2>4. Brings(SubSeq(t, 1 + n + 1, Len(t)), h[1 + n + 1], h[Len(t) + 1])
    BY <1>1, <1>2, <2>3, BringsRest, Zenon
  <2> QED
    BY <1>2, <2>1, <2>2, <2>3, <2>4, Zenon
<1> QED
  BY <1>3, <1>6, <1>8, <1>9, Zenon

LEMMA HeldReplace ==
    ASSUME NEW fs, NEW m, NEW l, NEW u, Held(fs, m), fs # <<>>, Brings(u, l, fs[Len(fs)].words)
    PROVE  Held([fs EXCEPT ![Len(fs)].todo = u], l)
<1> DEFINE n == Len(fs)
           gs == [fs EXCEPT ![n].todo = u]
<1>1. fs \in Seq(OpenCall) /\ n \in Nat /\ n \in 1..n /\ fs[n] \in OpenCall
  BY DEF Held
<1>2. u \in Seq(Instruction)
  BY BringsNat, Zenon
<1>3. PICK g : g = [fs[n] EXCEPT !.todo = u]
  OBVIOUS
<1>4. g \in OpenCall /\ g.todo = u /\ g.words = fs[n].words
  <2>1. g \in OpenCall
    BY <1>1, <1>2, <1>3, Zenon DEF OpenCall
  <2> QED
    BY <1>1, <1>3, <2>1 DEF OpenCall
<1>5. gs = [fs EXCEPT ![n] = g]
  BY <1>3
<1>6. /\ gs \in Seq(OpenCall) /\ Len(gs) = n
      /\ \A j \in 1..n : gs[j] = IF j = n THEN g ELSE fs[j]
  BY <1>1, <1>4, <1>5, ExceptSeq
<1> HIDE DEF gs
<1>7. ASSUME NEW k \in 1..n
      PROVE  Brings(gs[k].todo, IF k = n THEN l ELSE gs[k + 1].words, gs[k].words)
  <2>1. CASE k = n
    BY <1>4, <1>6, <2>1
  <2>2. CASE k # n
    <3>1. k + 1 \in 1..n
      BY <1>1, <2>2
    <3>2. gs[k] = fs[k]
      BY <1>6, <2>2, Zenon
    <3>3. gs[k + 1].words = fs[k + 1].words
      <4>1. CASE k + 1 = n
        BY <1>4, <1>6, <3>1, <4>1
      <4>2. CASE k + 1 # n
        BY <1>6, <3>1, <4>2
      <4> QED
        BY <4>1, <4>2
    <3>4. Brings(fs[k].todo, IF k = n THEN m ELSE fs[k + 1].words, fs[k].words)
      BY Zenon DEF Held
    <3> QED
      BY <2>2, <3>2, <3>3, <3>4, Zenon
  <2> QED
    BY <2>1, <2>2
<1>8. Held(gs, l)
  BY <1>6, <1>7, Zenon DEF Held
<1> QED
  BY <1>8, Zenon DEF gs

LEMMA HeldAppend ==
    ASSUME NEW fs, NEW m, Held(fs, m), NEW f \in OpenCall, f.words = m, Brings(f.todo, m, m)
    PROVE  Held(Append(fs, f), m)
<1> DEFINE n == Len(fs)
           gs == Append(fs, f)
<1>1. fs \in Seq(OpenCall) /\ n \in Nat
  BY DEF Held
<1>2. /\ gs \in Seq(OpenCall) /\ Len(gs) = n + 1
      /\ \A i \in 1..n : gs[i] = fs[i]
      /\ gs[n + 1] = f
  BY <1>1, AppendProperties
<1> HIDE DEF gs
<1>3. ASSUME NEW k \in 1..(n + 1)
      PROVE  Brings(gs[k].todo, IF k = n + 1 THEN m ELSE gs[k + 1].words, gs[k].words)
  <2>1. CASE k = n + 1
    BY <1>2, <2>1, Zenon
  <2>2. CASE k # n + 1
    <3>1. k \in 1..n
      BY <1>1, <2>2
    <3>2. Brings(fs[k].todo, IF k = n THEN m ELSE fs[k + 1].words, fs[k].words)
      BY <3>1, Zenon DEF Held
    <3>3. gs[k + 1].words = IF k = n THEN m ELSE fs[k + 1].words
      <4>1. CASE k = n
        BY <1>2, <4>1, Zenon
      <4>2. CASE k # n
        <5>1. k + 1 \in 1..n
          BY <1>1, <3>1, <4>2
        <5> QED
          BY <1>2, <4>2, <5>1, Zenon
      <4> QED
        BY <4>1, <4>2
    <3> QED
      BY <1>2, <2>2, <3>1, <3>2, <3>3, Zenon
  <2> QED
    BY <2>1, <2>2
<1>4. Held(gs, m)
  BY <1>2, <1>3, Zenon DEF Held
<1> QED
  BY <1>4 DEF gs

LEMMA FrontIs ==
    ASSUME NEW S, NEW s \in Seq(S), NEW m \in 0..Len(s)
    PROVE  /\ SubSeq(s, 1, m) \in Seq(S) /\ Len(SubSeq(s, 1, m)) = m
           /\ \A i \in 1..m : SubSeq(s, 1, m)[i] = s[i]
<1>1. m \in Nat /\ 1 \in Nat /\ \A i \in 1..m : s[i] \in S
  OBVIOUS
<1>2. /\ SubSeq(s, 1, m) \in Seq(S)
      /\ Len(SubSeq(s, 1, m)) = IF 1 <= m THEN m - 1 + 1 ELSE 0
      /\ \A i \in 1..(m - 1 + 1) : SubSeq(s, 1, m)[i] = s[1 + i - 1]
  BY <1>1, SubSeqProperties
<1>3. (IF 1 <= m THEN m - 1 + 1 ELSE 0) = m /\ m - 1 + 1 = m
  BY <1>1
<1>4. \A i \in 1..m : 1 + i - 1 = i
  OBVIOUS
<1>5. PICK r : r = SubSeq(s, 1, m)
  OBVIOUS
<1>6. r \in Seq(S) /\ Len(r) = m /\ \A i \in 1..m : r[i] = s[i]
  BY <1>2, <1>3, <1>4, <1>5
<1> QED
  BY <1>5, <1>6, Zenon

LEMMA HeldDrop ==
    ASSUME NEW fs, NEW m, Held(fs, m), fs # <<>>, fs[Len(fs)].todo = <<>>
    PROVE  fs[Len(fs)].words = m /\ Held(SubSeq(fs, 1, Len(fs) - 1), m)
<1> DEFINE n == Len(fs)
           gs == SubSeq(fs, 1, n - 1)
<1>1. fs \in Seq(OpenCall) /\ n \in Nat /\ n \in 1..n
  BY DEF Held
<1>2. Brings(<<>>, m, fs[n].words)
  <2>1. Brings(fs[n].todo, IF n = n THEN m ELSE fs[n + 1].words, fs[n].words)
    BY <1>1, Zenon DEF Held
  <2> QED
    BY <2>1, Zenon
<1>3. fs[n].words = m
  <2>1. Len(<<>>) + 1 = 1
    OBVIOUS
  <2> QED
    BY <1>2, <2>1, Zenon DEF Brings
<1>4. gs \in Seq(OpenCall) /\ Len(gs) = n - 1 /\ \A i \in 1..(n - 1) : gs[i] = fs[i]
  <2>1. n - 1 \in 0..n
    BY <1>1
  <2> QED
    BY <1>1, <2>1, FrontIs, Zenon
<1> HIDE DEF gs
<1>5. ASSUME NEW k \in 1..(n - 1)
      PROVE  Brings(gs[k].todo, IF k = n - 1 THEN m ELSE gs[k + 1].words, gs[k].words)
  <2>1. k \in 1..n /\ k # n
    BY <1>1
  <2>2. Brings(fs[k].todo, IF k = n THEN m ELSE fs[k + 1].words, fs[k].words)
    BY <2>1, Zenon DEF Held
  <2>3. Brings(fs[k].todo, fs[k + 1].words, fs[k].words)
    BY <2>1, <2>2, Zenon
  <2>4. (IF k = n - 1 THEN m ELSE gs[k + 1].words) = fs[k + 1].words
    <3>1. CASE k = n - 1
      <4>1. k + 1 = n
        BY <1>1, <3>1
      <4> QED
        BY <1>3, <3>1, <4>1, Zenon
    <3>2. CASE k # n - 1
      <4>1. k + 1 \in 1..(n - 1)
        BY <1>1, <3>2
      <4> QED
        BY <1>4, <3>2, <4>1, Zenon
    <3> QED
      BY <3>1, <3>2
  <2> QED
    BY <1>4, <2>3, <2>4, Zenon
<1>6. Held(gs, m)
  BY <1>4, <1>5, Zenon DEF Held
<1> QED
  BY <1>3, <1>6 DEF gs

-----------------------------------------------------------------------------
(***************************************************************************)
(* The actions.                                                            *)
(***************************************************************************)
LEMMA WordIs ==
    ASSUME NEW c \in Nat, NEW a \in Nat, NEW w \in Int
    PROVE  Word(c, a, w) \in WordType /\ Junk \in WordType
  BY DEF Word, Junk, WordType

LEMMA OfIs ==
    ASSUME acc \in WordType, NEW w \in Int
    PROVE  Of(w) \in WordType
  BY Zenon DEF Of, WordType

LEMMA HeldNil ==
    ASSUME NEW m PROVE Held(<<>>, m)
  BY DEF Held

\* The next instruction is one the code allows here, and what follows it is held
\* by the number of words it leaves.
LEMMA ConsumeHeld ==
    ASSUME CallInv, open # <<>>, Top.todo # <<>>
    PROVE  /\ Head0 \in Instruction /\ Top \in OpenCall
           /\ \E c \in Nat : Changes(Head0, Len(stack), c) /\ Held(Consume, c)
           /\ IsJumpOp(Head0) =>
                 Held([open EXCEPT ![Len(open)].todo = SubSeq(@, 2 + Head0.n, Len(@))], Len(stack))
<1>1. Held(open, Len(stack))
  BY DEF CallInv
<1>2. open \in Seq(OpenCall) /\ Len(open) \in 1..Len(open) /\ Top \in OpenCall
  BY <1>1 DEF Held, Top
<1>3. Brings(Top.todo, Len(stack), Top.words)
  <2>1. Brings(open[Len(open)].todo,
               IF Len(open) = Len(open) THEN Len(stack) ELSE open[Len(open) + 1].words,
               open[Len(open)].words)
    BY <1>1, <1>2, Zenon DEF Held
  <2> QED
    BY <2>1, Zenon DEF Top
<1>4. /\ Head0 \in Instruction
      /\ \E c \in Nat : Changes(Head0, Len(stack), c) /\ Brings(Tail(Top.todo), c, Top.words)
      /\ IsJumpOp(Head0) =>
            Brings(SubSeq(Top.todo, 2 + Head0.n, Len(Top.todo)), Len(stack), Top.words)
  BY <1>3, HeadBrings, Zenon DEF Head0
<1>5. \A u, l : Brings(u, l, Top.words) => Held([open EXCEPT ![Len(open)].todo = u], l)
  BY <1>1, HeldReplace, Zenon DEF Top
<1>6. Consume = [open EXCEPT ![Len(open)].todo = Tail(Top.todo)]
  BY DEF Consume, Top
<1>7. [open EXCEPT ![Len(open)].todo = SubSeq(@, 2 + Head0.n, Len(@))]
        = [open EXCEPT ![Len(open)].todo = SubSeq(Top.todo, 2 + Head0.n, Len(Top.todo))]
  BY DEF Top
<1> QED
  BY <1>2, <1>4, <1>5, <1>6, <1>7, Zenon

\* An instruction that leaves the number of words.
LEMMA FlatHeld ==
    ASSUME CallInv, NEW op \in FlatOps, At(op)
    PROVE  /\ Held(Consume, Len(stack)) /\ Head0 \in Instruction /\ Top \in OpenCall
           /\ Head0.op = op /\ (op = "call" => Len(stack) % 2 = 0)
<1>1. open # <<>> /\ Top.todo # <<>> /\ Head0.op = op
  BY DEF At
<1>2. PICK c \in Nat : Changes(Head0, Len(stack), c) /\ Held(Consume, c)
  BY <1>1, ConsumeHeld, Zenon
<1>3. c = Len(stack) /\ (op = "call" => Len(stack) % 2 = 0)
  BY <1>1, <1>2, Zenon DEF Changes
<1> QED
  BY <1>1, <1>2, <1>3, ConsumeHeld, Zenon

LEMMA BeginKeeps ==
    ASSUME CallInv, NEW sig \in OuterCalls \cup InnerCalls, NEW frames, NEW value \in WordType,
           Held(frames, Len(stack)), Begin(sig, frames, value)
    PROVE  CallInv'
<1> DEFINE f == [id |-> calls + 1, sig |-> sig, value |-> value, words |-> Len(stack),
                 todo |-> Emission(sig, push_depth)]
<1>1. Len(stack) \in Nat /\ push_depth = Len(stack) /\ calls \in Nat /\ calls + 1 \in Nat
  BY DEF CallInv
<1>2. Brings(Emission(sig, Len(stack)), Len(stack), Len(stack))
  <2>1. IsSig(sig) /\ NGP \in Nat
    BY CallsAssumption
  <2> QED
    BY <1>1, <2>1, EmissionBrings, Zenon
<1>3. Emission(sig, push_depth) \in Seq(Instruction)
  BY <1>1, <1>2, BringsNat, Zenon
<1>4. f \in OpenCall /\ f.words = Len(stack) /\ f.todo = Emission(sig, push_depth)
  BY <1>1, <1>3, Zenon DEF OpenCall
<1>5. open' = Append(frames, f) /\ calls' = calls + 1
      /\ UNCHANGED <<stack, push_depth, acc>>
  BY DEF Begin
<1> HIDE DEF f
<1>6. Held(Append(frames, f), Len(stack))
  BY <1>1, <1>2, <1>4, HeldAppend, Zenon
<1> QED
  BY <1>1, <1>5, <1>6 DEF CallInv

LEMMA InitHolds == Init_Calls => CallInv
<1> SUFFICES ASSUME Init_Calls PROVE CallInv
  OBVIOUS
<1>1. Junk \in WordType
  BY WordIs
<1>2. PICK d \in 0..1 : push_depth = d /\ stack = [i \in 1..d |-> Junk]
  BY DEF Init_Calls
<1>3. stack \in Seq(WordType) /\ Len(stack) = d
  BY <1>1, <1>2
<1>4. acc \in WordType /\ calls \in Nat /\ open = <<>>
  BY <1>1 DEF Init_Calls
<1> QED
  BY <1>2, <1>3, <1>4, HeldNil DEF CallInv

LEMMA StartHolds ==
    ASSUME CallInv, Start PROVE CallInv'
<1>1. PICK sig \in OuterCalls : Begin(sig, <<>>, Junk)
  BY DEF Start
<1>2. Junk \in WordType /\ sig \in OuterCalls \cup InnerCalls
  BY WordIs
<1> QED
  BY <1>1, <1>2, HeldNil, BeginKeeps, Zenon

LEMMA OperandIs ==
    ASSUME Top \in OpenCall, NEW i \in Nat
    PROVE  Operand(i) \in WordType
<1>1. Top.id \in Nat /\ 0 \in Int
  BY DEF OpenCall
<1>2. Word(Top.id, i, 0) \in WordType /\ Junk \in WordType
  BY <1>1, WordIs, Zenon
<1> QED
  BY <1>2, Zenon DEF Operand

LEMMA EvalHolds ==
    ASSUME CallInv, Eval PROVE CallInv'
<1>0. "eval" \in FlatOps
  BY DEF FlatOps
<1>1. Held(Consume, Len(stack)) /\ Head0 \in Instruction /\ Top \in OpenCall
  BY <1>0, FlatHeld, Zenon DEF Eval
<1>2. Head0.n \in Nat
  BY <1>1 DEF Instruction
<1>3. Operand(Head0.n) \in WordType
  BY <1>1, <1>2, OperandIs, Zenon
<1>4. CASE acc' = Operand(Head0.n) /\ open' = Consume
           /\ UNCHANGED <<stack, push_depth, regs, r10, calls>>
  BY <1>1, <1>3, <1>4 DEF CallInv
<1>5. CASE \E sig \in InnerCalls : Begin(sig, Consume, Operand(Head0.n))
  <2>1. PICK sig \in InnerCalls : Begin(sig, Consume, Operand(Head0.n))
    BY <1>5
  <2>2. sig \in OuterCalls \cup InnerCalls
    OBVIOUS
  <2> QED
    BY <1>1, <1>3, <2>1, <2>2, BeginKeeps, Zenon
<1> QED
  BY <1>4, <1>5, Zenon DEF Eval

LEMMA AddressHolds ==
    ASSUME CallInv, Address PROVE CallInv'
<1>0. "addr" \in FlatOps
  BY DEF FlatOps
<1>1. Held(Consume, Len(stack)) /\ Head0 \in Instruction /\ Top \in OpenCall
  BY <1>0, FlatHeld, Zenon DEF Address
<1>2. Head0.n \in Nat /\ Top.id \in Nat /\ 0 \in Int
  BY <1>1 DEF Instruction, OpenCall
<1>3. Word(Top.id, Head0.n, 0) \in WordType
  BY <1>2, WordIs, Zenon
<1>4. acc' = Word(Top.id, Head0.n, 0) /\ open' = Consume
      /\ UNCHANGED <<stack, push_depth, calls>>
  BY DEF Address
<1> QED
  BY <1>1, <1>3, <1>4 DEF CallInv

LEMMA JumpHolds ==
    ASSUME CallInv, Jump PROVE CallInv'
<1>1. open # <<>> /\ Top.todo # <<>> /\ IsJumpOp(Head0)
  BY DEF Jump, At, IsJumpOp
<1>2. Held([open EXCEPT ![Len(open)].todo = SubSeq(@, 2 + Head0.n, Len(@))], Len(stack))
  BY <1>1, ConsumeHeld, Zenon
<1>3. At("jcc") => Held(Consume, Len(stack))
  <2>1. "jcc" \in FlatOps
    BY DEF FlatOps
  <2> QED
    BY <2>1, FlatHeld, Zenon
<1>4. /\ \/ open' = [open EXCEPT ![Len(open)].todo = SubSeq(@, 2 + Head0.n, Len(@))]
         \/ At("jcc") /\ open' = Consume
      /\ UNCHANGED <<stack, push_depth, acc, calls>>
  BY Zenon DEF Jump
<1>5. Held(open', Len(stack))
  BY <1>2, <1>3, <1>4, Zenon
<1> QED
  BY <1>4, <1>5 DEF CallInv

LEMMA PushHolds ==
    ASSUME CallInv, Push PROVE CallInv'
<1>0. stack \in Seq(WordType) /\ push_depth = Len(stack) /\ Len(stack) \in Nat /\ acc \in WordType
  BY DEF CallInv
<1>1. open # <<>> /\ Top.todo # <<>> /\ (Head0.op = "push" \/ Head0.op = "sub")
  BY DEF Push, At
<1>2. PICK c \in Nat : Changes(Head0, Len(stack), c) /\ Held(Consume, c) /\ Head0 \in Instruction
  BY <1>1, ConsumeHeld, Zenon
<1>3. Head0.n \in Nat
  BY <1>2 DEF Instruction
<1>4. open' = Consume /\ UNCHANGED <<acc, calls>>
  BY DEF Push
<1>5. CASE At("push") /\ stack' = Append(stack, Of(Head0.n)) /\ push_depth' = push_depth + 1
  <2>1. Head0.n \in Int
    BY <1>3
  <2>2. Of(Head0.n) \in WordType
    BY <1>0, <2>1, OfIs, Zenon
  <2>3. stack' \in Seq(WordType) /\ Len(stack') = Len(stack) + 1
    BY <1>0, <1>5, <2>2, AppendProperties
  <2>4. c = Len(stack) + 1
    BY <1>2, <1>5, Zenon DEF Changes, At
  <2>5. Held(open', Len(stack'))
    BY <1>2, <1>4, <2>3, <2>4, Zenon
  <2>6. push_depth' = Len(stack')
    BY <1>0, <1>5, <2>3, Zenon
  <2> QED
    BY <1>4, <2>3, <2>5, <2>6 DEF CallInv
<1>6. CASE /\ At("sub")
           /\ stack' = stack \o [k \in 1..Head0.n |-> Junk]
           /\ push_depth' = push_depth + Head0.n
  <2>1. PICK n \in Nat : n = Head0.n
    BY <1>3
  <2>2. PICK j : j = [k \in 1..n |-> Junk]
    OBVIOUS
  <2>3. j \in Seq(WordType) /\ Len(j) = n
    <3>1. Junk \in WordType
      BY WordIs
    <3> QED
      BY <2>2, <3>1
  <2>4. stack' = stack \o j
    BY <1>6, <2>1, <2>2, Zenon
  <2>5. stack' \in Seq(WordType) /\ Len(stack') = Len(stack) + n
    BY <1>0, <2>3, <2>4, ConcatProperties, Zenon
  <2>6. c = Len(stack) + n
    BY <1>2, <1>6, <2>1, Zenon DEF Changes, At
  <2>7. Held(open', Len(stack'))
    BY <1>2, <1>4, <2>5, <2>6, Zenon
  <2>8. push_depth' = Len(stack')
    BY <1>0, <1>6, <2>1, <2>5, Zenon
  <2> QED
    BY <1>4, <2>5, <2>7, <2>8 DEF CallInv
<1> QED
  BY <1>5, <1>6, Zenon DEF Push

LEMMA StoreHolds ==
    ASSUME CallInv, Store PROVE CallInv'
<1>0. stack \in Seq(WordType) /\ push_depth = Len(stack) /\ Len(stack) \in Nat /\ acc \in WordType
  BY DEF CallInv
<1>1. "store" \in FlatOps
  BY DEF FlatOps
<1>2. Held(Consume, Len(stack)) /\ Head0 \in Instruction
  BY <1>1, FlatHeld, Zenon DEF Store
<1>3. Head0.n \in Nat /\ Head0.reg \in Reg
  BY <1>2 DEF Instruction
<1>4. Head0.reg.no \in Int
  BY <1>3 DEF Reg
<1>5. Head0.reg.no + 1 \in Int
  BY <1>4
<1>6. PICK v \in WordType : v = Of(Head0.reg.no + 1)
  BY <1>0, <1>5, OfIs, Zenon
<1>7. PICK i \in Int : i = Len(stack) - Head0.n
  BY <1>0, <1>3
<1>8. stack' = [stack EXCEPT ![i] = v] /\ open' = Consume /\ UNCHANGED <<push_depth, acc, calls>>
  BY <1>6, <1>7 DEF Store
<1>9. stack' \in Seq(WordType) /\ Len(stack') = Len(stack)
  <2>1. CASE i \in 1..Len(stack)
    BY <1>0, <1>8, <2>1, ExceptSeq
  <2>2. CASE i \notin 1..Len(stack)
    <3>1. stack \in [1..Len(stack) -> WordType]
      BY <1>0
    <3>2. stack' = stack
      BY <1>8, <2>2, <3>1
    <3> QED
      BY <1>0, <3>2
  <2> QED
    BY <2>1, <2>2
<1>10. Held(open', Len(stack'))
  BY <1>2, <1>8, <1>9, Zenon
<1> QED
  BY <1>0, <1>8, <1>9, <1>10 DEF CallInv

LEMMA ShrinkHolds ==
    ASSUME CallInv, NEW n \in Nat, NEW c \in Nat, c + n = Len(stack), Held(Consume, c),
           Shrink(n), open' = Consume, acc' = acc, calls' = calls
    PROVE  CallInv'
<1>0. stack \in Seq(WordType) /\ push_depth = Len(stack) /\ Len(stack) \in Nat
  BY DEF CallInv
<1>1. Len(stack) - n = c /\ c \in 0..Len(stack)
  BY <1>0
<1>2. stack' = SubSeq(stack, 1, c) /\ push_depth' = c
  BY <1>0, <1>1, Zenon DEF Shrink
<1>3. stack' \in Seq(WordType) /\ Len(stack') = c
  BY <1>0, <1>1, <1>2, FrontIs, Zenon
<1> QED
  BY <1>2, <1>3 DEF CallInv

LEMMA PopHolds ==
    ASSUME CallInv, Pop PROVE CallInv'
<1>1. open # <<>> /\ Top.todo # <<>>
      /\ (Head0.op = "pop" \/ Head0.op = "popfn" \/ Head0.op = "popleft" \/ Head0.op = "add")
  BY DEF Pop, At
<1>2. PICK c \in Nat : Changes(Head0, Len(stack), c) /\ Held(Consume, c) /\ Head0 \in Instruction
  BY <1>1, ConsumeHeld, Zenon
<1>3. Head0.n \in Nat /\ 1 \in Nat
  BY <1>2 DEF Instruction
<1>4. open' = Consume /\ acc' = acc /\ calls' = calls
  BY DEF Pop
<1>5. CASE (At("pop") \/ At("popfn") \/ At("popleft")) /\ Shrink(1)
  <2>1. Head0.op \in PopOps
    BY <1>5 DEF At, PopOps
  <2>2. c + 1 = Len(stack)
    BY <1>2, <2>1, Zenon DEF Changes
  <2> QED
    BY <1>2, <1>3, <1>4, <1>5, <2>2, ShrinkHolds, Zenon
<1>6. CASE At("add") /\ Shrink(Head0.n)
  <2>1. c + Head0.n = Len(stack)
    BY <1>2, <1>6, Zenon DEF Changes, At
  <2> QED
    BY <1>2, <1>3, <1>4, <1>6, <2>1, ShrinkHolds, Zenon
<1> QED
  BY <1>5, <1>6, Zenon DEF Pop

LEMMA LoadHolds ==
    ASSUME CallInv, Load PROVE CallInv'
<1>0. "load" \in FlatOps /\ "loadfn" \in FlatOps
  BY DEF FlatOps
<1>1. Held(Consume, Len(stack))
  BY <1>0, FlatHeld, Zenon DEF Load
<1>2. open' = Consume /\ UNCHANGED <<stack, push_depth, acc, calls>>
  BY DEF Load
<1> QED
  BY <1>1, <1>2 DEF CallInv

LEMMA CallHolds ==
    ASSUME CallInv, Call PROVE CallInv'
<1>0. "call" \in FlatOps /\ "padcall" \in FlatOps
  BY DEF FlatOps
<1>1. Held(Consume, Len(stack))
  BY <1>0, FlatHeld, Zenon DEF Call
<1>2. open' = Consume /\ UNCHANGED <<stack, push_depth, acc, calls>>
  BY DEF Call
<1> QED
  BY <1>1, <1>2 DEF CallInv

LEMMA EndHolds ==
    ASSUME CallInv, End PROVE CallInv'
<1>1. open # <<>> /\ Top.todo = <<>> /\ open' = Outer /\ acc' = Top.value
      /\ UNCHANGED <<stack, push_depth, calls>>
  BY DEF End
<1>2. Held(open, Len(stack))
  BY DEF CallInv
<1>3. Held(Outer, Len(stack))
  BY <1>1, <1>2, HeldDrop, Zenon DEF Top, Outer
<1>4. Top \in OpenCall
  BY <1>1, <1>2 DEF Held, Top
<1>5. Top.value \in WordType
  BY <1>4 DEF OpenCall
<1> QED
  BY <1>1, <1>3, <1>5 DEF CallInv

(***************************************************************************)
(* The theorems.                                                           *)
(***************************************************************************)
LEMMA CallInvAlways == Spec_Calls => []CallInv
<1>1. CallInv /\ [Next_Calls]_call_vars => CallInv'
  <2> SUFFICES ASSUME CallInv, [Next_Calls]_call_vars PROVE CallInv'
    OBVIOUS
  <2>1. CASE UNCHANGED call_vars
    BY <2>1 DEF call_vars, CallInv
  <2> QED
    BY <2>1, StartHolds, EvalHolds, AddressHolds, JumpHolds, PushHolds, StoreHolds, PopHolds,
       LoadHolds, CallHolds, EndHolds, Zenon DEF Next_Calls
<1> QED
  BY <1>1, InitHolds, PTL DEF Spec_Calls

\* codegen's push_depth is the number of words on the run-time stack before every
\* instruction of every expression, however deeply calls and operators nest,
\* whatever their signatures and the number of argument registers, and every
\* expression leaves the stack as it found it.
THEOREM DepthAlwaysTrue == Spec_Calls => []DepthIsTrue
<1>1. CallInv => DepthIsTrue
  <2> SUFFICES ASSUME CallInv PROVE DepthIsTrue
    OBVIOUS
  <2>1. push_depth = Len(stack) /\ Held(open, Len(stack))
    BY DEF CallInv
  <2>2. open # <<>> /\ Top.todo = <<>> => Len(stack) = Top.words
    BY <2>1, HeldDrop, Zenon DEF Top
  <2> QED
    BY <2>1, <2>2 DEF DepthIsTrue
<1> QED
  BY <1>1, CallInvAlways, PTL

\* rsp is 16-byte aligned at every call instruction, whatever was spilled around
\* the call and however many of its arguments are passed on the stack.
THEOREM CallsAlwaysAligned == Spec_Calls => []CallsAligned
<1>1. CallInv => CallsAligned
  <2> SUFFICES ASSUME CallInv, AtCall PROVE CallsAligned
    BY DEF CallsAligned
  <2>1. PICK d \in Nat : d = Len(stack) /\ d = push_depth
    BY DEF CallInv
  <2>2. CASE At("padcall")
    <3>1. (d + (d % 2)) % 2 = 0
      OBVIOUS
    <3> QED
      BY <2>1, <2>2, <3>1 DEF CallsAligned
  <2>3. CASE ~At("padcall")
    <3>1. At("call") /\ "call" \in FlatOps
      BY <2>3 DEF AtCall, FlatOps
    <3>2. d % 2 = 0
      BY <2>1, <3>1, FlatHeld, Zenon
    <3>3. (d + 0) % 2 = 0
      BY <3>2
    <3> QED
      BY <2>1, <2>3, <3>3 DEF CallsAligned
  <2> QED
    BY <2>2, <2>3
<1> QED
  BY <1>1, CallInvAlways, PTL
=============================================================================
