---------------------------- MODULE LayoutProofs ----------------------------
(***************************************************************************)
(* Proofs about Layout: for any tags, scalar types, bit-field widths and   *)
(* any nesting of bodies, members of a struct lie one behind the other and *)
(* inside it, all members are aligned in every element of an array of the  *)
(* type, a complete type is never changed, and what a pointer refers to    *)
(* can still be completed.                                                 *)
(*                                                                         *)
(* The invariant describes a body between two of its declarators.  Its     *)
(* members end before "extent"; while a storage unit is open, the unit is  *)
(* the last thing before "extent" and the members end before the bits that *)
(* are used in it.  A placeholder has no alignment and no members; all     *)
(* other types have a size that is a multiple of their alignment.          *)
(***************************************************************************)
EXTENDS Layout, TLAPS, SequenceTheorems

Aligns == {1, 2, 4, 8}

FieldKinds == {"bit-field", "member", "flexible"}

Fields == [kind : FieldKinds, offset : Nat, bit_offset : Nat, bits : Nat,
           align : Aligns, unit : Nat]

Tagged == {"tagged"} \X (Nat \ {0})
Bases == {NoBase} \cup ({"scalar"} \X Scalars) \cup Tagged

AnyKind == Kinds \cup {"file"}

Bodies ==
    [kind : AnyKind, tag : Tags \cup {NoTag}, extent : Nat,
     max_align : Aligns, bf_unit_offset : Int, bf_unit_size : Nat,
     bf_bits_used : Nat, bf_unit_align : Aligns, has_flexible_array : BOOLEAN,
     fields : Seq(Fields), base : Bases]

Types ==
    [kind : AnyKind, size : Nat, alignment : Aligns \cup {0}, fields : Seq(Fields)]

\* The shape of the state.
TypeInv ==
    /\ types \in Seq(Types)
    /\ tags \in [Kinds -> [Tags -> Nat]]
    /\ open \in Seq(Bodies) /\ Len(open) \in Nat \ {0}
    /\ parts \in Nat
    /\ refs \subseteq [qualified : BOOLEAN, type : Nat]
    /\ \A kind \in Kinds, tag \in Tags : tags[kind][tag] \in 0..Len(types)

\* A member placed in a type or body of the given extent and alignment.
Placed(f, extent, alignment) ==
    /\ f.offset % f.align = 0
    /\ f.align <= alignment
    /\ f.bit_offset + f.bits <= 8 * f.unit
    /\ EndBit(f) <= 8 * extent

AllPlaced(fields, extent, alignment) ==
    \A i \in DOMAIN fields : Placed(fields[i], extent, alignment)

\* Every member ends before the next one starts.
Ordered(fields) ==
    \A i, j \in DOMAIN fields : i < j => EndBit(fields[i]) <= FirstBit(fields[j])

EndBefore(fields, bit) == \A i \in DOMAIN fields : EndBit(fields[i]) <= bit

\* The open storage unit of a body, if any, is its last part, and the bits of
\* the unit that are not yet used are free.
UnitOK(b) ==
    b.bf_unit_offset # -1 =>
        /\ b.bf_unit_offset >= 0
        /\ b.bf_unit_offset + b.bf_unit_size = b.extent
        /\ b.bf_unit_offset % b.bf_unit_align = 0
        /\ b.bf_unit_align <= b.max_align
        /\ EndBefore(b.fields, 8 * b.bf_unit_offset + b.bf_bits_used)

BodyOK(b) ==
    /\ AllPlaced(b.fields, b.extent, b.max_align)
    /\ b.kind = "struct" => Ordered(b.fields)
    /\ b.extent = 0 => b.fields = <<>> /\ b.max_align = 1
    /\ b.kind \notin Kinds => b.tag = NoTag
    /\ UnitOK(b)

Placeholder(t) == t.size = 0 /\ t.alignment = 0 /\ t.fields = <<>>

Complete(t) ==
    /\ t.size > 0 /\ t.alignment \in Aligns
    /\ t.size % t.alignment = 0
    /\ AllPlaced(t.fields, t.size, t.alignment)
    /\ t.kind = "struct" => Ordered(t.fields)

HeapInv == \A t \in DOMAIN types : Placeholder(types[t]) \/ Complete(types[t])

\* A type on the heap that, while it is a placeholder, is the type of some tag.
Owned(t) ==
    /\ t \in 1..Len(types)
    /\ types[t].size = 0 => \E kind \in Kinds, tag \in Tags : tags[kind][tag] = t

BaseOK(base) == base \in Tagged => Owned(base[2])

OpenInv == \A i \in DOMAIN open : BodyOK(open[i]) /\ BaseOK(open[i].base)

RefOK(r) == r.type \in 1..Len(types) /\ (~r.qualified => Owned(r.type))

RefInv == \A r \in refs : RefOK(r)

IInv == TypeInv /\ HeapInv /\ OpenInv /\ RefInv

-----------------------------------------------------------------------------
(***************************************************************************)
(* Arithmetic.                                                             *)
(***************************************************************************)

\* Rounding up reaches a multiple of the alignment.
LEMMA RoundUpFacts ==
    ASSUME NEW n \in Nat, NEW a \in Aligns
    PROVE  RoundUp(n, a) \in Nat /\ n <= RoundUp(n, a) /\ RoundUp(n, a) % a = 0
<1>1. CASE a = 1
  BY <1>1 DEF RoundUp
<1>2. CASE a = 2
  BY <1>2 DEF RoundUp
<1>3. CASE a = 4
  BY <1>3 DEF RoundUp
<1>4. CASE a = 8
  BY <1>4 DEF RoundUp
<1> QED
  BY <1>1, <1>2, <1>3, <1>4 DEF Aligns

\* The larger of two numbers is one of them.
LEMMA LargerFacts ==
    ASSUME NEW m \in Nat, NEW n \in Nat
    PROVE  /\ Larger(m, n) \in Nat /\ m <= Larger(m, n) /\ n <= Larger(m, n)
           /\ Larger(m, n) \in {m, n}
BY DEF Larger

\* Sizes and alignments are made positive.
LEMMA AtLeast1Facts ==
    ASSUME NEW n \in Nat
    PROVE  /\ AtLeast1(n) \in Nat /\ AtLeast1(n) > 0 /\ n <= AtLeast1(n)
           /\ n > 0 => AtLeast1(n) = n
           /\ n \in Aligns \cup {0} => AtLeast1(n) \in Aligns
BY DEF AtLeast1, Aligns

\* An alignment divides every larger one.
LEMMA AlignsDivide ==
    ASSUME NEW a \in Aligns, NEW b \in Aligns, a <= b
    PROVE  b % a = 0
<1>1. CASE a = 1
  BY <1>1 DEF Aligns
<1>2. CASE a = 2
  BY <1>2 DEF Aligns
<1>3. CASE a = 4
  BY <1>3 DEF Aligns
<1>4. CASE a = 8
  BY <1>4 DEF Aligns
<1> QED
  BY <1>1, <1>2, <1>3, <1>4 DEF Aligns

\* The total size of a body covers its extent and is a multiple of its
\* alignment; the one byte of an empty body is, because nothing was aligned.
LEMMA TotalSizeFacts ==
    ASSUME NEW b \in Bodies, BodyOK(b)
    PROVE  /\ TotalSize(b) \in Nat /\ TotalSize(b) > 0
           /\ b.extent <= TotalSize(b)
           /\ TotalSize(b) % b.max_align = 0
<1>1. b.extent \in Nat /\ b.max_align \in Aligns
  BY DEF Bodies
<1> DEFINE n == RoundUp(b.extent, b.max_align)
<1>2. n \in Nat /\ b.extent <= n /\ n % b.max_align = 0
  BY <1>1, RoundUpFacts
<1>3. TotalSize(b) = AtLeast1(n)
  BY DEF TotalSize
<1> HIDE DEF n
<1>4. CASE n > 0
  BY <1>1, <1>2, <1>3, <1>4, AtLeast1Facts
<1>5. CASE n = 0
  <2>1. b.extent = 0
    BY <1>1, <1>2, <1>5
  <2>2. b.max_align = 1
    BY <2>1 DEF BodyOK
  <2>3. TotalSize(b) = 1
    BY <1>3, <1>5 DEF AtLeast1
  <2> QED
    BY <2>1, <2>2, <2>3
<1> QED
  BY <1>2, <1>4, <1>5

-----------------------------------------------------------------------------
(***************************************************************************)
(* Members.                                                                *)
(***************************************************************************)

\* The bits of a member are numbers.
LEMMA BitFacts ==
    ASSUME NEW f \in Fields
    PROVE  FirstBit(f) \in Nat /\ EndBit(f) \in Nat /\ FirstBit(f) <= EndBit(f)
BY DEF Fields, FirstBit, EndBit

\* What was placed stays placed when extent and alignment grow.
LEMMA PlacedGrows ==
    ASSUME NEW f \in Fields, NEW e \in Nat, NEW e2 \in Nat, NEW a \in Nat, NEW a2 \in Nat,
           Placed(f, e, a), e <= e2, a <= a2
    PROVE  Placed(f, e2, a2)
<1>1. f.align \in Nat /\ EndBit(f) \in Nat
  BY BitFacts DEF Fields, Aligns
<1> QED
  BY <1>1 DEF Placed

\* The same for all members.
LEMMA AllPlacedGrows ==
    ASSUME NEW fs \in Seq(Fields), NEW e \in Nat, NEW e2 \in Nat, NEW a \in Nat, NEW a2 \in Nat,
           AllPlaced(fs, e, a), e <= e2, a <= a2
    PROVE  AllPlaced(fs, e2, a2)
<1>1. \A i \in DOMAIN fs : fs[i] \in Fields
  OBVIOUS
<1> QED
  BY <1>1, PlacedGrows DEF AllPlaced

\* The members of a list with one more.
LEMMA AppendFacts ==
    ASSUME NEW fs \in Seq(Fields), NEW f \in Fields
    PROVE  /\ Append(fs, f) \in Seq(Fields)
           /\ \A i \in DOMAIN Append(fs, f) :
                 \/ i \in DOMAIN fs /\ Append(fs, f)[i] = fs[i]
                 \/ i = Len(fs) + 1 /\ Append(fs, f)[i] = f
OBVIOUS

\* A member after all others.
LEMMA OrderedAppend ==
    ASSUME NEW fs \in Seq(Fields), NEW f \in Fields, Ordered(fs),
           EndBefore(fs, FirstBit(f))
    PROVE  Ordered(Append(fs, f))
<1> SUFFICES ASSUME NEW i \in DOMAIN Append(fs, f), NEW j \in DOMAIN Append(fs, f), i < j
             PROVE  EndBit(Append(fs, f)[i]) <= FirstBit(Append(fs, f)[j])
  BY DEF Ordered
<1>1. i \in DOMAIN fs /\ Append(fs, f)[i] = fs[i]
  OBVIOUS
<1>2. CASE j \in DOMAIN fs
  <2>1. Append(fs, f)[j] = fs[j]
    BY <1>2
  <2> QED
    BY <1>1, <1>2, <2>1 DEF Ordered
<1>3. CASE j = Len(fs) + 1
  <2>1. Append(fs, f)[j] = f
    BY <1>3
  <2> QED
    BY <1>1, <2>1 DEF EndBefore
<1> QED
  BY <1>2, <1>3, AppendFacts

\* Of two members in order an assignment to either leaves the other one alone.
LEMMA AltersNeither ==
    ASSUME NEW f \in Fields, NEW g \in Fields, EndBit(f) <= FirstBit(g),
           f.kind # "flexible"
    PROVE  /\ StoredWhole(f) => ~Alters(f, g)
           /\ StoredWhole(g) => ~Alters(g, f)
<1>1. ASSUME NEW h \in Fields, StoredWhole(h)
      PROVE  StoredFirst(h) = FirstBit(h) /\ StoredEnd(h) = EndBit(h)
  <2>1. CASE h.kind = "bit-field"
    <3>1. h.bit_offset \in Nat /\ h.bits \in Nat /\ h.offset \in Nat
      BY DEF Fields
    <3>2. h.bit_offset < 32 /\ h.bit_offset + h.bits <= 32
      BY <1>1, <2>1 DEF StoredWhole
    <3>3. h.bit_offset % 32 = h.bit_offset
      BY <3>1, <3>2
    <3>4. Min32((h.bit_offset % 32) + h.bits) = h.bit_offset + h.bits
      BY <3>1, <3>2, <3>3 DEF Min32
    <3> QED
      BY <2>1, <3>1, <3>3, <3>4 DEF StoredFirst, StoredEnd, FirstBit, EndBit
  <2>2. CASE h.kind # "bit-field"
    BY <2>2 DEF StoredFirst, StoredEnd
  <2> QED
    BY <2>1, <2>2
<1>2. /\ FirstBit(f) \in Nat /\ EndBit(f) \in Nat
      /\ FirstBit(g) \in Nat /\ EndBit(g) \in Nat
  BY BitFacts
<1>3. ASSUME StoredWhole(f) PROVE ~Alters(f, g)
  BY <1>1, <1>2, <1>3 DEF Alters
<1>4. ASSUME StoredWhole(g) PROVE ~Alters(g, f)
  BY <1>1, <1>2, <1>4 DEF Alters
<1> QED
  BY <1>3, <1>4

\* Members in order are apart.
LEMMA OrderedApart ==
    ASSUME NEW fs \in Seq(Fields), Ordered(fs)
    PROVE  StoresApart(fs)
<1> SUFFICES ASSUME NEW i \in DOMAIN fs, NEW j \in DOMAIN fs, i # j,
                    StoredWhole(fs[i]), ~BehindFlexible(fs, i, j)
             PROVE  ~Alters(fs[i], fs[j])
  BY DEF StoresApart
<1>1. fs[i] \in Fields /\ fs[j] \in Fields /\ i \in Nat /\ j \in Nat
  OBVIOUS
<1>2. CASE i < j
  <2>1. EndBit(fs[i]) <= FirstBit(fs[j]) /\ fs[i].kind # "flexible"
    BY <1>2 DEF Ordered, BehindFlexible
  <2> QED
    BY <1>1, <2>1, AltersNeither
<1>3. CASE j < i
  <2>1. EndBit(fs[j]) <= FirstBit(fs[i]) /\ fs[j].kind # "flexible"
    BY <1>1, <1>3 DEF Ordered, BehindFlexible
  <2> QED
    BY <1>1, <2>1, AltersNeither
<1> QED
  BY <1>1, <1>2, <1>3

\* All members end before the extent.
LEMMA PlacedEnds ==
    ASSUME NEW fs, NEW e, NEW a, AllPlaced(fs, e, a)
    PROVE  EndBefore(fs, 8 * e)
BY DEF AllPlaced, Placed, EndBefore

-----------------------------------------------------------------------------
(***************************************************************************)
(* Bodies: what each declarator makes of a body that is in order.          *)
(***************************************************************************)

\* What is in order does not depend on the type of the current declaration.
LEMMA BaseFree ==
    ASSUME NEW b \in Bodies, BodyOK(b), NEW base \in Bases
    PROVE  [b EXCEPT !.base = base] \in Bodies /\ BodyOK([b EXCEPT !.base = base])
<1> DEFINE c == [b EXCEPT !.base = base]
<1>1. c \in Bodies
  BY DEF Bodies
<1>2. /\ c.fields = b.fields /\ c.extent = b.extent /\ c.max_align = b.max_align
      /\ c.kind = b.kind /\ c.tag = b.tag /\ c.bf_unit_offset = b.bf_unit_offset
      /\ c.bf_unit_size = b.bf_unit_size /\ c.bf_bits_used = b.bf_bits_used
      /\ c.bf_unit_align = b.bf_unit_align
  BY DEF Bodies
<1> HIDE DEF c
<1>3. BodyOK(c)
  BY <1>2 DEF BodyOK, UnitOK
<1> QED
  BY <1>1, <1>3 DEF c

\* The end of a declarator.
LEMMA EndDeclaratorOK ==
    ASSUME NEW b \in Bodies, BodyOK(b), NEW last \in BOOLEAN
    PROVE  /\ EndDeclarator(b, last) \in Bodies /\ BodyOK(EndDeclarator(b, last))
           /\ EndDeclarator(b, last).base \in {b.base, NoBase}
<1>1. b.base \in Bases /\ NoBase \in Bases
  BY DEF Bodies, Bases
<1>2. CASE last
  <2>1. EndDeclarator(b, last) = [b EXCEPT !.base = NoBase]
    BY <1>2 DEF EndDeclarator
  <2>2. [b EXCEPT !.base = NoBase].base = NoBase
    BY DEF Bodies
  <2> QED
    BY <1>1, <2>1, <2>2, BaseFree
<1>3. CASE ~last
  <2>1. EndDeclarator(b, last) = b
    BY <1>3 DEF EndDeclarator, Bodies
  <2> QED
    BY <2>1
<1> QED
  BY <1>2, <1>3

\* A body without an open unit.
LEMMA CloseUnitOK ==
    ASSUME NEW b \in Bodies, BodyOK(b)
    PROVE  /\ CloseUnit(b) \in Bodies /\ BodyOK(CloseUnit(b))
           /\ CloseUnit(b).bf_unit_offset = -1
           /\ CloseUnit(b).fields = b.fields /\ CloseUnit(b).extent = b.extent
           /\ CloseUnit(b).kind = b.kind /\ CloseUnit(b).base = b.base
<1> DEFINE c == CloseUnit(b)
<1>0. -1 \in Int /\ 0 \in Nat /\ 1 \in Aligns
  BY DEF Aligns
<1>1. c \in Bodies
  BY <1>0 DEF CloseUnit, Bodies
<1>2. /\ c.fields = b.fields /\ c.extent = b.extent /\ c.max_align = b.max_align
      /\ c.kind = b.kind /\ c.tag = b.tag /\ c.bf_unit_offset = -1 /\ c.base = b.base
  BY DEF CloseUnit, Bodies
<1> HIDE DEF c
<1>3. BodyOK(c)
  BY <1>2 DEF BodyOK, UnitOK
<1> QED
  BY <1>1, <1>2, <1>3 DEF c

\* A member of the given place and size, and a body with one more.
NewField(kind, offset, fsz, falign) ==
    [kind |-> kind, offset |-> offset, bit_offset |-> 0, bits |-> 8 * fsz,
     align |-> falign, unit |-> fsz]

WithMember(b, f, e, flexible) ==
    [b EXCEPT !.extent = e, !.fields = Append(b.fields, f),
              !.max_align = Larger(b.max_align, f.align),
              !.has_flexible_array = flexible]

\* A body in order, in a declaration of the given type.
Good(b, base) == b \in Bodies /\ BodyOK(b) /\ b.base = base

\* A member that starts where all others have ended, or any member of a union.
LEMMA MemberOK ==
    ASSUME NEW b \in Bodies, BodyOK(b), b.bf_unit_offset = -1,
           NEW offset \in Nat, NEW fsz \in Nat, NEW falign \in Aligns, NEW e \in Nat,
           NEW flexible \in BOOLEAN, NEW kind \in FieldKinds,
           offset % falign = 0,
           b.kind # "union" => b.extent <= offset,
           e >= b.extent, e >= offset + fsz, e > 0
    PROVE  Good(WithMember(b, NewField(kind, offset, fsz, falign), e, flexible), b.base)
<1> PICK f : f = NewField(kind, offset, fsz, falign)
  OBVIOUS
<1> PICK c : c = WithMember(b, f, e, flexible)
  OBVIOUS
<1> SUFFICES Good(c, b.base)
  OBVIOUS
<1>0. /\ f = [kind |-> kind, offset |-> offset, bit_offset |-> 0, bits |-> 8 * fsz,
              align |-> falign, unit |-> fsz]
      /\ c = [b EXCEPT !.extent = e, !.fields = Append(b.fields, f),
                       !.max_align = Larger(b.max_align, falign),
                       !.has_flexible_array = flexible]
  BY DEF NewField, WithMember
<1>1. /\ b.fields \in Seq(Fields) /\ b.extent \in Nat /\ b.max_align \in Aligns
      /\ b.max_align \in Nat /\ falign \in Nat
  BY DEF Bodies, Aligns
<1>2. f \in Fields /\ FirstBit(f) = 8 * offset /\ EndBit(f) = 8 * offset + 8 * fsz
  BY <1>0 DEF Fields, FirstBit, EndBit
<1> DEFINE a == Larger(b.max_align, falign)
<1>3. a \in Aligns /\ a \in Nat /\ b.max_align <= a /\ falign <= a
  BY <1>1, LargerFacts
<1>4. Append(b.fields, f) \in Seq(Fields)
  BY <1>1, <1>2, AppendFacts
<1>5. c \in Bodies
  BY <1>0, <1>3, <1>4 DEF Bodies
<1>6. /\ c.fields = Append(b.fields, f) /\ c.extent = e /\ c.max_align = a
      /\ c.kind = b.kind /\ c.tag = b.tag /\ c.bf_unit_offset = -1 /\ c.base = b.base
  BY <1>0 DEF Bodies
<1> HIDE DEF a
<1>7. Placed(f, e, a)
  <2>1. f.offset = offset /\ f.align = falign /\ f.bit_offset = 0 /\ f.bits = 8 * fsz /\ f.unit = fsz
    BY <1>0
  <2>2. EndBit(f) <= 8 * e
    BY <1>2
  <2> QED
    BY <1>3, <2>1, <2>2 DEF Placed
<1>8. AllPlaced(b.fields, e, a)
  BY <1>1, <1>3, AllPlacedGrows DEF BodyOK
<1>9. AllPlaced(c.fields, c.extent, c.max_align)
  <2> SUFFICES ASSUME NEW i \in DOMAIN Append(b.fields, f)
               PROVE  Placed(Append(b.fields, f)[i], e, a)
    BY <1>6 DEF AllPlaced
  <2>1. CASE i \in DOMAIN b.fields /\ Append(b.fields, f)[i] = b.fields[i]
    BY <1>8, <2>1 DEF AllPlaced
  <2>2. CASE Append(b.fields, f)[i] = f
    BY <1>7, <2>2
  <2> QED
    BY <1>1, <1>2, <2>1, <2>2, AppendFacts
<1>10. ASSUME c.kind = "struct" PROVE Ordered(c.fields)
  <2>1. EndBefore(b.fields, 8 * b.extent) /\ b.extent <= offset
    BY <1>6, <1>10, PlacedEnds DEF BodyOK
  <2>2. ASSUME NEW i \in DOMAIN b.fields PROVE EndBit(b.fields[i]) <= FirstBit(f)
    <3>1. EndBit(b.fields[i]) <= 8 * b.extent /\ EndBit(b.fields[i]) \in Nat
      BY <1>1, <2>1, BitFacts DEF EndBefore
    <3> QED
      BY <1>1, <1>2, <2>1, <3>1
  <2>3. EndBefore(b.fields, FirstBit(f))
    BY <2>2 DEF EndBefore
  <2> QED
    BY <1>1, <1>2, <1>6, <1>10, <2>3, OrderedAppend DEF BodyOK
<1>11. BodyOK(c)
  BY <1>6, <1>9, <1>10 DEF BodyOK, UnitOK
<1> QED
  BY <1>5, <1>6, <1>11 DEF Good

\* The body c is b with an open unit of us bytes and room for w bits.
HasRoom(c, b, us, w) ==
    /\ c \in Bodies /\ BodyOK(c)
    /\ c.bf_unit_offset # -1 /\ c.bf_unit_size = us
    /\ c.bf_bits_used = 0 \/ c.bf_bits_used + w <= us * 8
    /\ c.extent > 0
    /\ c.kind = b.kind /\ c.base = b.base /\ c.fields = b.fields

\* A storage unit with room for a bit-field of the given width.
LEMMA WithUnitOK ==
    ASSUME NEW b \in Bodies, BodyOK(b), NEW us \in Nat, us > 0, NEW ua \in Aligns,
           NEW w \in Nat
    PROVE  HasRoom(WithUnit(b, us, ua, w), b, us, w)
<1> PICK c : c = WithUnit(b, us, ua, w)
  OBVIOUS
<1> SUFFICES /\ c \in Bodies /\ BodyOK(c)
             /\ c.bf_unit_offset # -1 /\ c.bf_unit_size = us
             /\ c.bf_bits_used = 0 \/ c.bf_bits_used + w <= us * 8
             /\ c.extent > 0
             /\ c.kind = b.kind /\ c.base = b.base /\ c.fields = b.fields
  BY DEF HasRoom
<1>1. /\ b.fields \in Seq(Fields) /\ b.extent \in Nat /\ b.max_align \in Aligns
      /\ b.max_align \in Nat /\ ua \in Nat
      /\ b.bf_unit_offset \in Int /\ b.bf_unit_size \in Nat /\ b.bf_bits_used \in Nat
  BY DEF Bodies, Aligns
<1>2. CASE ~NeedsUnit(b, us, w)
  <2>1. c = b
    BY <1>2 DEF WithUnit
  <2>2. /\ b.bf_unit_offset # -1 /\ b.bf_unit_offset >= 0
        /\ b.bf_unit_size = us /\ b.bf_bits_used + w <= us * 8
    BY <1>1, <1>2 DEF NeedsUnit
  <2>3. b.extent > 0
    BY <1>1, <2>2 DEF BodyOK, UnitOK
  <2> QED
    BY <2>1, <2>2, <2>3
<1>3. CASE NeedsUnit(b, us, w)
  <2> DEFINE off == RoundUp(b.extent, ua)
             a == Larger(b.max_align, ua)
  <2>1. off \in Nat /\ b.extent <= off /\ off % ua = 0
    BY <1>1, RoundUpFacts
  <2>2. a \in Aligns /\ a \in Nat /\ b.max_align <= a /\ ua <= a
    BY <1>1, LargerFacts
  <2>3. c = [b EXCEPT !.max_align = a, !.extent = off + us,
                      !.bf_unit_offset = off, !.bf_unit_size = us,
                      !.bf_bits_used = 0, !.bf_unit_align = ua]
    BY <1>3 DEF WithUnit
  <2> HIDE DEF off, a
  <2>4. c \in Bodies
    <3>1. off \in Int /\ off + us \in Nat /\ 0 \in Nat
      BY <2>1
    <3> QED
      BY <2>2, <2>3, <3>1 DEF Bodies
  <2>5. /\ c.fields = b.fields /\ c.extent = off + us /\ c.max_align = a
        /\ c.kind = b.kind /\ c.tag = b.tag /\ c.base = b.base
        /\ c.bf_unit_offset = off /\ c.bf_unit_size = us /\ c.bf_bits_used = 0
        /\ c.bf_unit_align = ua
    BY <2>3 DEF Bodies
  <2>6. off + us \in Nat /\ b.extent <= off + us /\ off + us > 0 /\ off # -1
    BY <1>1, <2>1
  <2>7. AllPlaced(c.fields, c.extent, c.max_align)
    BY <1>1, <2>2, <2>5, <2>6, AllPlacedGrows DEF BodyOK
  <2>8. ASSUME NEW i \in DOMAIN b.fields PROVE EndBit(b.fields[i]) <= 8 * off + 0
    <3>0. EndBefore(b.fields, 8 * b.extent)
      BY PlacedEnds DEF BodyOK
    <3>1. EndBit(b.fields[i]) <= 8 * b.extent /\ EndBit(b.fields[i]) \in Nat
      BY <1>1, <3>0, BitFacts DEF EndBefore
    <3> QED
      BY <1>1, <2>1, <3>1
  <2>9. UnitOK(c)
    BY <2>1, <2>2, <2>5, <2>8 DEF UnitOK, EndBefore
  <2>10. BodyOK(c)
    BY <2>5, <2>6, <2>7, <2>9 DEF BodyOK
  <2> QED
    BY <2>4, <2>5, <2>6, <2>10
<1> QED
  BY <1>2, <1>3

\* A bit-field in the open unit, and a body with those bits used.
NewBits(c, w, us) ==
    [kind |-> "bit-field", offset |-> c.bf_unit_offset, bit_offset |-> c.bf_bits_used,
     bits |-> w, align |-> c.bf_unit_align, unit |-> us]

WithBits(c, f, w, named) ==
    [c EXCEPT !.bf_bits_used = c.bf_bits_used + w,
              !.fields = IF named THEN Append(c.fields, f) ELSE c.fields]

\* A bit-field, which only has a member if it has a name.
LEMMA BitFieldOK ==
    ASSUME NEW b \in Bodies, BodyOK(b), NEW us \in Nat, us > 0, NEW ua \in Aligns,
           NEW w \in Nat, w > 0, NEW named \in BOOLEAN, named => w <= us * 8,
           NEW c, c = WithUnit(b, us, ua, w)
    PROVE  Good(WithBits(c, NewBits(c, w, us), w, named), b.base)
<1> PICK f : f = NewBits(c, w, us)
  OBVIOUS
<1> PICK d : d = WithBits(c, f, w, named)
  OBVIOUS
<1> SUFFICES Good(d, b.base)
  OBVIOUS
<1>0. /\ f = [kind |-> "bit-field", offset |-> c.bf_unit_offset,
              bit_offset |-> c.bf_bits_used, bits |-> w, align |-> c.bf_unit_align, unit |-> us]
      /\ d = [c EXCEPT !.bf_bits_used = c.bf_bits_used + w,
                       !.fields = IF named THEN Append(c.fields, f) ELSE c.fields]
  BY DEF NewBits, WithBits
<1>1. /\ c \in Bodies /\ BodyOK(c)
      /\ c.bf_unit_offset # -1 /\ c.bf_unit_size = us
      /\ c.bf_bits_used = 0 \/ c.bf_bits_used + w <= us * 8
      /\ c.extent > 0 /\ c.kind = b.kind /\ c.base = b.base /\ c.fields = b.fields
  <2>1. HasRoom(c, b, us, w)
    BY WithUnitOK
  <2> QED
    BY <2>1 DEF HasRoom
<1>2. /\ c.fields \in Seq(Fields) /\ c.extent \in Nat /\ c.max_align \in Aligns
      /\ c.max_align \in Nat /\ c.bf_unit_align \in Aligns
      /\ c.bf_unit_offset \in Int /\ c.bf_bits_used \in Nat
  BY <1>1 DEF Bodies, Aligns
<1>3. /\ c.bf_unit_offset >= 0 /\ c.bf_unit_offset + us = c.extent
      /\ c.bf_unit_offset % c.bf_unit_align = 0 /\ c.bf_unit_align <= c.max_align
      /\ EndBefore(c.fields, 8 * c.bf_unit_offset + c.bf_bits_used)
      /\ AllPlaced(c.fields, c.extent, c.max_align)
      /\ c.kind = "struct" => Ordered(c.fields)
  BY <1>1 DEF BodyOK, UnitOK
<1> DEFINE fs == IF named THEN Append(c.fields, f) ELSE c.fields
           used == c.bf_bits_used + w
           off == c.bf_unit_offset
<1>4. off \in Nat /\ used \in Nat
  BY <1>2, <1>3
<1>5. f \in Fields /\ FirstBit(f) = 8 * off + c.bf_bits_used /\ EndBit(f) = 8 * off + used
  BY <1>0, <1>2, <1>4 DEF Fields, FieldKinds, FirstBit, EndBit
<1>6. fs \in Seq(Fields)
  BY <1>2, <1>5, AppendFacts
<1> HIDE DEF fs, used
<1>7. d = [c EXCEPT !.bf_bits_used = used, !.fields = fs]
  BY <1>0 DEF fs, used
<1>8. d \in Bodies
  BY <1>1, <1>4, <1>6, <1>7 DEF Bodies
<1>9. /\ d.fields = fs /\ d.extent = c.extent /\ d.max_align = c.max_align
      /\ d.kind = c.kind /\ d.tag = c.tag /\ d.base = c.base
      /\ d.bf_unit_offset = off /\ d.bf_unit_size = us /\ d.bf_bits_used = used
      /\ d.bf_unit_align = c.bf_unit_align
  BY <1>1, <1>7 DEF Bodies
<1>10. ASSUME named PROVE Placed(f, c.extent, c.max_align)
  <2>1. /\ f.offset = off /\ f.align = c.bf_unit_align /\ f.bit_offset = c.bf_bits_used
        /\ f.bits = w /\ f.unit = us
    BY <1>0
  <2>2. used <= 8 * us
    BY <1>1, <1>2, <1>10 DEF used
  <2>3. EndBit(f) <= 8 * c.extent
    BY <1>2, <1>3, <1>4, <1>5, <2>2
  <2> QED
    BY <1>3, <2>1, <2>2, <2>3 DEF Placed, used
<1>11. \A i \in DOMAIN fs : (i \in DOMAIN c.fields /\ fs[i] = c.fields[i]) \/ (named /\ fs[i] = f)
  BY <1>2, <1>5, AppendFacts DEF fs
<1>12. AllPlaced(fs, c.extent, c.max_align)
  BY <1>3, <1>10, <1>11 DEF AllPlaced
<1>13. ASSUME NEW i \in DOMAIN fs PROVE EndBit(fs[i]) <= 8 * off + used
  <2>1. CASE i \in DOMAIN c.fields /\ fs[i] = c.fields[i]
    <3>0. c.fields[i] \in Fields
      BY <1>2, <2>1
    <3>1. EndBit(c.fields[i]) \in Nat /\ EndBit(c.fields[i]) <= 8 * off + c.bf_bits_used
      BY <1>3, <2>1, <3>0, BitFacts DEF EndBefore
    <3> QED
      BY <1>2, <1>4, <2>1, <3>1 DEF used
  <2>2. CASE fs[i] = f
    BY <1>4, <1>5, <2>2
  <2> QED
    BY <1>11, <2>1, <2>2
<1>14. c.kind = "struct" => Ordered(fs)
  <2>1. CASE named
    BY <1>2, <1>3, <1>5, <2>1, OrderedAppend DEF fs
  <2>2. CASE ~named
    BY <1>3, <2>2 DEF fs
  <2> QED
    BY <2>1, <2>2
<1>15. UnitOK(d)
  BY <1>3, <1>9, <1>13 DEF UnitOK, EndBefore
<1>16. BodyOK(d)
  <2>1. ~(d.extent = 0)
    BY <1>1, <1>2, <1>9
  <2> QED
    BY <1>1, <1>9, <1>12, <1>14, <1>15, <2>1 DEF BodyOK
<1> QED
  BY <1>1, <1>8, <1>9, <1>16 DEF Good

-----------------------------------------------------------------------------
(***************************************************************************)
(* Steps.                                                                  *)
(***************************************************************************)

\* No type loses its owner.
OwnersKept == \A t \in 1..Len(types) : Owned(t) => Owned(t)'

\* A step keeps the invariant if the heap stays in order and keeps its owners,
\* and the bodies and references are old ones or in order.
LEMMA Transfer ==
    ASSUME IInv, TypeInv', HeapInv', OwnersKept, Len(types) <= Len(types'),
           \A i \in DOMAIN open' :
              \/ \E j \in DOMAIN open : open'[i] = open[j]
              \/ (BodyOK(open[i]) /\ BaseOK(open[i].base))',
           \A r \in refs' : r \in refs \/ RefOK(r)'
    PROVE  IInv'
<1>1. Len(types) \in Nat /\ Len(types') \in Nat
  BY LenProperties DEF IInv, TypeInv
<1>2. ASSUME NEW i \in DOMAIN open' PROVE (BodyOK(open[i]) /\ BaseOK(open[i].base))'
  <2>1. CASE \E j \in DOMAIN open : open'[i] = open[j]
    <3>1. PICK j \in DOMAIN open : open'[i] = open[j]
      BY <2>1
    <3>2. BodyOK(open[j]) /\ BaseOK(open[j].base)
      BY DEF IInv, OpenInv
    <3>3. BodyOK(open[i])'
      BY <3>1, <3>2 DEF BodyOK, UnitOK, AllPlaced, Placed, EndBefore, Ordered,
                        EndBit, FirstBit
    <3>4. ASSUME open[j].base \in Tagged PROVE Owned(open[i].base[2])'
      <4>1. Owned(open[j].base[2])
        BY <3>2, <3>4 DEF BaseOK
      <4>2. PICK t : t = open[j].base[2]
        OBVIOUS
      <4>3. Owned(t)'
        BY <4>1, <4>2 DEF OwnersKept, Owned
      <4> QED
        BY <3>1, <4>2, <4>3 DEF Owned
    <3> QED
      BY <3>1, <3>3, <3>4 DEF BaseOK
  <2>2. CASE (BodyOK(open[i]) /\ BaseOK(open[i].base))'
    BY <2>2
  <2> QED
    BY <2>1, <2>2
<1>3. OpenInv'
  BY <1>2 DEF OpenInv
<1>4. ASSUME NEW r \in refs' PROVE RefOK(r)'
  <2>1. CASE r \in refs
    <3>1. RefOK(r)
      BY <2>1 DEF IInv, RefInv
    <3>2. PICK t : t = r.type
      OBVIOUS
    <3>3. t \in 1..Len(types) /\ (~r.qualified => Owned(t))
      BY <3>1, <3>2 DEF RefOK
    <3>4. t \in 1..Len(types') /\ (~r.qualified => Owned(t)')
      BY <1>1, <3>3 DEF OwnersKept
    <3> QED
      BY <3>2, <3>4 DEF RefOK
  <2>2. CASE RefOK(r)'
    BY <2>2
  <2> QED
    BY <2>1, <2>2
<1>5. RefInv'
  BY <1>4 DEF RefInv
<1> QED
  BY <1>3, <1>5 DEF IInv

Refs == [qualified : BOOLEAN, type : Nat]

\* The innermost body is in order.
LEMMA BodyFacts ==
    ASSUME IInv
    PROVE  /\ body \in Bodies /\ BodyOK(body) /\ BaseOK(body.base)
           /\ Len(open) \in DOMAIN open /\ Len(types) \in Nat
<1>1. /\ open \in Seq(Bodies) /\ Len(open) \in Nat \ {0} /\ types \in Seq(Types)
      /\ Len(types) \in Nat
  BY LenProperties DEF IInv, TypeInv
<1>2. Len(open) \in DOMAIN open
  BY <1>1
<1>3. body \in Bodies
  BY <1>1, <1>2 DEF body
<1> QED
  BY <1>1, <1>2, <1>3 DEF IInv, OpenInv, body

\* A step that leaves the heap and the tags alone keeps all owners.
LEMMA HeapSame ==
    ASSUME IInv, types' = types, tags' = tags
    PROVE  HeapInv' /\ OwnersKept /\ Len(types) <= Len(types')
<1>1. Len(types) \in Nat
  BY BodyFacts
<1>2. HeapInv'
  BY DEF IInv, HeapInv
<1>3. OwnersKept
  BY DEF OwnersKept, Owned
<1> QED
  BY <1>1, <1>2, <1>3

\* A new object on the heap.
LEMMA HeapAppend ==
    ASSUME IInv, NEW x \in Types, Placeholder(x) \/ Complete(x), types' = Append(types, x)
    PROVE  /\ HeapInv' /\ types' \in Seq(Types)
           /\ Len(types') = Len(types) + 1 /\ types'[Len(types) + 1] = x
           /\ \A t \in 1..Len(types) : t \in 1..Len(types') /\ types'[t] = types[t]
<1>1. types \in Seq(Types) /\ Len(types) \in Nat
  BY BodyFacts DEF IInv, TypeInv
<1>2. /\ types' \in Seq(Types) /\ Len(types') = Len(types) + 1
      /\ types'[Len(types) + 1] = x
      /\ \A t \in 1..Len(types) : t \in 1..Len(types') /\ types'[t] = types[t]
  BY <1>1
<1>3. ASSUME NEW t \in DOMAIN types' PROVE Placeholder(types'[t]) \/ Complete(types'[t])
  <2>1. CASE t \in 1..Len(types)
    <3>1. types'[t] = types[t] /\ t \in DOMAIN types
      BY <1>1, <1>2, <2>1
    <3> QED
      BY <3>1 DEF IInv, HeapInv
  <2>2. CASE t = Len(types) + 1
    BY <1>2, <2>2
  <2> QED
    BY <1>1, <1>2, <2>1, <2>2
<1>4. HeapInv'
  BY <1>3 DEF HeapInv
<1> QED
  BY <1>2, <1>4

\* The innermost body replaced.
LEMMA SetBodyFacts ==
    ASSUME IInv, NEW b \in Bodies, open' = [open EXCEPT ![Len(open)] = b]
    PROVE  /\ open' \in Seq(Bodies) /\ Len(open') \in Nat \ {0}
           /\ \A i \in DOMAIN open' :
                 open'[i] = b \/ \E j \in DOMAIN open : open'[i] = open[j]
<1>1. open \in Seq(Bodies) /\ Len(open) \in Nat \ {0}
  BY DEF IInv, TypeInv
<1>2. open' \in Seq(Bodies) /\ Len(open') = Len(open) /\ DOMAIN open' = DOMAIN open
  BY <1>1
<1>3. \A i \in DOMAIN open' : open'[i] = b \/ open'[i] = open[i]
  BY <1>1, <1>2
<1> QED
  BY <1>1, <1>2, <1>3

\* A step that replaces the innermost body, and may add a copy of a type, and
\* references to types, keeps the invariant.
LEMMA DeclaratorStep ==
    ASSUME IInv, NEW b \in Bodies, BodyOK(b), BaseOK(b.base),
           open' = [open EXCEPT ![Len(open)] = b],
           \/ types' = types
           \/ \E t \in DOMAIN types : types' = Append(types, types[t]),
           tags' = tags, parts' \in Nat,
           \A r \in refs' : r \in refs \/ (r \in Refs /\ RefOK(r)')
    PROVE  IInv'
<1>1. /\ types \in Seq(Types) /\ Len(types) \in Nat /\ tags \in [Kinds -> [Tags -> Nat]]
      /\ refs \subseteq Refs
      /\ \A kind \in Kinds, tag \in Tags : tags[kind][tag] \in 0..Len(types)
  BY BodyFacts DEF IInv, TypeInv, Refs
<1>2. HeapInv' /\ OwnersKept /\ Len(types) <= Len(types') /\ types' \in Seq(Types)
      /\ Len(types') \in Nat
  <2>1. CASE types' = types
    BY <1>1, <2>1, HeapSame
  <2>2. CASE \E t \in DOMAIN types : types' = Append(types, types[t])
    <3>1. PICK t \in DOMAIN types : types' = Append(types, types[t])
      BY <2>2
    <3>2. types[t] \in Types /\ (Placeholder(types[t]) \/ Complete(types[t]))
      BY <1>1 DEF IInv, HeapInv
    <3>3. /\ HeapInv' /\ types' \in Seq(Types) /\ Len(types') = Len(types) + 1
          /\ \A u \in 1..Len(types) : u \in 1..Len(types') /\ types'[u] = types[u]
      BY <3>1, <3>2, HeapAppend
    <3>4. OwnersKept
      BY <3>3 DEF OwnersKept, Owned
    <3> QED
      BY <1>1, <3>3, <3>4
  <2> QED
    BY <2>1, <2>2
<1>3. /\ open' \in Seq(Bodies) /\ Len(open') \in Nat \ {0}
      /\ \A i \in DOMAIN open' : open'[i] = b \/ \E j \in DOMAIN open : open'[i] = open[j]
  BY SetBodyFacts
<1>4. TypeInv'
  <2>1. \A kind \in Kinds, tag \in Tags : tags'[kind][tag] \in 0..Len(types')
    BY <1>1, <1>2
  <2>2. refs' \subseteq Refs
    BY <1>1
  <2> QED
    BY <1>1, <1>2, <1>3, <2>1, <2>2 DEF TypeInv, Refs
<1>5. ASSUME NEW i \in DOMAIN open', open'[i] = b
      PROVE  (BodyOK(open[i]) /\ BaseOK(open[i].base))'
  <2>1. BodyOK(open[i])'
    BY <1>5 DEF BodyOK, UnitOK, AllPlaced, Placed, EndBefore, Ordered,
                EndBit, FirstBit
  <2>2. ASSUME b.base \in Tagged PROVE Owned(b.base[2])'
    <3>1. Owned(b.base[2])
      BY <2>2 DEF BaseOK
    <3> QED
      BY <1>2, <3>1 DEF OwnersKept, Owned
  <2> QED
    BY <1>5, <2>1, <2>2 DEF BaseOK, Owned
<1> QED
  BY <1>2, <1>3, <1>4, <1>5, Transfer

\* The body of a new specifier is in order.
LEMMA NewBodyFacts ==
    ASSUME NEW kind \in AnyKind, NEW tag \in Tags \cup {NoTag},
           kind \notin Kinds => tag = NoTag
    PROVE  Good(NewBody(kind, tag), NoBase)
<1> PICK b : b = NewBody(kind, tag)
  OBVIOUS
<1>1. -1 \in Int /\ 0 \in Nat /\ 1 \in Aligns /\ NoBase \in Bases /\ <<>> \in Seq(Fields)
  BY DEF Aligns, Bases
<1>2. b \in Bodies
  BY <1>1 DEF NewBody, Bodies
<1>3. /\ b.fields = <<>> /\ b.extent = 0 /\ b.max_align = 1 /\ b.bf_unit_offset = -1
      /\ b.base = NoBase /\ b.kind = kind /\ b.tag = tag
  BY DEF NewBody
<1>4. BodyOK(b)
  BY <1>3 DEF BodyOK, UnitOK, AllPlaced, Ordered
<1> QED
  BY <1>2, <1>3, <1>4 DEF Good

\* After an error only the file is left, and the heap and the tags stay.
LEMMA ErrorStep ==
    ASSUME IInv, Error
    PROVE  IInv'
<1>1. /\ open' = <<File>> /\ types' = types /\ tags' = tags /\ parts' = parts /\ refs' = refs
  BY DEF Error
<1>2. HeapInv' /\ OwnersKept /\ Len(types) <= Len(types')
  BY <1>1, HeapSame
<1>4. File \in Bodies /\ BodyOK(File) /\ File.base = NoBase
  BY NewBodyFacts DEF File, AnyKind, Good
<1>5. TypeInv'
  BY <1>1, <1>4 DEF IInv, TypeInv
<1>7. NoBase \notin Tagged
  BY DEF NoBase, Tagged
<1>8. ASSUME NEW i \in DOMAIN open'
      PROVE  (BodyOK(open[i]) /\ BaseOK(open[i].base))'
  <2>1. open'[i] = File
    BY <1>1
  <2>3. BodyOK(open[i])'
    BY <1>4, <2>1 DEF BodyOK, UnitOK, AllPlaced, Placed, EndBefore, Ordered,
                      EndBit, FirstBit
  <2> QED
    BY <1>4, <1>7, <2>1, <2>3 DEF BaseOK
<1> QED
  BY <1>1, <1>2, <1>5, <1>8, Transfer

-----------------------------------------------------------------------------
(***************************************************************************)
(* The actions.                                                            *)
(***************************************************************************)

\* The type of the current declaration has a size and an alignment.
LEMMA BaseFacts ==
    ASSUME IInv, body.base # NoBase
    PROVE  /\ Size(body.base) \in Nat /\ Alignment(body.base) \in Aligns \cup {0}
           /\ body.base[1] = "tagged" => body.base \in Tagged /\ Owned(body.base[2])
<1>1. body.base \in Bases /\ BaseOK(body.base)
  BY BodyFacts DEF Bodies
<1>2. CASE body.base \in {"scalar"} \X Scalars
  <2>1. body.base[1] = "scalar" /\ body.base[2] \in Scalars
    BY <1>2
  <2>2. body.base[2] \in {0, 1, 2, 4, 8}
    BY <2>1, LayoutAssumption
  <2> QED
    BY <2>1, <2>2 DEF Size, Alignment, Aligns
<1>3. CASE body.base \in Tagged
  <2>1. body.base[1] = "tagged"
    BY <1>3 DEF Tagged
  <2>2. Owned(body.base[2])
    BY <1>1, <1>3 DEF BaseOK
  <2>3. body.base[2] \in DOMAIN types /\ types \in Seq(Types)
    BY <2>2, BodyFacts DEF Owned, IInv, TypeInv
  <2>4. types[body.base[2]] \in Types
    BY <2>3
  <2> QED
    BY <1>3, <2>1, <2>2, <2>4 DEF Size, Alignment, Types
<1> QED
  BY <1>1, <1>2, <1>3 DEF Bases

\* Only void and placeholders have no alignment, and they have no size either.
LEMMA UnalignedIsEmpty ==
    ASSUME IInv, body.base # NoBase, Alignment(body.base) = 0
    PROVE  Size(body.base) = 0
<1>1. body.base \in Bases /\ BaseOK(body.base)
  BY BodyFacts DEF Bodies
<1>2. CASE body.base \in {"scalar"} \X Scalars
  BY <1>2 DEF Size, Alignment
<1>3. CASE body.base \in Tagged
  <2>1. body.base[1] = "tagged"
    BY <1>3 DEF Tagged
  <2>2. body.base[2] \in DOMAIN types
    BY <1>1, <1>3, BodyFacts DEF BaseOK, Owned, IInv, TypeInv
  <2>3. Placeholder(types[body.base[2]]) \/ Complete(types[body.base[2]])
    BY <2>2 DEF IInv, HeapInv
  <2> QED
    BY <2>1, <2>3 DEF Placeholder, Complete, Size, Alignment, Aligns
<1> QED
  BY <1>1, <1>2, <1>3 DEF Bases

\* What pointers are made to refer to, and the copy it may take.
LEMMA RefersFacts ==
    ASSUME IInv, body.base # NoBase, NEW shape, types' = Heap(shape), tags' = tags,
           refs' = Refers(shape)
    PROVE  /\ \/ types' = types
              \/ \E t \in DOMAIN types : types' = Append(types, types[t])
           /\ \A r \in refs' : r \in refs \/ (r \in Refs /\ RefOK(r)')
<1>0. Len(types) \in Nat /\ types \in Seq(Types)
  BY BodyFacts DEF IInv, TypeInv
<1> PICK t : t = body.base[2]
  OBVIOUS
<1>1. body.base[1] = "tagged" => t \in 1..Len(types) /\ t \in DOMAIN types /\ Owned(t)
  BY <1>0, BaseFacts DEF Owned
<1>2. CASE Copies(shape)
  <2>1. body.base[1] = "tagged"
    BY <1>2 DEF Copies
  <2>2. types' = Append(types, types[t]) /\ t \in DOMAIN types
    BY <1>1, <1>2, <2>1 DEF Heap
  <2>3. Len(types') = Len(types) + 1
    BY <1>0, <2>2
  <2>4. \A r \in refs' : r \in refs \/ r = [qualified |-> TRUE, type |-> Len(types) + 1]
    BY <1>2 DEF Refers, Copies
  <2>5. ASSUME NEW r, r = [qualified |-> TRUE, type |-> Len(types) + 1]
        PROVE  r \in Refs /\ RefOK(r)'
    <3>1. r.qualified = TRUE /\ r.type = Len(types) + 1 /\ Len(types) + 1 \in Nat
      BY <1>0, <2>5
    <3>2. r \in Refs
      BY <2>5, <3>1 DEF Refs
    <3>3. r.type \in 1..Len(types')
      BY <1>0, <2>3, <3>1
    <3> QED
      BY <3>1, <3>2, <3>3 DEF RefOK
  <2> QED
    BY <2>2, <2>4, <2>5
<1>3. CASE ~Copies(shape)
  <2>1. types' = types
    BY <1>3 DEF Heap
  <2>2. \A r \in refs' : \/ r \in refs
                         \/ body.base[1] = "tagged" /\ r = [qualified |-> FALSE, type |-> t]
    BY <1>3 DEF Refers, Copies
  <2>3. ASSUME NEW r, body.base[1] = "tagged", r = [qualified |-> FALSE, type |-> t]
        PROVE  r \in Refs /\ RefOK(r)'
    <3>1. t \in 1..Len(types) /\ Owned(t)' /\ t \in Nat
      BY <1>0, <1>1, <2>1, <2>3 DEF Owned
    <3>2. r.qualified = FALSE /\ r.type = t
      BY <2>3
    <3>3. r \in Refs
      BY <2>3, <3>1 DEF Refs
    <3> QED
      BY <2>1, <3>1, <3>2, <3>3 DEF RefOK
  <2> QED
    BY <2>1, <2>2, <2>3
<1> QED
  BY <1>2, <1>3

\* The type of the current declaration is read or forgotten.
LEMMA SetBaseStep ==
    ASSUME IInv, NEW base \in Bases, BaseOK(base),
           SetBody([body EXCEPT !.base = base]),
           parts' \in Nat, UNCHANGED <<types, tags, refs>>
    PROVE  IInv'
<1> PICK b : b = [body EXCEPT !.base = base]
  OBVIOUS
<1>1. b \in Bodies /\ BodyOK(b)
  BY BodyFacts, BaseFree
<1>2. b.base = base
  BY BodyFacts DEF Bodies
<1>3. open' = [open EXCEPT ![Len(open)] = b]
  BY DEF SetBody
<1> QED
  BY <1>1, <1>2, <1>3, DeclaratorStep

\* The count of parts is a number.
LEMMA PartsFacts ==
    ASSUME IInv
    PROVE  parts \in Nat /\ (Counted => parts' \in Nat)
BY DEF IInv, TypeInv, Counted

\* A scalar type specifier.
LEMMA ScalarStep ==
    ASSUME IInv, NEW size \in Scalars, ScalarSpecifier(size)
    PROVE  IInv'
<1>1. <<"scalar", size>> \in Bases /\ <<"scalar", size>> \notin Tagged
  BY DEF Bases, Tagged
<1>2. BaseOK(<<"scalar", size>>)
  BY <1>1 DEF BaseOK
<1>3. ASSUME SetBody([body EXCEPT !.base = <<"scalar", size>>]), Counted,
             UNCHANGED <<types, tags, refs>>
      PROVE  IInv'
  BY <1>1, <1>2, <1>3, SetBaseStep, PartsFacts
<1> QED
  BY <1>3, ErrorStep DEF ScalarSpecifier

\* A typedef name.
LEMMA TypedefNameStep ==
    ASSUME IInv, NEW r \in refs, TypedefName(r)
    PROVE  IInv'
<1>1. ~r.qualified
  BY DEF TypedefName
<1>2. Owned(r.type)
  BY <1>1 DEF IInv, RefInv, RefOK
<1>3. r.type \in Nat \ {0}
  BY <1>2, BodyFacts DEF Owned
<1>4. <<"tagged", r.type>> \in Bases /\ BaseOK(<<"tagged", r.type>>)
  BY <1>2, <1>3 DEF Bases, Tagged, BaseOK
<1>5. ASSUME SetBody([body EXCEPT !.base = <<"tagged", r.type>>]), Counted,
             UNCHANGED <<types, tags, refs>>
      PROVE  IInv'
  BY <1>4, <1>5, SetBaseStep, PartsFacts
<1> QED
  BY <1>5, ErrorStep DEF TypedefName

\* A declaration that ends without a declarator.
LEMMA AnonymousStep ==
    ASSUME IInv, AnonymousMember
    PROVE  IInv'
<1>1. NoBase \in Bases /\ BaseOK(NoBase)
  BY DEF Bases, BaseOK, NoBase, Tagged
<1> QED
  BY <1>1, SetBaseStep, PartsFacts DEF AnonymousMember

\* The rest of a declaration of the file.
LEMMA FileDeclarationStep ==
    ASSUME IInv, NEW shape, FileDeclaration(shape)
    PROVE  IInv'
<1> PICK b : b = [body EXCEPT !.base = NoBase]
  OBVIOUS
<1>1. NoBase \in Bases /\ BaseOK(NoBase)
  BY DEF Bases, BaseOK, NoBase, Tagged
<1>2. b \in Bodies /\ BodyOK(b)
  BY <1>1, BodyFacts, BaseFree
<1>3. b.base = NoBase
  BY BodyFacts DEF Bodies
<1>4. open' = [open EXCEPT ![Len(open)] = b]
  BY DEF FileDeclaration, SetBody
<1>5. /\ body.base # NoBase /\ types' = Heap(shape) /\ tags' = tags /\ parts' = parts
      /\ refs' = Refers(shape)
  BY DEF FileDeclaration
<1>6. /\ \/ types' = types
         \/ \E t \in DOMAIN types : types' = Append(types, types[t])
      /\ \A r \in refs' : r \in refs \/ (r \in Refs /\ RefOK(r)')
  BY <1>5, RefersFacts
<1> QED
  BY <1>1, <1>2, <1>3, <1>4, <1>5, <1>6, PartsFacts, DeclaratorStep

\* A body in order is put in place of the innermost one at the end of a
\* declarator.
LEMMA EndStep ==
    ASSUME IInv, NEW c \in Bodies, BodyOK(c), c.base = body.base, NEW last \in BOOLEAN,
           SetBody(EndDeclarator(c, last)), parts' \in Nat, tags' = tags,
           \/ types' = types
           \/ \E t \in DOMAIN types : types' = Append(types, types[t]),
           \A r \in refs' : r \in refs \/ (r \in Refs /\ RefOK(r)')
    PROVE  IInv'
<1> PICK b : b = EndDeclarator(c, last)
  OBVIOUS
<1>1. b \in Bodies /\ BodyOK(b) /\ b.base \in {body.base, NoBase}
  BY EndDeclaratorOK
<1>2. BaseOK(b.base)
  BY <1>1, BodyFacts DEF BaseOK, NoBase, Tagged
<1>3. open' = [open EXCEPT ![Len(open)] = b]
  BY DEF SetBody
<1> QED
  BY <1>1, <1>2, <1>3, DeclaratorStep

\* A bit-field.
LEMMA BitFieldStep ==
    ASSUME IInv, NEW named \in BOOLEAN, NEW last \in BOOLEAN, NEW width \in Widths,
           BitField(named, width, last)
    PROVE  IInv'
<1> PICK us : us = IF Size(body.base) < 1 THEN 4 ELSE Size(body.base)
  OBVIOUS
<1> PICK ua : ua = IF Alignment(body.base) < 1 THEN us ELSE Alignment(body.base)
  OBVIOUS
<1>1. body.base # NoBase /\ width \in Nat
  BY LayoutAssumption DEF BitField, Declarator
<1>2. Size(body.base) \in Nat /\ Alignment(body.base) \in Aligns \cup {0}
  BY <1>1, BaseFacts
<1>3. us \in Nat /\ us > 0
  BY <1>2
<1>4. ua \in Aligns
  <2>1. CASE Alignment(body.base) \in Aligns
    <3>1. ~(Alignment(body.base) < 1)
      BY <2>1 DEF Aligns
    <3> QED
      BY <2>1, <3>1
  <2>2. CASE Alignment(body.base) = 0
    <3>1. Size(body.base) = 0
      BY <1>1, <2>2, UnalignedIsEmpty
    <3> QED
      BY <2>2, <3>1 DEF Aligns
  <2> QED
    BY <1>2, <2>1, <2>2
<1> PICK c : c = WithUnit(body, us, ua, width)
  OBVIOUS
<1> PICK f : f = NewBits(c, width, us)
  OBVIOUS
<1>5. \/ Error
      \/ /\ named => width \in 1..(us * 8)
         /\ SetBody(EndDeclarator(
              IF width = 0 THEN CloseUnit(body)
              ELSE [c EXCEPT !.bf_bits_used = @ + width,
                             !.fields = IF named THEN Append(@, f) ELSE @],
              last))
         /\ Counted
         /\ UNCHANGED <<types, tags, refs>>
  BY DEF BitField, NewBits
<1>6. CASE Error
  BY <1>6, ErrorStep
<1>7. CASE /\ named => width \in 1..(us * 8)
           /\ SetBody(EndDeclarator(
                IF width = 0 THEN CloseUnit(body)
                ELSE [c EXCEPT !.bf_bits_used = @ + width,
                               !.fields = IF named THEN Append(@, f) ELSE @],
                last))
           /\ Counted
           /\ UNCHANGED <<types, tags, refs>>
  <2>1. parts' \in Nat /\ tags' = tags /\ types' = types /\ refs' = refs
    BY <1>7, PartsFacts
  <2>2. CASE width = 0
    <3>1. CloseUnit(body) \in Bodies /\ BodyOK(CloseUnit(body)) /\ CloseUnit(body).base = body.base
      BY BodyFacts, CloseUnitOK
    <3>2. SetBody(EndDeclarator(CloseUnit(body), last))
      BY <1>7, <2>2
    <3> QED
      BY <2>1, <3>1, <3>2, EndStep
  <2>3. CASE width # 0
    <3> PICK d : d = WithBits(c, f, width, named)
      OBVIOUS
    <3>1. width > 0 /\ (named => width <= us * 8)
      BY <1>1, <1>7, <2>3
    <3>2. d \in Bodies /\ BodyOK(d) /\ d.base = body.base
      <4>1. body \in Bodies /\ BodyOK(body)
        BY BodyFacts
      <4> QED
        BY <1>1, <1>3, <1>4, <3>1, <4>1, BitFieldOK DEF Good
    <3>3. SetBody(EndDeclarator(d, last))
      BY <1>7, <2>3 DEF WithBits
    <3> QED
      BY <2>1, <3>2, <3>3, EndStep
  <2> QED
    BY <2>2, <2>3
<1> QED
  BY <1>5, <1>6, <1>7

\* A product of numbers is a number.
LEMMA NatProduct ==
    ASSUME NEW m \in Nat, NEW n \in Nat
    PROVE  m * n \in Nat
OBVIOUS

\* The size of a member's type is a number.
LEMMA FieldFacts ==
    ASSUME IInv, body.base # NoBase, NEW shape
    PROVE  /\ FieldSize(body.base, shape) \in Nat
           /\ FieldAlign(body.base, shape) \in Aligns \cup {0}
<1>1. Size(body.base) \in Nat /\ Alignment(body.base) \in Aligns \cup {0} /\ ArrayLen \in Nat
  BY BaseFacts, LayoutAssumption
<1> PICK m : m = IF IsPointer(shape) THEN 8 ELSE Size(body.base)
  OBVIOUS
<1> PICK n : n = IF shape \in {"array", "pointer array"} THEN ArrayLen ELSE 1
  OBVIOUS
<1>2. m \in Nat /\ n \in Nat
  BY <1>1
<1>3. FieldSize(body.base, shape) = m * n
  BY DEF FieldSize
<1>4. m * n \in Nat
  BY <1>2, NatProduct
<1> QED
  BY <1>1, <1>3, <1>4 DEF FieldAlign, Aligns

\* A member that is neither a bit-field nor a flexible array.
LEMMA MemberStep ==
    ASSUME IInv, NEW shape, NEW last \in BOOLEAN, Member(shape, last)
    PROVE  IInv'
<1>1. CASE Error
  BY <1>1, ErrorStep
<1>2. CASE ~Error
  <2> PICK b : b = CloseUnit(body)
    OBVIOUS
  <2> PICK fsz : fsz = AtLeast1(FieldSize(body.base, shape))
    OBVIOUS
  <2> PICK falign : falign = AtLeast1(FieldAlign(body.base, shape))
    OBVIOUS
  <2> PICK offset : offset = Place(b, falign)
    OBVIOUS
  <2> PICK f : f = NewField("member", offset, fsz, falign)
    OBVIOUS
  <2>1. /\ body.base # NoBase
        /\ SetBody(EndDeclarator(
             [b EXCEPT !.extent = Larger(@, offset + fsz), !.fields = Append(@, f),
                       !.max_align = Larger(@, falign)], last))
        /\ types' = Heap(shape) /\ refs' = Refers(shape) /\ Counted /\ tags' = tags
    BY <1>2 DEF Member, Declarator, NewField
  <2>2. /\ b \in Bodies /\ BodyOK(b) /\ b.bf_unit_offset = -1 /\ b.base = body.base
    BY BodyFacts, CloseUnitOK
  <2>3. fsz \in Nat /\ fsz > 0 /\ falign \in Aligns
    <3>1. /\ FieldSize(body.base, shape) \in Nat
          /\ FieldAlign(body.base, shape) \in Aligns \cup {0}
          /\ FieldAlign(body.base, shape) \in Nat
      BY <2>1, FieldFacts DEF Aligns
    <3> QED
      BY <3>1, AtLeast1Facts
  <2>4. b.extent \in Nat /\ b.has_flexible_array \in BOOLEAN
    BY <2>2 DEF Bodies
  <2>5. offset \in Nat /\ offset % falign = 0 /\ (b.kind # "union" => b.extent <= offset)
    <3>1. 0 % falign = 0
      BY <2>3 DEF Aligns
    <3> QED
      BY <2>3, <2>4, <3>1, RoundUpFacts DEF Place
  <2> PICK e : e = Larger(b.extent, offset + fsz)
    OBVIOUS
  <2>6. e \in Nat /\ e >= b.extent /\ e >= offset + fsz /\ e > 0
    <3>1. offset + fsz \in Nat /\ offset + fsz > 0
      BY <2>3, <2>5
    <3>2. e \in Nat /\ b.extent <= e /\ offset + fsz <= e
      BY <2>4, <3>1, LargerFacts
    <3> QED
      BY <2>4, <3>1, <3>2
  <2> PICK c : c = WithMember(b, f, e, b.has_flexible_array)
    OBVIOUS
  <2>7. c \in Bodies /\ BodyOK(c) /\ c.base = b.base
    <3>1. "member" \in FieldKinds
      BY DEF FieldKinds
    <3> QED
      BY <2>2, <2>3, <2>4, <2>5, <2>6, <3>1, MemberOK DEF Good
  <2>8. c = [b EXCEPT !.extent = Larger(@, offset + fsz), !.fields = Append(@, f),
                      !.max_align = Larger(@, falign)]
    <3>1. f.align = falign
      BY DEF NewField
    <3> QED
      BY <2>2, <3>1 DEF Bodies, WithMember
  <2>9. /\ \/ types' = types
           \/ \E t \in DOMAIN types : types' = Append(types, types[t])
        /\ \A r \in refs' : r \in refs \/ (r \in Refs /\ RefOK(r)')
    BY <2>1, RefersFacts
  <2> QED
    BY <2>1, <2>2, <2>7, <2>8, <2>9, PartsFacts, EndStep
<1> QED
  BY <1>1, <1>2

\* The flexible array member, which only follows other members.
LEMMA FlexibleStep ==
    ASSUME IInv, NEW shape, NEW last \in BOOLEAN, FlexibleMember(shape, last)
    PROVE  IInv'
<1>1. CASE Error
  BY <1>1, ErrorStep
<1>2. CASE ~Error
  <2> PICK b : b = CloseUnit(body)
    OBVIOUS
  <2> PICK falign : falign = AtLeast1(Alignment(body.base))
    OBVIOUS
  <2> PICK offset : offset = RoundUp(b.extent, falign)
    OBVIOUS
  <2> PICK f : f = NewField("flexible", offset, 0, falign)
    OBVIOUS
  <2>1. /\ body.base # NoBase /\ body.fields # <<>>
        /\ SetBody(EndDeclarator(
             [b EXCEPT !.extent = offset, !.fields = Append(@, f),
                       !.max_align = Larger(@, falign),
                       !.has_flexible_array = TRUE], last))
        /\ refs' = Refers(shape) /\ Counted /\ types' = types /\ tags' = tags
        /\ shape \in {"plain", "pointer"}
    <3>1. f = [kind |-> "flexible", offset |-> offset, bit_offset |-> 0, bits |-> 0,
               align |-> falign, unit |-> 0]
      BY DEF NewField
    <3> QED
      BY <1>2, <3>1 DEF FlexibleMember, Declarator
  <2>2. /\ b \in Bodies /\ BodyOK(b) /\ b.bf_unit_offset = -1 /\ b.base = body.base
        /\ b.fields = body.fields
    BY BodyFacts, CloseUnitOK
  <2>3. falign \in Aligns
    <3>1. Alignment(body.base) \in Aligns \cup {0} /\ Alignment(body.base) \in Nat
      BY <2>1, BaseFacts DEF Aligns
    <3> QED
      BY <3>1, AtLeast1Facts
  <2>4. b.extent \in Nat /\ b.extent > 0
    BY <2>1, <2>2 DEF Bodies, BodyOK
  <2>5. offset \in Nat /\ offset % falign = 0 /\ b.extent <= offset
    BY <2>3, <2>4, RoundUpFacts
  <2> PICK c : c = WithMember(b, f, offset, TRUE)
    OBVIOUS
  <2>7. offset >= b.extent /\ offset >= offset + 0 /\ offset > 0
    BY <2>4, <2>5
  <2>8. c \in Bodies /\ BodyOK(c) /\ c.base = b.base
    <3>1. /\ 0 \in Nat /\ TRUE \in BOOLEAN /\ "flexible" \in FieldKinds
          /\ (b.kind # "union" => b.extent <= offset)
      BY <2>5 DEF FieldKinds
    <3>2. Good(WithMember(b, NewField("flexible", offset, 0, falign), offset, TRUE), b.base)
      BY <2>2, <2>3, <2>5, <2>7, <3>1, MemberOK
    <3> QED
      BY <3>2 DEF Good
  <2>9. types' = Heap(shape)
    BY <2>1 DEF Heap, Copies
  <2>10. \A r \in refs' : r \in refs \/ (r \in Refs /\ RefOK(r)')
    BY <2>1, <2>9, RefersFacts
  <2>11. c = [b EXCEPT !.extent = offset, !.fields = Append(@, f),
                       !.max_align = Larger(@, falign), !.has_flexible_array = TRUE]
    <3>1. f.align = falign
      BY DEF NewField
    <3> QED
      BY <2>2, <3>1 DEF Bodies, WithMember
  <2> QED
    BY <2>1, <2>2, <2>8, <2>10, <2>11, PartsFacts, EndStep
<1> QED
  BY <1>1, <1>2

\* A specifier without a body: the tag's type, or a new placeholder.
LEMMA ReferenceStep ==
    ASSUME IInv, NEW kind \in Kinds, NEW tag \in Tags, Reference(kind, tag)
    PROVE  IInv'
<1>0. /\ types \in Seq(Types) /\ Len(types) \in Nat /\ tags \in [Kinds -> [Tags -> Nat]]
      /\ \A k \in Kinds, g \in Tags : tags[k][g] \in 0..Len(types)
      /\ refs \subseteq Refs
  BY BodyFacts DEF IInv, TypeInv, Refs
<1>1. CASE Error
  BY <1>1, ErrorStep
<1>2. CASE ~Error /\ tags[kind][tag] # NULL
  <2> PICK t : t = tags[kind][tag]
    OBVIOUS
  <2>1. t \in 1..Len(types) /\ t \in Nat \ {0}
    BY <1>0, <1>2 DEF NULL
  <2>2. /\ types' = types /\ tags' = [tags EXCEPT ![kind][tag] = t]
        /\ SetBody([body EXCEPT !.base = <<"tagged", t>>]) /\ Counted /\ refs' = refs
    BY <1>2 DEF Reference
  <2>3. tags' = tags
    BY <1>0, <2>2
  <2>4. Owned(t)
    BY <2>1 DEF Owned
  <2>5. <<"tagged", t>> \in Bases /\ BaseOK(<<"tagged", t>>)
    BY <2>1, <2>4 DEF Bases, Tagged, BaseOK
  <2> QED
    BY <2>2, <2>3, <2>5, SetBaseStep, PartsFacts
<1>3. CASE ~Error /\ tags[kind][tag] = NULL
  <2> PICK t : t = Len(types) + 1
    OBVIOUS
  <2> PICK x : x = NewType(kind, 0, 0, <<>>)
    OBVIOUS
  <2> PICK b : b = [body EXCEPT !.base = <<"tagged", t>>]
    OBVIOUS
  <2>1. /\ types' = Append(types, x) /\ tags' = [tags EXCEPT ![kind][tag] = t]
        /\ open' = [open EXCEPT ![Len(open)] = b] /\ Counted /\ refs' = refs
    BY <1>3 DEF Reference, SetBody
  <2>2. x \in Types /\ Placeholder(x)
    BY DEF NewType, Types, Placeholder, AnyKind
  <2>3. /\ HeapInv' /\ types' \in Seq(Types) /\ Len(types') = t /\ types'[t] = x
        /\ \A u \in 1..Len(types) : u \in 1..Len(types') /\ types'[u] = types[u]
    BY <2>1, <2>2, HeapAppend
  <2>4. t \in Nat \ {0} /\ Len(types) <= Len(types') /\ t \in 1..Len(types')
    BY <1>0, <2>3
  <2>5. /\ tags' \in [Kinds -> [Tags -> Nat]] /\ tags'[kind][tag] = t
        /\ \A k \in Kinds, g \in Tags : tags'[k][g] = t \/ tags'[k][g] = tags[k][g]
        /\ \A k \in Kinds, g \in Tags : tags[k][g] # NULL => tags'[k][g] = tags[k][g]
    BY <1>0, <1>3, <2>1, <2>4
  <2>6. OwnersKept
    <3> SUFFICES ASSUME NEW u \in 1..Len(types), Owned(u) PROVE Owned(u)'
      BY DEF OwnersKept
    <3>1. u \in 1..Len(types') /\ types'[u] = types[u] /\ u # NULL
      BY <1>0, <2>3 DEF NULL
    <3> QED
      BY <2>5, <3>1 DEF Owned
  <2>7. Owned(t)'
    BY <2>4, <2>5 DEF Owned
  <2>8. <<"tagged", t>> \in Bases
    BY <2>4 DEF Bases, Tagged
  <2>9. b \in Bodies /\ BodyOK(b)
    BY <2>8, BodyFacts, BaseFree
  <2>10. b.base = <<"tagged", t>>
    BY BodyFacts DEF Bodies
  <2>11. /\ open' \in Seq(Bodies) /\ Len(open') \in Nat \ {0}
         /\ \A i \in DOMAIN open' : open'[i] = b \/ \E j \in DOMAIN open : open'[i] = open[j]
    BY <2>1, <2>9, SetBodyFacts
  <2>12. TypeInv'
    <3>1. ASSUME NEW k \in Kinds, NEW g \in Tags PROVE tags'[k][g] \in 0..Len(types')
      <4>1. tags[k][g] \in 0..Len(types) /\ (tags'[k][g] = t \/ tags'[k][g] = tags[k][g])
        BY <1>0, <2>5
      <4> QED
        BY <1>0, <2>3, <4>1
    <3>2. parts' \in Nat
      BY <2>1, PartsFacts
    <3> QED
      BY <1>0, <2>1, <2>3, <2>5, <2>11, <3>1, <3>2 DEF TypeInv, Refs
  <2>13. ASSUME NEW i \in DOMAIN open', open'[i] = b
         PROVE  (BodyOK(open[i]) /\ BaseOK(open[i].base))'
    <3>1. BodyOK(open[i])'
      BY <2>9, <2>13 DEF BodyOK, UnitOK, AllPlaced, Placed, EndBefore, Ordered,
                         EndBit, FirstBit
    <3>2. open'[i].base[2] = t
      BY <2>10, <2>13
    <3> QED
      BY <2>7, <3>1, <3>2 DEF BaseOK, Owned
  <2> QED
    BY <2>1, <2>3, <2>4, <2>6, <2>11, <2>12, <2>13, Transfer
<1> QED
  BY <1>1, <1>2, <1>3

\* An opening brace.
LEMMA OpenBodyStep ==
    ASSUME IInv, NEW kind \in Kinds, NEW tag \in Tags \cup {NoTag}, OpenBody(kind, tag)
    PROVE  IInv'
<1>1. CASE Error
  BY <1>1, ErrorStep
<1>2. CASE ~Error
  <2> PICK b : b = NewBody(kind, tag)
    OBVIOUS
  <2>1. /\ open' = Append(open, b) /\ Counted /\ types' = types /\ tags' = tags /\ refs' = refs
    BY <1>2 DEF OpenBody
  <2>2. b \in Bodies /\ BodyOK(b) /\ b.base = NoBase
    BY NewBodyFacts DEF Good, AnyKind
  <2>3. HeapInv' /\ OwnersKept /\ Len(types) <= Len(types')
    BY <2>1, HeapSame
  <2>4. open \in Seq(Bodies) /\ Len(open) \in Nat \ {0}
    BY DEF IInv, TypeInv
  <2>5. open' \in Seq(Bodies) /\ Len(open') \in Nat \ {0}
    BY <2>1, <2>2, <2>4
  <2>6. \A i \in DOMAIN open' : open'[i] = b \/ \E j \in DOMAIN open : open'[i] = open[j]
    BY <2>1, <2>2, <2>4
  <2>7. TypeInv'
    <3>1. parts' \in Nat
      BY <2>1, PartsFacts
    <3> QED
      BY <2>1, <2>5, <3>1 DEF IInv, TypeInv
  <2>8. ASSUME NEW i \in DOMAIN open', open'[i] = b
        PROVE  (BodyOK(open[i]) /\ BaseOK(open[i].base))'
    <3>1. BodyOK(open[i])'
      BY <2>2, <2>8 DEF BodyOK, UnitOK, AllPlaced, Placed, EndBefore, Ordered,
                        EndBit, FirstBit
    <3>2. NoBase \notin Tagged
      BY DEF NoBase, Tagged
    <3> QED
      BY <2>2, <2>8, <3>1, <3>2 DEF BaseOK
  <2> QED
    BY <2>1, <2>3, <2>6, <2>7, <2>8, Transfer
<1> QED
  BY <1>1, <1>2

\* The type a body closes with is complete.
LEMMA ClosedType ==
    ASSUME NEW b \in Bodies, BodyOK(b)
    PROVE  /\ NewType(b.kind, TotalSize(b), b.max_align, b.fields) \in Types
           /\ Complete(NewType(b.kind, TotalSize(b), b.max_align, b.fields))
<1> PICK x : x = NewType(b.kind, TotalSize(b), b.max_align, b.fields)
  OBVIOUS
<1>1. /\ TotalSize(b) \in Nat /\ TotalSize(b) > 0 /\ b.extent <= TotalSize(b)
      /\ TotalSize(b) % b.max_align = 0
  BY TotalSizeFacts
<1>2. /\ b.kind \in AnyKind /\ b.max_align \in Aligns /\ b.max_align \in Nat
      /\ b.fields \in Seq(Fields) /\ b.extent \in Nat
  BY DEF Bodies, Aligns
<1>3. /\ x.kind = b.kind /\ x.size = TotalSize(b) /\ x.alignment = b.max_align
      /\ x.fields = b.fields
  BY DEF NewType
<1>4. x \in Types
  BY <1>1, <1>2 DEF NewType, Types
<1>5. AllPlaced(b.fields, TotalSize(b), b.max_align)
  BY <1>1, <1>2, AllPlacedGrows DEF BodyOK
<1>6. Complete(x)
  BY <1>1, <1>2, <1>3, <1>5 DEF Complete, BodyOK
<1> QED
  BY <1>4, <1>6

\* A placeholder on the heap completed.
LEMMA HeapComplete ==
    ASSUME IInv, NEW t \in 1..Len(types), NEW x \in Types, Complete(x),
           types' = [types EXCEPT ![t] = x]
    PROVE  /\ HeapInv' /\ types' \in Seq(Types) /\ Len(types') = Len(types)
           /\ types'[t] = x
           /\ \A u \in 1..Len(types) : u # t => types'[u] = types[u]
<1>1. types \in Seq(Types) /\ Len(types) \in Nat
  BY BodyFacts DEF IInv, TypeInv
<1>2. /\ types' \in Seq(Types) /\ Len(types') = Len(types) /\ DOMAIN types' = DOMAIN types
      /\ types'[t] = x
      /\ \A u \in 1..Len(types) : u # t => types'[u] = types[u]
  BY <1>1
<1>3. ASSUME NEW u \in DOMAIN types' PROVE Placeholder(types'[u]) \/ Complete(types'[u])
  <2>1. u \in 1..Len(types) /\ u \in DOMAIN types
    BY <1>1, <1>2
  <2>2. CASE u = t
    BY <1>2, <2>2
  <2>3. CASE u # t
    BY <1>2, <2>1, <2>3 DEF IInv, HeapInv
  <2> QED
    BY <2>2, <2>3
<1>4. HeapInv'
  BY <1>3 DEF HeapInv
<1> QED
  BY <1>2, <1>4

\* A sequence with one element replaced.
Replaced(q, n, x) == [q EXCEPT ![n] = x]

\* The other elements stay.
LEMMA ReplaceFacts ==
    ASSUME NEW q \in Seq(Bodies), NEW n \in 1..Len(q), NEW x \in Bodies
    PROVE  /\ Replaced(q, n, x) \in Seq(Bodies) /\ Len(Replaced(q, n, x)) = Len(q)
           /\ Replaced(q, n, x)[n] = x
           /\ \A i \in 1..Len(q) : i # n => Replaced(q, n, x)[i] = q[i]
BY DEF Replaced

\* The enclosing bodies, the innermost of which goes on with the given type.
Enclosing(base) ==
    LET outer == SubSeq(open, 1, Len(open) - 1)
    IN [outer EXCEPT ![Len(outer)].base = base]

\* The enclosing bodies are old ones or in order.
OldOrGood(s, base) ==
    /\ s \in Seq(Bodies) /\ Len(s) \in Nat \ {0}
    /\ \A i \in DOMAIN s : (\E j \in DOMAIN open : s[i] = open[j]) \/ Good(s[i], base)

\* The enclosing bodies after a closing brace.
LEMMA OuterFacts ==
    ASSUME IInv, InBody, NEW base \in Bases
    PROVE  OldOrGood(Enclosing(base), base)
<1>1. PICK outer : outer = SubSeq(open, 1, Len(open) - 1)
  OBVIOUS
<1>2. open \in Seq(Bodies) /\ Len(open) \in Nat /\ Len(open) > 1
  BY DEF IInv, TypeInv, InBody
<1>3. PICK n : n = Len(open) - 1
  OBVIOUS
<1>4. n \in Nat /\ n >= 1 /\ n <= Len(open)
  BY <1>2, <1>3
<1>5. /\ outer \in Seq(Bodies) /\ Len(outer) = n
      /\ \A i \in 1..n : outer[i] = open[i] /\ i \in DOMAIN open
  BY <1>2, <1>4, <1>1, <1>3, SubSeqProperties
<1>6. PICK b : b = [outer[n] EXCEPT !.base = base]
  OBVIOUS
<1>7. outer[n] = open[n] /\ n \in DOMAIN open /\ n \in DOMAIN outer
  BY <1>4, <1>5
<1>8. open[n] \in Bodies /\ BodyOK(open[n])
  BY <1>2, <1>7 DEF IInv, OpenInv
<1>9. b \in Bodies /\ BodyOK(b) /\ b.base = base
  <2>1. [open[n] EXCEPT !.base = base] \in Bodies /\ BodyOK([open[n] EXCEPT !.base = base])
    BY <1>8, BaseFree
  <2>2. [open[n] EXCEPT !.base = base].base = base
    BY <1>8 DEF Bodies
  <2> QED
    BY <1>7, <1>6, <2>1, <2>2
<1>10. PICK s : s = Enclosing(base)
  OBVIOUS
<1>11. s = [outer EXCEPT ![n] = b]
  BY <1>5, <1>7, <1>1, <1>6, <1>10 DEF Enclosing
<1>12. /\ s \in Seq(Bodies) /\ Len(s) = n /\ s[n] = b
       /\ \A i \in DOMAIN s : i = n \/ (i \in 1..n /\ s[i] = outer[i])
  <2>1. n \in 1..Len(outer)
    BY <1>4, <1>5
  <2>2. /\ s \in Seq(Bodies) /\ Len(s) = n /\ s[n] = b
        /\ \A i \in 1..n : i # n => s[i] = outer[i]
    <3>1. s = Replaced(outer, n, b)
      BY <1>11 DEF Replaced
    <3> QED
      BY <1>5, <1>9, <2>1, <3>1, ReplaceFacts
  <2>3. DOMAIN s = 1..n
    BY <2>2
  <2> QED
    BY <2>2, <2>3
<1>13. \A i \in DOMAIN s : (\E j \in DOMAIN open : s[i] = open[j]) \/ Good(s[i], base)
  BY <1>5, <1>9, <1>12 DEF Good
<1> QED
  BY <1>4, <1>12, <1>13, <1>10 DEF OldOrGood

\* A closing brace.
LEMMA CloseBodyStep ==
    ASSUME IInv, CloseBody
    PROVE  IInv'
<1>0. /\ types \in Seq(Types) /\ Len(types) \in Nat /\ tags \in [Kinds -> [Tags -> Nat]]
      /\ \A k \in Kinds, g \in Tags : tags[k][g] \in 0..Len(types)
      /\ refs \subseteq Refs /\ parts \in Nat
  BY BodyFacts DEF IInv, TypeInv, Refs
<1> PICK kind : kind = body.kind
  OBVIOUS
<1> PICK tag : tag = body.tag
  OBVIOUS
<1> PICK old : old = IF tag = NoTag THEN NULL ELSE tags[kind][tag]
  OBVIOUS
<1> PICK new : new = NewType(kind, TotalSize(body), body.max_align, body.fields)
  OBVIOUS
<1> PICK t : t = IF CompletesInPlace(old) THEN old ELSE Len(types) + 1
  OBVIOUS
<1> PICK outer : outer = SubSeq(open, 1, Len(open) - 1)
  OBVIOUS
<1>1. body \in Bodies /\ BodyOK(body)
  BY BodyFacts
<1>2. kind \in AnyKind /\ tag \in Tags \cup {NoTag} /\ (tag # NoTag => tag \in Tags /\ kind \in Kinds)
  BY <1>1 DEF Bodies, BodyOK
<1>3. new \in Types /\ Complete(new) /\ new.fields = body.fields /\ new.size # 0
  <2>1. new \in Types /\ Complete(new)
    BY <1>1, ClosedType
  <2> QED
    BY <2>1 DEF NewType, Complete, Types
<1>4. old \in 0..Len(types)
  BY <1>0, <1>2 DEF NULL
<1>5. /\ InBody /\ parts' = parts /\ refs' = refs
      /\ types' = IF CompletesInPlace(old)
                  THEN [types EXCEPT ![t] =
                          IF body.fields = <<>> THEN [new EXCEPT !.fields = types[t].fields]
                          ELSE new]
                  ELSE Append(types, new)
      /\ tags' = IF tag = NoTag THEN tags ELSE [tags EXCEPT ![kind][tag] = t]
      /\ open' = [outer EXCEPT ![Len(outer)].base = <<"tagged", t>>]
  BY DEF CloseBody
<1>6. /\ HeapInv' /\ types' \in Seq(Types) /\ Len(types') \in Nat
      /\ t \in 1..Len(types') /\ types'[t] = new /\ Len(types) <= Len(types')
      /\ \A u \in 1..Len(types) : u # t => types'[u] = types[u]
  <2>1. CASE CompletesInPlace(old)
    <3>1. t = old /\ t \in 1..Len(types) /\ types[t].size = 0
      BY <1>0, <1>4, <2>1 DEF CompletesInPlace, NULL
    <3>2. types[t].fields = <<>>
      BY <1>0, <3>1 DEF IInv, HeapInv, Placeholder, Complete
    <3>3. body.fields = <<>> => [new EXCEPT !.fields = types[t].fields] = new
      BY <1>3, <3>2 DEF Types
    <3>4. types' = [types EXCEPT ![t] = new]
      BY <1>5, <2>1, <3>3
    <3>5. /\ HeapInv' /\ types' \in Seq(Types) /\ Len(types') = Len(types)
          /\ types'[t] = new
          /\ \A u \in 1..Len(types) : u # t => types'[u] = types[u]
      BY <1>3, <3>1, <3>4, HeapComplete
    <3> QED
      BY <1>0, <3>1, <3>5
  <2>2. CASE ~CompletesInPlace(old)
    <3>1. t = Len(types) + 1 /\ types' = Append(types, new)
      BY <1>5, <2>2
    <3>2. /\ HeapInv' /\ types' \in Seq(Types) /\ Len(types') = Len(types) + 1
          /\ types'[Len(types) + 1] = new
          /\ \A u \in 1..Len(types) : types'[u] = types[u]
      BY <1>3, <3>1, HeapAppend
    <3> QED
      BY <1>0, <3>1, <3>2
  <2> QED
    BY <2>1, <2>2
<1>7. /\ tags' \in [Kinds -> [Tags -> Nat]]
      /\ \A k \in Kinds, g \in Tags :
            \/ tags'[k][g] = tags[k][g]
            \/ tags'[k][g] = t /\ tags[k][g] = old
  <2>1. CASE tag = NoTag
    BY <1>0, <1>5, <2>1
  <2>2. CASE tag # NoTag
    <3>1. tag \in Tags /\ kind \in Kinds /\ old = tags[kind][tag] /\ t \in Nat
      BY <1>2, <1>6, <2>2
    <3>2. tags' = [tags EXCEPT ![kind][tag] = t]
      BY <1>5, <2>2
    <3> QED
      BY <1>0, <3>1, <3>2
  <2> QED
    BY <2>1, <2>2
<1>8. OwnersKept
  <2> SUFFICES ASSUME NEW u \in 1..Len(types), Owned(u) PROVE Owned(u)'
    BY DEF OwnersKept
  <2>1. u \in 1..Len(types')
    BY <1>0, <1>6
  <2>2. CASE u = t
    BY <1>3, <1>6, <2>1, <2>2 DEF Owned
  <2>3. CASE u # t
    <3>1. types'[u] = types[u]
      BY <1>6, <2>3
    <3>2. CASE types[u].size # 0
      BY <2>1, <3>1, <3>2 DEF Owned
    <3>3. CASE types[u].size = 0
      <4>1. PICK k \in Kinds, g \in Tags : tags[k][g] = u
        BY <3>3 DEF Owned
      <4>2. u # old
        BY <1>0, <2>3, <3>3 DEF CompletesInPlace, NULL
      <4>3. tags'[k][g] = u
        BY <1>7, <4>1, <4>2
      <4> QED
        BY <2>1, <4>3 DEF Owned
    <3> QED
      BY <3>2, <3>3
  <2> QED
    BY <2>2, <2>3
<1>9. Owned(t)'
  BY <1>3, <1>6 DEF Owned
<1>10. <<"tagged", t>> \in Bases
  BY <1>6 DEF Bases, Tagged
<1>11. /\ open' \in Seq(Bodies) /\ Len(open') \in Nat \ {0}
       /\ \A i \in DOMAIN open' : (\E j \in DOMAIN open : open'[i] = open[j])
                                  \/ Good(open'[i], <<"tagged", t>>)
  <2>1. open' = Enclosing(<<"tagged", t>>)
    BY <1>5 DEF Enclosing
  <2>2. OldOrGood(open', <<"tagged", t>>)
    BY <1>5, <1>10, <2>1, OuterFacts
  <2> QED
    BY <2>2 DEF OldOrGood
<1>12. TypeInv'
  <2>1. ASSUME NEW k \in Kinds, NEW g \in Tags PROVE tags'[k][g] \in 0..Len(types')
    <3>1. tags[k][g] \in 0..Len(types) /\ (tags'[k][g] = t \/ tags'[k][g] = tags[k][g])
      BY <1>0, <1>7
    <3> QED
      BY <1>0, <1>6, <3>1
  <2> QED
    BY <1>0, <1>5, <1>6, <1>7, <1>11, <2>1 DEF TypeInv, Refs
<1>13. ASSUME NEW i \in DOMAIN open', Good(open'[i], <<"tagged", t>>)
       PROVE  (BodyOK(open[i]) /\ BaseOK(open[i].base))'
  <2>1. BodyOK(open'[i]) /\ open'[i].base = <<"tagged", t>>
    BY <1>13 DEF Good
  <2>2. BodyOK(open[i])'
    BY <2>1 DEF BodyOK, UnitOK, AllPlaced, Placed, EndBefore, Ordered,
                EndBit, FirstBit
  <2>3. open'[i].base[2] = t
    BY <2>1
  <2> QED
    BY <1>9, <2>2, <2>3 DEF BaseOK, Owned
<1> QED
  BY <1>5, <1>6, <1>8, <1>11, <1>12, <1>13, Transfer

\* Every step keeps the invariant.
LEMMA NextStep ==
    ASSUME IInv, Next
    PROVE  IInv'
<1>1. ASSUME NEW size \in Scalars, ScalarSpecifier(size) PROVE IInv'
  BY <1>1, ScalarStep
<1>2. ASSUME NEW r \in refs, TypedefName(r) PROVE IInv'
  BY <1>2, TypedefNameStep
<1>3. ASSUME NEW kind \in Kinds, NEW tag \in Tags, Reference(kind, tag) PROVE IInv'
  BY <1>3, ReferenceStep
<1>4. ASSUME NEW kind \in Kinds, NEW tag \in Tags \cup {NoTag}, OpenBody(kind, tag) PROVE IInv'
  BY <1>4, OpenBodyStep
<1>5. CASE CloseBody
  BY <1>5, CloseBodyStep
<1>6. CASE AnonymousMember
  BY <1>6, AnonymousStep
<1>7. ASSUME NEW named \in BOOLEAN, NEW last \in BOOLEAN, NEW width \in Widths,
             BitField(named, width, last)
      PROVE  IInv'
  BY <1>7, BitFieldStep
<1>8. ASSUME NEW shape \in Shapes, NEW last \in BOOLEAN, Member(shape, last) PROVE IInv'
  BY <1>8, MemberStep
<1>9. ASSUME NEW shape \in Shapes, NEW last \in BOOLEAN, FlexibleMember(shape, last) PROVE IInv'
  BY <1>9, FlexibleStep
<1>10. ASSUME NEW shape \in Shapes, FileDeclaration(shape) PROVE IInv'
  BY <1>10, FileDeclarationStep
<1>11. CASE BodyError
  BY <1>11, ErrorStep DEF BodyError
<1> QED
  BY <1>1, <1>2, <1>3, <1>4, <1>5, <1>6, <1>7, <1>8, <1>9, <1>10, <1>11 DEF Next

\* IInv is an invariant of the layout of types.
LEMMA Inductive == Spec => []IInv
<1>1. Init => IInv
  <2> SUFFICES ASSUME Init PROVE IInv
    OBVIOUS
  <2>1. File \in Bodies /\ BodyOK(File) /\ File.base = NoBase
    BY NewBodyFacts DEF File, AnyKind, Good
  <2>2. /\ types = <<>> /\ tags = [k \in Kinds |-> [t \in Tags |-> NULL]]
        /\ open = <<File>> /\ parts = 0 /\ refs = {}
    BY DEF Init
  <2>3. TypeInv
    <3>1. tags \in [Kinds -> [Tags -> Nat]]
          /\ \A kind \in Kinds, tag \in Tags : tags[kind][tag] = 0
      BY <2>2 DEF NULL
    <3>2. open \in Seq(Bodies) /\ Len(open) \in Nat \ {0}
      BY <2>1, <2>2
    <3>3. types \in Seq(Types) /\ Len(types) = 0
      BY <2>2
    <3> QED
      BY <2>2, <3>1, <3>2, <3>3 DEF TypeInv
  <2>4. HeapInv /\ RefInv
    BY <2>2 DEF HeapInv, RefInv
  <2>5. OpenInv
    <3>1. NoBase \notin Tagged
      BY DEF NoBase, Tagged
    <3>2. \A i \in DOMAIN open : open[i] = File
      BY <2>2
    <3> QED
      BY <2>1, <3>1, <3>2 DEF OpenInv, BaseOK
  <2> QED
    BY <2>3, <2>4, <2>5 DEF IInv
<1>2. IInv /\ [Next]_vars => IInv'
  <2>1. ASSUME IInv, UNCHANGED vars PROVE IInv'
    BY <2>1 DEF vars, IInv, TypeInv, HeapInv, OpenInv, RefInv, RefOK, BaseOK, Owned, BodyOK,
                UnitOK, AllPlaced, Placed, EndBefore, Ordered, EndBit, FirstBit,
                Placeholder, Complete
  <2> QED
    BY <2>1, NextStep
<1> QED
  BY <1>1, <1>2, PTL DEF Spec

-----------------------------------------------------------------------------
(***************************************************************************)
(* The theorems.                                                           *)
(***************************************************************************)

\* The members of a struct follow each other in the order they are declared in,
\* so that an assignment to one leaves the others alone, and no member of a
\* struct or union reaches past its end, for any sequence of declarators that
\* parse_struct_specifier and parse_union_specifier accept.  MembersDisjoint
\* says which assignments it does not speak of.
THEOREM MembersNeverOverlap == Spec => []MembersDisjoint
<1>1. IInv => MembersDisjoint
  <2> SUFFICES ASSUME IInv PROVE MembersDisjoint
    OBVIOUS
  <2>0. /\ \A t \in DOMAIN types : types[t].fields \in Seq(Fields)
        /\ \A i \in DOMAIN open : open[i].fields \in Seq(Fields)
    <3>1. types \in Seq(Types) /\ open \in Seq(Bodies)
      BY DEF IInv, TypeInv
    <3>2. ASSUME NEW t \in DOMAIN types PROVE types[t].fields \in Seq(Fields)
      <4>1. types[t] \in Types
        BY <3>1
      <4> QED
        BY <4>1 DEF Types
    <3>3. ASSUME NEW i \in DOMAIN open PROVE open[i].fields \in Seq(Fields)
      <4>1. open[i] \in Bodies
        BY <3>1
      <4> QED
        BY <4>1 DEF Bodies
    <3> QED
      BY <3>2, <3>3
  <2>1. ASSUME NEW t \in DOMAIN types
        PROVE  /\ types[t].kind = "struct" => StoresApart(types[t].fields)
               /\ \A i \in DOMAIN types[t].fields :
                     EndBit(types[t].fields[i]) <= 8 * types[t].size
    <3>1. CASE Placeholder(types[t])
      <4>1. types[t].fields = <<>>
        BY <3>1 DEF Placeholder
      <4> QED
        BY <4>1 DEF StoresApart
    <3>2. CASE Complete(types[t])
      <4>1. ASSUME types[t].kind = "struct" PROVE StoresApart(types[t].fields)
        BY <2>0, <3>2, <4>1, OrderedApart DEF Complete
      <4>2. \A i \in DOMAIN types[t].fields :
               EndBit(types[t].fields[i]) <= 8 * types[t].size
        BY <3>2 DEF Complete, AllPlaced, Placed
      <4> QED
        BY <4>1, <4>2
    <3> QED
      BY <3>1, <3>2 DEF IInv, HeapInv
  <2>2. ASSUME NEW i \in DOMAIN open, open[i].kind = "struct"
        PROVE  StoresApart(open[i].fields)
    <3>1. Ordered(open[i].fields)
      BY <2>2 DEF IInv, OpenInv, BodyOK
    <3> QED
      BY <2>0, <3>1, OrderedApart
  <2> QED
    BY <2>1, <2>2 DEF MembersDisjoint
<1> QED
  BY <1>1, Inductive, PTL

\* In every complete type the members are where their alignment wants them, in
\* every element of an array of the type: the size is a multiple of the
\* alignment even of an empty struct, whose one byte is not rounded up.
THEOREM MembersAreAligned == Spec => []MembersAligned
<1>1. IInv => MembersAligned
  <2> SUFFICES ASSUME IInv, NEW t \in DOMAIN types, types[t].size # 0
               PROVE  /\ types[t].size % types[t].alignment = 0
                      /\ \A i \in DOMAIN types[t].fields :
                            LET f == types[t].fields[i]
                            IN /\ f.offset % f.align = 0 /\ types[t].alignment % f.align = 0
                               /\ f.bit_offset + f.bits <= 8 * f.unit
    BY DEF MembersAligned
  <2>1. Complete(types[t])
    BY DEF IInv, HeapInv, Placeholder
  <2>2. types[t].size % types[t].alignment = 0 /\ types[t].alignment \in Aligns
    BY <2>1 DEF Complete
  <2>3. types[t] \in Types
    BY DEF IInv, TypeInv
  <2>4. types[t].fields \in Seq(Fields)
    BY <2>3 DEF Types
  <2>5. ASSUME NEW i \in DOMAIN types[t].fields
        PROVE  /\ types[t].fields[i].offset % types[t].fields[i].align = 0
               /\ types[t].alignment % types[t].fields[i].align = 0
               /\ types[t].fields[i].bit_offset + types[t].fields[i].bits
                     <= 8 * types[t].fields[i].unit
    <3> PICK f : f = types[t].fields[i]
      OBVIOUS
    <3>1. f \in Fields
      BY <2>4
    <3>2. Placed(f, types[t].size, types[t].alignment)
      BY <2>1 DEF Complete, AllPlaced
    <3>3. f.align \in Aligns /\ f.align <= types[t].alignment
      BY <3>1, <3>2 DEF Placed, Fields
    <3>4. types[t].alignment % f.align = 0
      BY <2>2, <3>3, AlignsDivide
    <3> QED
      BY <3>2, <3>4 DEF Placed
  <2> QED
    BY <2>2, <2>5
<1> QED
  BY <1>1, Inductive, PTL

\* A placeholder that pointers or typedefs share is still the type of its tag,
\* so the body that completes the tag completes it for all of them.
THEOREM PlaceholdersStayOwned == Spec => []ReferencesAreCompleted
<1>1. IInv => ReferencesAreCompleted
  BY DEF IInv, RefInv, RefOK, Owned, ReferencesAreCompleted
<1> QED
  BY <1>1, Inductive, PTL

\* No step changes a complete type: redefining a tag allocates a new one.
THEOREM CompleteTypesAreFinal == Spec => LayoutIsFinal
<1> DEFINE Final == \A t \in DOMAIN types : types[t].size # 0 => types'[t] = types[t]
<1>1. IInv /\ [Next]_vars => [Final]_vars
  <2> SUFFICES ASSUME IInv, Next, NEW t \in DOMAIN types, types[t].size # 0
               PROVE  types'[t] = types[t]
    BY DEF vars
  <2>0. types \in Seq(Types) /\ Len(types) \in Nat
    BY BodyFacts DEF IInv, TypeInv
  <2>1. \A x : Append(types, x)[t] = types[t]
    BY <2>0
  <2>2. \A shape : types' = Heap(shape) => types'[t] = types[t]
    BY <2>1 DEF Heap
  <2>3. Error => types'[t] = types[t]
    BY DEF Error
  <2>4. ASSUME CloseBody PROVE types'[t] = types[t]
    <3>1. PICK u, x, y : \/ u # NULL /\ types[u].size = 0 /\ types' = [types EXCEPT ![u] = x]
                         \/ types' = Append(types, y)
      BY <2>4 DEF CloseBody, CompletesInPlace
    <3>2. CASE types[u].size = 0 /\ types' = [types EXCEPT ![u] = x]
      <4>1. u # t
        BY <3>2
      <4> QED
        BY <2>0, <3>2, <4>1
    <3> QED
      BY <2>1, <3>1, <3>2
  <2>5. \A size : ScalarSpecifier(size) => types'[t] = types[t]
    BY <2>3 DEF ScalarSpecifier
  <2>6. \A r : TypedefName(r) => types'[t] = types[t]
    BY <2>3 DEF TypedefName
  <2>7. \A kind, tag : Reference(kind, tag) => types'[t] = types[t]
    BY <2>1, <2>3 DEF Reference
  <2>8. \A kind, tag : OpenBody(kind, tag) => types'[t] = types[t]
    BY <2>3 DEF OpenBody
  <2>9. \A named, width, last : BitField(named, width, last) => types'[t] = types[t]
    BY <2>3 DEF BitField
  <2>10. \A shape, last : Member(shape, last) => types'[t] = types[t]
    BY <2>2, <2>3 DEF Member
  <2>11. \A shape, last : FlexibleMember(shape, last) => types'[t] = types[t]
    BY <2>3 DEF FlexibleMember
  <2>12. \A shape : FileDeclaration(shape) => types'[t] = types[t]
    BY <2>2 DEF FileDeclaration
  <2> QED
    BY <2>3, <2>4, <2>5, <2>6, <2>7, <2>8, <2>9, <2>10, <2>11, <2>12
       DEF Next, AnonymousMember, BodyError
<1> QED
  BY <1>1, Inductive, PTL DEF Spec, LayoutIsFinal
=============================================================================
