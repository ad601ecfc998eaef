------------------------------- MODULE Layout -------------------------------
(***************************************************************************)
(* Struct and union types: the two tag tables and the layout of members. *)
(*                                                                         *)
(* parse_struct_specifier and parse_union_specifier read a specifier with  *)
(* or without a body.  Bodies nest, because the type of a member may be a  *)
(* specifier with a body of its own; every open body is a frame of the     *)
(* stack "open", whose first frame stands for the file.  Types live on the *)
(* heap ("types") and are shared by pointer: a specifier without a body    *)
(* hands out the tag's type, an incomplete placeholder if need be, and the *)
(* body that completes it later has to fill in that very object.  A        *)
(* qualified pointer takes a copy of the object instead.                   *)
(*                                                                         *)
(* A syntax or semantic error abandons all open bodies; the tag tables and *)
(* the heap keep what was stored in them.                                  *)
(***************************************************************************)
EXTENDS Integers, Sequences

CONSTANTS
    Tags,        \* tag identifiers
    Scalars,     \* sizes of the scalar types, 0 for void; also their alignments
    Widths,      \* bit-field widths
    ArrayLen,    \* length of array members
    MaxParts,    \* model bound: specifiers and declarators of the unit
    MaxTypes,    \* model bound: objects on the heap
    MaxDepth     \* model bound: nested bodies

ASSUME LayoutAssumption ==
    /\ Scalars \subseteq {0, 1, 2, 4, 8}
    /\ Widths \subseteq Nat
    /\ ArrayLen \in Nat \ {0}
    /\ {MaxParts, MaxTypes, MaxDepth} \subseteq Nat

Kinds == {"struct", "union"}
NoTag == "no tag"
NULL == 0

VARIABLES
    types,   \* the heap of struct and union types, in order of allocation
    tags,    \* kind -> tag -> type, NULL while the tag has none
    open,    \* the file and the open bodies, innermost last
    parts,   \* specifiers and declarators so far
    refs     \* history: what pointers and typedefs were made to refer to

vars == <<types, tags, open, parts, refs>>

NoBase == <<>>

\* The locals of a specifier at its opening brace.  In a union, "extent" is
\* max_size; in a struct, current_offset.  bf_unit_align is history: the
\* alignment that the open storage unit was placed with.
NewBody(kind, tag) ==
    [kind |-> kind, tag |-> tag, extent |-> 0, max_align |-> 1,
     bf_unit_offset |-> -1, bf_unit_size |-> 0, bf_bits_used |-> 0, bf_unit_align |-> 1,
     has_flexible_array |-> FALSE, fields |-> <<>>, base |-> NoBase]

File == NewBody("file", NoTag)

Init ==
    /\ types = <<>>
    /\ tags = [k \in Kinds |-> [t \in Tags |-> NULL]]
    /\ open = <<File>>
    /\ parts = 0
    /\ refs = {}

body == open[Len(open)]
InBody == Len(open) > 1
SetBody(b) == open' = [open EXCEPT ![Len(open)] = b]

\* PARSER_ERROR: back to the loop over external declarations.
Error == open' = <<File>> /\ UNCHANGED <<types, tags, parts, refs>>

(***************************************************************************)
(* Types.  A base is <<"scalar", size>> or <<"tagged", type>>.             *)
(***************************************************************************)
Size(base) == IF base[1] = "scalar" THEN base[2] ELSE types[base[2]].size

Alignment(base) == IF base[1] = "scalar" THEN base[2] ELSE types[base[2]].alignment

Incomplete(base) == base[1] = "tagged" /\ Size(base) = 0

\* A struct or union type with its totals; fields are copied in afterwards.
NewType(kind, size, alignment, fields) ==
    [kind |-> kind, size |-> size, alignment |-> alignment, fields |-> fields]

AtLeast1(n) == IF n < 1 THEN 1 ELSE n
RoundUp(n, a) == ((n + a - 1) \div a) * a
Larger(m, n) == IF m > n THEN m ELSE n

(***************************************************************************)
(* Specifiers.                                                             *)
(***************************************************************************)

\* Every declaration of a body starts with its type; none may follow a
\* flexible array member.
StartsDeclaration == body.base = NoBase /\ parts < MaxParts
Counted == parts' = parts + 1
MayFollow == ~body.has_flexible_array

ScalarSpecifier(size) ==
    /\ InBody /\ StartsDeclaration
    /\ \/ ~MayFollow /\ Error
       \/ /\ MayFollow
          /\ SetBody([body EXCEPT !.base = <<"scalar", size>>])
          /\ Counted
          /\ UNCHANGED <<types, tags, refs>>

\* A typedef name of a struct or union.
TypedefName(r) ==
    /\ InBody /\ StartsDeclaration
    /\ ~r.qualified
    /\ \/ ~MayFollow /\ Error
       \/ /\ MayFollow
          /\ SetBody([body EXCEPT !.base = <<"tagged", r.type>>])
          /\ Counted
          /\ UNCHANGED <<types, tags, refs>>

\* "struct Tag" without a body.
Reference(kind, tag) ==
    /\ StartsDeclaration
    /\ \/ ~MayFollow /\ Error
       \/ /\ MayFollow
          /\ tags[kind][tag] = NULL => Len(types) < MaxTypes
          /\ LET t == IF tags[kind][tag] = NULL THEN Len(types) + 1 ELSE tags[kind][tag]
             IN /\ types' = IF tags[kind][tag] = NULL
                            THEN Append(types, NewType(kind, 0, 0, <<>>)) ELSE types
                /\ tags' = [tags EXCEPT ![kind][tag] = t]
                /\ SetBody([body EXCEPT !.base = <<"tagged", t>>])
                /\ Counted
                /\ UNCHANGED refs

\* The opening brace of a body, after a tag or without one.
OpenBody(kind, tag) ==
    /\ StartsDeclaration
    /\ \/ ~MayFollow /\ Error
       \/ /\ MayFollow
          /\ Len(open) <= MaxDepth
          /\ open' = Append(open, NewBody(kind, tag))
          /\ Counted
          /\ UNCHANGED <<types, tags, refs>>

\* Mutant: the type is updated in place whatever its size is.
CompletesInPlace_Always(t) == t # NULL

\* Mutant: a body always gets a type of its own.
CompletesInPlace_Never(t) == FALSE

\* The tag has a placeholder that the body completes.
CompletesInPlace(t) == t # NULL /\ types[t].size = 0

\* Mutant: the total is not rounded up.
TotalSize_NotRounded(b) == AtLeast1(b.extent)

TotalSize(b) == AtLeast1(RoundUp(b.extent, b.max_align))

\* The closing brace: the totals are stored in the tag's placeholder or in a new
\* type, which becomes the tag's, and the fields copied; an empty body leaves
\* the fields as they are.  The enclosing declaration goes on with the type.
CloseBody ==
    /\ InBody /\ body.base = NoBase
    /\ LET old == IF body.tag = NoTag THEN NULL ELSE tags[body.kind][body.tag]
           in_place == CompletesInPlace(old)
           t == IF in_place THEN old ELSE Len(types) + 1
           new == NewType(body.kind, TotalSize(body), body.max_align, body.fields)
           outer == SubSeq(open, 1, Len(open) - 1)
       IN /\ in_place \/ Len(types) < MaxTypes
          /\ types' = IF in_place
                      THEN [types EXCEPT ![t] =
                              IF body.fields = <<>> THEN [new EXCEPT !.fields = types[t].fields]
                              ELSE new]
                      ELSE Append(types, new)
          /\ tags' = IF body.tag = NoTag THEN tags
                     ELSE [tags EXCEPT ![body.kind][body.tag] = t]
          /\ open' = [outer EXCEPT ![Len(outer)].base = <<"tagged", t>>]
          /\ UNCHANGED <<parts, refs>>

(***************************************************************************)
(* Declarators.                                                            *)
(***************************************************************************)

\* After a declarator the list goes on with "," or the declaration ends in ";".
EndDeclarator(b, last) ==
    [b EXCEPT !.base = IF last THEN NoBase ELSE @]

CloseUnit(b) ==
    [b EXCEPT !.bf_unit_offset = -1, !.bf_unit_size = 0, !.bf_bits_used = 0,
              !.bf_unit_align = 1]

Declarator == /\ InBody /\ body.base # NoBase
              /\ parts < MaxParts

\* "struct { ... };" in a body declares no member and reserves no space.
AnonymousMember ==
    /\ InBody /\ body.base # NoBase /\ body.base[1] = "tagged"
    /\ SetBody([body EXCEPT !.base = NoBase])
    /\ UNCHANGED <<types, tags, parts, refs>>

\* Mutant: the bits already used are not counted.
NeedsUnit_FirstOnly(b, unit_size, width) ==
    b.bf_unit_offset < 0 \/ b.bf_unit_size # unit_size

NeedsUnit(b, unit_size, width) ==
    \/ b.bf_unit_offset < 0
    \/ b.bf_unit_size # unit_size
    \/ b.bf_bits_used + width > unit_size * 8

\* The body with a storage unit that has room for the bit-field.
WithUnit(b, unit_size, unit_align, width) ==
    IF ~NeedsUnit(b, unit_size, width) THEN b
    ELSE LET offset == RoundUp(b.extent, unit_align)
         IN [b EXCEPT !.max_align = Larger(@, unit_align), !.extent = offset + unit_size,
                      !.bf_unit_offset = offset, !.bf_unit_size = unit_size,
                      !.bf_bits_used = 0, !.bf_unit_align = unit_align]

\* A bit-field of a struct, with a name or without.  Unions have none.  Its type
\* is not checked: it may be a struct or union, and a unit that such a bit-field
\* opened is shared with later ones of the same size, whatever their alignment.
BitField(named, width, last) ==
    /\ Declarator /\ body.kind = "struct"
    /\ LET unit_size == IF Size(body.base) < 1 THEN 4 ELSE Size(body.base)
           unit_align == IF Alignment(body.base) < 1 THEN unit_size ELSE Alignment(body.base)
           b == WithUnit(body, unit_size, unit_align, width)
           field == [kind |-> "bit-field", offset |-> b.bf_unit_offset,
                     bit_offset |-> b.bf_bits_used, bits |-> width,
                     align |-> b.bf_unit_align, unit |-> unit_size]
       IN \/ named /\ (width = 0 \/ width > unit_size * 8) /\ Error
          \/ /\ named => width \in 1..(unit_size * 8)
             /\ SetBody(EndDeclarator(
                  IF width = 0 THEN CloseUnit(body)
                  ELSE [b EXCEPT !.bf_bits_used = @ + width,
                                 !.fields = IF named THEN Append(@, field) ELSE @],
                  last))
             /\ Counted
             /\ UNCHANGED <<types, tags, refs>>

Shapes == {"plain", "pointer", "qualified pointer", "array", "pointer array"}
IsPointer(shape) == shape \in {"pointer", "qualified pointer", "pointer array"}

FieldSize(base, shape) ==
    (IF IsPointer(shape) THEN 8 ELSE Size(base))
        * (IF shape \in {"array", "pointer array"} THEN ArrayLen ELSE 1)

FieldAlign(base, shape) == IF IsPointer(shape) THEN 8 ELSE Alignment(base)

\* A member of an incomplete type is rejected; an array of them is not.
Rejected(base, shape) == shape = "plain" /\ Incomplete(base)

\* The type a pointer refers to: the base, or a copy of it as it is now.
Copies(shape) == shape = "qualified pointer" /\ body.base[1] = "tagged"
Heap(shape) == IF Copies(shape) THEN Append(types, types[body.base[2]]) ELSE types
Refers(shape) ==
    IF body.base[1] = "tagged" /\ IsPointer(shape)
    THEN refs \cup {[qualified |-> Copies(shape),
                     type |-> IF Copies(shape) THEN Len(types) + 1 ELSE body.base[2]]}
    ELSE refs

Place(b, align) == IF b.kind = "union" THEN 0 ELSE RoundUp(b.extent, align)

\* A member that is neither a bit-field nor a flexible array.
Member(shape, last) ==
    /\ Declarator
    /\ \/ Rejected(body.base, shape) /\ Error
       \/ /\ ~Rejected(body.base, shape)
          /\ Copies(shape) => Len(types) < MaxTypes
          /\ LET b == CloseUnit(body)
                 fsz == AtLeast1(FieldSize(body.base, shape))
                 falign == AtLeast1(FieldAlign(body.base, shape))
                 offset == Place(b, falign)
                 field == [kind |-> "member", offset |-> offset, bit_offset |-> 0,
                           bits |-> 8 * fsz, align |-> falign, unit |-> fsz]
             IN SetBody(EndDeclarator(
                  [b EXCEPT !.extent = Larger(@, offset + fsz), !.fields = Append(@, field),
                            !.max_align = Larger(@, falign)], last))
          /\ types' = Heap(shape)
          /\ refs' = Refers(shape)
          /\ Counted
          /\ UNCHANGED tags

\* An unsized array: the flexible array member of a struct, an error in a union
\* and as the first member.  Its alignment is that of the base of the
\* declaration, even when its elements are pointers.  It adds no bits to the
\* size; its elements lie behind it, as far as the object's memory goes.
FlexibleMember(shape, last) ==
    /\ Declarator /\ shape \in {"plain", "pointer"}
    /\ \/ (body.kind = "union" \/ body.fields = <<>>) /\ Error
       \/ /\ body.kind = "struct" /\ body.fields # <<>>
          /\ LET b == CloseUnit(body)
                 falign == AtLeast1(Alignment(body.base))
                 offset == RoundUp(b.extent, falign)
                 field == [kind |-> "flexible", offset |-> offset, bit_offset |-> 0,
                           bits |-> 0, align |-> falign, unit |-> 0]
             IN SetBody(EndDeclarator(
                  [b EXCEPT !.extent = offset, !.fields = Append(@, field),
                            !.max_align = Larger(@, falign),
                            !.has_flexible_array = TRUE], last))
          /\ refs' = Refers(shape)
          /\ Counted
          /\ UNCHANGED <<types, tags>>

\* The rest of a file-scope declaration: none ("struct S;"), a typedef or an
\* object that shares the type, or a pointer to a qualified copy.
FileDeclaration(shape) ==
    /\ ~InBody /\ body.base # NoBase
    /\ shape \in {"plain", "pointer", "qualified pointer"}
    /\ Copies(shape) => Len(types) < MaxTypes
    /\ SetBody([body EXCEPT !.base = NoBase])
    /\ types' = Heap(shape)
    /\ refs' = Refers(shape)
    /\ UNCHANGED <<tags, parts>>

\* Any other error in a body.
BodyError == InBody /\ Error

Next ==
    \/ \E size \in Scalars : ScalarSpecifier(size)
    \/ \E r \in refs : TypedefName(r)
    \/ \E kind \in Kinds, tag \in Tags : Reference(kind, tag)
    \/ \E kind \in Kinds, tag \in Tags \cup {NoTag} : OpenBody(kind, tag)
    \/ CloseBody
    \/ AnonymousMember
    \/ \E named, last \in BOOLEAN, width \in Widths : BitField(named, width, last)
    \/ \E shape \in Shapes, last \in BOOLEAN : Member(shape, last)
    \/ \E shape \in Shapes, last \in BOOLEAN : FlexibleMember(shape, last)
    \/ \E shape \in Shapes : FileDeclaration(shape)
    \/ BodyError

Spec == Init /\ [][Next]_vars

(***************************************************************************)
(* Properties.                                                             *)
(***************************************************************************)
FirstBit(f) == 8 * f.offset + f.bit_offset
EndBit(f) == FirstBit(f) + f.bits

Min32(n) == IF n > 32 THEN 32 ELSE n

\* The bits that an assignment (=) alters.  A bit-field's is a 32-bit read, modify
\* and write at the offset of its unit, and a shift by 32 or more starts again
\* at 0; the read has the field whole only in the first 32 bits of the unit.
StoredFirst(f) == IF f.kind = "bit-field" THEN 8 * f.offset + (f.bit_offset % 32)
                  ELSE FirstBit(f)
StoredEnd(f) == IF f.kind = "bit-field"
                THEN 8 * f.offset + Min32((f.bit_offset % 32) + f.bits)
                ELSE EndBit(f)
StoredWhole(f) ==
    f.kind = "bit-field" => f.bit_offset < 32 /\ f.bit_offset + f.bits <= 32

\* An assignment to f, or to an element of it, alters bits of g.
Alters(f, g) ==
    /\ f.kind = "flexible" \/ FirstBit(g) < StoredEnd(f)
    /\ g.kind = "flexible" \/ StoredFirst(f) < EndBit(g)

\* The later of two members was declared behind a flexible array, in the same
\* declaration, where the parser does not look for it.
BehindFlexible(fields, i, j) == fields[IF i < j THEN i ELSE j].kind = "flexible"

StoresApart(fields) ==
    \A i, j \in DOMAIN fields :
        i # j /\ StoredWhole(fields[i]) /\ ~BehindFlexible(fields, i, j) =>
            ~Alters(fields[i], fields[j])

\* An assignment to one member of a struct leaves the others alone, whatever mix
\* of bit-fields, arrays, nested structs and flexible arrays it declares, and no
\* member of a struct or union reaches past its end.  Not so for a bit-field
\* that is not in the first 32 bits of its unit, which the generated code does
\* not store in its place, nor for a member declared behind a flexible array in
\* the same declaration ("int a[], b;"), which the parser accepts and puts on
\* top of it.  The flexible array of a nested struct counts for its type only.
MembersDisjoint ==
    /\ \A t \in DOMAIN types :
          /\ types[t].kind = "struct" => StoresApart(types[t].fields)
          /\ \A i \in DOMAIN types[t].fields :
                EndBit(types[t].fields[i]) <= 8 * types[t].size
    /\ \A i \in DOMAIN open : open[i].kind = "struct" => StoresApart(open[i].fields)

\* In every element of an array of a complete type every member is aligned:
\* offsets are multiples of the alignment the member was placed with, which
\* divides the alignment of the type, which divides its size; a bit-field does
\* not leave its storage unit, which is what was aligned for it.
MembersAligned ==
    \A t \in DOMAIN types : types[t].size # 0 =>
        /\ types[t].size % types[t].alignment = 0
        /\ \A i \in DOMAIN types[t].fields :
              LET f == types[t].fields[i]
              IN /\ f.offset % f.align = 0 /\ types[t].alignment % f.align = 0
                 /\ f.bit_offset + f.bits <= 8 * f.unit

\* A complete type never changes, not even when its tag is defined again:
\* objects that were laid out with it stay valid.
LayoutIsFinal ==
    [][\A t \in DOMAIN types : types[t].size # 0 => types'[t] = types[t]]_vars

\* An incomplete type that an unqualified pointer or a typedef refers to is
\* still the type of its tag, so that the body that completes the tag completes
\* what they refer to.
ReferencesAreCompleted ==
    \A r \in refs : ~r.qualified /\ types[r.type].size = 0 =>
        \E kind \in Kinds, tag \in Tags : tags[kind][tag] = r.type
=============================================================================
