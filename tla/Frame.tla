-------------------------------- MODULE Frame -------------------------------
(***************************************************************************)
(* The stack frame codegen_function lays out.  Before it emits anything it *)
(* walks the function and adds up how many bytes the frame will need: the  *)
(* parameters, the results of struct-returning calls, the compound         *)
(* literals, the local declarations.  The sum, rounded up to 16, is what   *)
(* the prologue subtracts from rsp.  The slots are handed out later, one   *)
(* declaration at a time, by a bump allocator (stack_offset) that aligns   *)
(* each of them.  Nothing ties the two together but the claim that the sum *)
(* is an upper bound; a slot beyond it lies below rsp, where pushes and    *)
(* calls overwrite it.                                                     *)
(*                                                                         *)
(* Offsets are bytes below rbp, which the prologue leaves 16-byte aligned. *)
(***************************************************************************)
EXTENDS Naturals, Sequences

CONSTANTS
    ParamTypes,    \* types of parameters bound from registers or scalars
    MemParamTypes, \* types of struct parameters passed in memory
    LocalTypes,    \* types of local declarations
    LiteralTypes,  \* types of compound literals
    CallSizes,     \* sizes of the structs that called functions return
    MaxNodes       \* model bound: category -> number of nodes

\* A type: what compute_decl_bytes and codegen_add_var tell apart.
Shapes == {"scalar", "array", "struct", "static"}
IsType(t) ==
    /\ t.shape \in Shapes
    /\ t.size \in Nat \ {0}
    /\ t.align \in {1, 2, 4, 8}
    /\ t.shape = "scalar" => t.align = t.size

ASSUME FrameAssumption ==
    /\ \A t \in ParamTypes : IsType(t) /\ t.shape \in {"scalar", "struct"}
    /\ \A t \in MemParamTypes : IsType(t) /\ t.shape = "struct"
    /\ \A t \in LocalTypes : IsType(t)
    /\ \A t \in LiteralTypes : IsType(t) /\ t.shape # "static"
    /\ CallSizes \subseteq Nat \ {0}
    /\ \A c \in DOMAIN MaxNodes : MaxNodes[c] \in Nat

VARIABLES
    phase,
    is_variadic, returns_memory_struct,
    nodes,         \* category -> the nodes the walk has met, in order
    bytes,         \* category -> the bytes it has counted for them
    stack_size,    \* what the prologue subtracts from rsp
    stack_offset,
    struct_ret_scratch_cursor,
    done,          \* category -> nodes that have their slot
    slots          \* the slots handed out so far

vars == <<phase, is_variadic, returns_memory_struct, nodes, bytes, stack_size,
          stack_offset, struct_ret_scratch_cursor, done, slots>>

Categories == {"param", "mem_param", "call", "literal", "decl"}

TypesOf(c) == CASE c = "param" -> ParamTypes [] c = "mem_param" -> MemParamTypes
                [] c = "literal" -> LiteralTypes [] c = "decl" -> LocalTypes
                [] c = "call" -> {[shape |-> "struct", size |-> s, align |-> 8] :
                                  s \in CallSizes}

\* (n + a - 1) & ~(a - 1), for a power of two a.
RoundUp(n, a) == ((n + a - 1) \div a) * a

(***************************************************************************)
(* The walks that add up the frame.                                        *)
(***************************************************************************)

\* Mutant: the slack for the alignment of an array is left out.
DeclBytes_NoSlack(t) ==
    CASE t.shape = "array" -> t.size
      [] t.shape = "struct" -> t.size + (t.align - 1)
      [] OTHER -> 8

\* compute_decl_bytes for one declaration, a static one included.
DeclBytes(t) ==
    CASE t.shape = "array" -> t.size + 7
      [] t.shape = "struct" -> t.size + (t.align - 1)
      [] OTHER -> 8

\* What each walk counts for a node.
Bytes(c, t) ==
    CASE c \in {"param", "mem_param"} ->
            IF t.shape = "struct" THEN RoundUp(t.size, 8) ELSE 8
      [] c = "call" -> RoundUp(t.size, 8) + 8
      [] c = "literal" -> t.size + (t.align - 1)
      [] c = "decl" -> DeclBytes(t)

Init ==
    /\ phase = "param"
    /\ is_variadic \in BOOLEAN /\ returns_memory_struct \in BOOLEAN
    /\ nodes = [c \in Categories |-> <<>>]
    /\ bytes = [c \in Categories |-> 0]
    /\ stack_size = 0
    /\ stack_offset = 0
    /\ struct_ret_scratch_cursor = 0
    /\ done = [c \in Categories |-> 0]
    /\ slots = {}

\* A walk meets one more node, or ends and the next walk starts.
Walk(c, t) ==
    /\ phase = c
    /\ Len(nodes[c]) < MaxNodes[c]
    /\ nodes' = [nodes EXCEPT ![c] = Append(@, t)]
    /\ bytes' = [bytes EXCEPT ![c] = @ + Bytes(c, t)]
    /\ UNCHANGED <<phase, is_variadic, returns_memory_struct, stack_size,
                   stack_offset, struct_ret_scratch_cursor, done, slots>>

After(c) == CASE c = "param" -> "mem_param" [] c = "mem_param" -> "call"
              [] c = "call" -> "literal" [] c = "literal" -> "decl"
              [] c = "decl" -> "prologue"

WalkEnd ==
    /\ phase \in Categories
    /\ phase' = After(phase)
    /\ UNCHANGED <<is_variadic, returns_memory_struct, nodes, bytes, stack_size,
                   stack_offset, struct_ret_scratch_cursor, done, slots>>

(***************************************************************************)
(* The prologue, and the slots.                                            *)
(***************************************************************************)
SavedRegs == 40      \* rbx and r12..r15
RegSaveArea == 176   \* the argument registers of a variadic function

Slot(hi, size, what) == [lo |-> hi - size, hi |-> hi, what |-> what]

FrameBytes ==
    bytes["param"] + bytes["mem_param"] + bytes["decl"] + bytes["literal"]
        + bytes["call"] + (IF returns_memory_struct THEN 8 ELSE 0)
        + SavedRegs + (IF is_variadic THEN 8 + RegSaveArea ELSE 0)

\* Mutant: the scratch cursor starts above the scratch region.
ScratchStart_After(off) == off + bytes["call"]

ScratchStart(off) == off

ScratchEnd(off) == off + bytes["call"]

\* The prologue fixes the frame, saves the callee-saved registers, and for a
\* variadic function the argument registers, then sets the scratch region for
\* struct results aside, and a slot for the hidden return pointer.
Prologue ==
    /\ phase = "prologue"
    /\ stack_size' = RoundUp(FrameBytes, 16)
    /\ LET saved == IF is_variadic THEN RoundUp(SavedRegs, 16) + RegSaveArea
                                   ELSE SavedRegs
           scratch == ScratchEnd(saved)
           top == IF returns_memory_struct THEN scratch + 8 ELSE scratch
       IN /\ struct_ret_scratch_cursor' = ScratchStart(saved)
          /\ stack_offset' = top
          /\ slots' = {Slot(SavedRegs, SavedRegs, "saved")}
                \cup (IF is_variadic THEN {Slot(saved, RegSaveArea, "varargs")} ELSE {})
                \cup (IF returns_memory_struct THEN {Slot(top, 8, "sret")} ELSE {})
    /\ phase' = "bind"
    /\ UNCHANGED <<is_variadic, returns_memory_struct, nodes, bytes, done>>

\* codegen_add_var and scan_expr_compound_literals: reserve, then align.
codegen_add_var(size, align, what) ==
    /\ stack_offset' = RoundUp(stack_offset + size, align)
    /\ slots' = slots \cup {Slot(stack_offset', size, what)}

\* The node of category c whose turn it is.
NextNode(c) == nodes[c][done[c] + 1]
Pending(c) == done[c] < Len(nodes[c])
Complete(c) == done' = [done EXCEPT ![c] = @ + 1]

\* A parameter gets a slot of its own: a struct one of whole eightbytes.  The
\* parameters in registers are bound before the ones in memory.
BindParam ==
    \E c \in {"param", "mem_param"} :
        /\ phase = "bind" /\ Pending(c)
        /\ c = "mem_param" => ~Pending("param")
        /\ LET t == NextNode(c)
           IN IF t.shape = "struct"
              THEN codegen_add_var(RoundUp(t.size, 8), 8, "param")
              ELSE codegen_add_var(t.size, t.align, "param")
        /\ Complete(c)
        /\ UNCHANGED <<phase, is_variadic, returns_memory_struct, nodes, bytes,
                       stack_size, struct_ret_scratch_cursor>>

\* All compound literals of the body get their slots before the body is emitted.
ScanLiteral ==
    /\ phase = "bind"
    /\ ~Pending("param") /\ ~Pending("mem_param") /\ Pending("literal")
    /\ codegen_add_var(NextNode("literal").size, NextNode("literal").align, "literal")
    /\ Complete("literal")
    /\ UNCHANGED <<phase, is_variadic, returns_memory_struct, nodes, bytes,
                   stack_size, struct_ret_scratch_cursor>>

BodyStart ==
    /\ phase = "bind"
    /\ \A c \in {"param", "mem_param", "literal"} : ~Pending(c)
    /\ phase' = "body"
    /\ UNCHANGED <<is_variadic, returns_memory_struct, nodes, bytes, stack_size,
                   stack_offset, struct_ret_scratch_cursor, done, slots>>

\* A local declaration: a static one lives in .data or .bss.  Blocks end
\* without giving slots back.
Declare ==
    /\ phase = "body" /\ Pending("decl")
    /\ LET t == NextNode("decl")
       IN IF t.shape = "static"
          THEN UNCHANGED <<stack_offset, slots>>
          ELSE codegen_add_var(t.size, t.align, "local")
    /\ Complete("decl")
    /\ UNCHANGED <<phase, is_variadic, returns_memory_struct, nodes, bytes,
                   stack_size, struct_ret_scratch_cursor>>

\* A struct-returning call takes the next temporary of the scratch region.
claim_struct_ret_temp ==
    /\ phase = "body" /\ Pending("call")
    /\ struct_ret_scratch_cursor'
         = struct_ret_scratch_cursor + RoundUp(NextNode("call").size, 8)
    /\ slots' = slots \cup {Slot(struct_ret_scratch_cursor',
                                 RoundUp(NextNode("call").size, 8), "temp")}
    /\ Complete("call")
    /\ UNCHANGED <<phase, is_variadic, returns_memory_struct, nodes, bytes,
                   stack_size, stack_offset>>

Next ==
    \/ \E c \in Categories : \E t \in TypesOf(c) : Walk(c, t)
    \/ WalkEnd \/ Prologue \/ BindParam \/ ScanLiteral \/ BodyStart \/ Declare
    \/ claim_struct_ret_temp

Spec == Init /\ [][Next]_vars

(***************************************************************************)
(* Properties.                                                             *)
(***************************************************************************)
\* No two slots of a frame share a byte: saved registers, register save area,
\* hidden return pointer, struct results, parameters, literals and locals.
SlotsDisjoint ==
    \A s, t \in slots : s # t => s.hi <= t.lo \/ t.hi <= s.lo

\* Every slot lies within the bytes the prologue reserved.
Fits == \A s \in slots : s.hi <= stack_size

\* The types whose slack the walks count in full.
WellCounted(c) ==
    \A i \in DOMAIN nodes[c] : nodes[c][i].shape = "struct" \/ c = "literal"
                                    => nodes[c][i].align = 8

\* Whatever scalars, arrays, parameters, static locals, struct results and
\* 8-byte aligned structs and literals a function has, in whatever order, its
\* slots fit in its frame.
FitsWhenAligned == WellCounted("decl") /\ WellCounted("literal") => Fits
=============================================================================
