------------------------------ MODULE MCLayout ------------------------------
(* Six specifiers and declarators: a body of up to five members, or two      *)
(* bodies, one in or after the other, with the second of a tag already       *)
(* defined or referred to.  Of the bit-field widths 0 closes a storage unit, *)
(* and 20 is too wide for a char and for the rest of an int that holds one;  *)
(* in a long the second one is not in the first 32 bits.                     *)
EXTENDS Layout
=============================================================================
