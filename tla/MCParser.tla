------------------------------ MODULE MCParser ------------------------------
(* Translation units of up to MaxTokens tokens over one typedef name, the   *)
(* error limit at 2 or absent.                                              *)
EXTENDS Parser
=============================================================================
