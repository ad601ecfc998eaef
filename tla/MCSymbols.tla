----------------------------- MODULE MCSymbols ------------------------------
(* One name is enough, because entries of different names never meet, and   *)
(* two kinds and up to one parameter make every comparison fail and hold.  *)
EXTENDS Symbols
=============================================================================
