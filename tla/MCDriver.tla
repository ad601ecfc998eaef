------------------------------ MODULE MCDriver ------------------------------
(* Three sources, two of which share a basename and so an output path; one  *)
(* error more per file than the largest --max-errors.                       *)
EXTENDS Driver

MCSources == <<"d1/x.c", "y.c", "d2/x.c">>

MCOutPath == [s \in {"d1/x.c", "d2/x.c", "y.c"} |->
                 IF s = "y.c" THEN "y.asm" ELSE "x.asm"]
=============================================================================
