------------------------------ MODULE MCInclude -----------------------------
(* Include on a small instance: a main file, a header beside it, the same    *)
(* name in two -I directories, one of them also under another spelling, and  *)
(* a path too long for a marker.                                             *)
EXTENDS Include

Main == <<"src", "main">>
Dirs == << <<"inc">>, <<"sys">> >>
Given == { <<"gen">> }
Names_h == { <<"h">>, <<"..", "inc", "h">> }
Files == { <<"src", "h">>, <<"inc", "h">>, <<"sys", "h">>,
           <<"inc", "..", "inc", "h">> }
=============================================================================
