--------------------------- MODULE MCCompileQueue ---------------------------
(* Instances of CompileQueue for TLC.  Entries are interchangeable, but no *)
(* symmetry is used because of the temporal properties.                    *)
EXTENDS CompileQueue, TLC
=============================================================================
