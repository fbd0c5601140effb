------------------------------ MODULE MCIngest ------------------------------
(* Instances of Ingest for TLC: a run of the current task set and one of   *)
(* an old task set, which have a blob in common.                           *)
EXTENDS Ingest, TLC

CONSTANTS new, old, current, former, shared, own

SetsOfTwo == new :> current @@ old :> former
RefsOfTwo == new :> {shared, own} @@ old :> {shared}
=============================================================================
