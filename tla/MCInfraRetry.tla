---------------------------- MODULE MCInfraRetry ----------------------------
(* Instances of InfraRetry for TLC.  One call is small enough to be        *)
(* explored without symmetry, so safety and liveness are checked together. *)
EXTENDS InfraRetry, TLC
=============================================================================
