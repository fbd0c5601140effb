-------------------------- MODULE MCRecoveryProber --------------------------
(* Instances of RecoveryProber for TLC: none of the constants needs a      *)
(* definition, and no symmetry is used because of the temporal properties. *)
EXTENDS RecoveryProber, TLC
=============================================================================
