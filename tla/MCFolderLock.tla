---------------------------- MODULE MCFolderLock ----------------------------
(* Instances of FolderLock for TLC: none of the constants needs a          *)
(* definition, and no symmetry is used because of the temporal properties. *)
EXTENDS FolderLock, TLC
=============================================================================
