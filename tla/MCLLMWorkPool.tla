--------------------------- MODULE MCLLMWorkPool ---------------------------
(* Instances of LLMWorkPool for TLC. *)
EXTENDS LLMWorkPool, TLC

Symmetric == Permutations(Items)
=============================================================================
