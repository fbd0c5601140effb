------------------------- MODULE MCCompileQueuePool -------------------------
(* Instances of CompileQueuePool for TLC.                                  *)
EXTENDS CompileQueuePool, TLC

Symmetric == Permutations(Entries) \cup Permutations(Containers)

(* What the rest of a behaviour can depend on: nobody reads the fields of  *)
(* an entry that is over, nor the budget of one that was dispatched.       *)
Over(e) == stage[e] \in {"none", "gone"} /\ promise[e] \in Settlements

Fields(e) ==
    IF Over(e) THEN <<"over">>
    ELSE IF stage[e] = "none"
    THEN <<promise[e], e \in spent, excluded[e]>>
    ELSE <<promise[e] = "waiting", stage[e], site[e], e \in forced>>

View == <<[e \in Entries |-> Fields(e)], pending, parked, before, permitVars,
          testVars, alert, readmit, overlooked>>
=============================================================================
