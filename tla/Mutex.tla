------------------------------- MODULE Mutex -------------------------------
(***************************************************************************)
(* What the callers of a lock are promised: at most one of them has it.    *)
(***************************************************************************)
CONSTANT Procs

VARIABLE holders    \* who has the lock

Init == holders = {}

Enter(p) == holders = {} /\ holders' = {p}

Leave(p) == holders = {p} /\ holders' = {}

Next == \E p \in Procs : Enter(p) \/ Leave(p)

Spec == Init /\ [][Next]_holders

\* Never two at once.
AtMostOne == \A p, q \in holders : p = q
=============================================================================
