---------------------------- MODULE WorkContract ----------------------------
(***************************************************************************)
(* What a caller of the compile queue is promised, whatever containers are *)
(* lost, drained or recovered behind it: each call of enqueue() is         *)
(* answered once; a verdict (success, failure) comes from a single run of  *)
(* the work; and a run that an alert overtook is never scored as failed.   *)
(***************************************************************************)
CONSTANT Entries

VARIABLE state   \* entry -> where its call stands

Open == {"queued", "running", "tagged"}
Answers == {"success", "failure", "quarantined", "error",
            "timeout", "full", "ineligible"}

\* The legal steps of one call.
Moves ==
    [idle    |-> {"queued", "full", "ineligible"},
     queued  |-> {"running", "timeout", "error"},
     running |-> {"tagged", "success", "failure", "error"},
     tagged  |-> {"success", "quarantined", "error"}]

Legal(from, to) == from \in DOMAIN Moves /\ to \in Moves[from]

Init == state = [e \in Entries |-> "idle"]

\* One turn of the event loop can move many calls: a drain rejects all the
\* entries of a container together.
Next ==
    /\ state' \in [Entries -> {"idle"} \cup Open \cup Answers]
    /\ \A e \in Entries : state'[e] # state[e] => Legal(state[e], state'[e])

Answer(e) == state[e] \in Open /\ Next /\ state'[e] # state[e]

Fairness == \A e \in Entries : WF_state(Answer(e))

Spec == Init /\ [][Next]_state /\ Fairness
=============================================================================
