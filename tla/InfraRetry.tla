----------------------------- MODULE InfraRetry -----------------------------
(***************************************************************************)
(* One call of withInfraRetry() (src/parallel/infra-retry.ts): a compile   *)
(* and test item is sent to the pool again, on another container, each     *)
(* time its answer is an infrastructure failure or a quarantined result.   *)
(*                                                                         *)
(* The pool and the health monitor are the environment.  Of the pool the   *)
(* helper sees the routing and the answer; CompileQueuePool checks what is *)
(* assumed of it here: work goes neither to an excluded nor to an alerted  *)
(* container, an alert moves queued work and tags running work, and only a *)
(* tagged non-success is quarantined.  Alerts come and go at any time.     *)
(***************************************************************************)
EXTENDS Naturals, FiniteSets, Sequences

CONSTANTS
    Containers,  \* configuredContainers
    AlertIds,    \* ids quarantined results may carry
    MaxBudget    \* largest options.maxRetries

ASSUME RetryAssumption ==
    /\ MaxBudget \in Nat
    /\ IsFiniteSet(AlertIds)
    /\ {"pending", "nowhere"} \cap Containers = {}

VARIABLES
    phase,       \* where the loop is
    maxRetries,  \* options.maxRetries
    attempt,     \* attemptIndex
    exclude,     \* excludeContainers
    trail,       \* retries
    waived,      \* waivedAlertIds; freeRetriesGranted is its size
    verdict,     \* how the call ended
    routed,      \* routedContainer
    at,          \* where the pool really holds or runs the item
    tagged,      \* an alert hit that container while it ran the item
    alerted,     \* containers with an active alert
    outage       \* one of the alerts is a global outage

loopVars == <<phase, attempt, exclude, trail, waived, verdict>>
poolVars == <<routed, at, tagged>>
healthVars == <<alerted, outage>>
vars == <<loopVars, maxRetries, poolVars, healthVars>>

InFlight == {"queued", "parked", "running"}
Phases == {"call", "asleep", "ended"} \cup InFlight

Exhaustions == {"budget_exhausted", "no_eligible_containers", "global_outage"}

Verdicts == {"none", "result", "quarantined", "unchanged", "disabled"} \cup Exhaustions

Record ==
    [orig: Containers, retry: Containers \cup {"pending", "nowhere"},
     outcome: {"succeeded", "infra_again", "non_infra_failure"},
     cause: {"failure", "alert_drain"}, debited: BOOLEAN,
     alert: AlertIds \cup {"none"}]

TypeOK ==
    /\ phase \in Phases
    /\ maxRetries \in 0..MaxBudget
    /\ attempt \in 0..(maxRetries + Cardinality(waived))
    /\ exclude \subseteq Containers
    /\ trail \in Seq(Record)
    /\ waived \subseteq AlertIds
    /\ verdict \in Verdicts
    /\ routed \in Containers \cup {"nowhere"}
    /\ at \in Containers \cup {"nowhere"}
    /\ tagged \in BOOLEAN
    /\ alerted \subseteq Containers
    /\ outage \in BOOLEAN

Init ==
    /\ phase = "call"
    /\ maxRetries \in 0..MaxBudget
    /\ attempt = 0
    /\ exclude = {}
    /\ trail = <<>>
    /\ waived = {}
    /\ verdict = "none"
    /\ routed = "nowhere"
    /\ at = "nowhere"
    /\ tagged = FALSE
    /\ alerted = {}
    /\ outage = FALSE

-----------------------------------------------------------------------------
(* The pool, from CompileQueuePool.                                        *)

Open == Containers \ (alerted \cup exclude)

\* onRouted(), before any work.
Route(c) ==
    /\ phase = "call" /\ c \in Open
    /\ phase' = "queued"
    /\ routed' = c /\ at' = c /\ tagged' = FALSE
    /\ UNCHANGED <<maxRetries, attempt, exclude, trail, waived, verdict, healthVars>>

Start ==
    /\ phase = "queued"
    /\ phase' = "running"
    /\ UNCHANGED <<maxRetries, attempt, exclude, trail, waived, verdict,
                   poolVars, healthVars>>

\* A recovered container takes the parked item.
Unpark ==
    /\ phase = "parked"
    /\ \E c \in Open : at' = c
    /\ phase' = "queued"
    /\ UNCHANGED <<maxRetries, attempt, exclude, trail, waived, verdict,
                   routed, tagged, healthVars>>

\* Alerts are raised or cleared.  One on the item's container drains it when
\* it is queued, to another container or the parking place, and tags it when
\* it runs.
HealthChanges ==
    /\ phase # "ended"
    /\ alerted' \in SUBSET Containers
    /\ outage' \in BOOLEAN /\ (outage' => alerted' # {})
    /\ \/ /\ phase = "queued" /\ at \in alerted'
          /\ LET open == Containers \ (alerted' \cup exclude) IN
             \/ open = {} /\ phase' = "parked" /\ UNCHANGED at
             \/ at' \in open /\ UNCHANGED phase
          /\ UNCHANGED tagged
       \/ /\ phase = "running"
          /\ tagged' = (tagged \/ at \in alerted' \ alerted)
          /\ UNCHANGED <<phase, at>>
       \/ /\ phase # "running" /\ ~(phase = "queued" /\ at \in alerted')
          /\ UNCHANGED <<phase, at, tagged>>
    /\ UNCHANGED <<maxRetries, attempt, exclude, trail, waived, verdict, routed>>

-----------------------------------------------------------------------------
(* Bookkeeping.                                                            *)

\* Mutant: only a success names the container of a retry.
FinalizeSuccessOnly(t, result, c) ==
    IF attempt > 0 /\ t # <<>> /\ result = "succeeded"
    THEN [t EXCEPT ![Len(t)] = [@ EXCEPT !.retry = c, !.outcome = result]]
    ELSE t

\* The record of the retry under way gets its container and outcome.
Finalize(t, result, c) ==
    IF attempt > 0 /\ t # <<>>
    THEN [t EXCEPT ![Len(t)] = [@ EXCEPT !.retry = c, !.outcome = result]]
    ELSE t

Planned(c, why, debit, alertId) ==
    [orig |-> c, retry |-> "pending", outcome |-> "infra_again",
     cause |-> why, debited |-> debit, alert |-> alertId]

End(how, t) ==
    /\ phase' = "ended"
    /\ verdict' = how
    /\ trail' = t

\* Mutant: the exclusions are those of the last failure only.
WidenedForgetful(failed) == alerted \cup {failed}

\* What no later attempt may use: earlier failures and, now, the alerted.
Widened(failed) == exclude \cup {failed} \cup alerted

Plan(record, t) ==
    /\ phase' = "asleep"
    /\ trail' = Append(t, record)
    /\ UNCHANGED verdict

-----------------------------------------------------------------------------
(* Answers of the operation.                                               *)

\* It resolved and is not quarantined: a verdict on the model.
Succeeds ==
    /\ phase = "running"
    /\ End("result", Finalize(trail, "succeeded", routed))
    /\ UNCHANGED <<maxRetries, attempt, exclude, waived, poolVars, healthVars>>

\* Without retries a quarantined result is thrown, never returned.
QuarantinedDisabled ==
    /\ phase = "running" /\ tagged /\ maxRetries = 0
    /\ End("disabled", trail)
    /\ UNCHANGED <<maxRetries, attempt, exclude, waived, poolVars, healthVars>>

\* The error raised when exclusions cover everything is thrown inside the
\* helper's own try block, so its catch takes it for an answer: a failure
\* that is not infrastructure, unless its message, copied from the last
\* infrastructure error, says so.
CaughtAgain(t) ==
    \/ End("no_eligible_containers", Finalize(t, "non_infra_failure", routed))
    \/ /\ \E i \in DOMAIN trail : trail[i].cause = "failure"
       /\ End(CASE attempt >= maxRetries -> "budget_exhausted"
                [] attempt < maxRetries /\ outage -> "global_outage"
                [] OTHER -> "no_eligible_containers",
              Finalize(t, "infra_again", routed))

\* Mutant: the waiver is granted for every quarantine.
QuarantinedAlwaysFree(a) ==
    LET closed == Finalize(trail, "infra_again", at) IN
    /\ phase = "running" /\ tagged /\ maxRetries > 0
    /\ waived' = waived \cup {a}
    /\ exclude' = Widened(at)
    /\ \/ Containers \subseteq Widened(at) /\ CaughtAgain(closed)
       \/ ~(Containers \subseteq Widened(at))
          /\ Plan(Planned(at, "alert_drain", FALSE, a), closed)
    /\ UNCHANGED <<maxRetries, attempt, poolVars, healthVars>>

\* It resolved with the marker of alert a: sent elsewhere, for free the
\* first time this alert is seen.
Quarantined(a) ==
    LET closed == Finalize(trail, "infra_again", at) IN
    /\ phase = "running" /\ tagged /\ maxRetries > 0
    /\ waived' = waived \cup {a}
    /\ exclude' = Widened(at)
    /\ \/ Containers \subseteq Widened(at) /\ CaughtAgain(closed)
       \/ ~(Containers \subseteq Widened(at))
          /\ Plan(Planned(at, "alert_drain", a \in waived, a), closed)
    /\ UNCHANGED <<maxRetries, attempt, poolVars, healthVars>>

\* Branch C: an infrastructure error of container `failed`.
Infra(failed) ==
    LET closed == Finalize(trail, "infra_again", failed) IN
    /\ \/ /\ attempt >= maxRetries
          /\ End("budget_exhausted", closed)
          /\ UNCHANGED exclude
       \/ /\ attempt < maxRetries /\ outage
          /\ End("global_outage", closed)
          /\ UNCHANGED exclude
       \/ /\ attempt < maxRetries /\ ~outage
          /\ exclude' = Widened(failed)
          /\ \/ /\ Containers \subseteq Widened(failed)
                /\ End("no_eligible_containers", closed)
             \/ /\ ~(Containers \subseteq Widened(failed))
                /\ Plan(Planned(failed, "failure", TRUE, "none"), closed)
    /\ UNCHANGED <<maxRetries, attempt, waived, poolVars, healthVars>>

\* Errors that name their container: a ContainerError of the run, or of the
\* drain that found every container alerted.
InfraNamed ==
    /\ maxRetries > 0
    /\ phase = "running" \/ (phase = "parked" /\ alerted = Containers)
    /\ Infra(at)

\* Errors known by their message: queue-wait timeouts, and host errors.
InfraUnnamed ==
    /\ maxRetries > 0 /\ phase \in InFlight
    /\ Infra(routed)

\* Branch B: a full queue, a cancelled run, an error of the preparation.
NotInfra ==
    /\ maxRetries > 0 /\ phase \in InFlight
    /\ End("unchanged", Finalize(trail, "non_infra_failure", routed))
    /\ UNCHANGED <<maxRetries, attempt, exclude, waived, poolVars, healthVars>>

\* Without retries any error is propagated as it is.
FailsDisabled ==
    /\ maxRetries = 0
    /\ phase \in InFlight \/ (phase = "call" /\ Open = {})
    /\ End("unchanged", trail)
    /\ UNCHANGED <<maxRetries, attempt, exclude, waived, poolVars, healthVars>>

\* Branch A: the pool finds no eligible container; nothing was routed.
NoEligible ==
    /\ maxRetries > 0 /\ phase = "call" /\ Open = {}
    /\ End("no_eligible_containers", Finalize(trail, "non_infra_failure", "nowhere"))
    /\ UNCHANGED <<maxRetries, attempt, exclude, waived, poolVars, healthVars>>

-----------------------------------------------------------------------------

\* Mutant: the loop exit leaves the placeholder in the last record.
WakeLeavesPending ==
    /\ phase = "asleep"
    /\ \/ /\ attempt + 1 <= maxRetries + Cardinality(waived)
          /\ attempt' = attempt + 1
          /\ phase' = "call"
          /\ UNCHANGED <<trail, verdict>>
       \/ /\ attempt + 1 > maxRetries + Cardinality(waived)
          /\ End("budget_exhausted", trail)
          /\ UNCHANGED attempt
    /\ UNCHANGED <<maxRetries, exclude, waived, poolVars, healthVars>>

\* Mutant: an exhausted loop sleeps on.
WakeNever ==
    /\ phase = "asleep"
    /\ attempt + 1 <= maxRetries + Cardinality(waived)
    /\ attempt' = attempt + 1
    /\ phase' = "call"
    /\ UNCHANGED <<trail, verdict>>
    /\ UNCHANGED <<maxRetries, exclude, waived, poolVars, healthVars>>

\* The last record, of a retry that never ran, names its origin again.
Abandoned(t) == [t EXCEPT ![Len(t)] = [@ EXCEPT !.retry = t[Len(t)].orig]]

\* The pause is over: round the loop, or out of it with the planned retry
\* that never ran filled in.
Wake ==
    /\ phase = "asleep"
    /\ \/ /\ attempt + 1 <= maxRetries + Cardinality(waived)
          /\ attempt' = attempt + 1
          /\ phase' = "call"
          /\ UNCHANGED <<trail, verdict>>
       \/ /\ attempt + 1 > maxRetries + Cardinality(waived)
          /\ End("budget_exhausted", Abandoned(trail))
          /\ UNCHANGED attempt
    /\ UNCHANGED <<maxRetries, exclude, waived, poolVars, healthVars>>

Answer ==
    \/ Succeeds \/ QuarantinedDisabled \/ (\E a \in AlertIds : Quarantined(a))
    \/ InfraNamed \/ InfraUnnamed \/ NotInfra \/ FailsDisabled

Next ==
    \/ \E c \in Containers : Route(c)
    \/ Start \/ Unpark \/ HealthChanges
    \/ Answer \/ NoEligible \/ Wake
    \/ phase = "ended" /\ UNCHANGED vars

\* The loop runs, and the pool answers every submission (which is what
\* CompileQueuePool's EverySubmissionSettles says).
Fairness ==
    /\ WF_vars(NoEligible \/ FailsDisabled \/ (\E c \in Containers : Route(c)))
    /\ WF_vars(Answer)
    /\ WF_vars(Wake)

Spec == Init /\ [][Next]_vars /\ Fairness

-----------------------------------------------------------------------------
(* Properties.                                                             *)

Blamed == {trail[i].orig : i \in DOMAIN trail}

\* No attempt waits or runs on a container an earlier attempt of the same
\* call was failed by, even after the pool moved it.
NeverBackToFailed ==
    phase \in {"queued", "running"} => at \notin Blamed

\* The trail is a chain: each retry failed on the container the next record
\* names as its origin, and no container fails twice.
TrailChains ==
    /\ \A i \in 1..(Len(trail) - 1) : trail[i].retry = trail[i + 1].orig
    /\ \A i, j \in DOMAIN trail : trail[i].orig = trail[j].orig => i = j

\* A trail that leaves the helper has no placeholder, and a result comes
\* with exactly one success, its last record.
DeliveredTrailComplete ==
    phase = "ended" =>
        /\ \A i \in DOMAIN trail : trail[i].retry # "pending"
        /\ verdict = "result" =>
             \A i \in DOMAIN trail :
                 trail[i].outcome = (IF i = Len(trail) THEN "succeeded" ELSE "infra_again")

\* A quarantined result is never handed to scoring, with retries disabled
\* as well.
QuarantinedNeverReturned == verdict # "quarantined"

\* What the helper hands over can be relied on, the record and the result.
DeliveredRight == DeliveredTrailComplete /\ QuarantinedNeverReturned

\* One alert pays for one retry at most, and the budget for at most
\* maxRetries that ran.
WaiverOnce ==
    /\ TypeOK
    /\ \A i, j \in DOMAIN trail :
         ~trail[i].debited /\ ~trail[j].debited /\ trail[i].alert = trail[j].alert => i = j
    /\ phase = "call" =>
         Cardinality({i \in DOMAIN trail : trail[i].debited}) <= maxRetries

\* The call always ends, whatever alerts do.
EveryCallEnds == <>(phase = "ended")

\* A waived retry does not consume maxRetries: the budget is only exhausted
\* when that many debited retries were made.  This does not hold: see README,
\* section 3.
WaiverIsFree ==
    verdict = "budget_exhausted" =>
        Cardinality({i \in DOMAIN trail : trail[i].debited}) >= maxRetries
=============================================================================
