-------------------------- MODULE CompileQueuePool --------------------------
(***************************************************************************)
(* The pool of src/parallel/compile-queue-pool.ts over the queues of       *)
(* CompileQueue: routing, the drain of an alerted container, parking, and  *)
(* the re-admission of a recovered one.                                    *)
(*                                                                         *)
(* The health monitor and the recovery prober are the environment here:    *)
(* an alert may be raised at any time, and the prober asks canReadmit(),   *)
(* waits for the session to be disposed, then clears the alert it saw.     *)
(* The rotors only choose among equally good targets, so a target is any   *)
(* of them.  Parked entries are ordered by `before` like those of a queue. *)
(***************************************************************************)
EXTENDS CompileQueue

CONSTANTS
    RecoveryEnabled,  \* a recovery prober runs
    CallerExclusions  \* the exclusion lists callers pass

ASSUME PoolAssumption ==
    /\ RecoveryEnabled \in BOOLEAN
    /\ CallerExclusions \subseteq SUBSET Containers
    /\ {"parked", "timeout", "error"} \cap Containers = {}

VARIABLES
    alert,    \* container -> kind of the monitor's active alert on it
    readmit,  \* container -> the prober's recovery in progress
    parked,   \* entries in parkedEntries
    overlooked \* history: containers re-admitted, and not tainted since, while an
               \* operation given up there still runs

poolVars == <<alert, readmit, parked>>
vars == <<queueVars, poolVars, overlooked>>

AlertKinds == {"none", "local", "global"}

PoolTypeOK ==
    /\ TypeOK
    /\ alert \in [Containers -> AlertKinds]
    /\ readmit \in [Containers -> {"no", "quiesced", "replaced"}]
    /\ parked \in SUBSET Entries
    /\ overlooked \in SUBSET Containers

PoolInit ==
    /\ Init
    /\ alert = [c \in Containers |-> "none"]
    /\ readmit = [c \in Containers |-> "no"]
    /\ parked = {}
    /\ overlooked = {}

Alerted == {c \in Containers : alert[c] # "none"}

\* Mutant: the health monitor is not asked.
TargetsUnchecked(skip) == Containers \ skip

\* Containers work may be sent to: not alerted and not in `skip`.
Targets(skip) == Containers \ (Alerted \cup skip)

\* markActiveForQuarantine() on each container of S.
MarkActive(S) == UNION {Active(c) : c \in S}

\* A local alert may be recovered from, a global outage is never probed.
canRecover(kind) == RecoveryEnabled /\ kind # "global"

-----------------------------------------------------------------------------
(* Moving entries.  A plan gives each moved entry its destination: a       *)
(* container, "parked", or the error it is rejected with.                  *)

\* The plans that give each entry one of the destinations open to it.
Plans(choice) ==
    {plan \in [DOMAIN choice -> Containers \cup {"parked", "timeout", "error"}] :
        \A e \in DOMAIN choice : plan[e] \in choice[e]}

Going(plan, d) == {e \in DOMAIN plan : plan[e] = d}

PendingAfter(plan) ==
    [c \in Containers |-> (pending[c] \ DOMAIN plan) \cup Going(plan, c)]

\* Mutant: a flushed record stays in parkedEntries.
ParkedAfterNoSplice(plan) == parked \cup Going(plan, "parked")

ParkedAfter(plan) == (parked \ DOMAIN plan) \cup Going(plan, "parked")

\* A moved entry stands behind all that stay in the list it joins.
Behind(plan) ==
    (UNION {(pending[c] \ DOMAIN plan) \X Going(plan, c) : c \in Containers})
    \cup ((parked \ DOMAIN plan) \X Going(plan, "parked"))

\* The pairs of moved entries that join one list.
Joining(plan) ==
    {p \in (DOMAIN plan) \X (DOMAIN plan) :
        plan[p[1]] = plan[p[2]] /\ plan[p[1]] \in Containers \cup {"parked"}}

\* Mutant: drained entries are re-admitted last first.
BeforeAfterReversed(plan, order) ==
    Without(DOMAIN plan) \cup Behind(plan)
    \cup {p \in Joining(plan) : <<p[2], p[1]>> \in order}

\* Moved entries join the end of their new list in the order they came in.
BeforeAfter(plan, order) ==
    Without(DOMAIN plan) \cup Behind(plan) \cup (Joining(plan) \cap order)

PromiseAfter(plan) ==
    [e \in Entries |-> IF e \in DOMAIN plan /\ plan[e] \in {"timeout", "error"}
                       THEN plan[e] ELSE promise[e]]

Receivers(plan) == {c \in Containers : Going(plan, c) # {}}

\* flushParkedTo(): every parked entry with an eligible target is admitted
\* there, or rejected by admitRebalancedEntry() when its budget is gone.
FlushPlans(eligible) ==
    Plans([e \in parked |->
              LET allowed == eligible \ excluded[e] IN
              IF allowed = {} THEN {"parked"}
              ELSE IF e \in spent THEN {"timeout"} ELSE allowed])

-----------------------------------------------------------------------------
(* CompileQueuePool.enqueue().                                             *)

\* The pool's load once the plan of a flush is carried out.
loadAfter(plan, c) == load(c) + Cardinality(Going(plan, c))

PoolIneligible(e, ex) ==
    /\ promise[e] = "idle"
    /\ Targets(ex) = {}
    /\ Reject(e, "ineligible")
    /\ UNCHANGED <<listVars, permitVars, pipeVars, testVars, forced, poolVars, overlooked>>

\* Flush what is parked, then route to a least-loaded eligible queue, which
\* rejects the entry when it is full.  The queue is handed the caller's
\* exclusions together with the alerted containers, and the entry keeps them.
PoolEnqueue(e, ex) ==
    LET eligible == Targets(ex) IN
    /\ promise[e] = "idle"
    /\ \E plan \in FlushPlans(eligible) : \E c \in eligible :
         /\ \A d \in eligible : loadAfter(plan, c) <= loadAfter(plan, d)
         /\ parked' = ParkedAfter(plan)
         /\ \/ /\ loadAfter(plan, c) >= MaxQueue
               /\ promise' = [PromiseAfter(plan) EXCEPT ![e] = "full"]
               /\ pending' = PendingAfter(plan)
               /\ before' = BeforeAfter(plan, before)
               /\ Wake(Receivers(plan))
               /\ UNCHANGED excluded
            \/ /\ loadAfter(plan, c) < MaxQueue
               /\ promise' = [PromiseAfter(plan) EXCEPT ![e] = "waiting"]
               /\ pending' = [PendingAfter(plan) EXCEPT ![c] = @ \cup {e}]
               /\ before' = BeforeAfter(plan, before) \cup (PendingAfter(plan)[c] \X {e})
               /\ Wake(Receivers(plan) \cup {c})
               /\ excluded' = [excluded EXCEPT ![e] = ex \cup Alerted]
    /\ UNCHANGED <<spent, pipeVars, testVars, forced, alert, readmit, overlooked>>

-----------------------------------------------------------------------------
(* The park timer, and the drain of alerted containers.                    *)

\* Mutant: an entry is parked without a timer.
ParkTimeoutNever(e) == FALSE /\ UNCHANGED vars

\* The timer of a parked entry fires: found by identity, removed, rejected.
ParkTimeout(e) ==
    /\ e \in parked /\ e \in spent
    /\ parked' = parked \ {e}
    /\ before' = Without({e})
    /\ Reject(e, "timeout")
    /\ UNCHANGED <<pending, excluded, spent, permitVars, pipeVars, testVars, forced,
                   alert, readmit, overlooked>>

\* The orders in which the containers of S can be drained.
DrainOrders(S) ==
    {r \in SUBSET (S \X S) :
        /\ \A a, b \in S : a # b <=> (<<a, b>> \in r \/ <<b, a>> \in r)
        /\ \A a, b \in S : ~(<<a, b>> \in r /\ <<b, a>> \in r)
        /\ \A a, b, c \in S : <<a, b>> \in r /\ <<b, c>> \in r => <<a, c>> \in r}

\* rebalanceFromContainer(): where a drained entry goes when the eligible
\* targets are `eligible`.
DrainPlans(drained, eligible, kind) ==
    Plans([e \in drained |->
              LET allowed == eligible \ excluded[e] IN
              IF eligible = {} /\ ~canRecover(kind) THEN {"error"}
              ELSE IF e \in spent THEN {"timeout"}
              ELSE IF allowed = {} THEN {"parked"} ELSE allowed])

\* The monitor raises one alert on the containers S and its listener drains
\* them in the same turn: a global outage covers several, any other alert one.
AlertRaised(S, kind) ==
    LET drained == UNION {pending[c] : c \in S}
        eligible == Targets(S)
    IN
    /\ S # {} /\ (kind = "local" => \E c \in S : S = {c})
    /\ alert' = [c \in Containers |-> IF c \in S THEN kind ELSE alert[c]]
    /\ readmit' = [c \in Containers |->
                     IF c \in S /\ readmit[c] = "quiesced" THEN "replaced" ELSE readmit[c]]
    /\ forced' = forced \cup MarkActive(S)
    /\ \E plan \in DrainPlans(drained, eligible, kind), r \in DrainOrders(S) :
         LET order == before \cup UNION {pending[p[1]] \X pending[p[2]] : p \in r} IN
         /\ promise' = PromiseAfter(plan)
         /\ pending' = PendingAfter(plan)
         /\ parked' = ParkedAfter(plan)
         /\ before' = BeforeAfter(plan, order)
         /\ Wake(Receivers(plan))
    /\ UNCHANGED <<excluded, spent, pipeVars, testVars, overlooked>>

\* cancelParked(): a critical error or the end of the run.
CancelParked ==
    /\ parked # {}
    /\ promise' = [e \in Entries |-> IF e \in parked THEN "error" ELSE promise[e]]
    /\ parked' = {}
    /\ before' = Without(parked)
    /\ UNCHANGED <<pending, excluded, spent, permitVars, pipeVars, testVars, forced,
                   alert, readmit, overlooked>>

-----------------------------------------------------------------------------
(* Recovery, in the three turns the prober takes after its last probe.     *)

\* canReadmit(): no pending and no in-flight work; the prober goes on to
\* dispose the session and waits for that.
Quiesced(c) ==
    /\ RecoveryEnabled
    /\ alert[c] = "local" /\ readmit[c] = "no"
    /\ load(c) = 0
    /\ readmit' = [readmit EXCEPT ![c] = "quiesced"]
    /\ UNCHANGED <<queueVars, alert, parked, overlooked>>

\* clearAlert() finds another alert, or a global one, and clears nothing.
ClearRefused(c) ==
    /\ readmit[c] = "replaced"
    /\ readmit' = [readmit EXCEPT ![c] = "no"]
    /\ UNCHANGED <<queueVars, alert, parked, overlooked>>

\* clearAlert() succeeds and onContainerRecovered() follows in the same
\* turn: the taint goes and the parked backlog is flushed.  Nobody asks whether
\* the operation that the taint stood for is over: probes that pass say only
\* that the container works, and disposing the session ends the host's side.
Recovered(c) ==
    /\ readmit[c] = "quiesced"
    /\ alert' = [alert EXCEPT ![c] = "none"]
    /\ readmit' = [readmit EXCEPT ![c] = "no"]
    /\ tainted' = tainted \ {c}
    /\ overlooked' = overlooked \cup ({c} \cap orphaned)
    /\ \E plan \in FlushPlans((Containers \ Alerted) \cup {c}) :
         /\ promise' = PromiseAfter(plan)
         /\ pending' = PendingAfter(plan)
         /\ parked' = ParkedAfter(plan)
         /\ before' = BeforeAfter(plan, before)
         /\ Wake(Receivers(plan))
    /\ UNCHANGED <<excluded, spent, pipeVars, testLocked, orphaned, forced>>

-----------------------------------------------------------------------------

\* The pool has no part in a step of a queue.  An operation that has ended is
\* overlooked no more, nor one beside which a timeout taints the queue again.
PoolRests ==
    /\ UNCHANGED poolVars
    /\ overlooked' = (overlooked \cap orphaned') \ tainted'

PoolStep ==
    \/ QueueStep /\ PoolRests
    \/ \E e \in Entries : ParkTimeout(e)
    \/ CancelParked
    \/ \E S \in SUBSET Containers, kind \in {"local", "global"} : AlertRaised(S, kind)
    \/ \E c \in Containers : Quiesced(c) \/ ClearRefused(c) \/ Recovered(c)

PoolNext ==
    \/ PoolStep
    \/ \E e \in Entries, ex \in CallerExclusions : PoolEnqueue(e, ex) \/ PoolIneligible(e, ex)

\* Besides the continuations, time passes: budgets run out and the timers
\* armed with them fire.  Neither alerts nor recoveries are promised.
PoolFairness ==
    /\ \A c \in Containers : WF_vars((Dispatch(c) \/ DispatchNothing(c)) /\ PoolRests)
    /\ \A e \in Entries :
         /\ WF_vars(Pipeline(e) /\ PoolRests)
         /\ WF_vars(BudgetRunsOut(e) /\ PoolRests)
         /\ WF_vars(ParkTimeout(e))

PoolSpec == PoolInit /\ [][PoolNext]_vars /\ PoolFairness

-----------------------------------------------------------------------------
(* Properties.                                                             *)

\* Across drains, parking, flushes, timers and cancellation every unsettled
\* entry is in exactly one place and a settled one in none (P2).
NothingLostOrDoubled ==
    /\ PoolTypeOK
    /\ \A e \in Entries :
        /\ \A c, d \in Places(e) : c = d
        /\ Places(e) # {} => stage[e] = "none" /\ e \notin parked
        /\ e \in parked => stage[e] = "none"
        /\ promise[e] = "waiting" <=>
             Places(e) # {} \/ e \in parked \/ stage[e] \in Unsettled

\* Dispatch is gated: no work waits on an alerted container, neither routed,
\* moved nor flushed there (P4b, R3).
NothingPendingOnAlerted ==
    \A c \in Alerted : pending[c] = {}

\* Everything in flight on an alerted container carries the alert's tag, so
\* its non-success cannot be scored as the model's (WorkContract).
InFlightOnAlertedIsForced ==
    \A c \in Alerted : Active(c) \subseteq forced

\* An entry is never run by, nor queued for, a container it excludes (P7).
ExclusionsHonoured ==
    \A e \in Entries :
        /\ site[e] \notin excluded[e]
        /\ Places(e) \cap excluded[e] = {}

\* A parked entry has nowhere to go: each container is alerted or on the
\* exclusion list the entry carries.
ParkedHasNoTarget ==
    \A e \in parked : Containers \subseteq Alerted \cup excluded[e]

\* While a recovery waits for the session to be disposed nothing starts on
\* the container, so the alert is only cleared on a quiet one (R3).
QuietWhileReadmitting ==
    \A c \in Containers :
        readmit[c] # "no" => c \in Alerted /\ pending[c] = {} /\ Active(c) = {}

\* Work is where it may be, and only there: routing, drain, flush, parking and
\* recovery agree on which containers are open to an entry.
RoutedWell ==
    /\ NothingPendingOnAlerted /\ InFlightOnAlertedIsForced
    /\ ExclusionsHonoured /\ ParkedHasNoTarget /\ QuietWhileReadmitting

\* A test has its container to itself, and only a recovery can break that: a
\* test never runs beside an operation the queue has given up, unless the
\* container was re-admitted over that operation, which clears the taint
\* (TestsAlone, without the exception, does not hold of the pool: see README,
\* section 3).
TestsAloneUnlessReadmitted ==
    /\ TestMutexOK
    /\ \A e \in Entries : stage[e] = "testing" => site[e] \notin orphaned \ overlooked

\* Draining, parking and flushing never reorder: two entries that are in one
\* list before a step and in one list after it stand in the same order.
Together(d, e) ==
    \/ {d, e} \subseteq parked
    \/ \E c \in Containers : {d, e} \subseteq pending[c]

OrderKept ==
    [][\A d, e \in Entries :
         <<d, e>> \in before /\ Together(d, e) /\ Together(d, e)'
         => <<d, e>> \in before' /\ <<e, d>> \notin before']_vars

\* The pool implements the contract of WorkContract: draining, parking and
\* re-admitting an entry are invisible to its caller.
workState ==
    [e \in Entries |->
        IF promise[e] # "waiting" THEN promise[e]
        ELSE IF stage[e] = "none" THEN "queued"
        ELSE IF e \in forced THEN "tagged" ELSE "running"]

Contract == INSTANCE WorkContract WITH state <- workState

KeepsContract == Contract!Init /\ [][Contract!Next]_workState

\* Every submission is answered, with every container lost and none
\* recovered as well: a parked promise settles when its budget is gone (P2).
EverySubmissionSettles ==
    \A e \in Entries : promise[e] = "waiting" ~> promise[e] \in Settlements
=============================================================================
