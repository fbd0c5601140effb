--------------------------- MODULE RecoveryProber ---------------------------
(***************************************************************************)
(* The recovery prober, src/health/recovery-prober.ts, with the monitor.   *)
(*                                                                         *)
(* A tick takes a snapshot of the alerts and handles its containers one by *)
(* one, waiting for a probe, a restart or the disposal of a session; the   *)
(* monitor goes on recording meanwhile, so the snapshot grows stale.  Of   *)
(* the pool it sees canReadmit(): whether the container has work (`busy`). *)
(* Backoff is a flag time takes away.                                      *)
(***************************************************************************)
EXTENDS HealthMonitor

CONSTANTS
    SuccessesRequired,
    MaxRecoveries,      \* maxRecoveriesPerContainer
    MaxRestarts,        \* maxRestartAttempts
    AutoRestart,
    Mendable            \* containers somebody repairs for good

ASSUME ProberAssumption ==
    /\ SuccessesRequired \in Nat \ {0}
    /\ MaxRecoveries \in Nat /\ MaxRestarts \in Nat
    /\ AutoRestart \in BOOLEAN
    /\ Mendable \subseteq Containers

VARIABLES
    pc,         \* what processContainer() waits for
    current,    \* the container and alert it works on
    todo,       \* the rest of the tick's snapshot
    st,         \* container -> ContainerRecoveryState
    recoveries, \* lifetimeRecoveries
    stopped,    \* "no", "asked" once stop() ran, "returned" once it resolved
    busy,       \* containers with pending or in-flight work
    mended      \* containers that work from now on

proberVars == <<pc, current, todo, st, recoveries, stopped>>
vars == <<monitorVars, proberVars, busy, mended>>

Idle == [c |-> "none", id |-> 0, kind |-> "none"]

Jobs == [c: Containers, id: Nat, kind: LocalKinds]

NoState == [id |-> 0, streak |-> 0, tries |-> 0, restarted |-> FALSE,
            disabled |-> FALSE, waiting |-> FALSE]

States == [id: Nat, streak: Nat, tries: Nat, restarted: BOOLEAN,
           disabled: BOOLEAN, waiting: BOOLEAN]

TypeOK ==
    /\ MonitorTypeOK
    /\ pc \in {"idle", "tick", "restart", "dispose", "probe", "clear"}
    /\ current \in Jobs \cup {Idle}
    /\ todo \in SUBSET Jobs
    /\ st \in [Containers -> States]
    /\ recoveries \in [Containers -> 0..MaxRecoveries]
    /\ stopped \in {"no", "asked", "returned"}
    /\ busy \in SUBSET Containers
    /\ mended \in SUBSET Containers

Init ==
    /\ MonitorInit
    /\ pc = "idle" /\ current = Idle /\ todo = {}
    /\ st = [c \in Containers |-> NoState]
    /\ recoveries = [c \in Containers |-> 0]
    /\ stopped = "no"
    /\ busy = {}
    /\ mended = {}

-----------------------------------------------------------------------------
(* The bench around the prober.                                            *)

\* Dispatch is gated by the alert (CompileQueuePool).
WorkStarts(c) ==
    /\ stopped = "no" /\ alert[c].kind = "none" /\ c \notin busy
    /\ busy' = busy \cup {c}
    /\ UNCHANGED <<monitorVars, proberVars, mended>>

\* An item of the container is answered; perhaps its last one.
WorkAnswers(c) ==
    /\ c \in busy
    /\ Record(c) /\ (c \in mended => RecordResult(c))
    /\ busy' \in {busy, busy \ {c}}
    /\ UNCHANGED <<proberVars, mended>>

\* An item ends without an outcome the monitor hears of.
WorkEnds(c) ==
    /\ c \in busy
    /\ busy' = busy \ {c}
    /\ UNCHANGED <<monitorVars, proberVars, mended>>

Mend(c) ==
    /\ c \in Mendable \ mended
    /\ mended' = mended \cup {c}
    /\ UNCHANGED <<monitorVars, proberVars, busy>>

\* Time: a backoff delay is over.
BackoffOver(c) ==
    /\ st[c].waiting
    /\ st' = [st EXCEPT ![c].waiting = FALSE]
    /\ UNCHANGED <<monitorVars, pc, current, todo, recoveries, stopped,
                   busy, mended>>

\* The run ends: stop() sets the flag and aborts the probes.
StopAsked ==
    /\ stopped = "no"
    /\ stopped' = "asked"
    /\ UNCHANGED <<monitorVars, pc, current, todo, st, recoveries, busy, mended>>

\* stop() resolves when the tick is over, or after 2 * probeTimeoutMs: a
\* probe is over by then, a restart or a disposal need not be.
StopReturns ==
    /\ stopped = "asked" /\ pc # "probe"
    /\ stopped' = "returned"
    /\ UNCHANGED <<monitorVars, pc, current, todo, st, recoveries, busy, mended>>

-----------------------------------------------------------------------------
(* tick()                                                                  *)

\* Mutant: `stopped` is not looked at.
GoesOnAlways == TRUE

GoesOn == stopped = "no"

\* The snapshot: containers without an alert lose their recovery state,
\* global outages are skipped.  A tick with no local alert leaves nothing
\* behind that the next one would not redo, and is left out.
TickBegins ==
    /\ pc = "idle" /\ GoesOn
    /\ todo' = {[c |-> c, id |-> alert[c].id, kind |-> alert[c].kind] :
                  c \in {d \in Containers : alert[d].kind \in LocalKinds}}
    /\ todo' # {}
    /\ pc' = "tick"
    /\ st' = [c \in Containers |-> IF alert[c].kind = "none" THEN NoState ELSE st[c]]
    /\ UNCHANGED <<monitorVars, current, recoveries, stopped, busy, mended>>

\* Mutant: the tick does not take its running flag back.
TickEndsRunning ==
    /\ pc = "tick" /\ stopped # "no"
    /\ pc' = "idle" /\ todo' = {}
    /\ UNCHANGED <<monitorVars, current, st, recoveries, stopped, busy, mended>>

\* Nothing left in the snapshot, or stopped: the tick is over.
TickEnds ==
    /\ pc = "tick" /\ (todo = {} \/ ~GoesOn)
    /\ pc' = "idle" /\ todo' = {}
    /\ UNCHANGED <<monitorVars, current, st, recoveries, stopped, busy, mended>>

\* The state of job j's container; that of another episode is dropped.
Refreshed(j) == IF st[j.c].id = j.id THEN st[j.c] ELSE [NoState EXCEPT !.id = j.id]

\* A bare probe does not prove a suspect recovered (R6).
NeedsRestart(j, s) == j.kind = "suspect" /\ ~s.restarted

\* The flap cap, over the life of the prober (P3).
Capped(c) == recoveries[c] >= MaxRecoveries

\* One container of the snapshot, up to its first await.
Process ==
    \E j \in todo :
      LET s == Refreshed(j) IN
      /\ pc = "tick" /\ GoesOn
      /\ todo' = todo \ {j}
      /\ \/ /\ s.disabled
            /\ st' = [st EXCEPT ![j.c] = s]
            /\ UNCHANGED <<pc, current>>
         \/ /\ ~s.disabled /\ Capped(j.c)
            /\ st' = [st EXCEPT ![j.c] = [s EXCEPT !.disabled = TRUE]]
            /\ UNCHANGED <<pc, current>>
         \/ /\ ~s.disabled /\ ~Capped(j.c) /\ s.waiting
            /\ st' = [st EXCEPT ![j.c] = s]
            /\ UNCHANGED <<pc, current>>
         \/ /\ ~s.disabled /\ ~Capped(j.c) /\ ~s.waiting
            /\ NeedsRestart(j, s) /\ (~AutoRestart \/ s.tries >= MaxRestarts)
            /\ st' = [st EXCEPT ![j.c] = [s EXCEPT !.disabled = TRUE]]
            /\ UNCHANGED <<pc, current>>
         \/ /\ ~s.disabled /\ ~Capped(j.c) /\ ~s.waiting
            /\ NeedsRestart(j, s) /\ AutoRestart /\ s.tries < MaxRestarts
            /\ st' = [st EXCEPT ![j.c] = [s EXCEPT !.tries = @ + 1]]
            /\ pc' = "restart" /\ current' = j
         \/ /\ ~s.disabled /\ ~Capped(j.c) /\ ~s.waiting /\ ~NeedsRestart(j, s)
            /\ st' = [st EXCEPT ![j.c] = s]
            /\ pc' = "probe" /\ current' = j
      /\ UNCHANGED <<monitorVars, recoveries, stopped, busy, mended>>

\* The current container is done with, with recovery state s.
Done(s) ==
    /\ pc' = "tick" /\ current' = Idle
    /\ st' = [st EXCEPT ![current.c] = s]

NoStreak == [st[current.c] EXCEPT !.streak = 0]

\* After an await: the run was stopped meanwhile.
Bail ==
    /\ pc \in {"restart", "probe"} /\ ~GoesOn
    /\ Done(st[current.c])
    /\ UNCHANGED <<monitorVars, todo, recoveries, stopped, busy, mended>>

RestartAnswers ==
    /\ pc = "restart" /\ GoesOn
    /\ \/ Done([st[current.c] EXCEPT !.waiting = TRUE])
       \/ /\ pc' = "dispose"
          /\ st' = [st EXCEPT ![current.c].restarted = TRUE, ![current.c].streak = 0]
          /\ UNCHANGED current
    /\ UNCHANGED <<monitorVars, todo, recoveries, stopped, busy, mended>>

\* The stale session of the restarted container is gone; probes next tick.
RestartDisposed ==
    /\ pc = "dispose"
    /\ Done([st[current.c] EXCEPT !.waiting = TRUE])
    /\ UNCHANGED <<monitorVars, todo, recoveries, stopped, busy, mended>>

\* Unhealthy, an error, or no answer in time.
ProbeFails ==
    /\ pc = "probe" /\ GoesOn /\ current.c \notin mended
    /\ Done([NoStreak EXCEPT !.waiting = TRUE])
    /\ UNCHANGED <<monitorVars, todo, recoveries, stopped, busy, mended>>

\* Healthy: with enough of them in a row and no work on the container, go
\* on to dispose its session.
ProbeHealthy ==
    LET s == [st[current.c] EXCEPT !.streak = @ + 1] IN
    /\ pc = "probe" /\ GoesOn
    /\ \/ s.streak < SuccessesRequired /\ Done(s)
       \/ /\ s.streak >= SuccessesRequired /\ current.c \in busy
          /\ Done([NoStreak EXCEPT !.waiting = TRUE])
       \/ /\ s.streak >= SuccessesRequired /\ current.c \notin busy
          /\ pc' = "clear"
          /\ st' = [st EXCEPT ![current.c] = s]
          /\ UNCHANGED current
    /\ UNCHANGED <<monitorVars, todo, recoveries, stopped, busy, mended>>

\* The session is disposed; clear, if the alert is still the one probed.
\* Nothing asks whether the run was stopped during the disposal.
Clear ==
    /\ pc = "clear"
    /\ \/ /\ Cleared(current.c, current.id)
          /\ recoveries' = [recoveries EXCEPT ![current.c] = @ + 1]
          /\ Done([NoStreak EXCEPT !.restarted = FALSE])
       \/ /\ ~(alert[current.c].kind \in LocalKinds /\ alert[current.c].id = current.id)
          /\ Done(NoStreak)
          /\ UNCHANGED <<monitorVars, recoveries>>
    /\ UNCHANGED <<todo, stopped, busy, mended>>

ProberStep ==
    \/ TickBegins \/ TickEnds \/ Process \/ Bail
    \/ RestartAnswers \/ RestartDisposed
    \/ ProbeFails \/ ProbeHealthy \/ Clear

Next ==
    \/ ProberStep \/ StopAsked \/ StopReturns
    \/ \E c \in Containers :
         WorkStarts(c) \/ WorkAnswers(c) \/ WorkEnds(c) \/ Mend(c) \/ BackoffOver(c)

\* The interval timer ticks, what is awaited answers, delays end, and the
\* work on a container ends (CompileQueue's EveryPipelineEnds).
Fairness ==
    /\ WF_vars(ProberStep)
    /\ \A c \in Containers : WF_vars(BackoffOver(c)) /\ WF_vars(WorkEnds(c))

Spec == Init /\ [][Next]_vars /\ Fairness

-----------------------------------------------------------------------------
(* Properties.                                                             *)

ClearedNow(c) == alert[c].kind # "none" /\ alert'[c].kind = "none"

\* What a cleared alert had going for it, awaits notwithstanding: the probes
\* in a row were of this very episode, a suspect was restarted in it, and no
\* work is left on the container that could fail and raise the alert again.  And
\* it comes back at most MaxRecoveries times in a run, each of them counted,
\* new alerts notwithstanding (P3).
ClearedIsProven ==
    /\ []TypeOK
    /\ [][\A c \in Containers : ClearedNow(c) =>
            /\ recoveries[c] < MaxRecoveries /\ recoveries'[c] = recoveries[c] + 1
            /\ st[c].id = alert[c].id /\ st[c].streak >= SuccessesRequired
            /\ ~st[c].disabled
            /\ alert[c].kind = "suspect" => st[c].restarted
            /\ c \notin busy]_vars

\* A container that works again gets its alert cleared, unless the prober
\* gave it up (flap cap, restarts), the outage is global, or the run stops.
MendedComesBack ==
    \A c \in Containers :
        c \in mended ~>
            \/ alert[c].kind \in {"none", "global"} \/ st[c].disabled \/ stopped # "no"

\* Once stop() was called the prober begins no tick, probe, restart or disposal
\* any more, whichever await it was in; only a disposal that was under way may
\* still end with its clear (R2).
NothingBegunAfterStop ==
    [][stopped # "no" =>
         /\ pc' # pc => pc' \in {"tick", "idle"}
         /\ \A c \in Containers : ClearedNow(c) => pc = "clear" /\ current.c = c]_vars

\* Nothing is cleared or re-admitted after stop() has returned.  This does not
\* hold: see README, section 3.
NothingClearedAfterStop ==
    [][stopped = "returned" => \A c \in Containers : ~ClearedNow(c)]_vars
=============================================================================
