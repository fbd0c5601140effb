--------------------------- MODULE HealthMonitor ---------------------------
(***************************************************************************)
(* The container health monitor, src/health/monitor.ts, a reducer over the *)
(* outcomes that src/health/outcome-recorder.ts records, and clearAlert(). *)
(*                                                                         *)
(* A step is one record() or clearAlert(), each synchronous.  Counters and *)
(* time stamps, which decide nothing, are left out.  A fingerprint stands  *)
(* for a class of failures; those in Catastrophic match a signature with   *)
(* catastrophicSingleFailure.  Alert ids count raises.                     *)
(***************************************************************************)
EXTENDS Naturals, FiniteSets, Sequences

CONSTANTS
    Containers,    \* expectedContainerNames
    Fingerprints,
    Catastrophic,
    WindowSize,    \* outcomes remembered of a container
    Threshold,     \* persistentThreshold
    GlobalMin,     \* globalOutageMinContainers
    MaxAlerts      \* bound: alerts raised in a run

ASSUME MonitorAssumption ==
    /\ IsFiniteSet(Containers)
    /\ Catastrophic \subseteq Fingerprints
    /\ "clean" \notin Fingerprints
    /\ WindowSize \in Nat \ {0} /\ Threshold \in Nat \ {0}
    /\ GlobalMin \in Nat /\ MaxAlerts \in Nat

VARIABLES
    history,     \* container -> fpHistory: fingerprint or "clean", oldest first
    alert,       \* container -> its active alert
    suspects,    \* raisedAlerts, the keys suspect:<container>:<fp>
    persistents, \* the keys persistent:<container>:<fp>
    struck,      \* affectedContainers of the global alerts raised
    nextAlertSeq

keyVars == <<suspects, persistents, struck>>
monitorVars == <<history, alert, keyVars, nextAlertSeq>>

LocalKinds == {"suspect", "persistent"}

NoAlert == [id |-> 0, kind |-> "none", fp |-> "clean"]

Alerts == [id: Nat, kind: LocalKinds \cup {"global"}, fp: Fingerprints]

MonitorTypeOK ==
    /\ history \in [Containers -> Seq(Fingerprints \cup {"clean"})]
    /\ \A c \in Containers : Len(history[c]) <= WindowSize
    /\ alert \in [Containers -> Alerts \cup {NoAlert}]
    /\ suspects \in SUBSET (Containers \X Fingerprints)
    /\ persistents \in SUBSET (Containers \X Fingerprints)
    /\ struck \in SUBSET (Containers \X Fingerprints)
    /\ nextAlertSeq \in Nat

MonitorInit ==
    /\ history = [c \in Containers |-> <<>>]
    /\ alert = [c \in Containers |-> NoAlert]
    /\ suspects = {}
    /\ persistents = {}
    /\ struck = {}
    /\ nextAlertSeq = 0

\* The keys global:<fp> of raisedAlerts.
outages == {f \in Fingerprints : \E c \in Containers : <<c, f>> \in struck}

-----------------------------------------------------------------------------

\* The rolling window: every outcome takes a slot, so old errors age out.
Push(h, x) == Append(IF Len(h) < WindowSize THEN h ELSE Tail(h), x)

Count(h, f) == Cardinality({i \in DOMAIN h : h[i] = f})

\* Containers whose window shows fingerprint f.
Affected(hist, f) == {c \in Containers : Count(hist[c], f) > 0}

\* At least GlobalMin containers and half of the fleet (globalOutageRatio).
Outage(hist, f) ==
    LET n == Cardinality(Affected(hist, f)) IN
    n >= GlobalMin /\ 2 * n >= Cardinality(Containers)

\* Mutant: the keys of a replaced alert stay (P6).
ReplacedNone(S, f) == {}

\* attachAlert(): keys of the alerts with another fingerprint that an alert
\* of f on the containers S replaces.
Replaced(S, f) ==
    {<<c, alert[c].fp>> : c \in {d \in S : alert[d].kind # "none" /\ alert[d].fp # f}}

\* Mutant: a global outage is attached to one container.
AttachOne(S, kind, f) ==
    LET one == CHOOSE c \in S : TRUE IN
    /\ nextAlertSeq' = nextAlertSeq + 1
    /\ alert' = [alert EXCEPT ![one] = [id |-> nextAlertSeq + 1, kind |-> kind, fp |-> f]]

\* One alert, with a fresh id, becomes the active one of each container of S.
Attach(S, kind, f) ==
    LET a == [id |-> nextAlertSeq + 1, kind |-> kind, fp |-> f] IN
    /\ nextAlertSeq' = nextAlertSeq + 1
    /\ alert' = [c \in Containers |-> IF c \in S THEN a ELSE alert[c]]

RaiseGlobal(S, f) ==
    /\ Attach(S, "global", f)
    /\ struck' = struck \cup (S \X {f})
    /\ suspects' = suspects \ (Replaced(S, f) \cup (S \X {f}))
    /\ persistents' = persistents \ (Replaced(S, f) \cup (S \X {f}))

RaiseSuspect(c, f) ==
    /\ Attach({c}, "suspect", f)
    /\ suspects' = (suspects \cup {<<c, f>>}) \ Replaced({c}, f)
    /\ persistents' = persistents \ Replaced({c}, f)
    /\ UNCHANGED struck

RaisePersistent(c, f) ==
    /\ Attach({c}, "persistent", f)
    /\ persistents' = (persistents \cup {<<c, f>>}) \ Replaced({c}, f)
    /\ suspects' = suspects \ Replaced({c}, f)
    /\ UNCHANGED struck

RaiseNothing == UNCHANGED <<alert, keyVars, nextAlertSeq>>

\* record() of an infra error; `known` when its signatureId is given and is
\* that of a catastrophic signature.  A global outage silences every later
\* local alert of its fingerprint.
InfraError(c, f, known) ==
    LET hist == [history EXCEPT ![c] = Push(@, f)]
        quiet == f \in outages
        suspected == <<c, f>> \in suspects
        due == Count(hist[c], f) >= Threshold /\ ~suspected
    IN
    /\ nextAlertSeq < MaxAlerts
    /\ history' = hist
    /\ \/ Outage(hist, f) /\ ~quiet /\ RaiseGlobal(Affected(hist, f), f)
       \/ quiet /\ RaiseNothing
       \/ ~Outage(hist, f) /\ ~quiet /\ known /\ ~suspected /\ RaiseSuspect(c, f)
       \/ ~Outage(hist, f) /\ ~quiet /\ known /\ suspected /\ RaiseNothing
       \/ /\ ~Outage(hist, f) /\ ~quiet /\ ~known
          /\ due /\ <<c, f>> \notin persistents
          /\ RaisePersistent(c, f)
       \/ /\ ~Outage(hist, f) /\ ~quiet /\ ~known
          /\ ~due \/ <<c, f>> \in persistents
          /\ RaiseNothing

-----------------------------------------------------------------------------
(* The events recorded, attachOutcomeRecorder().                           *)

\* "result": a pass or a failure of the model, not an error of the container.
RecordResult(c) ==
    /\ history' = [history EXCEPT ![c] = Push(@, "clean")]
    /\ RaiseNothing

\* "error": carries the fingerprint and the signature id.
RecordError(c, f) == InfraError(c, f, f \in Catastrophic)

\* "infra_retry_started": carries the fingerprint only.
RecordRetryStarted(c, f) == InfraError(c, f, FALSE)

Record(c) ==
    \/ RecordResult(c)
    \/ \E f \in Fingerprints : RecordError(c, f) \/ RecordRetryStarted(c, f)

\* Mutant: the dedupe keys survive the alert.
ClearedKeysKept(c, id) ==
    /\ alert[c].kind \in LocalKinds /\ alert[c].id = id
    /\ alert' = [alert EXCEPT ![c] = NoAlert]
    /\ UNCHANGED <<history, keyVars, nextAlertSeq>>

\* Mutant: no compare-and-clear.
ClearedAnyEpisode(c, id) ==
    /\ alert[c].kind \in LocalKinds
    /\ alert' = [alert EXCEPT ![c] = NoAlert]
    /\ suspects' = suspects \ {<<c, alert[c].fp>>}
    /\ persistents' = persistents \ {<<c, alert[c].fp>>}
    /\ UNCHANGED <<history, struck, nextAlertSeq>>

\* clearAlert() when it clears: a local alert, and the one that was probed.
Cleared(c, id) ==
    /\ alert[c].kind \in LocalKinds /\ alert[c].id = id
    /\ alert' = [alert EXCEPT ![c] = NoAlert]
    /\ suspects' = suspects \ {<<c, alert[c].fp>>}
    /\ persistents' = persistents \ {<<c, alert[c].fp>>}
    /\ UNCHANGED <<history, struck, nextAlertSeq>>

MonitorNext ==
    \E c \in Containers : Record(c) \/ Cleared(c, alert[c].id)

MonitorSpec == MonitorInit /\ [][MonitorNext]_monitorVars

-----------------------------------------------------------------------------
(* Properties.                                                             *)

\* A key mutes a fingerprint on a container only while the alert it stands
\* for is up there: a recovered or superseded alert can be raised again (P6).
KeysMatchAlerts ==
    \A k \in suspects \cup persistents :
        alert[k[1]].kind \in LocalKinds /\ alert[k[1]].fp = k[2]

\* A container whose window reaches the threshold with a failure is never
\* left without an alert, whatever was raised, replaced and cleared before,
\* unless the fingerprint was declared a global outage.
NeverMuted ==
    [][\A c \in Containers, f \in Fingerprints :
         /\ history'[c] # history[c] /\ history'[c][Len(history'[c])] = f
         /\ Count(history'[c], f) >= Threshold
         /\ f \notin outages
         => alert'[c].kind # "none"]_monitorVars

\* A global outage takes every container that shows its fingerprint out of
\* dispatch, not just the last one to fail (P4b).
OutageCoversAffected ==
    [][\A f \in outages' \ outages :
         \A c \in Affected(history', f) : alert'[c].kind = "global" /\ alert'[c].fp = f]_monitorVars

\* Each raise is an episode of its own: the id of a new alert was never used,
\* so a probe of an older episode cannot be taken for one of it.
FreshEpisodes ==
    [][\A c, d \in Containers :
         alert'[c].kind # "none" /\ alert'[c] # alert[c] => alert'[c].id > alert[d].id]_monitorVars

\* A single catastrophic failure takes its container out at once.  This does
\* not hold: see README, section 3.
CatastrophicAtOnce ==
    [][\A c \in Containers :
         /\ history'[c] # history[c]
         /\ history'[c][Len(history'[c])] \in Catastrophic \ outages
         => alert'[c].kind # "none"]_monitorVars
=============================================================================
