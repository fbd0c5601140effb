------------------------ MODULE RecoveryProberProofs ------------------------
(***************************************************************************)
(* Proofs about HealthMonitor and RecoveryProber, for any fleet, any set   *)
(* of fingerprints, any window, thresholds, caps and number of probes.     *)
(*                                                                         *)
(* The monitor first, on its own.  Its inductive invariant adds to the     *)
(* type invariant that no active alert carries an id above the counter     *)
(* they are drawn from, and that the dedupe keys are those of active local *)
(* alerts.  Then the prober: every step of it, or of the bench around it,  *)
(* is a step of the monitor or leaves it alone, so what holds of the       *)
(* monitor holds there; and its own invariant says what it has found out   *)
(* about the alert it works on.                                            *)
(***************************************************************************)
EXTENDS RecoveryProber, FiniteSetTheorems, TLAPS

\* Ids are drawn from the counter: no active alert is ahead of it.
IdsDrawn == \A c \in Containers : alert[c].id <= nextAlertSeq

MonitorInv == MonitorTypeOK /\ IdsDrawn /\ KeysMatchAlerts

-----------------------------------------------------------------------------

\* The rolling window stays a bounded sequence (record's push and shift).
LEMMA PushWindow ==
    ASSUME NEW T, NEW h \in Seq(T), NEW x \in T, Len(h) <= WindowSize
    PROVE  Push(h, x) \in Seq(T) /\ Len(Push(h, x)) <= WindowSize
<1>1. CASE Len(h) < WindowSize
  BY <1>1, MonitorAssumption DEF Push
<1>2. CASE ~(Len(h) < WindowSize)
  <2>1. h # <<>> /\ Len(h) = WindowSize
    BY <1>2, MonitorAssumption
  <2>2. Tail(h) \in Seq(T) /\ Len(Tail(h)) = Len(h) - 1
    BY <2>1
  <2> QED
    BY <1>2, <2>1, <2>2, MonitorAssumption DEF Push
<1> QED
  BY <1>1, <1>2

\* What attachAlert() leaves: typed alerts, and the counter one further.
LEMMA AttachOK ==
    ASSUME MonitorInv, NEW S \in SUBSET Containers,
           NEW kind \in LocalKinds \cup {"global"}, NEW f \in Fingerprints,
           Attach(S, kind, f)
    PROVE  /\ alert' \in [Containers -> Alerts \cup {NoAlert}]
           /\ nextAlertSeq' \in Nat
           /\ IdsDrawn'
           /\ \A c \in S : alert'[c].kind = kind /\ alert'[c].fp = f
           /\ \A c \in S : alert'[c].id = nextAlertSeq + 1
           /\ \A c \in Containers \ S : alert'[c] = alert[c]
<1> DEFINE a == [id |-> nextAlertSeq + 1, kind |-> kind, fp |-> f]
<1>1. /\ nextAlertSeq \in Nat
      /\ alert \in [Containers -> Alerts \cup {NoAlert}]
  BY DEF MonitorInv, MonitorTypeOK
<1>2. a \in Alerts
  BY <1>1 DEF Alerts
<1>3. /\ nextAlertSeq' = nextAlertSeq + 1
      /\ alert' = [c \in Containers |-> IF c \in S THEN a ELSE alert[c]]
  BY DEF Attach
<1>4. alert' \in [Containers -> Alerts \cup {NoAlert}]
  BY <1>1, <1>2, <1>3
<1>5. \A c \in Containers : alert[c].id \in Nat /\ alert[c].id <= nextAlertSeq
  BY <1>1 DEF MonitorInv, IdsDrawn, Alerts, NoAlert
<1>6. IdsDrawn'
  <2> SUFFICES ASSUME NEW c \in Containers
               PROVE  alert'[c].id <= nextAlertSeq'
    BY DEF IdsDrawn
  <2>1. CASE c \in S
    BY <2>1, <1>1, <1>3
  <2>2. CASE c \notin S
    BY <2>2, <1>1, <1>3, <1>5
  <2> QED
    BY <2>1, <2>2
<1> QED
  BY <1>1, <1>3, <1>4, <1>6

\* A step that leaves the alerts and their keys alone.
LEMMA RaiseNothingOK ==
    ASSUME MonitorInv, RaiseNothing
    PROVE  /\ alert' \in [Containers -> Alerts \cup {NoAlert}]
           /\ suspects' \in SUBSET (Containers \X Fingerprints)
           /\ persistents' \in SUBSET (Containers \X Fingerprints)
           /\ struck' \in SUBSET (Containers \X Fingerprints)
           /\ nextAlertSeq' \in Nat
           /\ IdsDrawn' /\ KeysMatchAlerts'
  BY DEF MonitorInv, MonitorTypeOK, RaiseNothing, keyVars, IdsDrawn, KeysMatchAlerts

LEMMA RaiseGlobalOK ==
    ASSUME MonitorInv, NEW S \in SUBSET Containers, NEW f \in Fingerprints,
           RaiseGlobal(S, f)
    PROVE  /\ alert' \in [Containers -> Alerts \cup {NoAlert}]
           /\ suspects' \in SUBSET (Containers \X Fingerprints)
           /\ persistents' \in SUBSET (Containers \X Fingerprints)
           /\ struck' \in SUBSET (Containers \X Fingerprints)
           /\ nextAlertSeq' \in Nat
           /\ IdsDrawn' /\ KeysMatchAlerts'
<1>1. Attach(S, "global", f)
  BY DEF RaiseGlobal
<1>2. /\ alert' \in [Containers -> Alerts \cup {NoAlert}]
      /\ nextAlertSeq' \in Nat /\ IdsDrawn'
      /\ \A c \in Containers \ S : alert'[c] = alert[c]
  BY <1>1, AttachOK
<1>3. /\ suspects' \in SUBSET (Containers \X Fingerprints)
      /\ persistents' \in SUBSET (Containers \X Fingerprints)
      /\ struck' \in SUBSET (Containers \X Fingerprints)
  BY DEF MonitorInv, MonitorTypeOK, RaiseGlobal
<1>4. KeysMatchAlerts'
  <2> SUFFICES ASSUME NEW k \in suspects' \cup persistents'
               PROVE  alert'[k[1]].kind \in LocalKinds /\ alert'[k[1]].fp = k[2]
    BY DEF KeysMatchAlerts
  <2>1. /\ k \in suspects \cup persistents
        /\ k \notin Replaced(S, f) /\ k \notin S \X {f}
    BY DEF RaiseGlobal
  <2>2. /\ k = <<k[1], k[2]>> /\ k[1] \in Containers /\ k[2] \in Fingerprints
        /\ alert[k[1]].kind \in LocalKinds /\ alert[k[1]].fp = k[2]
    BY <2>1 DEF MonitorInv, MonitorTypeOK, KeysMatchAlerts
  <2>3. k[1] \notin S
    BY <2>1, <2>2 DEF Replaced, LocalKinds
  <2> QED
    BY <1>2, <2>2, <2>3
<1> QED
  BY <1>2, <1>3, <1>4

\* The keys of container c after a local alert of f: only <<c, f>> is left.
LEMMA RaiseLocalOK ==
    ASSUME MonitorInv, NEW c \in Containers, NEW f \in Fingerprints,
           RaiseSuspect(c, f) \/ RaisePersistent(c, f)
    PROVE  /\ alert' \in [Containers -> Alerts \cup {NoAlert}]
           /\ suspects' \in SUBSET (Containers \X Fingerprints)
           /\ persistents' \in SUBSET (Containers \X Fingerprints)
           /\ struck' \in SUBSET (Containers \X Fingerprints)
           /\ nextAlertSeq' \in Nat
           /\ IdsDrawn' /\ KeysMatchAlerts'
<1>1. PICK kind \in LocalKinds \cup {"global"}, S \in SUBSET Containers :
        kind \in LocalKinds /\ S = {c} /\ Attach(S, kind, f)
  BY DEF RaiseSuspect, RaisePersistent, LocalKinds
<1>2. /\ alert' \in [Containers -> Alerts \cup {NoAlert}]
      /\ nextAlertSeq' \in Nat /\ IdsDrawn'
      /\ alert'[c].kind \in LocalKinds /\ alert'[c].fp = f
      /\ \A d \in Containers \ {c} : alert'[d] = alert[d]
  <2>1. /\ alert' \in [Containers -> Alerts \cup {NoAlert}]
        /\ nextAlertSeq' \in Nat /\ IdsDrawn'
        /\ \A d \in S : alert'[d].kind = kind /\ alert'[d].fp = f
        /\ \A d \in Containers \ S : alert'[d] = alert[d]
    BY <1>1, AttachOK
  <2> QED
    BY <1>1, <2>1
<1>3. /\ suspects' \in SUBSET (Containers \X Fingerprints)
      /\ persistents' \in SUBSET (Containers \X Fingerprints)
      /\ struck' \in SUBSET (Containers \X Fingerprints)
  BY DEF MonitorInv, MonitorTypeOK, RaiseSuspect, RaisePersistent
<1>4. KeysMatchAlerts'
  <2> SUFFICES ASSUME NEW k \in suspects' \cup persistents'
               PROVE  alert'[k[1]].kind \in LocalKinds /\ alert'[k[1]].fp = k[2]
    BY DEF KeysMatchAlerts
  <2>1. CASE k = <<c, f>>
    BY <2>1, <1>2
  <2>2. CASE k # <<c, f>>
    <3>1. k \in suspects \cup persistents /\ k \notin Replaced({c}, f)
      BY <2>2 DEF RaiseSuspect, RaisePersistent
    <3>2. /\ k = <<k[1], k[2]>> /\ k[1] \in Containers /\ k[2] \in Fingerprints
          /\ alert[k[1]].kind \in LocalKinds /\ alert[k[1]].fp = k[2]
      BY <3>1 DEF MonitorInv, MonitorTypeOK, KeysMatchAlerts
    <3>3. k[1] # c
      BY <2>2, <3>1, <3>2 DEF Replaced, LocalKinds
    <3> QED
      BY <1>2, <3>2, <3>3
  <2> QED
    BY <2>1, <2>2
<1> QED
  BY <1>2, <1>3, <1>4

LEMMA InfraErrorOK ==
    ASSUME MonitorInv, NEW c \in Containers, NEW f \in Fingerprints,
           NEW known, InfraError(c, f, known)
    PROVE  MonitorInv'
<1> DEFINE hist == [history EXCEPT ![c] = Push(@, f)]
<1>1. /\ history' \in [Containers -> Seq(Fingerprints \cup {"clean"})]
      /\ \A d \in Containers : Len(history'[d]) <= WindowSize
  <2>1. history[c] \in Seq(Fingerprints \cup {"clean"}) /\ Len(history[c]) <= WindowSize
    BY DEF MonitorInv, MonitorTypeOK
  <2>2. /\ Push(history[c], f) \in Seq(Fingerprints \cup {"clean"})
        /\ Len(Push(history[c], f)) <= WindowSize
    BY <2>1, PushWindow
  <2>3. history' = hist
    BY DEF InfraError
  <2> QED
    BY <2>2, <2>3 DEF MonitorInv, MonitorTypeOK
<1>2. Affected(hist, f) \in SUBSET Containers
  BY DEF Affected
<1>3. \/ RaiseGlobal(Affected(hist, f), f)
      \/ RaiseSuspect(c, f) \/ RaisePersistent(c, f)
      \/ RaiseNothing
  BY Zenon DEF InfraError
<1> QED
  BY <1>1, <1>2, <1>3, RaiseGlobalOK, RaiseLocalOK, RaiseNothingOK
  DEF MonitorInv, MonitorTypeOK

LEMMA RecordOK ==
    ASSUME MonitorInv, NEW c \in Containers, Record(c)
    PROVE  MonitorInv'
<1>1. CASE RecordResult(c)
  <2>1. history[c] \in Seq(Fingerprints \cup {"clean"}) /\ Len(history[c]) <= WindowSize
    BY DEF MonitorInv, MonitorTypeOK
  <2>2. /\ Push(history[c], "clean") \in Seq(Fingerprints \cup {"clean"})
        /\ Len(Push(history[c], "clean")) <= WindowSize
    BY <2>1, PushWindow
  <2>3. history' = [history EXCEPT ![c] = Push(@, "clean")] /\ RaiseNothing
    BY <1>1 DEF RecordResult
  <2>4. /\ history' \in [Containers -> Seq(Fingerprints \cup {"clean"})]
        /\ \A d \in Containers : Len(history'[d]) <= WindowSize
    BY <2>2, <2>3 DEF MonitorInv, MonitorTypeOK
  <2> QED
    BY <2>3, <2>4, RaiseNothingOK DEF MonitorInv, MonitorTypeOK
<1>2. ASSUME NEW f \in Fingerprints, RecordError(c, f) \/ RecordRetryStarted(c, f)
      PROVE  MonitorInv'
  <2>1. InfraError(c, f, f \in Catastrophic) \/ InfraError(c, f, FALSE)
    BY <1>2, Zenon DEF RecordError, RecordRetryStarted
  <2> QED
    BY <2>1, InfraErrorOK, Zenon
<1> QED
  BY <1>1, <1>2 DEF Record

\* clearAlert() takes the keys of the alert with it (P6).
LEMMA ClearedOK ==
    ASSUME MonitorInv, NEW c \in Containers, NEW id, Cleared(c, id)
    PROVE  MonitorInv'
<1>1. MonitorTypeOK'
  BY DEF MonitorInv, MonitorTypeOK, Cleared, LocalKinds
<1>2. IdsDrawn'
  BY DEF MonitorInv, MonitorTypeOK, IdsDrawn, Cleared, NoAlert
<1>3. KeysMatchAlerts'
  <2> SUFFICES ASSUME NEW k \in suspects' \cup persistents'
               PROVE  alert'[k[1]].kind \in LocalKinds /\ alert'[k[1]].fp = k[2]
    BY DEF KeysMatchAlerts
  <2>1. k \in suspects \cup persistents /\ k # <<c, alert[c].fp>>
    BY DEF Cleared
  <2>2. /\ k = <<k[1], k[2]>> /\ k[1] \in Containers
        /\ alert[k[1]].kind \in LocalKinds /\ alert[k[1]].fp = k[2]
    BY <2>1 DEF MonitorInv, MonitorTypeOK, KeysMatchAlerts
  <2>3. k[1] # c
    BY <2>1, <2>2
  <2> QED
    BY <2>2, <2>3 DEF MonitorInv, MonitorTypeOK, Cleared
<1> QED
  BY <1>1, <1>2, <1>3 DEF MonitorInv

-----------------------------------------------------------------------------

\* The monitor starts without alerts and without keys.
LEMMA MonitorStarts ==
    ASSUME MonitorInit
    PROVE  MonitorInv
BY MonitorAssumption
DEF MonitorInit, MonitorInv, MonitorTypeOK, IdsDrawn, KeysMatchAlerts, NoAlert

\* The strengthened invariant holds of the monitor.
THEOREM MonitorInvariant == MonitorSpec => []MonitorInv
<1>1. MonitorInit => MonitorInv
  BY MonitorStarts
<1>2. MonitorInv /\ [MonitorNext]_monitorVars => MonitorInv'
  <2> SUFFICES ASSUME MonitorInv, [MonitorNext]_monitorVars PROVE MonitorInv'
    OBVIOUS
  <2>1. CASE MonitorNext
    BY <2>1, RecordOK, ClearedOK DEF MonitorNext
  <2>2. CASE UNCHANGED monitorVars
    BY <2>2 DEF monitorVars, keyVars, MonitorInv, MonitorTypeOK, IdsDrawn, KeysMatchAlerts
  <2> QED
    BY <2>1, <2>2
<1> QED
  BY <1>1, <1>2, PTL DEF MonitorSpec

\* The monitor's state is well typed and no window outgrows windowSize.
THEOREM MonitorTypeCorrect == MonitorSpec => []MonitorTypeOK
<1>1. MonitorInv => MonitorTypeOK
  BY DEF MonitorInv
<1> QED
  BY <1>1, MonitorInvariant, PTL

\* A dedupe key mutes a fingerprint on a container only while the local
\* alert it stands for is active there (P6).
THEOREM KeysAlwaysMatch == MonitorSpec => []KeysMatchAlerts
<1>1. MonitorInv => KeysMatchAlerts
  BY DEF MonitorInv
<1> QED
  BY <1>1, MonitorInvariant, PTL

-----------------------------------------------------------------------------

\* A raise gives its containers an id above every active one.
LEMMA AttachFresh ==
    ASSUME MonitorInv, NEW S \in SUBSET Containers,
           NEW kind \in LocalKinds \cup {"global"}, NEW f \in Fingerprints,
           Attach(S, kind, f),
           NEW c \in Containers, NEW d \in Containers, alert'[c] # alert[c]
    PROVE  alert'[c].id > alert[d].id
<1>1. c \in S
  BY AttachOK
<1>2. alert'[c].id = nextAlertSeq + 1
  BY <1>1, AttachOK
<1>3. nextAlertSeq \in Nat /\ alert[d].id \in Nat /\ alert[d].id <= nextAlertSeq
  BY DEF MonitorInv, MonitorTypeOK, IdsDrawn, Alerts, NoAlert
<1> QED
  BY <1>2, <1>3

\* Each raise is an episode of its own: the id of a new alert is above that
\* of every alert active before.
THEOREM EpisodesFresh == MonitorSpec => FreshEpisodes
<1> DEFINE Fresh == \A c, d \in Containers :
              alert'[c].kind # "none" /\ alert'[c] # alert[c] => alert'[c].id > alert[d].id
<1>1. MonitorInv /\ [MonitorNext]_monitorVars => Fresh
  <2> SUFFICES ASSUME MonitorInv, [MonitorNext]_monitorVars,
                      NEW c \in Containers, NEW d \in Containers,
                      alert'[c].kind # "none", alert'[c] # alert[c]
               PROVE  alert'[c].id > alert[d].id
    OBVIOUS
  <2>1. PICK e \in Containers : Record(e) \/ Cleared(e, alert[e].id)
    BY DEF MonitorNext, monitorVars
  <2>2. CASE Cleared(e, alert[e].id)
    BY <2>2 DEF Cleared, NoAlert, MonitorInv, MonitorTypeOK
  <2>3. ASSUME NEW f \in Fingerprints, NEW known, InfraError(e, f, known)
        PROVE  alert'[c].id > alert[d].id
    <3> DEFINE hist == [history EXCEPT ![e] = Push(@, f)]
    <3>1. \/ RaiseGlobal(Affected(hist, f), f)
          \/ RaiseSuspect(e, f) \/ RaisePersistent(e, f)
          \/ RaiseNothing
      BY <2>3, Zenon DEF InfraError
    <3>2. \E S \in SUBSET Containers, kind \in LocalKinds \cup {"global"} :
             Attach(S, kind, f)
      <4>1. CASE RaiseGlobal(Affected(hist, f), f)
        BY <4>1 DEF RaiseGlobal, Affected
      <4>2. CASE RaiseSuspect(e, f) \/ RaisePersistent(e, f)
        <5>1. Attach({e}, "suspect", f) \/ Attach({e}, "persistent", f)
          BY <4>2 DEF RaiseSuspect, RaisePersistent
        <5>2. {e} \in SUBSET Containers
          OBVIOUS
        <5> QED
          BY <5>1, <5>2, Zenon DEF LocalKinds
      <4>3. CASE RaiseNothing
        BY <4>3 DEF RaiseNothing
      <4> QED
        BY <3>1, <4>1, <4>2, <4>3
    <3> QED
      BY <3>2, AttachFresh
  <2>4. CASE Record(e)
    <3>1. CASE RecordResult(e)
      BY <3>1 DEF RecordResult, RaiseNothing
    <3>2. ASSUME NEW f \in Fingerprints, RecordError(e, f) \/ RecordRetryStarted(e, f)
          PROVE  alert'[c].id > alert[d].id
      <4>1. InfraError(e, f, f \in Catastrophic) \/ InfraError(e, f, FALSE)
        BY <3>2, Zenon DEF RecordError, RecordRetryStarted
      <4> QED
        BY <4>1, <2>3, Zenon
    <3> QED
      BY <2>4, <3>1, <3>2 DEF Record
  <2> QED
    BY <2>1, <2>2, <2>4
<1>2. MonitorInv /\ [MonitorNext]_monitorVars => [Fresh]_monitorVars
  BY <1>1
<1> QED
  BY <1>2, MonitorInvariant, PTL DEF MonitorSpec, FreshEpisodes

\* A global outage takes every container that shows its fingerprint out of
\* dispatch at once (P4b).
THEOREM OutageCovers == MonitorSpec => OutageCoversAffected
<1> DEFINE Covered == \A f \in outages' \ outages :
              \A c \in Affected(history', f) : alert'[c].kind = "global" /\ alert'[c].fp = f
<1>1. MonitorInv /\ [MonitorNext]_monitorVars => Covered
  <2> SUFFICES ASSUME MonitorInv, [MonitorNext]_monitorVars,
                      NEW g \in outages', g \notin outages,
                      NEW c \in Affected(history', g)
               PROVE  alert'[c].kind = "global" /\ alert'[c].fp = g
    OBVIOUS
  <2>1. struck' # struck
    BY DEF outages
  <2>2. PICK e \in Containers : Record(e) \/ Cleared(e, alert[e].id)
    BY <2>1 DEF MonitorNext, monitorVars, keyVars
  <2>3. ~Cleared(e, alert[e].id) /\ ~RecordResult(e)
    BY <2>1, Zenon DEF Cleared, RecordResult, RaiseNothing, keyVars
  <2>4. ASSUME NEW f \in Fingerprints, NEW known, InfraError(e, f, known)
        PROVE  alert'[c].kind = "global" /\ alert'[c].fp = g
    <3> DEFINE S == Affected([history EXCEPT ![e] = Push(@, f)], f)
    <3>1. RaiseGlobal(S, f) /\ S = Affected(history', f)
      BY <2>1, <2>4, Zenon
      DEF InfraError, RaiseSuspect, RaisePersistent, RaiseNothing, keyVars
    <3>2. S \in SUBSET Containers
      BY DEF Affected
    <3> HIDE DEF S
    <3>3. Attach(S, "global", f) /\ struck' = struck \cup (S \X {f})
      BY <3>1, Zenon DEF RaiseGlobal
    <3>4. g = f
      BY <3>3 DEF outages
    <3>5. \A d \in S : alert'[d].kind = "global" /\ alert'[d].fp = f
      BY <3>2, <3>3, AttachOK
    <3> QED
      BY <3>1, <3>4, <3>5
  <2>5. PICK f \in Fingerprints : RecordError(e, f) \/ RecordRetryStarted(e, f)
    BY <2>2, <2>3, Zenon DEF Record
  <2>6. InfraError(e, f, f \in Catastrophic) \/ InfraError(e, f, FALSE)
    BY <2>5, Zenon DEF RecordError, RecordRetryStarted
  <2> QED
    BY <2>4, <2>6, Zenon
<1>2. MonitorInv /\ [MonitorNext]_monitorVars => [Covered]_monitorVars
  BY <1>1
<1> QED
  BY <1>2, MonitorInvariant, PTL DEF MonitorSpec, OutageCoversAffected

-----------------------------------------------------------------------------

\* record() puts the newest outcome last.
LEMMA PushLast ==
    ASSUME NEW T, NEW h \in Seq(T), NEW x \in T, Len(h) <= WindowSize
    PROVE  Push(h, x)[Len(Push(h, x))] = x
<1>1. CASE Len(h) < WindowSize
  BY <1>1 DEF Push
<1>2. CASE ~(Len(h) < WindowSize)
  <2>1. h # <<>>
    BY <1>2, MonitorAssumption
  <2>2. Tail(h) \in Seq(T)
    BY <2>1
  <2> QED
    BY <1>2, <2>2 DEF Push
<1> QED
  BY <1>1, <1>2

LEMMA CountNat ==
    ASSUME NEW T, NEW h \in Seq(T), NEW f
    PROVE  Count(h, f) \in Nat
<1>1. DOMAIN h = 1..Len(h) /\ Len(h) \in Nat
  OBVIOUS
<1>2. IsFiniteSet(1..Len(h))
  BY <1>1, FS_Interval
<1>3. IsFiniteSet({i \in DOMAIN h : h[i] = f})
  BY <1>1, <1>2, FS_Subset
<1> QED
  BY <1>3, FS_CardinalityType DEF Count

\* What record() of an infra error leaves on a container that reached the
\* threshold: a new alert, or the one its dedupe key stands for.
LEMMA ErrorNotMuted ==
    ASSUME MonitorInv, NEW c \in Containers, NEW f \in Fingerprints,
           NEW known, InfraError(c, f, known),
           Count(history'[c], f) >= Threshold, f \notin outages
    PROVE  alert'[c].kind # "none"
<1> DEFINE hist == [history EXCEPT ![c] = Push(@, f)]
<1>1. history' = hist
  BY DEF InfraError
<1>2. CASE RaiseGlobal(Affected(hist, f), f)
  <2>1. PICK kind \in LocalKinds \cup {"global"}, S \in SUBSET Containers :
          kind = "global" /\ S = Affected(hist, f) /\ Attach(S, kind, f)
    BY <1>2 DEF RaiseGlobal, Affected
  <2>2. c \in S
    <3>1. Count(hist[c], f) >= Threshold /\ Threshold \in Nat \ {0}
      BY <1>1, MonitorAssumption
    <3>2. hist[c] \in Seq(Fingerprints \cup {"clean"})
      BY <1>1, InfraErrorOK DEF MonitorInv, MonitorTypeOK
    <3>3. Count(hist[c], f) \in Nat
      BY <3>2, CountNat
    <3>4. Count(hist[c], f) > 0
      BY <3>1, <3>3
    <3> QED
      BY <2>1, <3>4 DEF Affected
  <2>3. Attach(S, kind, f)
    BY <2>1
  <2>4. \A d \in S : alert'[d].kind = kind
    BY <2>3, AttachOK
  <2> QED
    BY <2>1, <2>2, <2>4
<1>3. CASE RaiseSuspect(c, f) \/ RaisePersistent(c, f)
  <2>1. PICK kind \in LocalKinds \cup {"global"}, S \in SUBSET Containers :
          S = {c} /\ Attach(S, kind, f)
    BY <1>3 DEF RaiseSuspect, RaisePersistent, LocalKinds
  <2>2. \A d \in S : alert'[d].kind = kind
    BY <2>1, AttachOK
  <2> QED
    BY <2>1, <2>2 DEF LocalKinds
<1>4. ASSUME <<c, f>> \in suspects \cup persistents, RaiseNothing
      PROVE  alert'[c].kind # "none"
  BY <1>4 DEF MonitorInv, KeysMatchAlerts, LocalKinds, RaiseNothing
<1>5. \/ RaiseGlobal(Affected(hist, f), f)
      \/ RaiseSuspect(c, f) \/ RaisePersistent(c, f)
      \/ <<c, f>> \in suspects \cup persistents /\ RaiseNothing
  <2>1. CASE <<c, f>> \in suspects \cup persistents
    BY <2>1, Zenon DEF InfraError
  <2>2. CASE <<c, f>> \notin suspects \cup persistents
    BY <1>1, <2>2, Zenon DEF InfraError
  <2> QED
    BY <2>1, <2>2
<1> QED
  BY <1>2, <1>3, <1>4, <1>5

\* A container whose window reaches the threshold with a failure is never
\* left without an alert, whatever was raised, replaced and cleared before,
\* unless the fingerprint was declared a global outage.
THEOREM NeverMutedHolds == MonitorSpec => NeverMuted
<1> DEFINE Heard == \A c \in Containers, f \in Fingerprints :
         /\ history'[c] # history[c] /\ history'[c][Len(history'[c])] = f
         /\ Count(history'[c], f) >= Threshold
         /\ f \notin outages
         => alert'[c].kind # "none"
<1>1. MonitorInv /\ [MonitorNext]_monitorVars => Heard
  <2> SUFFICES ASSUME MonitorInv, [MonitorNext]_monitorVars,
                      NEW c \in Containers, NEW f \in Fingerprints,
                      history'[c] # history[c],
                      history'[c][Len(history'[c])] = f,
                      Count(history'[c], f) >= Threshold, f \notin outages
               PROVE  alert'[c].kind # "none"
    OBVIOUS
  <2>1. PICK e \in Containers : Record(e)
    BY DEF MonitorNext, monitorVars, Cleared
  <2>2. /\ history \in [Containers -> Seq(Fingerprints \cup {"clean"})]
        /\ history[c] \in Seq(Fingerprints \cup {"clean"})
        /\ Len(history[c]) <= WindowSize
    BY DEF MonitorInv, MonitorTypeOK
  <2>3. ASSUME NEW x \in Fingerprints \cup {"clean"},
               history' = [history EXCEPT ![e] = Push(@, x)]
        PROVE  e = c /\ x = f
    <3>1. e = c /\ history'[c] = Push(history[c], x)
      BY <2>2, <2>3
    <3>2. Push(history[c], x)[Len(Push(history[c], x))] = x
      BY <2>2, PushLast
    <3> QED
      BY <3>1, <3>2
  <2>4. ~RecordResult(e)
    BY <2>3, MonitorAssumption DEF RecordResult
  <2>5. PICK g \in Fingerprints : RecordError(e, g) \/ RecordRetryStarted(e, g)
    BY <2>1, <2>4, Zenon DEF Record
  <2>6. InfraError(e, g, g \in Catastrophic) \/ InfraError(e, g, FALSE)
    BY <2>5, Zenon DEF RecordError, RecordRetryStarted
  <2>7. e = c /\ g = f
    <3>1. history' = [history EXCEPT ![e] = Push(@, g)]
      BY <2>6, Zenon DEF InfraError
    <3> QED
      BY <2>3, <3>1
  <2> QED
    BY <2>6, <2>7, ErrorNotMuted, Zenon
<1>2. MonitorInv /\ [MonitorNext]_monitorVars => [Heard]_monitorVars
  BY <1>1
<1> QED
  BY <1>2, MonitorInvariant, PTL DEF MonitorSpec, NeverMuted

-----------------------------------------------------------------------------
(* The monitor, seen from the prober.                                      *)

\* What record() does to the alert of a container: nothing, or it is replaced
\* by one with the next id.  It never takes an alert away.
LEMMA RecordAlerts ==
    ASSUME MonitorInv, NEW e \in Containers, Record(e), NEW c \in Containers
    PROVE  /\ nextAlertSeq' \in Nat /\ nextAlertSeq <= nextAlertSeq'
           /\ \/ alert'[c] = alert[c]
              \/ alert'[c].kind # "none" /\ alert'[c].id = nextAlertSeq + 1
<1>0. nextAlertSeq \in Nat
  BY DEF MonitorInv, MonitorTypeOK
<1>1. CASE RaiseNothing
  BY <1>0, <1>1 DEF RaiseNothing
<1>2. ASSUME NEW S \in SUBSET Containers, NEW kind \in LocalKinds \cup {"global"},
             NEW f \in Fingerprints, Attach(S, kind, f)
      PROVE  /\ nextAlertSeq' \in Nat /\ nextAlertSeq <= nextAlertSeq'
             /\ \/ alert'[c] = alert[c]
                \/ alert'[c].kind # "none" /\ alert'[c].id = nextAlertSeq + 1
  <2>0. /\ \A d \in S : alert'[d].kind = kind /\ alert'[d].id = nextAlertSeq + 1
        /\ \A d \in Containers \ S : alert'[d] = alert[d]
    BY <1>2, AttachOK
  <2>1. nextAlertSeq' = nextAlertSeq + 1
    BY <1>2 DEF Attach
  <2>2. CASE c \in S
    BY <1>0, <2>0, <2>1, <2>2 DEF LocalKinds
  <2>3. CASE c \notin S
    BY <1>0, <2>0, <2>1, <2>3
  <2> QED
    BY <2>2, <2>3
<1>3. ASSUME NEW f \in Fingerprints, NEW known, InfraError(e, f, known)
      PROVE  RaiseNothing \/ \E S \in SUBSET Containers, kind \in LocalKinds \cup {"global"} :
                               Attach(S, kind, f)
  <2> DEFINE hist == [history EXCEPT ![e] = Push(@, f)]
  <2>1. \/ RaiseGlobal(Affected(hist, f), f)
        \/ RaiseSuspect(e, f) \/ RaisePersistent(e, f)
        \/ RaiseNothing
    BY <1>3, Zenon DEF InfraError
  <2>2. CASE RaiseGlobal(Affected(hist, f), f)
    BY <2>2 DEF RaiseGlobal, Affected
  <2>3. CASE RaiseSuspect(e, f) \/ RaisePersistent(e, f)
    <3>1. Attach({e}, "suspect", f) \/ Attach({e}, "persistent", f)
      BY <2>3 DEF RaiseSuspect, RaisePersistent
    <3>2. {e} \in SUBSET Containers
      OBVIOUS
    <3> QED
      BY <3>1, <3>2, Zenon DEF LocalKinds
  <2> QED
    BY <2>1, <2>2, <2>3
<1>4. CASE RecordResult(e)
  BY <1>1, <1>4 DEF RecordResult
<1>5. CASE \E f \in Fingerprints : RecordError(e, f) \/ RecordRetryStarted(e, f)
  <2>1. PICK f \in Fingerprints : RecordError(e, f) \/ RecordRetryStarted(e, f)
    BY <1>5
  <2>2. InfraError(e, f, f \in Catastrophic) \/ InfraError(e, f, FALSE)
    BY <2>1, Zenon DEF RecordError, RecordRetryStarted
  <2>3. RaiseNothing \/ \E S \in SUBSET Containers, kind \in LocalKinds \cup {"global"} :
                          Attach(S, kind, f)
    BY <1>3, <2>2, Zenon
  <2> QED
    BY <1>1, <1>2, <2>3
<1> QED
  BY <1>4, <1>5 DEF Record

-----------------------------------------------------------------------------
(* The prober.                                                             *)

Working == pc \in {"restart", "dispose", "probe", "clear"}

\* A job was taken from an alert that was up: when the alert of its container
\* still has its id, it is that alert.
Taken(j) ==
    /\ j \in Jobs /\ j.id > 0 /\ j.id <= nextAlertSeq
    /\ alert[j.c].id = j.id => alert[j.c].kind = j.kind

SnapshotFits == (\A j \in todo : Taken(j)) /\ (Working => Taken(current))

AlertsNumbered == \A c \in Containers : alert[c].kind # "none" => alert[c].id > 0

\* What is known of the container worked on: the recovery state is of the
\* episode of the job, and by the time it is about to be cleared, the probes
\* were passed, and no work has started there while the alert was up.
OnTheCase ==
    Working =>
        /\ st[current.c].id = current.id /\ ~st[current.c].disabled
        /\ recoveries[current.c] < MaxRecoveries
        /\ pc \in {"probe", "clear"} =>
             (current.kind = "suspect" => st[current.c].restarted)
        /\ pc = "clear" =>
             /\ st[current.c].streak >= SuccessesRequired
             /\ alert[current.c].id = current.id => current.c \notin busy

\* TypeOK without the monitor's variables.
OwnTypeOK ==
    /\ pc \in {"idle", "tick", "restart", "dispose", "probe", "clear"}
    /\ current \in Jobs \cup {Idle}
    /\ todo \in SUBSET Jobs
    /\ st \in [Containers -> States]
    /\ recoveries \in [Containers -> 0..MaxRecoveries]
    /\ stopped \in {"no", "asked", "returned"}
    /\ busy \in SUBSET Containers
    /\ mended \in SUBSET Containers

ProberInv ==
    MonitorInv /\ OwnTypeOK /\ AlertsNumbered /\ SnapshotFits /\ OnTheCase

\* What the monitor does between two steps of the prober.
MonitorMoves ==
    \/ UNCHANGED monitorVars
    \/ \E c \in Containers : Record(c)
    \/ \E c \in Containers : Cleared(c, alert[c].id)

\* Alerts go, stay, or are replaced under a new id, so that a job taken
\* before stays true to its alert.
LEMMA MonitorMovesOK ==
    ASSUME ProberInv, MonitorMoves
    PROVE  /\ MonitorInv' /\ AlertsNumbered'
           /\ \A j : Taken(j) => Taken(j)'
           /\ \A j : Taken(j) /\ alert'[j.c].id = j.id => alert[j.c].id = j.id
<1>0. /\ MonitorInv /\ AlertsNumbered /\ nextAlertSeq \in Nat
      /\ alert \in [Containers -> Alerts \cup {NoAlert}]
  BY DEF ProberInv, MonitorInv, MonitorTypeOK
<1>1. MonitorInv'
  <2>1. CASE UNCHANGED monitorVars
    BY <1>0, <2>1
       DEF monitorVars, keyVars, MonitorInv, MonitorTypeOK, IdsDrawn, KeysMatchAlerts
  <2>2. CASE \E c \in Containers : Record(c)
    BY <1>0, <2>2, RecordOK
  <2>3. CASE \E c \in Containers : Cleared(c, alert[c].id)
    BY <1>0, <2>3, ClearedOK
  <2> QED
    BY <2>1, <2>2, <2>3 DEF MonitorMoves
<1>2. /\ nextAlertSeq' \in Nat /\ nextAlertSeq <= nextAlertSeq'
      /\ \A c \in Containers :
           \/ alert'[c] = alert[c]
           \/ alert'[c] = NoAlert
           \/ alert'[c].kind # "none" /\ alert'[c].id = nextAlertSeq + 1
  <2>1. CASE UNCHANGED monitorVars
    BY <1>0, <2>1 DEF monitorVars
  <2>2. CASE \E c \in Containers : Record(c)
    BY <1>0, <2>2, RecordAlerts
  <2>3. CASE \E c \in Containers : Cleared(c, alert[c].id)
    BY <1>0, <2>3 DEF Cleared
  <2> QED
    BY <2>1, <2>2, <2>3 DEF MonitorMoves
<1>3. AlertsNumbered'
  <2> SUFFICES ASSUME NEW c \in Containers, alert'[c].kind # "none"
               PROVE  alert'[c].id > 0
    BY DEF AlertsNumbered
  <2> QED
    BY <1>0, <1>2 DEF AlertsNumbered, NoAlert
<1>4. ASSUME NEW j, Taken(j)
      PROVE  /\ Taken(j)'
             /\ alert'[j.c].id = j.id => alert[j.c].id = j.id
  <2>1. /\ j \in Jobs /\ j.c \in Containers /\ j.id \in Nat /\ j.id > 0
        /\ j.id <= nextAlertSeq
        /\ alert[j.c].id = j.id => alert[j.c].kind = j.kind
    BY <1>4 DEF Taken, Jobs
  <2>2. CASE alert'[j.c] = alert[j.c]
    BY <1>0, <1>2, <2>1, <2>2 DEF Taken
  <2>3. CASE alert'[j.c] = NoAlert \/ alert'[j.c].id = nextAlertSeq + 1
    <3>1. alert'[j.c].id # j.id
      BY <1>0, <2>1, <2>3 DEF NoAlert
    <3> QED
      BY <1>0, <1>2, <2>1, <3>1 DEF Taken
  <2> QED
    BY <1>2, <2>1, <2>2, <2>3
<1> QED
  BY <1>1, <1>3, <1>4

\* The container worked on has a recovery state and an alert.
LEMMA WorkedOn ==
    ASSUME ProberInv, Working
    PROVE  /\ current \in Jobs /\ current.c \in Containers /\ current.id \in Nat
           /\ st[current.c] \in States /\ st \in [Containers -> States]
           /\ recoveries[current.c] \in Nat /\ recoveries[current.c] < MaxRecoveries
           /\ recoveries \in [Containers -> 0..MaxRecoveries] /\ MaxRecoveries \in Nat
BY ProberAssumption DEF ProberInv, OwnTypeOK, SnapshotFits, OnTheCase, Taken, Jobs

\* The monitor's variables change by its own operations only.
LEMMA StepMoves ==
    ASSUME ProberInv, [Next]_vars
    PROVE  MonitorMoves
<1>1. CASE ProberStep /\ ~Clear
  BY <1>1 DEF ProberStep, TickBegins, TickEnds, Process, Bail, RestartAnswers,
              RestartDisposed, ProbeFails, ProbeHealthy, MonitorMoves
<1>2. CASE Clear
  <2>1. CASE Cleared(current.c, current.id)
    <3>1. current.c \in Containers
      BY <1>2, WorkedOn DEF Clear, Working
    <3>2. current.id = alert[current.c].id
      BY <2>1 DEF Cleared
    <3> QED
      BY <2>1, <3>1, <3>2 DEF MonitorMoves
  <2>2. CASE UNCHANGED monitorVars
    BY <2>2 DEF MonitorMoves
  <2> QED
    BY <1>2, <2>1, <2>2 DEF Clear
<1>3. CASE StopAsked \/ StopReturns
  BY <1>3 DEF StopAsked, StopReturns, MonitorMoves
<1>4. CASE \E c \in Containers : WorkAnswers(c)
  BY <1>4 DEF WorkAnswers, MonitorMoves
<1>5. CASE \E c \in Containers : WorkStarts(c) \/ WorkEnds(c) \/ Mend(c) \/ BackoffOver(c)
  BY <1>5 DEF WorkStarts, WorkEnds, Mend, BackoffOver, MonitorMoves
<1>6. CASE UNCHANGED vars
  BY <1>6 DEF vars, MonitorMoves
<1> QED
  BY <1>1, <1>2, <1>3, <1>4, <1>5, <1>6 DEF Next, ProberStep

\* A step after which the prober works on no container.
LEMMA SettlesOK ==
    ASSUME ProberInv, MonitorMoves, OwnTypeOK', todo' \subseteq todo, ~Working'
    PROVE  ProberInv'
<1>1. /\ MonitorInv' /\ AlertsNumbered'
      /\ \A j : Taken(j) => Taken(j)'
  BY MonitorMovesOK
<1>2. SnapshotFits'
  <2>1. \A j \in todo' : Taken(j)
    BY DEF ProberInv, SnapshotFits
  <2>2. \A j \in todo' : Taken(j)'
    BY <1>1, <2>1
  <2> QED
    BY <2>2 DEF SnapshotFits
<1> QED
  BY <1>1, <1>2 DEF ProberInv, OnTheCase

\* Done: the prober returns to its tick, with a new recovery state for the
\* container it worked on.
LEMMA DoneOK ==
    ASSUME ProberInv, MonitorMoves, Working, NEW s \in States, Done(s),
           UNCHANGED <<todo, stopped, busy, mended>>,
           recoveries' \in [Containers -> 0..MaxRecoveries]
    PROVE  ProberInv'
<1>1. current.c \in Containers /\ st \in [Containers -> States]
  BY WorkedOn
<1>2. st' \in [Containers -> States] /\ pc' = "tick" /\ current' = Idle
  BY <1>1 DEF Done
<1>3. OwnTypeOK'
  BY <1>2 DEF ProberInv, OwnTypeOK
<1> QED
  BY <1>2, <1>3, SettlesOK DEF Working

\* The bench: the prober stays where it is, delays end, and work starts only
\* where no alert is up.
LEMMA BenchKeeps ==
    ASSUME ProberInv,
           \/ StopAsked \/ StopReturns \/ UNCHANGED vars
           \/ \E c \in Containers :
                WorkStarts(c) \/ WorkAnswers(c) \/ WorkEnds(c) \/ Mend(c) \/ BackoffOver(c)
    PROVE  ProberInv'
<1>1. MonitorMoves
  <2>1. [Next]_vars
    BY DEF Next
  <2> QED
    BY <2>1, StepMoves
<1>2. /\ MonitorInv' /\ AlertsNumbered'
      /\ \A j : Taken(j) => Taken(j)'
      /\ \A j : Taken(j) /\ alert'[j.c].id = j.id => alert[j.c].id = j.id
  BY <1>1, MonitorMovesOK
<1>3. UNCHANGED <<pc, current, todo, recoveries>>
  BY DEF StopAsked, StopReturns, WorkStarts, WorkAnswers, WorkEnds, Mend, BackoffOver,
         vars, proberVars
<1>4. st' = st \/ \E c \in Containers : st' = [st EXCEPT ![c].waiting = FALSE]
  BY DEF StopAsked, StopReturns, WorkStarts, WorkAnswers, WorkEnds, Mend, BackoffOver,
         vars, proberVars
<1>5. \/ busy' \in SUBSET busy
      \/ \E c \in Containers : alert[c].kind = "none" /\ busy' = busy \cup {c}
  BY DEF StopAsked, StopReturns, WorkStarts, WorkAnswers, WorkEnds, Mend, BackoffOver,
         vars, proberVars
<1>6. /\ st' \in [Containers -> States]
      /\ \A d \in Containers :
           /\ st'[d].id = st[d].id /\ st'[d].streak = st[d].streak
           /\ st'[d].disabled = st[d].disabled /\ st'[d].restarted = st[d].restarted
  <2>1. st \in [Containers -> States]
    BY DEF ProberInv, OwnTypeOK
  <2>2. CASE st' = st
    BY <2>1, <2>2
  <2>3. ASSUME NEW c \in Containers, st' = [st EXCEPT ![c].waiting = FALSE]
        PROVE  <1>6!1 /\ <1>6!2
    BY <2>1, <2>3 DEF States
  <2> QED
    BY <1>4, <2>2, <2>3
<1>7. OwnTypeOK'
  <2>1. stopped' \in {"no", "asked", "returned"} /\ mended' \in SUBSET Containers
    <3>1. stopped \in {"no", "asked", "returned"} /\ mended \in SUBSET Containers
      BY DEF ProberInv, OwnTypeOK
    <3> QED
      BY <3>1 DEF StopAsked, StopReturns, WorkStarts, WorkAnswers, WorkEnds, Mend,
                  BackoffOver, vars, proberVars
  <2>2. busy' \in SUBSET Containers
    BY <1>5 DEF ProberInv, OwnTypeOK
  <2> QED
    BY <1>3, <1>6, <2>1, <2>2 DEF ProberInv, OwnTypeOK
<1>8. SnapshotFits'
  <2>1. \A j \in todo : Taken(j)'
    BY <1>2 DEF ProberInv, SnapshotFits
  <2>2. Working => Taken(current)'
    BY <1>2, <1>3 DEF ProberInv, SnapshotFits, Taken
  <2> QED
    BY <1>3, <2>1, <2>2 DEF SnapshotFits, Working, Taken
<1>9. OnTheCase'
  <2> SUFFICES ASSUME Working
               PROVE  OnTheCase'
    BY <1>3 DEF OnTheCase, Working
  <2>1. /\ st[current.c].id = current.id /\ ~st[current.c].disabled
        /\ recoveries[current.c] < MaxRecoveries
        /\ pc \in {"probe", "clear"} =>
             (current.kind = "suspect" => st[current.c].restarted)
        /\ pc = "clear" =>
             /\ st[current.c].streak >= SuccessesRequired
             /\ alert[current.c].id = current.id => current.c \notin busy
    BY DEF ProberInv, OnTheCase
  <2>2. /\ current.c \in Containers /\ current.id > 0 /\ Taken(current)
    BY WorkedOn DEF ProberInv, SnapshotFits, Taken
  <2>3. alert'[current.c].id = current.id => alert[current.c].id = current.id
    BY <1>2, <2>2
  <2>4. \A c \in Containers : alert[c].kind = "none" => alert[c].id = 0
    <3>1. \A c \in Containers : alert[c] \in Alerts \cup {NoAlert}
      BY DEF ProberInv, MonitorInv, MonitorTypeOK
    <3>2. \A a \in Alerts \cup {NoAlert} : a.kind = "none" => a.id = 0
      BY DEF Alerts, NoAlert, LocalKinds
    <3> QED
      BY <3>1, <3>2
  <2>5. pc = "clear" /\ alert'[current.c].id = current.id => current.c \notin busy'
    <3> SUFFICES ASSUME pc = "clear", alert'[current.c].id = current.id
                 PROVE  current.c \notin busy'
      OBVIOUS
    <3>1. alert[current.c].id = current.id /\ current.c \notin busy
      BY <2>1, <2>3
    <3>2. alert[current.c].kind # "none"
      BY <2>2, <2>4, <3>1
    <3> QED
      BY <1>5, <2>2, <3>1, <3>2
  <2> QED
    BY <1>3, <1>6, <2>1, <2>2, <2>5 DEF OnTheCase
<1> QED
  BY <1>2, <1>7, <1>8, <1>9 DEF ProberInv

\* The tick takes its snapshot, and drops the recovery states of containers
\* without an alert; it works on none yet.
LEMMA TickKeeps ==
    ASSUME ProberInv, TickBegins \/ TickEnds
    PROVE  ProberInv'
<1>1. /\ UNCHANGED monitorVars /\ ~Working'
      /\ pc' \in {"tick", "idle"} /\ UNCHANGED <<current, recoveries, stopped, busy, mended>>
  BY DEF TickBegins, TickEnds, Working
<1>2. CASE TickEnds
  <2>1. OwnTypeOK' /\ todo' \subseteq todo
    BY <1>2 DEF TickEnds, ProberInv, OwnTypeOK
  <2> QED
    BY <1>1, <2>1, SettlesOK DEF MonitorMoves
<1>3. CASE TickBegins
  <2>1. \A j \in todo' : \E c \in Containers :
            /\ alert[c].kind \in LocalKinds
            /\ j = [c |-> c, id |-> alert[c].id, kind |-> alert[c].kind]
    BY <1>3 DEF TickBegins
  <2>2. /\ alert \in [Containers -> Alerts \cup {NoAlert}]
        /\ \A c \in Containers : alert[c].id <= nextAlertSeq
        /\ \A c \in Containers : alert[c].kind # "none" => alert[c].id > 0
    BY DEF ProberInv, MonitorInv, MonitorTypeOK, IdsDrawn, AlertsNumbered
  <2>3. \A j \in todo' : Taken(j)
    <3> SUFFICES ASSUME NEW j \in todo'
                 PROVE  Taken(j)
      OBVIOUS
    <3>1. PICK c \in Containers : /\ alert[c].kind \in LocalKinds
                                  /\ j = [c |-> c, id |-> alert[c].id, kind |-> alert[c].kind]
      BY <2>1
    <3>2. alert[c].id \in Nat
      BY <2>2 DEF Alerts, NoAlert
    <3>3. j \in Jobs /\ j.c = c /\ j.id = alert[c].id /\ j.kind = alert[c].kind
      BY <3>1, <3>2 DEF Jobs
    <3> QED
      BY <2>2, <3>1, <3>3 DEF Taken, LocalKinds
  <2>4. todo' \in SUBSET Jobs
    BY <2>3 DEF Taken
  <2>5. st' \in [Containers -> States]
    <3>1. NoState \in States /\ st \in [Containers -> States]
      BY DEF NoState, States, ProberInv, OwnTypeOK
    <3> QED
      BY <1>3, <3>1 DEF TickBegins
  <2>6. OwnTypeOK'
    BY <1>1, <2>4, <2>5 DEF ProberInv, OwnTypeOK
  <2>7. MonitorInv' /\ AlertsNumbered' /\ \A j : Taken(j) => Taken(j)'
    BY <1>1, MonitorMovesOK DEF MonitorMoves
  <2>8. SnapshotFits'
    <3>1. \A j \in todo' : Taken(j)'
      BY <2>3, <2>7
    <3> QED
      BY <1>1, <3>1 DEF SnapshotFits
  <2> QED
    BY <1>1, <2>6, <2>7, <2>8 DEF ProberInv, OnTheCase
<1> QED
  BY <1>2, <1>3

\* One job of the snapshot: left, given up, or begun by a restart or a probe.
LEMMA ProcessKeeps ==
    ASSUME ProberInv, Process
    PROVE  ProberInv'
<1>1. PICK j \in todo :
        LET s == Refreshed(j) IN
          /\ pc = "tick" /\ todo' = todo \ {j}
          /\ \/ (st' = [st EXCEPT ![j.c] = s] \/ st' = [st EXCEPT ![j.c] = [s EXCEPT !.disabled = TRUE]])
                /\ UNCHANGED <<pc, current>>
             \/ /\ ~s.disabled /\ ~Capped(j.c)
                /\ st' = [st EXCEPT ![j.c] = [s EXCEPT !.tries = @ + 1]]
                /\ pc' = "restart" /\ current' = j
             \/ /\ ~s.disabled /\ ~Capped(j.c) /\ ~NeedsRestart(j, s)
                /\ st' = [st EXCEPT ![j.c] = s]
                /\ pc' = "probe" /\ current' = j
  BY Zenon DEF Process
<1> DEFINE s == Refreshed(j)
<1>2. UNCHANGED monitorVars /\ UNCHANGED <<recoveries, stopped, busy, mended>>
  BY DEF Process
<1>3. /\ Taken(j) /\ j \in Jobs /\ j.c \in Containers
      /\ st \in [Containers -> States] /\ recoveries \in [Containers -> 0..MaxRecoveries]
  BY DEF ProberInv, OwnTypeOK, SnapshotFits, Taken, Jobs
<1>4. s \in States /\ s.id = j.id
  BY <1>3 DEF Refreshed, NoState, States, Jobs
<1>5. MonitorMoves
  BY <1>2 DEF MonitorMoves
<1>6. CASE (st' = [st EXCEPT ![j.c] = s] \/ st' = [st EXCEPT ![j.c] = [s EXCEPT !.disabled = TRUE]])
           /\ UNCHANGED <<pc, current>>
  <2>1. [s EXCEPT !.disabled = TRUE] \in States
    BY <1>4 DEF States
  <2> HIDE DEF s
  <2>2. st' \in [Containers -> States]
    BY <1>3, <1>4, <1>6, <2>1
  <2>3. OwnTypeOK' /\ todo' \subseteq todo /\ ~Working'
    BY <1>1, <1>2, <1>6, <2>2 DEF ProberInv, OwnTypeOK, Working
  <2> QED
    BY <1>5, <2>3, SettlesOK
<1>7. CASE /\ ~s.disabled /\ ~Capped(j.c)
           /\ \/ /\ st' = [st EXCEPT ![j.c] = [s EXCEPT !.tries = @ + 1]]
                 /\ pc' = "restart"
              \/ /\ ~NeedsRestart(j, s)
                 /\ st' = [st EXCEPT ![j.c] = s]
                 /\ pc' = "probe"
           /\ current' = j
  <2>1. [s EXCEPT !.tries = @ + 1] \in States /\ [s EXCEPT !.tries = @ + 1].id = j.id
        /\ [s EXCEPT !.tries = @ + 1].disabled = s.disabled
    BY <1>4 DEF States
  <2>2. recoveries[j.c] < MaxRecoveries
    BY <1>3, <1>7, ProberAssumption DEF Capped
  <2>3. pc' = "probe" => (j.kind = "suspect" => s.restarted)
    BY <1>7 DEF NeedsRestart
  <2> HIDE DEF s
  <2>4. /\ st' \in [Containers -> States] /\ st'[j.c].id = j.id /\ ~st'[j.c].disabled
        /\ pc' = "probe" => st'[j.c] = s
    BY <1>3, <1>4, <1>7, <2>1
  <2>5. OwnTypeOK'
    BY <1>1, <1>2, <1>3, <1>7, <2>4 DEF ProberInv, OwnTypeOK
  <2>6. MonitorInv' /\ AlertsNumbered' /\ \A i : Taken(i) => Taken(i)'
    BY <1>5, MonitorMovesOK
  <2>7. SnapshotFits'
    <3>1. \A i \in todo' : Taken(i)'
      BY <1>1, <2>6 DEF ProberInv, SnapshotFits
    <3>2. Taken(j)'
      BY <1>3, <2>6
    <3> QED
      BY <1>7, <3>1, <3>2 DEF SnapshotFits, Taken
  <2>8. OnTheCase'
    BY <1>2, <1>7, <2>2, <2>3, <2>4 DEF OnTheCase
  <2> QED
    BY <2>5, <2>6, <2>7, <2>8 DEF ProberInv
<1> QED
  BY <1>1, <1>6, <1>7

\* A job goes on to its next await: a disposal after a restart, or, enough
\* probes passed and no work left, the disposal before the clear.
LEMMA GoesOnOK ==
    ASSUME ProberInv, Working, UNCHANGED <<monitorVars, current, todo, recoveries, stopped, busy, mended>>,
           NEW s \in States, st' = [st EXCEPT ![current.c] = s],
           s.id = st[current.c].id, s.disabled = st[current.c].disabled,
           \/ pc' = "dispose"
           \/ /\ pc = "probe" /\ pc' = "clear"
              /\ s.restarted = st[current.c].restarted
              /\ s.streak >= SuccessesRequired /\ current.c \notin busy
    PROVE  ProberInv'
<1>1. /\ current \in Jobs /\ current.c \in Containers
      /\ st \in [Containers -> States]
  BY WorkedOn
<1>2. MonitorMoves
  BY DEF MonitorMoves
<1>3. MonitorInv' /\ AlertsNumbered' /\ \A j : Taken(j) => Taken(j)'
  BY <1>2, MonitorMovesOK
<1>4. st' \in [Containers -> States] /\ st'[current.c] = s
  BY <1>1
<1>5. OwnTypeOK'
  BY <1>4 DEF ProberInv, OwnTypeOK
<1>6. SnapshotFits'
  <2>1. (\A j \in todo : Taken(j)') /\ Taken(current)'
    BY <1>3 DEF ProberInv, SnapshotFits
  <2> QED
    BY <2>1 DEF SnapshotFits, Taken
<1>7. OnTheCase'
  BY <1>4 DEF ProberInv, OnTheCase
<1> QED
  BY <1>3, <1>5, <1>6, <1>7 DEF ProberInv

\* The answers of a restart, a disposal and a probe.
LEMMA AnswerKeeps ==
    ASSUME ProberInv, Bail \/ RestartAnswers \/ RestartDisposed \/ ProbeFails \/ ProbeHealthy
    PROVE  ProberInv'
<1>0. Working
  BY DEF Bail, RestartAnswers, RestartDisposed, ProbeFails, ProbeHealthy, Working
<1>1. /\ current.c \in Containers /\ st[current.c] \in States
      /\ recoveries \in [Containers -> 0..MaxRecoveries]
  BY <1>0, WorkedOn
<1>2. /\ UNCHANGED <<monitorVars, todo, recoveries, stopped, busy, mended>> /\ MonitorMoves
  BY DEF Bail, RestartAnswers, RestartDisposed, ProbeFails, ProbeHealthy, MonitorMoves
<1> DEFINE up == [st[current.c] EXCEPT !.streak = @ + 1]
           restarted == [st[current.c] EXCEPT !.restarted = TRUE, !.streak = 0]
<1>3. /\ NoStreak \in States /\ [NoStreak EXCEPT !.waiting = TRUE] \in States
      /\ [st[current.c] EXCEPT !.waiting = TRUE] \in States
      /\ up \in States /\ restarted \in States
  <2>1. NoStreak \in States
    BY <1>1 DEF NoStreak, States
  <2>2. [NoStreak EXCEPT !.waiting = TRUE] \in States
    BY <2>1 DEF States
  <2>3. [st[current.c] EXCEPT !.waiting = TRUE] \in States
    BY <1>1 DEF States
  <2>4. up \in States
    BY <1>1 DEF States
  <2>5. restarted \in States
    BY <1>1 DEF States
  <2> QED
    BY <2>1, <2>2, <2>3, <2>4, <2>5
<1>4. CASE \E s \in States : Done(s)
  BY <1>0, <1>1, <1>2, <1>4, DoneOK
<1>5. CASE ~\E s \in States : Done(s)
  <2>1. CASE RestartAnswers
    <3>1. /\ pc' = "dispose" /\ UNCHANGED current
          /\ st' = [st EXCEPT ![current.c].restarted = TRUE, ![current.c].streak = 0]
      BY <1>3, <1>5, <2>1 DEF RestartAnswers
    <3>2. st' = [st EXCEPT ![current.c] = restarted]
      BY <1>0, <3>1, WorkedOn
    <3>3. restarted.id = st[current.c].id /\ restarted.disabled = st[current.c].disabled
      BY <1>1 DEF States
    <3> HIDE DEF restarted
    <3> QED
      BY <1>0, <1>2, <1>3, <3>1, <3>2, <3>3, GoesOnOK
  <2>2. CASE ProbeHealthy
    <3>1. /\ pc = "probe" /\ pc' = "clear" /\ UNCHANGED current
          /\ up.streak >= SuccessesRequired /\ current.c \notin busy
          /\ st' = [st EXCEPT ![current.c] = up]
      BY <1>3, <1>5, <2>2, Zenon DEF ProbeHealthy
    <3>2. /\ up.id = st[current.c].id /\ up.disabled = st[current.c].disabled
          /\ up.restarted = st[current.c].restarted
      BY <1>1 DEF States
    <3> HIDE DEF up
    <3> QED
      BY <1>0, <1>2, <1>3, <3>1, <3>2, GoesOnOK
  <2>3. CASE Bail \/ RestartDisposed \/ ProbeFails
    BY <1>1, <1>3, <1>5, <2>3 DEF Bail, RestartDisposed, ProbeFails
  <2> QED
    BY <2>1, <2>2, <2>3
<1> QED
  BY <1>4, <1>5

LEMMA ClearKeeps ==
    ASSUME ProberInv, Clear
    PROVE  ProberInv'
<1>0. Working
  BY DEF Clear, Working
<1>1. /\ current.c \in Containers /\ st[current.c] \in States
      /\ recoveries[current.c] \in Nat /\ recoveries[current.c] < MaxRecoveries
      /\ recoveries \in [Containers -> 0..MaxRecoveries] /\ MaxRecoveries \in Nat
  BY <1>0, WorkedOn
<1>2. MonitorMoves
  <2>1. [Next]_vars
    BY DEF Next, ProberStep
  <2> QED
    BY <2>1, StepMoves
<1>3. NoStreak \in States /\ [NoStreak EXCEPT !.restarted = FALSE] \in States
  BY <1>1 DEF NoStreak, States
<1>4. recoveries' \in [Containers -> 0..MaxRecoveries]
  BY <1>1 DEF Clear
<1>5. \E s \in States : Done(s)
  BY <1>3 DEF Clear
<1>6. UNCHANGED <<todo, stopped, busy, mended>>
  BY DEF Clear
<1> QED
  BY <1>0, <1>2, <1>4, <1>5, <1>6, DoneOK

\* The prober's invariant holds whatever the monitor and the pool do while it
\* waits.
THEOREM ProberInvariant == Spec => []ProberInv
<1>1. Init => ProberInv
  <2> SUFFICES ASSUME Init
               PROVE  ProberInv
    OBVIOUS
  <2>1. MonitorInv
    BY MonitorStarts DEF Init
  <2>2. OwnTypeOK
    BY ProberAssumption DEF Init, OwnTypeOK, NoState, States
  <2>3. AlertsNumbered /\ SnapshotFits /\ OnTheCase
    BY DEF Init, MonitorInit, NoAlert, AlertsNumbered, SnapshotFits, OnTheCase, Working
  <2> QED
    BY <2>1, <2>2, <2>3 DEF ProberInv
<1>2. ProberInv /\ [Next]_vars => ProberInv'
  BY BenchKeeps, TickKeeps, ProcessKeeps, AnswerKeeps, ClearKeeps DEF Next, ProberStep
<1> QED
  BY <1>1, <1>2, PTL DEF Spec

\* Types, of the monitor and of the prober.
LEMMA ProberTypes ==
    ASSUME ProberInv
    PROVE  TypeOK
BY DEF ProberInv, MonitorInv, OwnTypeOK, TypeOK

-----------------------------------------------------------------------------
(* What the prober keeps of the monitor.                                   *)

\* The prober and its bench drive the monitor as MonitorSpec says, whatever
\* they interleave: what is proved of the monitor alone holds here.
THEOREM DrivesMonitor == Spec => MonitorSpec
<1>1. Init => MonitorInit
  BY DEF Init
<1>2. ProberInv /\ [Next]_vars => [MonitorNext]_monitorVars
  BY StepMoves DEF MonitorMoves, MonitorNext
<1> QED
  BY <1>1, <1>2, ProberInvariant, PTL DEF Spec, MonitorSpec

\* A dedupe key mutes a fingerprint on a container only while its alert is up,
\* with the prober clearing alerts it found up before an await (P6).
THEOREM KeysMatchUnderProber == Spec => []KeysMatchAlerts
BY DrivesMonitor, KeysAlwaysMatch

\* A window at the threshold leaves no container without an alert.
THEOREM NeverMutedUnderProber == Spec => NeverMuted
BY DrivesMonitor, NeverMutedHolds

\* A global outage takes every container that shows it out at once (P4b).
THEOREM OutageCoversUnderProber == Spec => OutageCoversAffected
BY DrivesMonitor, OutageCovers

-----------------------------------------------------------------------------
(* What the prober promises.                                               *)

\* An alert goes away in Clear only, and it is the one worked on.
LEMMA OnlyClear ==
    ASSUME ProberInv, [Next]_vars, NEW c \in Containers, ClearedNow(c)
    PROVE  /\ Clear /\ Cleared(current.c, current.id) /\ current.c = c
           /\ recoveries' = [recoveries EXCEPT ![c] = @ + 1]
<1>0. alert[c].kind # "none" /\ alert'[c].kind = "none" /\ alert' # alert
  BY DEF ClearedNow
<1>1. ~\E e \in Containers : Record(e)
  BY <1>0, RecordAlerts DEF ProberInv
<1>2. ~UNCHANGED monitorVars
  BY <1>0 DEF monitorVars
<1>3. Clear
  <2>1. CASE ProberStep /\ ~Clear
    BY <1>2, <2>1 DEF ProberStep, TickBegins, TickEnds, Process, Bail, RestartAnswers,
                      RestartDisposed, ProbeFails, ProbeHealthy
  <2>2. CASE StopAsked \/ StopReturns \/ UNCHANGED vars
    BY <1>2, <2>2 DEF StopAsked, StopReturns, vars
  <2>3. CASE \E e \in Containers :
               WorkStarts(e) \/ WorkAnswers(e) \/ WorkEnds(e) \/ Mend(e) \/ BackoffOver(e)
    BY <1>1, <1>2, <2>3 DEF WorkStarts, WorkAnswers, WorkEnds, Mend, BackoffOver
  <2> QED
    BY <2>1, <2>2, <2>3 DEF Next
<1>4. /\ Cleared(current.c, current.id)
      /\ recoveries' = [recoveries EXCEPT ![current.c] = @ + 1]
  BY <1>2, <1>3 DEF Clear
<1>5. current.c = c
  BY <1>0, <1>4 DEF Cleared, ProberInv, MonitorInv, MonitorTypeOK
<1> QED
  BY <1>3, <1>4, <1>5

\* What a cleared alert had going for it: its own probes in a row, the
\* restart of a suspect, no work on its container, and a recovery to spare.
THEOREM ClearedWasProven == Spec => ClearedIsProven
<1> DEFINE Proven ==
      \A c \in Containers : ClearedNow(c) =>
            /\ recoveries[c] < MaxRecoveries /\ recoveries'[c] = recoveries[c] + 1
            /\ st[c].id = alert[c].id /\ st[c].streak >= SuccessesRequired
            /\ ~st[c].disabled
            /\ alert[c].kind = "suspect" => st[c].restarted
            /\ c \notin busy
<1>1. ProberInv => TypeOK
  BY ProberTypes
<1>2. ProberInv /\ [Next]_vars => Proven
  <2> SUFFICES ASSUME ProberInv, [Next]_vars, NEW c \in Containers, ClearedNow(c)
               PROVE  /\ recoveries[c] < MaxRecoveries /\ recoveries'[c] = recoveries[c] + 1
                      /\ st[c].id = alert[c].id /\ st[c].streak >= SuccessesRequired
                      /\ ~st[c].disabled
                      /\ alert[c].kind = "suspect" => st[c].restarted
                      /\ c \notin busy
    OBVIOUS
  <2>1. /\ Clear /\ Cleared(current.c, current.id) /\ current.c = c
        /\ recoveries' = [recoveries EXCEPT ![c] = @ + 1]
    BY OnlyClear
  <2>2. pc = "clear" /\ Working /\ alert[c].id = current.id
    BY <2>1 DEF Clear, Working, Cleared
  <2>3. alert[c].kind = current.kind
    BY <2>1, <2>2 DEF ProberInv, SnapshotFits, Taken
  <2>4. recoveries'[c] = recoveries[c] + 1
    BY <2>1 DEF ProberInv, OwnTypeOK
  <2> QED
    BY <2>1, <2>2, <2>3, <2>4 DEF ProberInv, OnTheCase
<1>3. ProberInv /\ [Next]_vars => [Proven]_vars
  BY <1>2
<1> QED
  BY <1>1, <1>3, ProberInvariant, PTL DEF Spec, ClearedIsProven

\* Once stop() was called the prober begins nothing; only a disposal that was
\* under way may still end with its clear (R2).
THEOREM NothingBegins == Spec => NothingBegunAfterStop
<1> DEFINE Quiet ==
      stopped # "no" =>
         /\ pc' # pc => pc' \in {"tick", "idle"}
         /\ \A c \in Containers : ClearedNow(c) => pc = "clear" /\ current.c = c
<1>1. ProberInv /\ [Next]_vars => Quiet
  <2> SUFFICES ASSUME ProberInv, [Next]_vars, stopped # "no"
               PROVE  /\ pc' # pc => pc' \in {"tick", "idle"}
                      /\ \A c \in Containers : ClearedNow(c) => pc = "clear" /\ current.c = c
    OBVIOUS
  <2>1. pc' # pc => pc' \in {"tick", "idle"}
    <3>1. CASE ProberStep
      BY <3>1 DEF ProberStep, TickBegins, TickEnds, Process, Bail, RestartAnswers,
                  RestartDisposed, ProbeFails, ProbeHealthy, Clear, Done, GoesOn
    <3>2. CASE ~ProberStep
      BY <3>2 DEF Next, StopAsked, StopReturns, WorkStarts, WorkAnswers, WorkEnds, Mend,
                  BackoffOver, vars, proberVars
    <3> QED
      BY <3>1, <3>2
  <2>2. \A c \in Containers : ClearedNow(c) => pc = "clear" /\ current.c = c
    BY OnlyClear DEF Clear
  <2> QED
    BY <2>1, <2>2
<1>2. ProberInv /\ [Next]_vars => [Quiet]_vars
  BY <1>1
<1> QED
  BY <1>2, ProberInvariant, PTL DEF Spec, NothingBegunAfterStop
=============================================================================
