---------------------------- MODULE IngestProofs ----------------------------
(***************************************************************************)
(* Theorems about Ingest: for any processes, runs, blobs and bounds a      *)
(* completed run stays one, and what is reported a success is completed    *)
(* and whole.                                                              *)
(***************************************************************************)
EXTENDS Ingest, TLAPS

\* A process that is about to ask may: it has a try left, and an idle one has
\* made none.
TriesLeft ==
    \A c \in Clients :
        /\ pc[c] = "idle" => tries[c] = 0
        /\ pc[c] \in Posts /\ Asked(c) = {} => tries[c] < MaxTries

\* A finalize past its check has seen all blobs of its run; what went since was
\* deleted behind the check.
Vouching ==
    \A h \in handlers : h.kind = "finalize" /\ h.at = "write" =>
        \A b \in Refs[h.run] : b \in blobs \/ <<h.run, b>> \in vanished

\* The task set that is current is never the one being deleted.
KeepsCurrent == deletion.at # "none" => deletion.set # Current

IngestInv == TypeOK /\ TriesLeft /\ KeepsCurrent /\ Vouching /\ SuccessIsCompleted /\ CompletedHasBlobs

-----------------------------------------------------------------------------

LEMMA HandlerFields ==
    ASSUME NEW h \in Handlers
    PROVE  /\ h.kind \in Posts /\ h.run \in Runs /\ h.by \in Clients \cup {Nobody}
           /\ h.at \in {"check", "write"}
  BY DEF Handlers

LEMMA HandlerMade ==
    ASSUME NEW k \in Posts, NEW r \in Runs, NEW c \in Clients, NEW h,
           h = [kind |-> k, run |-> r, by |-> c, at |-> "check"]
    PROVE  h \in Handlers /\ h.kind = k /\ h.run = r /\ h.by = c /\ h.at = "check"
  BY DEF Handlers

LEMMA HandlerLeft ==
    ASSUME NEW h \in Handlers, NEW g, g = [h EXCEPT !.by = Nobody]
    PROVE  g \in Handlers /\ g.kind = h.kind /\ g.run = h.run /\ g.by = Nobody /\ g.at = h.at
  BY DEF Handlers

LEMMA HandlerProceeds ==
    ASSUME NEW h \in Handlers, NEW g, g = [h EXCEPT !.at = "write"]
    PROVE  g \in Handlers /\ g.kind = h.kind /\ g.run = h.run /\ g.by = h.by /\ g.at = "write"
  BY DEF Handlers

\* What concerns the processes and the handlers at work for them.
ClientOK ==
    /\ pc \in [Clients -> Places] /\ run \in [Clients -> Runs]
    /\ tries \in [Clients -> 0..MaxTries]
    /\ handlers \subseteq Handlers
    /\ \A c \in Clients : \A g, h \in Asked(c) : g = h /\ h.kind = pc[c] /\ h.run = run[c]
    /\ TriesLeft

ServerOK ==
    /\ todo \in [Clients -> SUBSET Blobs] /\ reported \subseteq Runs
    /\ rows \in [Runs -> {"none", "running", "completed"}]
    /\ sets \subseteq TaskSets /\ Current \in sets /\ blobs \subseteq Blobs
    /\ deletion \in Deletions /\ vanished \subseteq Runs \X Blobs
    /\ deletions \in 0..MaxDeletions /\ faults \in 0..MaxFaults

LEMMA TypeParts == TypeOK /\ TriesLeft <=> ClientOK /\ ServerOK
  BY DEF TypeOK, ClientOK, ServerOK

LEMMA FaultTyped ==
    ASSUME ServerOK, faults' = faults \/ Fault
    PROVE  faults' \in 0..MaxFaults
  BY IngestAssumption DEF Fault, ServerOK

LEMMA Bounds == NoRun \in Runs /\ 0 \in 0..MaxTries /\ MaxTries \in Nat /\ 0 < MaxTries /\ Nobody \notin Clients
  BY IngestAssumption DEF NoRun

\* A process goes elsewhere and no handler is left at work for it; those of
\* others are as before.
LEMMA GoneElsewhere ==
    ASSUME ClientOK, NEW c \in Clients, NEW place \in Places, Go(c, place),
           handlers' \subseteq Handlers,
           \A d \in Clients \ {c} : Asked(d)' = Asked(d), Asked(c)' = {}
    PROVE  ClientOK'
<1>1. /\ pc' \in [Clients -> Places] /\ run' \in [Clients -> Runs]
      /\ tries' \in [Clients -> 0..MaxTries]
      /\ tries'[c] = 0
      /\ \A d \in Clients \ {c} : pc'[d] = pc[d] /\ tries'[d] = tries[d] /\ run'[d] = run[d]
  BY Bounds DEF Go, ClientOK
<1>2. TriesLeft'
  BY <1>1, Bounds DEF ClientOK, TriesLeft
<1>3. \A d \in Clients : \A g, h \in Asked(d)' : g = h /\ h.kind = pc'[d] /\ h.run = run'[d]
  BY <1>1 DEF ClientOK
<1> QED
  BY <1>1, <1>2, <1>3 DEF ClientOK

\* A process stays where it is, without a handler, and may ask again.
LEMMA LeftToRetry ==
    ASSUME ClientOK, NEW c \in Clients, UNCHANGED <<pc, tries, run>>, tries[c] < MaxTries,
           handlers' \subseteq Handlers, pc[c] # "idle" \/ tries[c] = 0,
           \A d \in Clients \ {c} : Asked(d)' = Asked(d), Asked(c)' = {}
    PROVE  ClientOK'
<1>1. TriesLeft'
  BY DEF ClientOK, TriesLeft
<1> QED
  BY <1>1 DEF ClientOK

\* No process and none of its handlers is concerned.
LEMMA ClientsAlone ==
    ASSUME ClientOK, UNCHANGED <<pc, tries, run>>, handlers' \subseteq Handlers,
           \A d \in Clients : Asked(d)' = Asked(d)
    PROVE  ClientOK'
  BY DEF ClientOK, TriesLeft

\* The handler h is gone, and with it what its process waits for.
LEMMA HandlerGone ==
    ASSUME ClientOK, NEW h \in handlers, NEW G \in SUBSET Handlers,
           handlers' = (handlers \ {h}) \cup G, \A g \in G : g.by = Nobody
    PROVE  /\ handlers' \subseteq Handlers
           /\ \A d \in Clients \ {h.by} : Asked(d)' = Asked(d)
           /\ h.by # Nobody => h.by \in Clients /\ Asked(h.by)' = {} /\ pc[h.by] = h.kind
<1>1. h.by \in Clients \cup {Nobody} /\ handlers \subseteq Handlers
  BY HandlerFields DEF ClientOK
<1>2. ASSUME h.by \in Clients PROVE Asked(h.by)' = {} /\ pc[h.by] = h.kind
  BY <1>2, Bounds DEF Asked, ClientOK
<1> QED
  BY <1>1, <1>2, Bounds DEF Asked

LEMMA AnswerKept ==
    ASSUME ClientOK, NEW h \in handlers, NEW place \in Places, Answer(h, place)
    PROVE  ClientOK'
<1>1. PICK G \in SUBSET Handlers :
          handlers' = (handlers \ {h}) \cup G /\ \A g \in G : g.by = Nobody
  <2>1. {} \in SUBSET Handlers /\ handlers' = (handlers \ {h}) \cup {} /\ \A g \in {} : g.by = Nobody
    BY DEF Answer
  <2> QED
    BY <2>1
<1>2. /\ handlers' \subseteq Handlers
      /\ \A d \in Clients \ {h.by} : Asked(d)' = Asked(d)
      /\ h.by # Nobody => h.by \in Clients /\ Asked(h.by)' = {}
  BY <1>1, HandlerGone
<1>3. CASE h.by = Nobody
  BY <1>2, <1>3, ClientsAlone, Bounds DEF Answer
<1>4. CASE h.by # Nobody
  BY <1>2, <1>4, GoneElsewhere DEF Answer
<1> QED
  BY <1>3, <1>4

LEMMA RetriedKept ==
    ASSUME ClientOK, NEW h \in handlers, NEW G \in SUBSET Handlers,
           handlers' = (handlers \ {h}) \cup G, \A g \in G : g.by = Nobody,
           h.by # Nobody, Retried(h.by)
    PROVE  ClientOK'
<1>1. /\ handlers' \subseteq Handlers
      /\ \A d \in Clients \ {h.by} : Asked(d)' = Asked(d)
      /\ h.by \in Clients /\ Asked(h.by)' = {} /\ pc[h.by] = h.kind
  BY HandlerGone
<1>2. pc[h.by] # "idle"
  BY <1>1, HandlerFields DEF ClientOK, Posts
<1>3. CASE tries[h.by] < MaxTries
  BY <1>1, <1>2, <1>3, LeftToRetry DEF Retried
<1>4. CASE ~(tries[h.by] < MaxTries)
  BY <1>1, <1>4, GoneElsewhere DEF Retried, Places
<1> QED
  BY <1>3, <1>4

\* The handler h is gone, and its process may ask again.
LEMMA HandlerDropped ==
    ASSUME ClientOK, NEW h \in handlers, handlers' = handlers \ {h},
           IF h.by = Nobody THEN UNCHANGED <<pc, tries, run>> ELSE Retried(h.by)
    PROVE  ClientOK'
<1>1. PICK G \in SUBSET Handlers :
          handlers' = (handlers \ {h}) \cup G /\ \A g \in G : g.by = Nobody
  <2>1. {} \in SUBSET Handlers /\ handlers' = (handlers \ {h}) \cup {} /\ \A g \in {} : g.by = Nobody
    OBVIOUS
  <2> QED
    BY <2>1
<1>2. CASE h.by = Nobody
  <2>1. handlers' \subseteq Handlers /\ \A d \in Clients \ {h.by} : Asked(d)' = Asked(d)
    BY <1>1, HandlerGone
  <2> QED
    BY <1>2, <2>1, ClientsAlone, Bounds
<1>3. CASE h.by # Nobody
  BY <1>1, <1>3, RetriedKept
<1> QED
  BY <1>2, <1>3

LEMMA ProceedKept ==
    ASSUME ClientOK, NEW h \in handlers, Proceed(h), UNCHANGED <<pc, tries, run>>
    PROVE  ClientOK'
<1>1. PICK g : g = [h EXCEPT !.at = "write"]
  OBVIOUS
<1>2. g \in Handlers /\ g.kind = h.kind /\ g.run = h.run /\ g.by = h.by
  BY <1>1, HandlerProceeds DEF ClientOK
<1>3. handlers' = (handlers \ {h}) \cup {g}
  BY <1>1 DEF Proceed
<1>4. handlers' \subseteq Handlers
  BY <1>2, <1>3 DEF ClientOK
<1>5. \A c \in Clients : \A e, f \in Asked(c)' : e = f /\ f.kind = pc[c] /\ f.run = run[c]
  BY <1>2, <1>3 DEF ClientOK, Asked
<1>6. \A c \in Clients : Asked(c)' = {} => Asked(c) = {}
  BY <1>2, <1>3 DEF Asked
<1>7. TriesLeft'
  BY <1>6 DEF ClientOK, TriesLeft
<1> QED
  BY <1>4, <1>5, <1>7 DEF ClientOK

-----------------------------------------------------------------------------

LEMMA ProcessKeepsTypes ==
    ASSUME ClientOK, ServerOK, NEW c \in Clients,
           (\E r \in Runs : Start(c, r)) \/ Send(c) \/ (\E b \in Blobs : Upload(c, b))
    PROVE  ClientOK' /\ ServerOK'
<1>1. ASSUME NEW r \in Runs, Start(c, r) PROVE ClientOK' /\ ServerOK'
  <2>1. Asked(c) = {}
    BY <1>1, HandlerFields DEF Start, ClientOK, Asked, Posts
  <2>2. \A d \in Clients : Asked(d)' = Asked(d)
    BY <1>1 DEF Start, Asked
  <2>3. TriesLeft'
    BY <1>1, <2>2, Bounds DEF Start, ClientOK, TriesLeft, Posts
  <2>4. ClientOK'
    BY <1>1, <2>1, <2>2, <2>3 DEF Start, ClientOK, Places, Posts
  <2>5. sets' \subseteq TaskSets /\ Current \in sets'
    BY <1>1, IngestAssumption DEF Start, EnsureTaskSet, ServerOK
  <2> QED
    BY <1>1, <2>4, <2>5 DEF Start, ServerOK, deleteVars
<1>2. CASE Send(c)
  <2>1. PICK h : h = [kind |-> pc[c], run |-> run[c], by |-> c, at |-> "check"]
    OBVIOUS
  <2>2. h \in Handlers /\ h.kind = pc[c] /\ h.run = run[c] /\ h.by = c
    BY <1>2, <2>1, HandlerMade DEF Send, ClientOK
  <2>3. handlers' = handlers \cup {h} /\ pc' = pc /\ run' = run /\ Asked(c) = {}
    BY <1>2, <2>1 DEF Send
  <2>4. Asked(c)' = {h} /\ \A d \in Clients \ {c} : Asked(d)' = Asked(d)
    BY <2>2, <2>3 DEF Asked
  <2>5. tries[c] < MaxTries /\ tries[c] \in 0..MaxTries /\ pc[c] # "idle"
    BY <1>2 DEF Send, ClientOK, TriesLeft, Posts
  <2>6. tries' \in [Clients -> 0..MaxTries] /\ \A d \in Clients \ {c} : tries'[d] = tries[d]
    BY <1>2, <2>5, Bounds DEF Send, ClientOK
  <2>7. TriesLeft'
    BY <2>3, <2>4, <2>5, <2>6 DEF ClientOK, TriesLeft
  <2>8. ClientOK'
    BY <2>2, <2>3, <2>4, <2>6, <2>7 DEF ClientOK
  <2> QED
    BY <1>2, <2>8 DEF Send, ServerOK, deleteVars
<1>3. ASSUME NEW b \in Blobs, Upload(c, b) PROVE ClientOK' /\ ServerOK'
  <2>1. Asked(c) = {}
    BY <1>3, HandlerFields DEF Upload, ClientOK, Asked, Posts
  <2>2. \A d \in Clients : Asked(d)' = Asked(d)
    BY <1>3 DEF Upload, Asked
  <2>3. PICK place \in Places : Go(c, place)
    BY <1>3 DEF Upload, AfterUploads, Places, Posts
  <2>4. handlers' \subseteq Handlers
    BY <1>3 DEF Upload, ClientOK
  <2>5. ClientOK'
    BY <2>1, <2>2, <2>3, <2>4, GoneElsewhere
  <2>6. vanished' \subseteq Runs \X Blobs
    BY <1>3 DEF Upload, ServerOK
  <2> QED
    BY <1>3, <2>5, <2>6 DEF Upload, ServerOK
<1> QED
  BY <1>1, <1>2, <1>3

LEMMA FaultsKeepTypes ==
    ASSUME ClientOK, ServerOK, NEW c \in Clients, Breaks(c) \/ Dies(c)
    PROVE  ClientOK' /\ ServerOK'
<1>1. CASE Breaks(c)
  <2>1. PICK h \in Asked(c) :
            \/ handlers' = handlers \ {h}
            \/ handlers' = (handlers \ {h}) \cup Abandoned(h)
    BY <1>1 DEF Breaks
  <2>2. h \in handlers /\ h.by = c /\ c # Nobody
    BY Bounds DEF Asked
  <2>3. PICK g : g = [h EXCEPT !.by = Nobody]
    OBVIOUS
  <2>4. g \in Handlers /\ g.by = Nobody /\ Abandoned(h) = {g}
    BY <2>2, <2>3, HandlerLeft DEF Abandoned, ClientOK
  <2>5. PICK G \in SUBSET Handlers :
            handlers' = (handlers \ {h}) \cup G /\ \A e \in G : e.by = Nobody
    <3>1. {g} \in SUBSET Handlers /\ {} \in SUBSET Handlers
      BY <2>4
    <3>2. CASE handlers' = handlers \ {h}
      <4>1. handlers' = (handlers \ {h}) \cup {} /\ \A e \in {} : e.by = Nobody
        BY <3>2
      <4> QED
        BY <3>1, <4>1
    <3>3. CASE handlers' = (handlers \ {h}) \cup Abandoned(h)
      <4>1. handlers' = (handlers \ {h}) \cup {g} /\ \A e \in {g} : e.by = Nobody
        BY <2>4, <3>3
      <4> QED
        BY <3>1, <4>1
    <3> QED
      BY <2>1, <3>2, <3>3
  <2>6. Retried(h.by)
    BY <1>1, <2>2 DEF Breaks
  <2>7. ClientOK'
    BY <2>2, <2>5, <2>6, RetriedKept
  <2> QED
    BY <1>1, <2>7, FaultTyped DEF Breaks, ServerOK, deleteVars
<1>2. CASE Dies(c)
  <2>1. \A h \in Asked(c) : Abandoned(h) \subseteq {g \in Handlers : g.by = Nobody}
    BY HandlerLeft DEF Abandoned, Asked, ClientOK
  <2>2. handlers' = (handlers \ Asked(c)) \cup UNION {Abandoned(h) : h \in Asked(c)}
    BY <1>2 DEF Dies
  <2>3. \A g \in handlers' : g \in handlers \ Asked(c) \/ (g \in Handlers /\ g.by = Nobody)
    BY <2>1, <2>2
  <2>4. handlers' \subseteq Handlers
    BY <2>3 DEF ClientOK
  <2>5. \A d \in Clients \ {c} : Asked(d)' = Asked(d)
    <3> SUFFICES ASSUME NEW d \in Clients \ {c} PROVE Asked(d)' = Asked(d)
      OBVIOUS
    <3>1. Asked(d)' \subseteq Asked(d)
      BY <2>3, Bounds DEF Asked
    <3>2. Asked(d) \subseteq Asked(d)'
      BY <2>2 DEF Asked
    <3> QED
      BY <3>1, <3>2
  <2>6. Asked(c)' = {}
    BY <2>3, Bounds DEF Asked
  <2>7. "idle" \in Places /\ Go(c, "idle")
    BY <1>2 DEF Dies, Places
  <2>8. ClientOK'
    BY <2>4, <2>5, <2>6, <2>7, GoneElsewhere
  <2> QED
    BY <1>2, <2>8, FaultTyped DEF Dies, ServerOK, deleteVars
<1> QED
  BY <1>1, <1>2

LEMMA HandlersKeepTypes ==
    ASSUME ClientOK, ServerOK, NEW h \in handlers, Handle(h) \/ HandlerFails(h)
    PROVE  ClientOK' /\ ServerOK'
<1>0. h.run \in Runs /\ h.by \in Clients \cup {Nobody}
  BY HandlerFields DEF ClientOK
<1> DEFINE After == {"idle", "upload", "post", "finalize"}
<1>1. After \subseteq Places
  BY DEF Places, Posts
<1>2. CASE Precheck(h)
  <2>1. PICK place \in Places : Answer(h, place)
    BY <1>1, <1>2 DEF Precheck, AfterUploads
  <2>2. Missing(h.run) \in SUBSET Blobs
    BY <1>0, IngestAssumption DEF Missing
  <2> QED
    BY <1>0, <1>2, <2>1, <2>2, AnswerKept DEF Precheck, ServerOK, deleteVars
<1>3. CASE PostChecks(h)
  <2>1. (\E place \in Places : Answer(h, place)) \/ (Proceed(h) /\ UNCHANGED <<pc, tries, run>>)
    BY <1>1, <1>3 DEF PostChecks, AfterExists
  <2> QED
    BY <1>3, <2>1, AnswerKept, ProceedKept DEF PostChecks, ServerOK, deleteVars
<1>4. CASE PostInserts(h)
  <2>1. CASE Fresh(h.run) /\ rows' = [rows EXCEPT ![h.run] = "running"] /\ Answer(h, "finalize")
    BY <1>0, <1>1, <1>4, <2>1, AnswerKept DEF PostInserts, ServerOK, deleteVars
  <2>2. CASE /\ handlers' = handlers \ {h} /\ UNCHANGED rows
             /\ IF h.by = Nobody THEN UNCHANGED <<pc, tries, run>> ELSE Retried(h.by)
    <3>1. ClientOK'
      BY <2>2, HandlerDropped
    <3> QED
      BY <1>4, <2>2, <3>1 DEF PostInserts, ServerOK, deleteVars
  <2> QED
    BY <1>4, <2>1, <2>2 DEF PostInserts
<1>5. CASE FinalizeChecks(h)
  <2>1. (\E place \in Places : Answer(h, place)) \/ (Proceed(h) /\ UNCHANGED <<pc, tries, run>>)
    BY <1>1, <1>5 DEF FinalizeChecks
  <2>2. reported' \subseteq Runs
    BY <1>0, <1>5 DEF FinalizeChecks, Report, Refused, ServerOK
  <2> QED
    BY <1>5, <2>1, <2>2, AnswerKept, ProceedKept DEF FinalizeChecks, ServerOK, deleteVars
<1>6. CASE FinalizeWrites(h)
  <2>1. ClientOK'
    BY <1>1, <1>6, AnswerKept DEF FinalizeWrites
  <2>2. reported' \subseteq Runs
    BY <1>0, <1>6 DEF FinalizeWrites, Report, ServerOK
  <2>3. rows' \in [Runs -> {"none", "running", "completed"}]
    BY <1>0, <1>6 DEF FinalizeWrites, ServerOK
  <2> QED
    BY <1>6, <2>1, <2>2, <2>3 DEF FinalizeWrites, ServerOK, deleteVars
<1>7. CASE HandlerFails(h)
  <2>1. ClientOK'
    BY <1>7, HandlerDropped DEF HandlerFails
  <2> QED
    BY <1>7, <2>1, FaultTyped DEF HandlerFails, ServerOK, deleteVars
<1> QED
  BY <1>2, <1>3, <1>4, <1>5, <1>6, <1>7 DEF Handle

LEMMA DeletionKeepsTypes ==
    ASSUME ClientOK, ServerOK, KeepsCurrent,
           (\E s \in TaskSets : DeleteLooks(s)) \/ DeleteCommits \/ DeleteBlobs
    PROVE  ClientOK' /\ ServerOK'
<1>1. ClientOK'
  BY DEF DeleteLooks, DeleteCommits, DeleteBlobs, clientVars, serverVars, ClientOK, TriesLeft, Asked
<1>2. ASSUME NEW s \in TaskSets, DeleteLooks(s) PROVE ServerOK'
  <2>1. Orphans(s) \in SUBSET Blobs
    BY IngestAssumption DEF Orphans, ReferredTo, Stored
  <2>2. deletions' \in 0..MaxDeletions
    BY <1>2, IngestAssumption DEF DeleteLooks, ServerOK
  <2> QED
    BY <1>2, <2>1, <2>2 DEF DeleteLooks, clientVars, serverVars, ServerOK, Deletions
<1>3. CASE DeleteCommits
  <2>1. deletion' \in Deletions
    BY <1>3 DEF DeleteCommits, ServerOK, Deletions
  <2>2. rows' \in [Runs -> {"none", "running", "completed"}]
    BY <1>3 DEF DeleteCommits, ServerOK
  <2>3. deletion.set # Current
    BY <1>3 DEF DeleteCommits, KeepsCurrent
  <2> QED
    <3>1. /\ UNCHANGED <<todo, blobs, vanished, deletions, faults>>
          /\ sets' = sets \ {deletion.set} /\ reported' \subseteq reported
      BY <1>3 DEF DeleteCommits
    <3> QED
      BY <1>1, <2>1, <2>2, <2>3, <3>1 DEF ServerOK
<1>4. CASE DeleteBlobs
  <2>1. deletion' \in Deletions
    BY <1>4, IngestAssumption DEF DeleteBlobs, NoDeletion, Deletions
  <2>2. Vouched \subseteq Runs
    BY HandlerFields DEF Vouched, ClientOK
  <2>3. vanished' \subseteq Runs \X Blobs
    BY <1>4, <2>2 DEF DeleteBlobs, ServerOK
  <2> QED
    <3>1. /\ UNCHANGED <<todo, reported, rows, sets, deletions>> /\ blobs' \subseteq blobs
          /\ faults' = faults \/ Fault
      BY <1>4 DEF DeleteBlobs, clientVars
    <3> QED
      BY <1>1, <2>1, <2>3, <3>1, FaultTyped DEF ServerOK
<1> QED
  BY <1>1, <1>2, <1>3, <1>4

LEMMA TypesKept ==
    ASSUME TypeOK, TriesLeft, KeepsCurrent, [Next]_vars
    PROVE  TypeOK' /\ TriesLeft' /\ KeepsCurrent'
<1>0. ClientOK /\ ServerOK
  BY TypeParts
<1>1. ASSUME NEW c \in Clients,
             \/ (\E r \in Runs : Start(c, r)) \/ Send(c) \/ (\E b \in Blobs : Upload(c, b))
             \/ Breaks(c) \/ Dies(c)
      PROVE  ClientOK' /\ ServerOK' /\ deletion' = deletion
  <2>1. deletion' = deletion
    BY <1>1 DEF Start, Send, Upload, Breaks, Dies, deleteVars
  <2> QED
    BY <1>0, <1>1, <2>1, ProcessKeepsTypes, FaultsKeepTypes
<1>2. ASSUME NEW h \in handlers, Handle(h) \/ HandlerFails(h)
      PROVE  ClientOK' /\ ServerOK' /\ deletion' = deletion
  <2>1. deletion' = deletion
    BY <1>2 DEF Handle, HandlerFails, Precheck, PostChecks, PostInserts, FinalizeChecks,
                FinalizeWrites, deleteVars
  <2> QED
    BY <1>0, <1>2, <2>1, HandlersKeepTypes
<1>3. ASSUME (\E s \in TaskSets : DeleteLooks(s)) \/ DeleteCommits \/ DeleteBlobs
      PROVE  ClientOK' /\ ServerOK' /\ KeepsCurrent'
  <2>1. ASSUME NEW s \in TaskSets, DeleteLooks(s) PROVE KeepsCurrent'
    BY <2>1 DEF DeleteLooks, KeepsCurrent
  <2>2. ASSUME DeleteCommits PROVE KeepsCurrent'
    <3>1. deletion.set # Current /\ deletion \in Deletions
      BY <1>0, <2>2 DEF DeleteCommits, KeepsCurrent, ServerOK
    <3>2. deletion' = [deletion EXCEPT !.at = "committed"]
      BY <2>2 DEF DeleteCommits
    <3>3. deletion'.set = deletion.set
      BY <3>1, <3>2 DEF Deletions
    <3> QED
      BY <3>1, <3>3 DEF KeepsCurrent
  <2>3. ASSUME DeleteBlobs PROVE KeepsCurrent'
    <3>1. deletion' = NoDeletion
      BY <2>3 DEF DeleteBlobs
    <3> QED
      BY <3>1 DEF NoDeletion, KeepsCurrent
  <2> QED
    BY <1>0, <1>3, <2>1, <2>2, <2>3, DeletionKeepsTypes
<1>4. ASSUME UNCHANGED vars PROVE ClientOK' /\ ServerOK' /\ KeepsCurrent'
  <2>1. /\ UNCHANGED <<pc, run, tries, todo, reported, handlers>>
        /\ UNCHANGED <<rows, sets, blobs, deletion, vanished, deletions, faults>>
    BY <1>4 DEF vars, clientVars, serverVars, deleteVars
  <2>2. ClientOK'
    BY <1>0, <2>1 DEF ClientOK, TriesLeft, Asked
  <2>3. ServerOK' /\ KeepsCurrent'
    BY <1>0, <2>1 DEF ServerOK, KeepsCurrent
  <2> QED
    BY <2>2, <2>3
<1>5. ClientOK' /\ ServerOK' /\ KeepsCurrent'
  <2>1. deletion' = deletion => KeepsCurrent'
    BY DEF KeepsCurrent
  <2>2. CASE \E c \in Clients :
              \/ (\E r \in Runs : Start(c, r)) \/ Send(c) \/ (\E b \in Blobs : Upload(c, b))
              \/ Breaks(c) \/ Dies(c)
    BY <1>1, <2>1, <2>2
  <2>3. CASE \E h \in handlers : Handle(h) \/ HandlerFails(h)
    BY <1>2, <2>1, <2>3
  <2> QED
    BY <1>3, <1>4, <2>2, <2>3 DEF Next
<1>6. TypeOK' /\ TriesLeft'
  BY <1>5 DEF TypeOK, ClientOK, ServerOK
<1> QED
  BY <1>5, <1>6

-----------------------------------------------------------------------------

\* A handler past its check was there before, at it or past it.
LEMMA VouchersOnlyLeave ==
    ASSUME TypeOK, [Next]_vars, NEW g \in handlers', g.kind = "finalize", g.at = "write"
    PROVE  \/ \E h \in handlers : h.kind = "finalize" /\ h.at = "write" /\ h.run = g.run
           \/ \E h \in handlers : FinalizeChecks(h) /\ Proceed(h) /\ h.run = g.run
<1>0. handlers \subseteq Handlers
  BY DEF TypeOK
<1>1. ASSUME NEW c \in Clients, Send(c)
      PROVE  g \in handlers
  <2>1. PICK h : h = [kind |-> pc[c], run |-> run[c], by |-> c, at |-> "check"]
    OBVIOUS
  <2>2. h.at = "check"
    BY <2>1
  <2>3. handlers' = handlers \cup {h}
    BY <1>1, <2>1 DEF Send
  <2> QED
    BY <2>2, <2>3
<1>2. ASSUME NEW c \in Clients, Breaks(c) \/ Dies(c)
      PROVE  g \in handlers \/ \E h \in Asked(c) : g \in Abandoned(h)
  BY <1>2 DEF Breaks, Dies
<1>3. ASSUME NEW h \in handlers, g \in Abandoned(h)
      PROVE  h.kind = "finalize" /\ h.at = "write" /\ h.run = g.run
  BY <1>0, <1>3, HandlerLeft DEF Abandoned
<1>4. ASSUME NEW h \in handlers, Handle(h) \/ HandlerFails(h)
      PROVE  g \in handlers \/ Proceed(h)
  BY <1>4 DEF Handle, HandlerFails, Precheck, PostChecks, PostInserts, FinalizeChecks,
              FinalizeWrites, Answer
<1>5. ASSUME NEW h \in handlers, Handle(h), Proceed(h), g \notin handlers
      PROVE  FinalizeChecks(h) /\ h.run = g.run
  <2>1. PICK e : e = [h EXCEPT !.at = "write"]
    OBVIOUS
  <2>2. e \in Handlers /\ e.kind = h.kind /\ e.run = h.run
    BY <1>0, <2>1, HandlerProceeds
  <2>3. g = e
    BY <1>5, <2>1 DEF Proceed
  <2>4. h.kind = "finalize" /\ h.run = g.run
    BY <2>2, <2>3
  <2>5. h.at = "check"
    <3>1. CASE h.at = "write"
      <4>1. handlers' \subseteq handlers
        BY <1>5, <2>4, <3>1 DEF Handle, Precheck, PostChecks, PostInserts, FinalizeChecks,
                                 FinalizeWrites, Answer
      <4> QED
        BY <1>5, <4>1
    <3> QED
      BY <1>0, <3>1, HandlerFields
  <2> QED
    BY <1>5, <2>4, <2>5 DEF Handle, Precheck, PostChecks, PostInserts, FinalizeWrites
<1>6. CASE \/ \E c \in Clients : (\E r \in Runs : Start(c, r)) \/ \E b \in Blobs : Upload(c, b)
           \/ (\E s \in TaskSets : DeleteLooks(s)) \/ DeleteCommits \/ DeleteBlobs
           \/ UNCHANGED vars
  BY <1>6 DEF Start, Upload, DeleteLooks, DeleteCommits, DeleteBlobs, serverVars, vars
<1>7. CASE g \in handlers
  BY <1>7
<1>8. CASE g \notin handlers
  <2>1. CASE \E c \in Clients : Breaks(c) \/ Dies(c)
    BY <1>2, <1>3, <1>8, <2>1 DEF Asked
  <2>2. CASE \E h \in handlers : Handle(h) \/ HandlerFails(h)
    <3>1. PICK h \in handlers : (Handle(h) \/ HandlerFails(h)) /\ Proceed(h)
      BY <1>4, <1>8, <2>2
    <3>2. CASE Handle(h)
      BY <1>5, <1>8, <3>1, <3>2
    <3>3. CASE HandlerFails(h)
      BY <1>8, <3>3 DEF HandlerFails
    <3> QED
      BY <3>1, <3>2, <3>3
  <2> QED
    BY <1>1, <1>6, <1>8, <2>1, <2>2 DEF Next
<1> QED
  BY <1>7, <1>8

Whole(r) == \A b \in Refs[r] : b \in blobs \/ <<r, b>> \in vanished

\* Steps that leave the runs alone and delete no blob, and the insertion.
Spares ==
    /\ UNCHANGED rows /\ blobs \subseteq blobs'
    /\ \A p \in vanished : p \in vanished' \/ p[2] \in blobs'
Inserts ==
    /\ UNCHANGED <<blobs, vanished>>
    /\ \E r \in Runs : rows[r] = "none" /\ rows' = [rows EXCEPT ![r] = "running"]

LEMMA StoreSteps ==
    ASSUME TypeOK, [Next]_vars
    PROVE  \/ Spares \/ Inserts
           \/ \E h \in handlers : FinalizeWrites(h)
           \/ DeleteCommits \/ DeleteBlobs
<1>0. handlers \subseteq Handlers
  BY DEF TypeOK
<1>1. ASSUME NEW c \in Clients,
             (\E r \in Runs : Start(c, r)) \/ Send(c) \/ Breaks(c) \/ Dies(c)
      PROVE  Spares
  BY <1>1 DEF Start, Send, Breaks, Dies, deleteVars, Spares
<1>5. ASSUME NEW c \in Clients, NEW b \in Blobs, Upload(c, b) PROVE Spares
  <2>1. \A p \in vanished : p \in Runs \X Blobs
    BY DEF TypeOK
  <2> QED
    BY <1>5, <2>1 DEF Upload, Spares
<1>2. ASSUME NEW h \in handlers,
             Precheck(h) \/ PostChecks(h) \/ FinalizeChecks(h) \/ HandlerFails(h)
      PROVE  Spares
  BY <1>2 DEF Precheck, PostChecks, FinalizeChecks, HandlerFails, deleteVars, Spares
<1>3. ASSUME NEW h \in handlers, PostInserts(h) PROVE Spares \/ Inserts
  BY <1>0, <1>3, HandlerFields DEF PostInserts, Fresh, deleteVars, Spares, Inserts
<1>4. ASSUME (\E s \in TaskSets : DeleteLooks(s)) \/ UNCHANGED vars PROVE Spares
  BY <1>4 DEF DeleteLooks, vars, serverVars, deleteVars, Spares
<1> QED
  BY <1>1, <1>5, <1>2, <1>3, <1>4 DEF Next, Handle

\* What is whole stays whole, but for blobs that are deleted behind the check.
LEMMA WholeKept ==
    ASSUME TypeOK, [Next]_vars, NEW r \in Runs, Whole(r), r \in Vouched \/ ~DeleteBlobs
    PROVE  Whole(r)'
<1>1. CASE Spares \/ Inserts
  BY <1>1 DEF Spares, Inserts, Whole
<1>2. CASE DeleteCommits \/ \E h \in handlers : FinalizeWrites(h)
  BY <1>2 DEF DeleteCommits, FinalizeWrites, deleteVars, Whole
<1>3. CASE DeleteBlobs
  <2> SUFFICES ASSUME NEW b \in Refs[r] PROVE b \in blobs' \/ <<r, b>> \in vanished'
    BY DEF Whole
  <2>1. PICK gone \in SUBSET deletion.orphans :
            /\ blobs' = blobs \ gone
            /\ vanished' = vanished \cup
                  {p \in Vouched \X (gone \cap blobs) : p[2] \in Refs[p[1]]}
    BY <1>3 DEF DeleteBlobs
  <2>2. CASE b \in blobs \cap gone
    BY <1>3, <2>1, <2>2
  <2>3. CASE b \notin blobs \cap gone
    BY <2>1, <2>3 DEF Whole
  <2> QED
    BY <2>2, <2>3
<1> QED
  BY <1>1, <1>2, <1>3, StoreSteps

LEMMA VouchingKept ==
    ASSUME IngestInv, [Next]_vars
    PROVE  Vouching'
<1>0. TypeOK /\ Vouching /\ handlers \subseteq Handlers /\ handlers' \subseteq Handlers
  BY TypesKept DEF IngestInv, TypeOK
<1> SUFFICES ASSUME NEW g \in handlers', g.kind = "finalize", g.at = "write"
             PROVE  Whole(g.run)'
  BY DEF Vouching, Whole
<1>1. g.run \in Runs
  BY <1>0, HandlerFields
<1>2. ASSUME NEW h \in handlers, h.kind = "finalize", h.at = "write", h.run = g.run
      PROVE  Whole(g.run)'
  <2>1. Whole(g.run)
    BY <1>0, <1>2 DEF Vouching, Whole
  <2>2. g.run \in Vouched
    BY <1>2 DEF Vouched
  <2> QED
    BY <1>0, <1>1, <2>1, <2>2, WholeKept
<1>3. ASSUME NEW h \in handlers, FinalizeChecks(h), Proceed(h), h.run = g.run
      PROVE  Whole(g.run)'
  <2>1. PICK e : e = [h EXCEPT !.at = "write"]
    OBVIOUS
  <2>2. /\ e \in Handlers /\ e.kind = "finalize" /\ e.at = "write" /\ e.run = g.run
        /\ handlers' = (handlers \ {h}) \cup {e}
    BY <1>0, <1>3, <2>1, HandlerProceeds DEF FinalizeChecks, Proceed
  <2>3. CASE e \in handlers
    BY <1>2, <2>2, <2>3
  <2>4. CASE e \notin handlers
    <3>1. ~Answer(h, "idle")
      BY <2>2, <2>4 DEF Answer
    <3>2. Refs[g.run] \subseteq blobs /\ UNCHANGED blobs
      BY <1>3, <3>1 DEF FinalizeChecks, AllThere
    <3> QED
      BY <3>2 DEF Whole
  <2> QED
    BY <2>3, <2>4
<1> QED
  BY <1>0, <1>2, <1>3, VouchersOnlyLeave

\* A run completes only when a handler past its check completes it.
LEMMA CompletedComes ==
    ASSUME TypeOK, [Next]_vars, NEW r \in Runs, rows'[r] = "completed", rows[r] # "completed"
    PROVE  \E h \in handlers : FinalizeWrites(h) /\ h.run = r /\ rows[r] # "none"
<1>0. rows \in [Runs -> {"none", "running", "completed"}] /\ handlers \subseteq Handlers
  BY DEF TypeOK
<1>1. ~Spares /\ ~Inserts /\ ~DeleteCommits /\ ~DeleteBlobs
  BY <1>0 DEF Spares, Inserts, DeleteCommits, DeleteBlobs
<1>2. PICK h \in handlers : FinalizeWrites(h)
  BY <1>1, StoreSteps
<1>3. h.run \in Runs /\ rows' = [rows EXCEPT ![h.run] = IF @ = "none" THEN @ ELSE "completed"]
  BY <1>0, <1>2, HandlerFields DEF FinalizeWrites
<1> QED
  BY <1>0, <1>2, <1>3

\* Only the deletion of its task set takes a completed run away.
LEMMA CompletedGoes ==
    ASSUME TypeOK, [Next]_vars, NEW r \in Runs, rows[r] = "completed", rows'[r] # "completed"
    PROVE  DeleteCommits /\ SetOf[r] = deletion.set
<1>0. rows \in [Runs -> {"none", "running", "completed"}] /\ handlers \subseteq Handlers
  BY DEF TypeOK
<1>1. ~Spares /\ ~Inserts /\ ~DeleteBlobs
  BY <1>0 DEF Spares, Inserts, DeleteBlobs
<1>2. ASSUME NEW h \in handlers, FinalizeWrites(h) PROVE FALSE
  <2>1. h.run \in Runs /\ rows' = [rows EXCEPT ![h.run] = IF @ = "none" THEN @ ELSE "completed"]
    BY <1>0, <1>2, HandlerFields DEF FinalizeWrites
  <2> QED
    BY <1>0, <2>1
<1>3. DeleteCommits
  BY <1>1, <1>2, StoreSteps
<1> QED
  BY <1>0, <1>3 DEF DeleteCommits

LEMMA CompletedWholeKept ==
    ASSUME IngestInv, [Next]_vars
    PROVE  CompletedHasBlobs'
<1>0. TypeOK /\ Vouching /\ CompletedHasBlobs
  BY DEF IngestInv
<1> SUFFICES ASSUME NEW r \in Runs, rows'[r] = "completed" PROVE Whole(r)'
  BY DEF CompletedHasBlobs, Whole
<1>1. CASE rows[r] = "completed"
  <2>1. Whole(r) /\ r \in Vouched
    BY <1>0, <1>1 DEF CompletedHasBlobs, Whole, Vouched
  <2> QED
    BY <1>0, <2>1, WholeKept
<1>2. CASE rows[r] # "completed"
  <2>1. PICK h \in handlers : FinalizeWrites(h) /\ h.run = r
    BY <1>0, <1>2, CompletedComes
  <2>2. Whole(r) /\ r \in Vouched
    BY <1>0, <2>1 DEF FinalizeWrites, Vouching, Whole, Vouched
  <2> QED
    BY <1>0, <2>2, WholeKept
<1> QED
  BY <1>1, <1>2

\* A success is reported of a run that is completed, or becomes so.
LEMMA ReportedComes ==
    ASSUME TypeOK, [Next]_vars, NEW r \in reported', r \notin reported
    PROVE  \/ rows[r] = "completed" /\ rows' = rows
           \/ \E h \in handlers : FinalizeWrites(h) /\ h.run = r /\ rows[r] # "none"
<1>1. ASSUME NEW h \in handlers, Handle(h) \/ HandlerFails(h)
      PROVE  \/ rows[r] = "completed" /\ rows' = rows
             \/ \E g \in handlers : FinalizeWrites(g) /\ g.run = r /\ rows[r] # "none"
  <2>1. CASE FinalizeChecks(h)
    BY <2>1 DEF FinalizeChecks, Report, Refused
  <2>2. CASE FinalizeWrites(h)
    BY <2>2 DEF FinalizeWrites, Report
  <2> QED
    BY <1>1, <2>1, <2>2 DEF Handle, HandlerFails, Precheck, PostChecks, PostInserts
<1>2. ASSUME NEW c \in Clients,
             \/ (\E q \in Runs : Start(c, q)) \/ Send(c) \/ (\E b \in Blobs : Upload(c, b))
             \/ Breaks(c) \/ Dies(c)
      PROVE  FALSE
  BY <1>2 DEF Start, Send, Upload, Breaks, Dies
<1>3. ASSUME (\E s \in TaskSets : DeleteLooks(s)) \/ DeleteCommits \/ DeleteBlobs \/ UNCHANGED vars
      PROVE  FALSE
  BY <1>3 DEF DeleteLooks, DeleteCommits, DeleteBlobs, vars, clientVars
<1> QED
  BY <1>1, <1>2, <1>3 DEF Next

LEMMA SuccessKept ==
    ASSUME IngestInv, [Next]_vars
    PROVE  SuccessIsCompleted'
<1>0. TypeOK /\ SuccessIsCompleted /\ reported' \subseteq Runs
  BY TypesKept DEF IngestInv, TypeOK
<1> SUFFICES ASSUME NEW r \in reported' PROVE rows'[r] = "completed"
  BY DEF SuccessIsCompleted
<1>1. CASE r \in reported
  <2>1. SetOf[r] = deletion.set => ~DeleteCommits
    BY DEF DeleteCommits
  <2>2. rows[r] = "completed"
    BY <1>0, <1>1 DEF SuccessIsCompleted
  <2> QED
    BY <1>0, <2>1, <2>2, CompletedGoes
<1>2. ASSUME NEW h \in handlers, FinalizeWrites(h), h.run = r, rows[r] # "none"
      PROVE  rows'[r] = "completed"
  <2>1. rows' = [rows EXCEPT ![r] = IF @ = "none" THEN @ ELSE "completed"]
    BY <1>2 DEF FinalizeWrites
  <2> QED
    BY <1>0, <1>2, <2>1 DEF TypeOK
<1>3. CASE r \notin reported
  BY <1>0, <1>2, <1>3, ReportedComes
<1> QED
  BY <1>1, <1>3

-----------------------------------------------------------------------------

LEMMA Initially == Init => IngestInv
<1> SUFFICES ASSUME Init PROVE IngestInv
  OBVIOUS
<1>1. TypeOK
  BY Bounds, IngestAssumption DEF Init, TypeOK, Places, Handlers, Deletions, NoDeletion, Asked
<1>2. TriesLeft
  BY DEF Init, TriesLeft, Posts
<1>3. KeepsCurrent /\ Vouching /\ SuccessIsCompleted /\ CompletedHasBlobs
  BY DEF Init, NoDeletion, KeepsCurrent, Vouching, SuccessIsCompleted, CompletedHasBlobs
<1> QED
  BY <1>1, <1>2, <1>3 DEF IngestInv

\* The inductive invariant of the upload.
THEOREM IngestInvariant == Spec => []IngestInv
<1>1. IngestInv /\ [Next]_vars => IngestInv'
  BY TypesKept, VouchingKept, SuccessKept, CompletedWholeKept DEF IngestInv
<1> QED
  BY <1>1, Initially, PTL DEF Spec

\* What a process reports is on the scoreboard, and whole, whatever connections
\* broke and processes died: until a deletion of its task set commits, and but for
\* blobs that a deletion removed behind the look of the finalize.
THEOREM SuccessHolds == Spec => []SuccessIsWhole
<1>1. IngestInv => SuccessIsWhole
  BY DEF IngestInv, SuccessIsWhole
<1> QED
  BY <1>1, IngestInvariant, PTL

\* No late or repeated request takes a completed run back.
THEOREM CompletedHolds == Spec => CompletedStays
<1>1. IngestInv /\ [Next]_vars =>
          [\A r \in Runs :
              rows[r] = "completed" /\ rows'[r] # "completed" => rows'[r] = "none" /\ Deleted(r)']_vars
  BY CompletedGoes DEF IngestInv, TypeOK, DeleteCommits, Deleted
<1> QED
  BY <1>1, IngestInvariant, PTL DEF Spec, CompletedStays
=============================================================================
