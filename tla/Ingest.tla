------------------------------- MODULE Ingest -------------------------------
(***************************************************************************)
(* The upload of a run to the scoreboard: `centralgauge ingest`            *)
(* (src/ingest/mod.ts, register.ts, blobs.ts, client.ts) against the       *)
(* handlers of the site (site/src/routes/api/v1), with its database and    *)
(* its store of blobs, and the deletion of a task set beside it.           *)
(*                                                                         *)
(* A connection may break at any moment and the handler it leaves behind   *)
(* may go on, beside the handler of the retry; processes and handlers may  *)
(* die.  A run is replayed under the id it has in its results file.  What  *)
(* a handler reads in one go is one step, and so is a batch of statements. *)
(***************************************************************************)
EXTENDS Naturals, FiniteSets

CONSTANTS
    Clients,     \* processes that ingest
    Nobody,      \* the client of a handler whose connection is gone
    Runs,        \* ids of runs
    TaskSets,
    Current,     \* the task set that is_current, which is never deleted
    Blobs,
    SetOf,       \* the task set of each run
    Refs,        \* the blobs that the results of each run refer to
    MaxTries,    \* maxAttempts of postWithRetry()
    MaxDeletions,\* bound: deletions of task sets
    MaxFaults    \* bound: broken connections, crashes, failed deletes of blobs

ASSUME IngestAssumption ==
    /\ Nobody \notin Clients /\ Runs # {}
    /\ Current \in TaskSets
    /\ SetOf \in [Runs -> TaskSets]
    /\ Refs \in [Runs -> SUBSET Blobs]
    /\ MaxTries \in Nat \ {0} /\ MaxDeletions \in Nat /\ MaxFaults \in Nat

VARIABLES
    pc,          \* the request each process is at
    run,         \* the run it ingests
    tries,       \* requests made of the current postWithRetry()
    todo,        \* blobs it has yet to upload
    reported,    \* runs whose ingestion was reported a success, until a deletion takes them
    handlers,    \* handlers at work on the server
    rows,        \* the status of each run in the database
    sets,        \* the task sets in the database
    blobs,       \* the store
    deletion,    \* the deletion of a task set
    vanished,    \* for the properties: runs and blobs deleted behind their check
    deletions,   \* how many deletions there have been
    faults

clientVars == <<pc, run, tries, todo, reported>>
serverVars == <<handlers, rows, sets, blobs>>
deleteVars == <<deletion, vanished, deletions>>
vars == <<clientVars, serverVars, deleteVars, faults>>

Posts == {"precheck", "post", "finalize"}
Places == {"idle", "upload"} \cup Posts

\* A handler is at its check or past it.
Handlers == [kind : Posts, run : Runs, by : Clients \cup {Nobody}, at : {"check", "write"}]

NoDeletion == [at |-> "none", set |-> Current, orphans |-> {}]
Deletions == [at : {"none", "looked", "committed"}, set : TaskSets, orphans : SUBSET Blobs]

Asked(c) == {h \in handlers : h.by = c}

\* Types; a process waits for one answer at most, to the request it is at.
TypeOK ==
    /\ pc \in [Clients -> Places] /\ run \in [Clients -> Runs]
    /\ tries \in [Clients -> 0..MaxTries] /\ todo \in [Clients -> SUBSET Blobs]
    /\ reported \subseteq Runs
    /\ handlers \subseteq Handlers
    /\ rows \in [Runs -> {"none", "running", "completed"}]
    /\ sets \subseteq TaskSets /\ Current \in sets /\ blobs \subseteq Blobs
    /\ deletion \in Deletions /\ vanished \subseteq Runs \X Blobs
    /\ deletions \in 0..MaxDeletions /\ faults \in 0..MaxFaults
    /\ \A c \in Clients : \A g, h \in Asked(c) : g = h /\ h.kind = pc[c] /\ h.run = run[c]

\* The run of a process that ingests none.
NoRun == CHOOSE r \in Runs : TRUE

Init ==
    /\ pc = [c \in Clients |-> "idle"]
    /\ run = [c \in Clients |-> NoRun]
    /\ tries = [c \in Clients |-> 0] /\ todo = [c \in Clients |-> {}]
    /\ reported = {}
    /\ handlers = {}
    /\ rows = [r \in Runs |-> "none"]
    /\ sets = TaskSets /\ blobs = {}
    /\ deletion = NoDeletion /\ vanished = {} /\ deletions = 0
    /\ faults = 0

Fault == faults < MaxFaults /\ faults' = faults + 1

-----------------------------------------------------------------------------
(* The process. *)

Go(c, place) ==
    /\ pc' = [pc EXCEPT ![c] = place]
    /\ tries' = [tries EXCEPT ![c] = 0]
    /\ run' = IF place = "idle" THEN [run EXCEPT ![c] = NoRun] ELSE run

\* With an admin key ensureTaskSet() puts the task set into the database, once
\* in a process (postedTaskSetHashes).  A client stands for one process after the
\* other, so whether it does is left open.  Its requests are one step: one that
\* takes effect late does what another process's may do.
EnsureTaskSet(s) == sets' = sets \/ sets' = sets \cup {s}

\* ingestRun() is called: by the bench when it is over, or by a replay.
Start(c, r) ==
    /\ pc[c] = "idle"
    /\ EnsureTaskSet(SetOf[r])
    /\ pc' = [pc EXCEPT ![c] = "precheck"]
    /\ run' = [run EXCEPT ![c] = r]
    /\ UNCHANGED <<tries, todo, reported, handlers, rows, blobs, deleteVars, faults>>

\* postWithRetry() makes a request.
Send(c) ==
    /\ pc[c] \in Posts /\ Asked(c) = {}
    /\ tries' = [tries EXCEPT ![c] = @ + 1]
    /\ handlers' = handlers \cup {[kind |-> pc[c], run |-> run[c], by |-> c, at |-> "check"]}
    /\ UNCHANGED <<pc, run, todo, reported, rows, sets, blobs, deleteVars, faults>>

\* A request failed: it is made again, or the ingestion ends with an error.
Retried(c) ==
    IF tries[c] < MaxTries THEN UNCHANGED <<pc, tries, run>> ELSE Go(c, "idle")

\* What a broken connection can leave of a handler that writes.
Abandoned(h) == {[h EXCEPT !.by = Nobody]}

\* The connection breaks; the handler goes on, or never got the request.
Breaks(c) ==
    /\ Fault
    /\ \E h \in Asked(c) :
          \/ handlers' = handlers \ {h}
          \/ /\ h.kind # "precheck"
             /\ handlers' = (handlers \ {h}) \cup Abandoned(h)
    /\ Retried(c)
    /\ UNCHANGED <<todo, reported, rows, sets, blobs, deleteVars>>

\* Where a process goes that has these blobs to upload.
AfterUploads(S) == IF S = {} THEN "post" ELSE "upload"

\* A worker of uploadMissing() uploads a blob.
Upload(c, b) ==
    /\ pc[c] = "upload" /\ b \in todo[c]
    /\ blobs' = blobs \cup {b}
    /\ todo' = [todo EXCEPT ![c] = @ \ {b}]
    /\ vanished' = vanished \ (Runs \X {b})
    /\ Go(c, AfterUploads(todo[c] \ {b}))
    /\ UNCHANGED <<reported, handlers, rows, sets, deletion, deletions, faults>>

\* The process ends early: an upload fails for good, in whatever order the
\* others went, or the process dies.  A handler at work on its behalf goes on.
Dies(c) ==
    /\ pc[c] # "idle"
    /\ Fault
    /\ Go(c, "idle")
    /\ todo' = [todo EXCEPT ![c] = {}]
    /\ handlers' = (handlers \ Asked(c)) \cup UNION {Abandoned(h) : h \in Asked(c)}
    /\ UNCHANGED <<reported, rows, sets, blobs, deleteVars>>

-----------------------------------------------------------------------------
(* The handlers.  What one answers reaches the process that asked, if that *)
(* still waits for it.                                                     *)

\* The handler h is done; its client, if it has one, goes to `place`.
Answer(h, place) ==
    /\ handlers' = handlers \ {h}
    /\ IF h.by = Nobody THEN UNCHANGED <<pc, tries, run>> ELSE Go(h.by, place)

Proceed(h) == handlers' = (handlers \ {h}) \cup {[h EXCEPT !.at = "write"]}

\* findMissingBlobs().
Missing(r) == Refs[r] \ blobs

Precheck(h) ==
    /\ h.kind = "precheck"
    /\ Answer(h, AfterUploads(Missing(h.run)))
    /\ todo' = IF h.by = Nobody THEN todo ELSE [todo EXCEPT ![h.by] = Missing(h.run)]
    /\ UNCHANGED <<reported, rows, sets, blobs, deleteVars, faults>>

\* Mutant: a run that exists has been ingested.
AfterExistsNothing == "idle"

\* Where a process goes that is told the run exists.
AfterExists == "finalize"

\* POST /runs looks for the task set and for the run.
PostChecks(h) ==
    /\ h.kind = "post" /\ h.at = "check"
    /\ IF SetOf[h.run] \notin sets THEN Answer(h, "idle")
       ELSE IF rows[h.run] # "none" THEN Answer(h, AfterExists)
       ELSE Proceed(h) /\ UNCHANGED <<pc, tries, run>>
    /\ UNCHANGED <<todo, reported, rows, sets, blobs, deleteVars, faults>>

\* Mutant: INSERT OR REPLACE.
FreshAlways(r) == TRUE

\* The id is the primary key of the runs.
Fresh(r) == rows[r] = "none"

\* POST /runs inserts the run with its results.  It fails with a 500 when the
\* run is there by now, and may when its task set is gone (foreign keys).
PostInserts(h) ==
    /\ h.kind = "post" /\ h.at = "write"
    /\ \/ /\ Fresh(h.run)
          /\ rows' = [rows EXCEPT ![h.run] = "running"]
          /\ Answer(h, "finalize")
       \/ /\ ~Fresh(h.run) \/ SetOf[h.run] \notin sets
          /\ handlers' = handlers \ {h}
          /\ IF h.by = Nobody THEN UNCHANGED <<pc, tries, run>> ELSE Retried(h.by)
          /\ UNCHANGED rows
    /\ UNCHANGED <<todo, reported, sets, blobs, deleteVars, faults>>

\* Mutant: the blobs are not looked for.
AllThereAlways(r) == TRUE

\* The store has all blobs of the run.
AllThere(r) == Refs[r] \subseteq blobs

Report(h) == reported' = IF h.by = Nobody THEN reported ELSE reported \cup {h.run}

\* The process throws when it is refused.
Refused(h) == UNCHANGED reported

\* POST /runs/:id/finalize reads the run and looks for its blobs.
FinalizeChecks(h) ==
    /\ h.kind = "finalize" /\ h.at = "check"
    /\ IF rows[h.run] = "completed" THEN Answer(h, "idle") /\ Report(h)
       ELSE IF rows[h.run] = "none" \/ ~AllThere(h.run) THEN Answer(h, "idle") /\ Refused(h)
       ELSE Proceed(h) /\ UNCHANGED <<pc, tries, run, reported>>
    /\ UNCHANGED <<todo, rows, sets, blobs, deleteVars, faults>>

\* The run is completed, if it is still there, and announced.  A success reported
\* of a run that a deletion took behind the check is not counted.
FinalizeWrites(h) ==
    /\ h.kind = "finalize" /\ h.at = "write"
    /\ rows' = [rows EXCEPT ![h.run] = IF @ = "none" THEN @ ELSE "completed"]
    /\ Answer(h, "idle")
    /\ IF rows[h.run] = "none" THEN UNCHANGED reported ELSE Report(h)
    /\ UNCHANGED <<todo, sets, blobs, deleteVars, faults>>

Handle(h) ==
    \/ Precheck(h)
    \/ PostChecks(h) \/ PostInserts(h) \/ FinalizeChecks(h) \/ FinalizeWrites(h)

\* The server gives up a request; of an abandoned one nobody learns.
HandlerFails(h) ==
    /\ handlers' = handlers \ {h}
    /\ IF h.by = Nobody THEN UNCHANGED <<pc, tries, run, faults>> ELSE Fault /\ Retried(h.by)
    /\ UNCHANGED <<todo, reported, rows, sets, blobs, deleteVars>>

-----------------------------------------------------------------------------
(* DELETE of a task set. *)

Stored(s) == {r \in Runs : rows[r] # "none" /\ SetOf[r] = s}
ReferredTo(S) == UNION {Refs[r] : r \in S}

\* The blobs that runs of s refer to and runs of other task sets do not.
Orphans(s) == ReferredTo(Stored(s)) \ ReferredTo({r \in Runs : rows[r] # "none" /\ SetOf[r] # s})

\* The handler looks for them,
DeleteLooks(s) ==
    /\ deletion.at = "none" /\ s \in sets \ {Current}
    /\ deletions < MaxDeletions /\ deletions' = deletions + 1
    /\ deletion' = [at |-> "looked", set |-> s, orphans |-> Orphans(s)]
    /\ UNCHANGED <<clientVars, serverVars, vanished, faults>>

\* deletes the set and its runs,
DeleteCommits ==
    /\ deletion.at = "looked"
    /\ rows' = [r \in Runs |-> IF SetOf[r] = deletion.set THEN "none" ELSE rows[r]]
    /\ sets' = sets \ {deletion.set}
    /\ deletion' = [deletion EXCEPT !.at = "committed"]
    /\ reported' = {r \in reported : SetOf[r] # deletion.set}
    /\ UNCHANGED <<pc, run, tries, todo, handlers, blobs, vanished, deletions, faults>>

\* Runs whose blobs were looked for by a finalize.
Vouched == {r \in Runs : rows[r] = "completed"}
           \cup {h.run : h \in {g \in handlers : g.kind = "finalize" /\ g.at = "write"}}

\* and deletes the blobs, or some of them when the store fails.
DeleteBlobs ==
    /\ deletion.at = "committed"
    /\ \E gone \in SUBSET deletion.orphans :
          /\ IF gone = deletion.orphans THEN UNCHANGED faults ELSE Fault
          /\ blobs' = blobs \ gone
          /\ vanished' = vanished \cup
                {p \in Vouched \X (gone \cap blobs) : p[2] \in Refs[p[1]]}
    /\ deletion' = NoDeletion
    /\ UNCHANGED <<clientVars, handlers, rows, sets, deletions>>

Next ==
    \/ \E c \in Clients :
          \/ \E r \in Runs : Start(c, r)
          \/ Send(c) \/ Breaks(c) \/ Dies(c)
          \/ \E b \in Blobs : Upload(c, b)
    \/ \E h \in handlers : Handle(h) \/ HandlerFails(h)
    \/ \E s \in TaskSets : DeleteLooks(s)
    \/ DeleteCommits \/ DeleteBlobs

Spec == Init /\ [][Next]_vars

\* An operator replays a run that the scoreboard does not show as completed.
Replay(r) == rows[r] # "completed" /\ \E c \in Clients : Start(c, r)

ProcessStep(c) == Send(c) \/ \E b \in Blobs : Upload(c, b)

\* Processes and handlers go on, and operators replay what is not completed.
FairSpec ==
    /\ Spec
    /\ \A c \in Clients : WF_vars(ProcessStep(c))
    /\ WF_vars(\E h \in handlers : Handle(h))
    /\ \A r \in Runs : SF_vars(Replay(r))

-----------------------------------------------------------------------------

Deleted(r) == SetOf[r] \notin sets

\* A run that is completed stays so, whatever is replayed, late or twice: only
\* the deletion of its task set takes it away.
CompletedStays ==
    [][\A r \in Runs :
          rows[r] = "completed" /\ rows'[r] # "completed" => rows'[r] = "none" /\ Deleted(r)']_vars

\* An ingestion is reported as a success only of a run that is completed on
\* the scoreboard, not of one that is merely there; and it is there until a
\* deletion of its task set commits behind the look of the finalize.
SuccessIsCompleted == \A r \in reported : rows[r] = "completed"

\* A completed run has all its blobs, also when another process inserted it or
\* its blobs were deleted after its own process had seen them: unless they
\* were deleted once they had been looked for on its behalf, and not uploaded
\* since.
CompletedHasBlobs ==
    \A r \in Runs : rows[r] = "completed" =>
        \A b \in Refs[r] : b \in blobs \/ <<r, b>> \in vanished

\* What a process reports is on the scoreboard, and whole, but for what a deletion
\* took behind the look of the finalize.
SuccessIsWhole == TypeOK /\ SuccessIsCompleted /\ CompletedHasBlobs

\* Every run can be brought to an end by replaying it, time and again, from
\* whatever state broken connections, crashes, the deletion of blobs and of its
\* task set and the registration of the set anew have left it in.
EveryRunLands == \A r \in Runs : []<>(rows[r] = "completed" \/ Deleted(r))

\* "refcount atomic relative to the snapshot" (task-sets/[hash]/+server.ts:91):
\* no blob of a stored run is deleted.  This does not hold: see README,
\* section 3.
OnlyOrphansGo ==
    [][\A r \in Runs : rows[r] # "none" => Refs[r] \cap blobs \subseteq blobs']_vars

\* "only real transitions emit events" (finalize/+server.ts:101): a finalize
\* that announces a run finds it running.  This does not hold: see README,
\* section 3.
AnnouncedOnce ==
    [][\A h \in handlers : FinalizeWrites(h) => rows[h.run] # "completed"]_vars
=============================================================================
