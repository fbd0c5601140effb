----------------------------- MODULE Lifecycle -----------------------------
(***************************************************************************)
(* The cycle of one model over one task set (src/lifecycle/orchestrator.ts): *)
(* bench, debug-capture, analyze, publish, each recorded in an append-only *)
(* event log on a server.  The log is all that the processes share: it is  *)
(* the lock of the cycle, and the memory of what is done.                  *)
(*                                                                         *)
(* A query and an append are steps of their own.  The position of a        *)
(* cycle.started event stands for its lock token.  Time passes by the      *)
(* hour: what is an hour old is past the time-to-live of a step, what is   *)
(* two hours old past that of a cycle (90 minutes).                        *)
(***************************************************************************)
EXTENDS Naturals, Sequences, FiniteSets

CONSTANTS
    Workers,      \* processes that run cycles, one at a time each
    Steps,        \* CYCLE_STEPS, a sequence
    Requests,     \* options of runCycle() and the envelope of its process
    CycleLimit,   \* limit of the queries for cycle events
    StepLimit,    \* limit of the queries for all events
    Pasts,        \* logs that earlier cycles left, and the calls they count for
    MaxCycles,    \* bound: calls of runCycle()
    MaxFaults,    \* bound: crashes, failed calls, forced unlocks
    MaxHours      \* bound: times that an hour passes

Publish == "publish"
StepNames == {Steps[i] : i \in 1..Len(Steps)}
Envs == {r.env : r \in Requests}

VARIABLES
    log,       \* the events, oldest first
    job,       \* what each worker is at
    hourOld,   \* events up to this one are older than the TTL of a step
    twoHoursOld,
    cycles,
    faults,
    hours

vars == <<log, job, hourOld, twoHoursOld, cycles, faults, hours>>

Terminals == {"completed", "failed", "aborted", "timed_out"}
Outcomes == {"completed", "failed", "unchanged"}

Events ==
    [of : {"cycle"}, kind : {"started"} \cup Terminals, env : Envs]
    \cup [of : StepNames, kind : {"started", "skipped"} \cup Outcomes, env : Envs]

ASSUME LifecycleAssumption ==
    /\ Steps \in Seq(STRING)
    /\ Requests # {}
    /\ Requests \subseteq [from : 1..Len(Steps), to : 1..Len(Steps),
                           force : SUBSET StepNames, env : Envs]
    /\ CycleLimit \in Nat /\ StepLimit \in Nat
    /\ MaxCycles \in Nat /\ MaxFaults \in Nat /\ MaxHours \in Nat
    /\ \A p \in Pasts : p.log \in Seq(Events) /\ p.cycles \in 0..MaxCycles

Running == {"decide", "skip", "begin", "work", "finish"}
Places == {"idle", "detect", "emit", "start", "readback", "lose"} \cup Running

\* `aged` is a history: what was an hour old when the cycle took the lock.
NewJob(place, r) == [at |-> place, req |-> r, step |-> 0, mine |-> 0, won |-> 0, aged |-> 0,
                     published |-> FALSE, failed |-> FALSE]

\* The job of a process that runs none.
Idle == NewJob("idle", CHOOSE r \in Requests : TRUE)

Jobs == [at : Places, req : Requests, step : 0..(Len(Steps) + 1), mine : Nat, won : Nat,
         aged : Nat, published : BOOLEAN, failed : BOOLEAN]

\* Types; the position and the lock of a job are those of the log.
TypeOK ==
    /\ log \in Seq(Events)
    /\ job \in [Workers -> Jobs]
    /\ hourOld \in 0..Len(log) /\ twoHoursOld \in 0..hourOld
    /\ cycles \in 0..MaxCycles /\ faults \in 0..MaxFaults /\ hours \in 0..MaxHours
    /\ \A w \in Workers : job[w].at \in Running =>
          /\ job[w].mine \in 1..job[w].won /\ job[w].won <= Len(log)
          /\ log[job[w].mine].of = "cycle" /\ log[job[w].mine].kind = "started"
          /\ job[w].at \in Running \ {"decide", "finish"} => job[w].step <= job[w].req.to

Init ==
    /\ \E p \in Pasts : log = p.log /\ cycles = p.cycles
    /\ job = [w \in Workers |-> Idle]
    /\ hourOld \in {0, Len(log)} /\ twoHoursOld = 0
    /\ faults = 0 /\ hours = 0

-----------------------------------------------------------------------------
(* Queries return the oldest events: ORDER BY ts ASC LIMIT n. *)

Oldest(n, S) == {i \in S : Cardinality({j \in S : j <= i}) <= n}

Of(what) == {i \in 1..Len(log) : log[i].of = what}

CycleEvents == Oldest(CycleLimit, Of("cycle"))
AllEvents == Oldest(StepLimit, 1..Len(log))

Newest(S) == IF S = {} THEN 0 ELSE CHOOSE i \in S : \A j \in S : j <= i

Starts(S) == {i \in S : log[i].kind = "started"}

\* The started cycles among the events S with no end of a cycle after them.
Active(S) == {i \in Starts(S) : ~\E j \in S : j > i /\ log[j].kind \in Terminals}

\* The cycle that holds the lock, as acquireLock() sees it.
Winner(S) == Newest(Active(S))

\* detectAndEmitTimeout(): the newest cycle is active and two hours old.
Overdue(S) == Newest(Starts(S)) \in Active(S) /\ Newest(Starts(S)) <= twoHoursOld

-----------------------------------------------------------------------------

Append1(what, k, e) == log' = Append(log, [of |-> what, kind |-> k, env |-> e])

Become(w, j) == job' = [job EXCEPT ![w] = j]

Go(w, place) == Become(w, [job[w] EXCEPT !.at = place])

Env(w) == job[w].req.env
TheStep(w) == Steps[job[w].step]

\* The process is done with this cycle.
End(w) == Become(w, Idle)

Frame == UNCHANGED <<hourOld, twoHoursOld, hours>>

\* runCycle() is called; the options and the envelope are its own.
Begin(w, r) ==
    /\ job[w].at = "idle"
    /\ cycles < MaxCycles
    /\ cycles' = cycles + 1
    /\ Become(w, NewJob("detect", r))
    /\ Frame /\ UNCHANGED <<log, faults>>

\* detectAndEmitTimeout() looks for a cycle past its TTL.
Detect(w) ==
    /\ job[w].at = "detect"
    /\ Go(w, IF Overdue(CycleEvents) THEN "emit" ELSE "start")
    /\ Frame /\ UNCHANGED <<log, cycles, faults>>

EmitTimeout(w) ==
    /\ job[w].at = "emit"
    /\ Append1("cycle", "timed_out", Env(w))
    /\ Go(w, "start")
    /\ Frame /\ UNCHANGED <<cycles, faults>>

\* acquireLock() writes its started event,
Start(w) ==
    /\ job[w].at = "start"
    /\ Append1("cycle", "started", Env(w))
    /\ Become(w, [job[w] EXCEPT !.at = "readback", !.mine = Len(log) + 1])
    /\ Frame /\ UNCHANGED <<cycles, faults>>

\* Mutant: to be active is enough.
WinsIfActive(w) == job[w].mine \in Active(CycleEvents)

Wins(w) == Winner(CycleEvents) = job[w].mine

\* and reads back who has the lock.
ReadBack(w) ==
    /\ job[w].at = "readback"
    /\ IF Wins(w)
       THEN Become(w, [job[w] EXCEPT !.at = "decide", !.step = job[w].req.from,
                                     !.won = Len(log), !.aged = hourOld])
       ELSE Go(w, "lose")
    /\ Frame /\ UNCHANGED <<log, cycles, faults>>

Lose(w) ==
    /\ job[w].at = "lose"
    /\ Append1("cycle", "aborted", Env(w))
    /\ End(w)
    /\ Frame /\ UNCHANGED <<cycles, faults>>

-----------------------------------------------------------------------------
(* The loop over the steps. *)

\* The newest event of this kind of the step, 0 for none.
Latest(S, s, kind) == Newest({i \in S : log[i].of = s /\ log[i].kind = kind})

\* Mutant: a step that was started is under way, however long ago that was.
DecideNeverExpires(w, S) ==
    LET s         == TheStep(w)
        completed == Latest(S, s, "completed")
        failed    == Latest(S, s, "failed")
        done      == completed > failed /\ log[completed].env = Env(w)
        underway  == completed = 0 /\ failed = 0 /\ Latest(S, s, "started") # 0
    IN  IF s \notin job[w].req.force /\ (done \/ underway) THEN "skip" ELSE "begin"

\* Mutant: the envelope is not compared, any completed event is out of date.
DecideAlwaysRun(w, S) == "begin"

\* decideStep(), from the events S.
Decision(w, S) ==
    LET s         == TheStep(w)
        completed == Latest(S, s, "completed")
        failed    == Latest(S, s, "failed")
        started   == Latest(S, s, "started")
        done      == completed > failed /\ log[completed].env = Env(w)
        underway  == completed = 0 /\ failed = 0 /\ started > hourOld
    IN  IF s \notin job[w].req.force /\ (done \/ underway) THEN "skip" ELSE "begin"

AllConsidered(w) == job[w].step > job[w].req.to

\* The next step of the cycle is decided on, or there is none.
Decide(w) ==
    /\ job[w].at = "decide"
    /\ IF AllConsidered(w) THEN Go(w, "finish")
       ELSE Become(w, [job[w] EXCEPT !.at = Decision(w, AllEvents),
                           !.published = Latest(AllEvents, TheStep(w), "completed") # 0])
    /\ Frame /\ UNCHANGED <<log, cycles, faults>>

Skip(w) ==
    /\ job[w].at = "skip"
    /\ Append1(TheStep(w), "skipped", Env(w))
    /\ Become(w, [job[w] EXCEPT !.at = "decide", !.step = @ + 1])
    /\ Frame /\ UNCHANGED <<cycles, faults>>

BeginStep(w) ==
    /\ job[w].at = "begin"
    /\ Append1(TheStep(w), "started", Env(w))
    /\ Go(w, "work")
    /\ Frame /\ UNCHANGED <<cycles, faults>>

\* The step does its work, and what came of it is recorded.  Publishing what an
\* earlier cycle published is skipped by the step itself.
Record(w, outcome) ==
    /\ job[w].at = "work"
    /\ outcome = "unchanged" => TheStep(w) = Publish /\ job[w].published
    /\ Append1(TheStep(w), outcome, Env(w))
    /\ IF outcome = "failed"
       THEN Become(w, [job[w] EXCEPT !.at = "finish", !.failed = TRUE])
       ELSE Become(w, [job[w] EXCEPT !.at = "decide", !.step = @ + 1])
    /\ Frame /\ UNCHANGED <<cycles, faults>>

\* The terminal event of the cycle.
Finish(w) ==
    /\ job[w].at = "finish"
    /\ Append1("cycle", IF job[w].failed THEN "failed" ELSE "completed", Env(w))
    /\ End(w)
    /\ Frame /\ UNCHANGED <<cycles, faults>>

-----------------------------------------------------------------------------
(* Failures. *)

\* The events that a place of the code may append.
Appended(w) ==
    LET at    == job[w].at
        cycle == IF at = "emit" THEN {"timed_out"}
                 ELSE IF at = "start" THEN {"started"}
                 ELSE IF at = "lose" THEN {"aborted"}
                 ELSE IF at = "finish" THEN {IF job[w].failed THEN "failed" ELSE "completed"}
                 ELSE {}
        step  == IF at = "skip" THEN {"skipped"}
                 ELSE IF at = "begin" THEN {"started"}
                 ELSE IF at = "work" THEN {"completed", "failed"}
                 ELSE {}
    IN  [of : {"cycle"}, kind : cycle, env : {Env(w)}]
        \cup [of : {Steps[n] : n \in {job[w].step} \cap DOMAIN Steps}, kind : step, env : {Env(w)}]

\* Where an exception leads: the loop catches its own and records a failed
\* cycle; before the loop and after it the process ends.
Thrown(w) == IF job[w].at \in Running \ {"finish"}
             THEN Become(w, [job[w] EXCEPT !.at = "finish", !.failed = TRUE])
             ELSE End(w)

\* A call to the server throws, or the step itself.  An event is in the log
\* all the same when only the answer was lost: the retry is refused as a
\* duplicate.
CallFails(w) ==
    /\ job[w].at # "idle"
    /\ faults < MaxFaults
    /\ faults' = faults + 1
    /\ \/ log' = log
       \/ \E e \in Appended(w) : log' = Append(log, e)
    /\ Thrown(w)
    /\ Frame /\ UNCHANGED cycles

\* The process dies.
Crash(w) ==
    /\ job[w].at # "idle"
    /\ faults < MaxFaults
    /\ faults' = faults + 1
    /\ End(w)
    /\ Frame /\ UNCHANGED <<log, cycles>>

\* cycle --force-unlock --yes, by an operator.
ForceUnlock(r) ==
    /\ faults < MaxFaults
    /\ faults' = faults + 1
    /\ Append1("cycle", "aborted", r.env)
    /\ Frame /\ UNCHANGED <<job, cycles>>

HourPasses ==
    /\ hours < MaxHours
    /\ hours' = hours + 1
    /\ hourOld' = Len(log)
    /\ twoHoursOld' = hourOld
    /\ UNCHANGED <<log, job, cycles, faults>>

Next ==
    \/ \E w \in Workers :
          \/ \E r \in Requests : Begin(w, r)
          \/ Detect(w) \/ EmitTimeout(w) \/ Start(w) \/ ReadBack(w) \/ Lose(w)
          \/ Decide(w) \/ Skip(w) \/ BeginStep(w) \/ Finish(w)
          \/ \E o \in Outcomes : Record(w, o)
          \/ CallFails(w) \/ Crash(w)
    \/ \E r \in Requests : ForceUnlock(r)
    \/ HourPasses

Spec == Init /\ [][Next]_vars

-----------------------------------------------------------------------------

InLoop(w) == job[w].at \in Running

\* Of cycles that race, one at most runs: when two run at once, the earlier
\* had the lock before the later wrote its started event.
RaceHasOneWinner ==
    /\ TypeOK
    /\ \A v, w \in Workers :
        InLoop(v) /\ InLoop(w) /\ job[v].mine < job[w].mine => job[v].won < job[w].mine

\* The newest verdict on a step among those of the events S that come before i.
Verdict(S, s, i) ==
    Newest({j \in S : j < i /\ log[j].of = s /\ log[j].kind \in {"completed", "failed"}})

\* The cycle of w ends, recorded as completed.
CycleCompletes(w) ==
    job[w].at = "finish" /\ ~job[w].failed /\ job'[w].at = "idle" /\ Len(log') > Len(log)

\* A step that came out well, now or before; one that had failed when the cycle
\* began has been done again since, also when an older event says it was completed
\* (the ordering of decideStep()).
CameOutWell(s, v, mine) ==
    \E i \in 1..Len(log) :
        /\ log[i].of = s /\ log[i].kind \in {"completed", "unchanged"}
        /\ v # 0 /\ log[v].kind = "failed" => i >= mine

\* A step of which nothing was known but that it was begun, and this no longer
\* before the cycle took the lock than a step may take: it counts as under way.
BegunLately(s, v, aged) ==
    v = 0 /\ \E i \in (aged + 1)..Len(log) : log[i].of = s /\ log[i].kind = "started"

\* A cycle is recorded as completed only when each of its steps came out well or
\* was begun lately: what failed before is done again, and what a process that
\* died began and did not end is not passed over for good.  What is known of a step
\* is what a query shows, the oldest StepLimit events.
CompletedIsEarned ==
    [][\A w \in Workers : CycleCompletes(w) =>
          \A n \in job[w].req.from..job[w].req.to :
             LET v == Verdict(AllEvents, Steps[n], job[w].mine)
             IN  CameOutWell(Steps[n], v, job[w].mine) \/ BegunLately(Steps[n], v, job[w].aged)]_vars

\* Work that is done is not done again: a step is begun whose newest verdict, of
\* those a query shows, is a completed event of the same envelope only on request,
\* or when that event came while the cycle ran, from another one.
CompletedIsNotRepeated ==
    [][\A w \in Workers :
          job[w].at = "begin" /\ job'[w].at = "work" /\ TheStep(w) \notin job[w].req.force
          => LET v == Verdict(AllEvents, TheStep(w), Len(log) + 1)
             IN  v # 0 /\ log[v].kind = "completed" /\ log[v].env = Env(w) => v > job[w].mine]_vars

\* "Same-(model, task_set) parallel cycles are gated by a lock_token"
\* (docs/site/lifecycle.md:86): two never run at once.  This
\* does not hold: see README, section 3.
OneCycleAtATime == \A v, w \in Workers : InLoop(v) /\ InLoop(w) => v = w

\* A completed cycle has every step done: after a crash it "resumes from the
\* first incomplete step" (the plan of the event log), it does not pass over it.  This
\* does not hold: see README, section 3.
CompletedMeansAllDone ==
    [][\A w \in Workers : CycleCompletes(w) =>
          \A n \in job[w].req.from..job[w].req.to :
                \E i \in 1..Len(log) :
                    log[i].of = Steps[n] /\ log[i].kind \in {"completed", "unchanged"}]_vars

\* "When the most-recent terminal is a failure [...] the operator's expectation is
\* 'retry'" (orchestrator.ts:99), whatever number of events there are.  This does not
\* hold: see README, section 3.
EveryFailureIsHeeded ==
    [][\A w \in Workers : CycleCompletes(w) =>
          \A n \in job[w].req.from..job[w].req.to :
             LET v == Verdict(1..Len(log), Steps[n], job[w].mine)
             IN  v # 0 /\ log[v].kind = "failed" => CameOutWell(Steps[n], v, job[w].mine)]_vars
=============================================================================
