------------------------------- MODULE Bench -------------------------------
(***************************************************************************)
(* The run of a benchmark: runParallel() of the orchestrator               *)
(* (src/parallel/orchestrator.ts), which takes each task through each      *)
(* model variant, and the loop around it that offers to repeat transient   *)
(* failures and merges the results                                         *)
(* (cli/commands/bench/parallel-executor.ts).                              *)
(*                                                                         *)
(* The LLM pool and the compile queue answer each call (LLMWorkPool,       *)
(* CompileQueuePool and InfraRetry model how); here an answer is any that  *)
(* they may give.  A pair is a task with a variant; a result is a record   *)
(* of the round (call of runParallel()) it comes from, so that a set keeps *)
(* the results of a pair apart.                                            *)
(***************************************************************************)
EXTENDS Naturals, Sequences, SequencesExt, FiniteSets

CONSTANTS
    NTasks,        \* the tasks are 1..NTasks, in the order of the manifests
    Variants,
    MaxConcurrency,\* taskConcurrency is at most this
    AttemptLimit,
    MaxRounds,     \* bound: calls of runParallel()
    MaxTroubles    \* bound: answers other than code that passes

ASSUME BenchAssumption ==
    /\ NTasks \in Nat \ {0} /\ MaxConcurrency \in Nat \ {0}
    /\ AttemptLimit \in Nat \ {0} /\ MaxRounds \in Nat \ {0} /\ MaxTroubles \in Nat

VARIABLES
    taskConcurrency,
    phase,         \* of the loop
    round,
    task,          \* where each task of the round is
    variantsToRun,
    waiters,       \* of the task semaphore, in order
    pair,          \* where each pair is, or how it ended
    attempt,
    criticalAbort,
    results,       \* in the orchestrator's aggregator
    allResults,    \* what the loop has merged
    troubles

loopVars == <<phase, round, variantsToRun, allResults>>
runVars == <<task, waiters, criticalAbort, results>>
pairVars == <<pair, attempt, troubles>>
benchVars == <<taskConcurrency, loopVars, runVars, pairVars>>

Tasks == 1..NTasks
Pairs == Tasks \X Variants

\* How the last attempt of a result went: a failure is transient or the
\* model's own.
Verdicts == {"pass", "model", "transient"}

\* How a pair ends.  "infra" and "infraTransient" have an entry in failures
\* and a synthesized result, "failed" has an entry only.
Ended == Verdicts \cup {"infra", "infraTransient", "failed", "critical"}
HasResult == Verdicts \cup {"infra", "infraTransient"}
IsTransient == {"transient", "infraTransient"}

\* The places of a task that holds a permit of the semaphore.
Permitted == {"admitted", "running"}
Over == {"done", "failed", "skipped", "out"}

TaskHolders == {t \in Tasks : task[t] \in Permitted}
InRound(p) == task[p[1]] # "out" /\ p[2] \in variantsToRun
PairsOf(t) == {t} \X variantsToRun

\* The pairs that a set of results is about.
Keys(S) == {<<r.task, r.variant>> : r \in S}
Result(p) == [task |-> p[1], variant |-> p[2], round |-> round, end |-> pair[p]]
Record == [task : Tasks, variant : Variants, round : 0..MaxRounds, end : HasResult]

\* Types; the semaphore: at most taskConcurrency tasks hold a permit, and the
\* waiters are the tasks that wait, who only do when no permit is left.
BenchTypeOK ==
    /\ taskConcurrency \in 1..MaxConcurrency
    /\ phase \in {"running", "prompt", "saved", "thrown"} /\ round \in 1..MaxRounds
    /\ task \in [Tasks -> Permitted \cup Over \cup {"waiting"}]
    /\ variantsToRun \subseteq Variants
    /\ pair \in [Pairs -> {"idle", "llm", "compile"} \cup Ended]
    /\ attempt \in [Pairs -> 0..AttemptLimit]
    /\ criticalAbort \in BOOLEAN /\ troubles \in 0..MaxTroubles
    /\ results \subseteq Record /\ allResults \subseteq Record
    /\ Cardinality(TaskHolders) <= taskConcurrency
    /\ IsInjective(waiters) /\ ToSet(waiters) = {t \in Tasks : task[t] = "waiting"}
    /\ waiters # <<>> => Cardinality(TaskHolders) = taskConcurrency

-----------------------------------------------------------------------------
(* runParallel() is called. *)

Place(S, t) == Cardinality({s \in S : s <= t})

\* The tasks of S ask in order: the first n have a permit, the others wait.
FirstPermits(S, n) == {t \in S : Place(S, t) <= n}

AskedTask(S, n) ==
    [t \in Tasks |-> IF t \notin S THEN "out"
                     ELSE IF t \in FirstPermits(S, n) THEN "admitted" ELSE "waiting"]

AskedWaiters(S, n) ==
    [i \in 1..(Cardinality(S) - n) |-> CHOOSE t \in S : Place(S, t) = n + i]

\* The tasks and the variants of a set of pairs: all pairs of the two are run.
TasksOf(S) == {p[1] : p \in S}
VariantsOf(S) == {p[2] : p \in S}

\* The aggregator keeps what it has: only the LLM pool is reset.
RunParallel(S) ==
    /\ task' = AskedTask(TasksOf(S), taskConcurrency)
    /\ waiters' = AskedWaiters(TasksOf(S), taskConcurrency)
    /\ variantsToRun' = VariantsOf(S)
    /\ pair' = [p \in Pairs |-> "idle"]
    /\ attempt' = [p \in Pairs |-> 0]
    /\ criticalAbort' = FALSE
    /\ UNCHANGED results

\* The results a retry file has for the pairs of S; how they ended is not
\* looked at.
Previous(S) ==
    {[task |-> p[1], variant |-> p[2], round |-> 0, end |-> "model"] : p \in S}

\* With a retry file the missing pairs are run (handleRetryMode()), without
\* one all are missing.
BenchInit ==
    \E missing \in SUBSET Pairs \ {{}}, n \in 1..MaxConcurrency :
        /\ taskConcurrency = n
        /\ phase = "running" /\ round = 1
        /\ task = AskedTask(TasksOf(missing), n)
        /\ waiters = AskedWaiters(TasksOf(missing), n)
        /\ variantsToRun = VariantsOf(missing)
        /\ pair = [p \in Pairs |-> "idle"] /\ attempt = [p \in Pairs |-> 0]
        /\ criticalAbort = FALSE /\ results = {}
        /\ allResults = Previous(Pairs \ missing)
        /\ troubles = 0

-----------------------------------------------------------------------------
(* A task. *)

\* Mutant: a task that fails keeps its permit.
LeaveForSuccessOnly(t, place) ==
    IF place = "failed" \/ waiters = <<>>
    THEN task' = [task EXCEPT ![t] = place] /\ waiters' = waiters
    ELSE /\ task' = [task EXCEPT ![t] = place, ![Head(waiters)] = "admitted"]
         /\ waiters' = Tail(waiters)

\* t gives its permit back, and the first waiter has it.
LeaveFor(t, place) ==
    IF waiters = <<>>
    THEN task' = [task EXCEPT ![t] = place] /\ waiters' = waiters
    ELSE /\ task' = [task EXCEPT ![t] = place, ![Head(waiters)] = "admitted"]
         /\ waiters' = Tail(waiters)

\* Mutant: criticalAbort is not looked at after the permit came.
MayBeginAlways == TRUE

MayBegin == ~criticalAbort

\* processTask(): all variants start in one turn.
Begin(t) ==
    /\ task[t] = "admitted" /\ MayBegin
    /\ task' = [task EXCEPT ![t] = "running"]
    /\ pair' = [p \in Pairs |-> IF p \in PairsOf(t) THEN "llm" ELSE pair[p]]
    /\ attempt' = [p \in Pairs |-> IF p \in PairsOf(t) THEN 1 ELSE attempt[p]]
    /\ UNCHANGED <<taskConcurrency, loopVars, waiters, criticalAbort, results, troubles>>

Skip(t) ==
    /\ task[t] = "admitted" /\ ~MayBegin
    /\ LeaveFor(t, "skipped")
    /\ UNCHANGED <<taskConcurrency, loopVars, criticalAbort, results, pairVars>>

AllEnded(t) == \A p \in PairsOf(t) : pair[p] \in Ended

Critical(t) == \E p \in PairsOf(t) : pair[p] = "critical"

\* The results of a task are added when its last variant has ended.
Complete(t) ==
    /\ task[t] = "running" /\ AllEnded(t) /\ ~Critical(t)
    /\ results' = results \cup {Result(p) : p \in {q \in PairsOf(t) : pair[q] \in HasResult}}
    /\ LeaveFor(t, "done")
    /\ UNCHANGED <<taskConcurrency, loopVars, criticalAbort, pairVars>>

\* The critical error of a variant is thrown when the other variants of the
\* task have ended as well; only then do other tasks know of it.
Abort(t) ==
    /\ task[t] = "running" /\ AllEnded(t) /\ Critical(t)
    /\ criticalAbort' = TRUE
    /\ LeaveFor(t, "failed")
    /\ UNCHANGED <<taskConcurrency, loopVars, results, pairVars>>

-----------------------------------------------------------------------------
(* The attempts of a pair: processTaskForVariant(). *)

PairStep(p, end) ==
    /\ pair' = [pair EXCEPT ![p] = end]
    /\ UNCHANGED <<taskConcurrency, loopVars, runVars>>

Trouble == troubles < MaxTroubles /\ troubles' = troubles + 1

\* An attempt has failed with this verdict: the next one begins, or the
\* verdict of the last one is the pair's.
AttemptFails(p, verdict) ==
    /\ Trouble
    /\ IF attempt[p] < AttemptLimit
       THEN PairStep(p, "llm") /\ attempt' = [attempt EXCEPT ![p] = @ + 1]
       ELSE PairStep(p, verdict) /\ UNCHANGED attempt

\* The call fails (transient), or its answer has no code in it (the model's).
NoCode(p) ==
    /\ pair[p] = "llm"
    /\ \E verdict \in {"model", "transient"} : AttemptFails(p, verdict)

Code(p) ==
    /\ pair[p] = "llm"
    /\ PairStep(p, "compile") /\ UNCHANGED <<attempt, troubles>>

Passes(p) ==
    /\ pair[p] = "compile"
    /\ PairStep(p, "pass") /\ UNCHANGED <<attempt, troubles>>

ModelFails(p) ==
    /\ pair[p] = "compile"
    /\ AttemptFails(p, "model")

\* withInfraRetry() throws: no further attempt is made, an infrastructure
\* failure gets its synthesized result.
InfraFails(p) ==
    /\ pair[p] = "compile" /\ Trouble
    /\ \E end \in {"infra", "infraTransient"} : PairStep(p, end)
    /\ UNCHANGED attempt

\* Any other error of the pair: an entry in failures, no result.
Throws(p) ==
    /\ pair[p] \in {"llm", "compile"} /\ Trouble
    /\ PairStep(p, "failed")
    /\ UNCHANGED attempt

CriticalError(p) ==
    /\ pair[p] \in {"llm", "compile"} /\ Trouble
    /\ PairStep(p, "critical")
    /\ UNCHANGED attempt

-----------------------------------------------------------------------------
(* The loop of executeParallelBenchmark(). *)

Settled == \A t \in Tasks : task[t] \in Over

\* Mutant: the new results replace all old ones.
MergedNew == results

\* Mutant: old results win over new ones.
MergedOld == allResults \cup {r \in results : <<r.task, r.variant>> \notin Keys(allResults)}

\* Results of pairs that were run again give way to all of the aggregator's.
Merged == {r \in allResults : <<r.task, r.variant>> \notin Keys(results)} \cup results

\* Transient failures among the results that runParallel() returned.
Transient == {r \in results : r.end \in IsTransient}

\* No error: the results are merged.  Without transient failures among them
\* they are saved, otherwise the user is asked.
Return ==
    /\ phase = "running" /\ Settled /\ \A t \in Tasks : task[t] # "failed"
    /\ allResults' = Merged
    /\ phase' = IF Transient = {} THEN "saved" ELSE "prompt"
    /\ UNCHANGED <<taskConcurrency, round, variantsToRun, runVars, pairVars>>

\* The error of a task is thrown through the loop: nothing is saved.
Throw ==
    /\ phase = "running" /\ Settled /\ \E t \in Tasks : task[t] = "failed"
    /\ phase' = "thrown"
    /\ UNCHANGED <<taskConcurrency, round, variantsToRun, allResults, runVars, pairVars>>

Retry ==
    /\ phase = "prompt" /\ round < MaxRounds
    /\ phase' = "running" /\ round' = round + 1
    /\ RunParallel(Keys(Transient))
    /\ UNCHANGED <<taskConcurrency, allResults, troubles>>

\* The user declines, or there is none to ask.
Save ==
    /\ phase = "prompt"
    /\ phase' = "saved"
    /\ UNCHANGED <<taskConcurrency, round, variantsToRun, allResults, runVars, pairVars>>

TaskStep == \E t \in Tasks : Begin(t) \/ Skip(t) \/ Complete(t) \/ Abort(t)

Answer(p) == NoCode(p) \/ Code(p) \/ Passes(p) \/ ModelFails(p) \/ InfraFails(p)
             \/ Throws(p) \/ CriticalError(p)

BenchNext == TaskStep \/ (\E p \in Pairs : Answer(p)) \/ Return \/ Throw \/ Retry \/ Save

BenchSpec == BenchInit /\ [][BenchNext]_benchVars

\* The pool and the queue answer every call, and continuations run.
FairBenchSpec ==
    /\ BenchSpec
    /\ WF_benchVars(TaskStep) /\ \A p \in Pairs : WF_benchVars(Answer(p))
    /\ WF_benchVars(Return \/ Throw)

-----------------------------------------------------------------------------

\* After the critical error of one task no other task begins, however many
\* were waiting for a permit.
NothingBeginsAfterAbort ==
    [][criticalAbort => \A p \in Pairs : pair[p] = "idle" /\ criticalAbort' => pair'[p] = "idle"]_benchVars

\* In the first round of an orchestrator the merge leaves one result for each
\* pair, also when pairs of the retry file are run again.
FirstRoundHasOneEach ==
    round = 1 => \A r, s \in allResults :
                     <<r.task, r.variant>> = <<s.task, s.variant>> => r = s

\* When a round returns, each pair of it has ended, and what it ended with is
\* among the merged results as the newest of the pair: an infrastructure
\* failure is not dropped either.  None ended with a critical error, also when
\* the tasks before it and beside it have completed: such a run is not saved.
RoundIsMerged ==
    /\ BenchTypeOK
    /\ FirstRoundHasOneEach
    /\ phase \in {"prompt", "saved"} =>
          \A p \in Pairs : InRound(p) =>
              /\ pair[p] \in Ended \ {"critical"}
              /\ pair[p] \in HasResult => Result(p) \in allResults

\* A pair that has a result keeps having one, whatever later rounds do.
ResultsAreKept == [][Keys(allResults) \subseteq Keys(allResults')]_benchVars

\* Every round ends, with a return or a throw.
RoundEnds == phase = "running" ~> phase # "running"

\* "remove any old results for task+model pairs we just re-ran"
\* (parallel-executor.ts:600).
OneResultForEachPair ==
    \A r, s \in allResults : <<r.task, r.variant>> = <<s.task, s.variant>> => r = s
=============================================================================
