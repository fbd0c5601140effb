---------------------------- MODULE CompileQueue ----------------------------
(***************************************************************************)
(* The per-container compile/test queue of src/parallel/compile-queue.ts   *)
(* with the Semaphore and Mutex of src/parallel/semaphore.ts, one queue    *)
(* for each container.                                                     *)
(*                                                                         *)
(* An "entry" is one call of enqueue() with the promise it returns.  A     *)
(* step is what the event loop runs between two suspension points: a       *)
(* caller's call, the dispatcher's continuation after it got a compile     *)
(* permit, one continuation of a pipeline, or a timer.                     *)
(*                                                                         *)
(* Order inside the FIFO lists (pending entries, waiters of the test       *)
(* mutex) is one relation, `before`: <<a, b>> when a stands before b in    *)
(* the list both are in.  The clock is abstracted to the one thing the     *)
(* code asks of it: whether an entry's queue-wait budget, counted from its *)
(* first enqueue, is used up (`spent`).                                    *)
(***************************************************************************)
EXTENDS Naturals, FiniteSets

CONSTANTS
    Containers,   \* the container names of the bench
    Entries,      \* calls of enqueue(), each used at most once
    Nowhere,      \* the site of an entry that has not been dispatched
    MaxPermits,   \* compileConcurrency
    MaxQueue,     \* maxQueueSize
    NstMaintenance \* maybeMaintainNst() is on (off unless the env asks)

ASSUME MaintenanceAssumption == NstMaintenance \in BOOLEAN
ASSUME PermitsAssumption == MaxPermits \in Nat \ {0}
ASSUME QueueAssumption == MaxQueue \in Nat
ASSUME NowhereAssumption == Nowhere \notin Containers
ASSUME EntriesAssumption == IsFiniteSet(Entries)

VARIABLES
    promise,     \* what the caller of enqueue() sees
    pending,     \* container -> entries in CompileQueue.queue
    before,      \* order inside the FIFO lists
    excluded,    \* entry -> QueueEntry.excludeContainers
    spent,       \* entries whose queue-wait budget has run out
    dispatcher,  \* container -> where processQueue() is
    permits,     \* container -> compileSemaphore.current
    stage,       \* entry -> where runPipeline() is
    site,        \* entry -> the container whose pipeline took it
    testLocked,  \* container -> testMutex.locked
    tainted,     \* containers with CompileQueue.tainted set
    forced,      \* entries with forcedByAlertId set
    orphaned     \* containers where a timed-out test still runs (the world)

listVars == <<pending, before, excluded, spent>>
permitVars == <<dispatcher, permits>>
pipeVars == <<stage, site>>
testVars == <<testLocked, tainted, orphaned>>
queueVars == <<promise, listVars, permitVars, pipeVars, testVars, forced>>

Settlements == {"success", "failure", "quarantined", "error",
                "timeout", "full", "ineligible"}

Stages == {"none", "prep", "compile", "blocked", "entering", "testing",
           "passed", "failed", "cleanup", "gone"}

TypeOK ==
    /\ promise \in [Entries -> {"idle", "waiting"} \cup Settlements]
    /\ pending \in [Containers -> SUBSET Entries]
    /\ before \in SUBSET (Entries \X Entries)
    /\ excluded \in [Entries -> SUBSET Containers]
    /\ spent \in SUBSET Entries
    /\ dispatcher \in [Containers -> {"idle", "waiting", "granted"}]
    /\ permits \in [Containers -> Nat]
    /\ stage \in [Entries -> Stages]
    /\ site \in [Entries -> Containers \cup {Nowhere}]
    /\ testLocked \in [Containers -> BOOLEAN]
    /\ tainted \in SUBSET Containers
    /\ forced \in SUBSET Entries
    /\ orphaned \in SUBSET Containers

Init ==
    /\ promise = [e \in Entries |-> "idle"]
    /\ pending = [c \in Containers |-> {}]
    /\ before = {}
    /\ excluded = [e \in Entries |-> {}]
    /\ spent = {}
    /\ dispatcher = [c \in Containers |-> "idle"]
    /\ permits = [c \in Containers |-> 0]
    /\ stage = [e \in Entries |-> "none"]
    /\ site = [e \in Entries |-> Nowhere]
    /\ testLocked = [c \in Containers |-> FALSE]
    /\ tainted = {}
    /\ forced = {}
    /\ orphaned = {}

-----------------------------------------------------------------------------
(* Lists and sets the code keeps in other forms.                           *)

\* Entries between shift() and the end of runPipeline(): activeEntries.
Active(c) == {e \in Entries : site[e] = c /\ stage[e] # "gone"}

\* Waiters of the container's test mutex.
Blocked(c) == {e \in Entries : site[e] = c /\ stage[e] = "blocked"}

\* Pipelines that own a compile permit.
Compiling(c) == {e \in Entries : site[e] = c /\ stage[e] \in {"prep", "compile"}}

\* Pipelines that own the test mutex.
InTest(c) == {e \in Entries : site[e] = c /\ stage[e] \in {"entering", "testing"}}

load(c) == Cardinality(pending[c]) + Cardinality(Active(c))

\* The entries of list S with nobody of S before them (at most one).
Heads(S) == {e \in S : \A a \in S : <<a, e>> \notin before}

\* The order once the entries of S have left their lists.
Without(S) == {p \in before : p[1] \notin S /\ p[2] \notin S}

\* processQueue() called on the queues L that just received work: a
\* dispatcher that is not running starts and asks for a compile permit.
Wake(L) ==
    LET idle == {c \in L : dispatcher[c] = "idle"}
        free == {c \in idle : permits[c] < MaxPermits}
    IN  /\ dispatcher' = [c \in Containers |->
                            CASE c \in free -> "granted"
                              [] c \in idle \ free -> "waiting"
                              [] OTHER -> dispatcher[c]]
        /\ permits' = [c \in Containers |->
                            permits[c] + (IF c \in free THEN 1 ELSE 0)]

\* Semaphore.release(): the slot goes to the dispatcher when it waits.
ReleasePermit(c) ==
    \/ /\ dispatcher[c] = "waiting"
       /\ dispatcher' = [dispatcher EXCEPT ![c] = "granted"]
       /\ UNCHANGED permits
    \/ /\ dispatcher[c] # "waiting"
       /\ permits' = [permits EXCEPT ![c] = @ - 1]
       /\ UNCHANGED dispatcher

\* Mutex.release() by e, which goes on to stage `next`: the lock passes to
\* the first waiter, or is free.
ReleaseTest(e, next) ==
    LET c == site[e] IN
    \/ /\ Blocked(c) = {}
       /\ testLocked' = [testLocked EXCEPT ![c] = FALSE]
       /\ stage' = [stage EXCEPT ![e] = next]
       /\ UNCHANGED before
    \/ \E w \in Heads(Blocked(c)) :
         /\ stage' = [stage EXCEPT ![e] = next, ![w] = "entering"]
         /\ before' = Without({w})
         /\ UNCHANGED testLocked

-----------------------------------------------------------------------------
(* Enqueue and the queue-wait timer.                                       *)

Reject(e, why) == promise' = [promise EXCEPT ![e] = why]

\* Mutant: pushes without starting the dispatcher.
EnqueueWithoutWake(e, c, ex) ==
    /\ promise[e] = "idle" /\ c \notin ex /\ load(c) < MaxQueue
    /\ promise' = [promise EXCEPT ![e] = "waiting"]
    /\ pending' = [pending EXCEPT ![c] = @ \cup {e}]
    /\ before' = before \cup (pending[c] \X {e})
    /\ excluded' = [excluded EXCEPT ![e] = ex]
    /\ UNCHANGED <<spent, permitVars, pipeVars, testVars, forced>>

\* CompileQueue.enqueue(): rejected at once when the caller excludes this
\* container or the queue is full, else pushed, and the dispatcher started.
Enqueue(e, c, ex) ==
    /\ promise[e] = "idle"
    /\ \/ /\ c \in ex
          /\ Reject(e, "ineligible")
          /\ UNCHANGED <<listVars, permitVars>>
       \/ /\ c \notin ex /\ load(c) >= MaxQueue
          /\ Reject(e, "full")
          /\ UNCHANGED <<listVars, permitVars>>
       \/ /\ c \notin ex /\ load(c) < MaxQueue
          /\ promise' = [promise EXCEPT ![e] = "waiting"]
          /\ pending' = [pending EXCEPT ![c] = @ \cup {e}]
          /\ before' = before \cup (pending[c] \X {e})
          /\ excluded' = [excluded EXCEPT ![e] = ex]
          /\ Wake({c})
          /\ UNCHANGED spent
    /\ UNCHANGED <<pipeVars, testVars, forced>>

\* Time: the budget of an entry still waiting for dispatch runs out.
BudgetRunsOut(e) ==
    /\ promise[e] = "waiting" /\ stage[e] = "none" /\ e \notin spent
    /\ spent' = spent \cup {e}
    /\ UNCHANGED <<promise, pending, before, excluded,
                   permitVars, pipeVars, testVars, forced>>

\* The queue-wait timer fires; it looks the entry up in its own queue, and
\* the handle was cleared when the entry was dispatched or drained.
QueueTimeout(e, c) ==
    /\ e \in pending[c] /\ e \in spent
    /\ pending' = [pending EXCEPT ![c] = @ \ {e}]
    /\ before' = Without({e})
    /\ Reject(e, "timeout")
    /\ UNCHANGED <<excluded, spent, permitVars, pipeVars, testVars, forced>>

-----------------------------------------------------------------------------
(* The dispatcher, processQueue().                                         *)

\* The permit arrived but timers or a drain emptied the queue meanwhile.
DispatchNothing(c) ==
    /\ dispatcher[c] = "granted" /\ pending[c] = {}
    /\ permits' = [permits EXCEPT ![c] = @ - 1]
    /\ dispatcher' = [dispatcher EXCEPT ![c] = "idle"]
    /\ UNCHANGED <<promise, listVars, pipeVars, testVars, forced>>

\* shift() the head, start its pipeline with the permit, and go round the
\* loop: stop when nothing is left, else acquire the next permit.
Dispatch(c) ==
    /\ dispatcher[c] = "granted"
    /\ \E e \in Heads(pending[c]) :
         /\ pending' = [pending EXCEPT ![c] = @ \ {e}]
         /\ before' = Without({e})
         /\ stage' = [stage EXCEPT ![e] = "prep"]
         /\ site' = [site EXCEPT ![e] = c]
         /\ \/ /\ pending[c] = {e}
               /\ dispatcher' = [dispatcher EXCEPT ![c] = "idle"]
               /\ UNCHANGED permits
            \/ /\ pending[c] # {e} /\ permits[c] < MaxPermits
               /\ permits' = [permits EXCEPT ![c] = @ + 1]
               /\ UNCHANGED dispatcher
            \/ /\ pending[c] # {e} /\ permits[c] >= MaxPermits
               /\ dispatcher' = [dispatcher EXCEPT ![c] = "waiting"]
               /\ UNCHANGED permits
    /\ UNCHANGED <<promise, excluded, spent, testVars, forced>>

-----------------------------------------------------------------------------
(* The pipeline, runPipeline().                                            *)

PrepOk(e) ==
    /\ stage[e] = "prep"
    /\ stage' = [stage EXCEPT ![e] = "compile"]
    /\ UNCHANGED <<promise, listVars, permitVars, site, testVars, forced>>

\* Mutant: the permit of a failed preparation is not given back.
PrepThrowsKeepsPermit(e) ==
    /\ stage[e] = "prep"
    /\ stage' = [stage EXCEPT ![e] = "gone"]
    /\ Reject(e, "error")
    /\ UNCHANGED <<listVars, permitVars, site, testVars, forced>>

\* createTempProject() threw: permit back, reject, nothing to clean up.
PrepThrows(e) ==
    /\ stage[e] = "prep"
    /\ stage' = [stage EXCEPT ![e] = "gone"]
    /\ ReleasePermit(site[e])
    /\ Reject(e, "error")
    /\ UNCHANGED <<listVars, site, testVars, forced>>

\* executeCompilePhase() threw, a failed prerequisite app included.
CompileThrows(e) ==
    /\ stage[e] = "compile"
    /\ stage' = [stage EXCEPT ![e] = "cleanup"]
    /\ ReleasePermit(site[e])
    /\ Reject(e, "error")
    /\ UNCHANGED <<listVars, site, testVars, forced>>

\* The compile phase answered and no test runs: a compile error, or a task
\* without a test app.
CompileEnds(e) ==
    /\ stage[e] = "compile"
    /\ \E result \in {"passed", "failed"} : stage' = [stage EXCEPT ![e] = result]
    /\ ReleasePermit(site[e])
    /\ UNCHANGED <<promise, listVars, site, testVars, forced>>

\* The app compiled and has tests: permit back, then testMutex.acquire().
CompileToTest(e) ==
    LET c == site[e] IN
    /\ stage[e] = "compile"
    /\ ReleasePermit(c)
    /\ \/ /\ ~testLocked[c]
          /\ testLocked' = [testLocked EXCEPT ![c] = TRUE]
          /\ stage' = [stage EXCEPT ![e] = "entering"]
          /\ UNCHANGED before
       \/ /\ testLocked[c]
          /\ stage' = [stage EXCEPT ![e] = "blocked"]
          /\ before' = before \cup (Blocked(c) \X {e})
          /\ UNCHANGED testLocked
    /\ UNCHANGED <<promise, pending, excluded, spent, site, tainted, orphaned, forced>>

\* The continuation after acquire(): the taint barrier, read under the lock.
TestBegins(e) ==
    /\ stage[e] = "entering" /\ site[e] \notin tainted
    /\ stage' = [stage EXCEPT ![e] = "testing"]
    /\ UNCHANGED <<promise, listVars, permitVars, site, testVars, forced>>

\* Mutant: the barred pipeline throws without releasing the mutex.
TestBarredKeepsLock(e) ==
    /\ stage[e] = "entering" /\ site[e] \in tainted
    /\ stage' = [stage EXCEPT ![e] = "cleanup"]
    /\ Reject(e, "error")
    /\ UNCHANGED <<listVars, permitVars, site, testVars, forced>>

TestBarred(e) ==
    /\ stage[e] = "entering" /\ site[e] \in tainted
    /\ ReleaseTest(e, "cleanup")
    /\ Reject(e, "error")
    /\ UNCHANGED <<pending, excluded, spent, permitVars, site, tainted, orphaned, forced>>

TestEnds(e) ==
    /\ stage[e] = "testing"
    /\ \E result \in {"passed", "failed"} : ReleaseTest(e, result)
    /\ UNCHANGED <<promise, pending, excluded, spent, permitVars, site,
                   tainted, orphaned, forced>>

\* A throw that leaves nothing running in the container.
TestThrows(e) ==
    /\ stage[e] = "testing"
    /\ ReleaseTest(e, "cleanup")
    /\ Reject(e, "error")
    /\ UNCHANGED <<pending, excluded, spent, permitVars, site, tainted, orphaned, forced>>

\* Mutant: the timeout does not taint the queue.
TestTimesOutUntainted(e) ==
    /\ stage[e] = "testing"
    /\ orphaned' = orphaned \cup {site[e]}
    /\ ReleaseTest(e, "cleanup")
    /\ Reject(e, "error")
    /\ UNCHANGED <<pending, excluded, spent, permitVars, site, tainted, forced>>

\* A session timeout: the host gives up while the operation still runs in
\* the container.  The taint is set before the mutex is released.
TestTimesOut(e) ==
    /\ stage[e] = "testing"
    /\ tainted' = tainted \cup {site[e]}
    /\ orphaned' = orphaned \cup {site[e]}
    /\ ReleaseTest(e, "cleanup")
    /\ Reject(e, "error")
    /\ UNCHANGED <<pending, excluded, spent, permitVars, site, forced>>

\* maybeMaintainNst() runs outside the test mutex; its own session timeout
\* is caught and logged, and leaves the operation running.
MaintenanceTimesOut(e) ==
    /\ NstMaintenance
    /\ stage[e] \in {"passed", "failed"}
    /\ orphaned' = orphaned \cup {site[e]}
    /\ UNCHANGED <<promise, listVars, permitVars, pipeVars, testLocked, tainted, forced>>

\* Mutant: the alert's tag is not looked at.
SettleUntagged(e) ==
    /\ stage[e] \in {"passed", "failed"}
    /\ promise' = [promise EXCEPT ![e] =
                     IF stage[e] = "passed" THEN "success" ELSE "failure"]
    /\ stage' = [stage EXCEPT ![e] = "cleanup"]
    /\ UNCHANGED <<listVars, permitVars, site, testVars, forced>>

\* Recycle and maintenance are over: settle, a non-success of an entry
\* tagged by an alert as quarantined.
Settle(e) ==
    /\ stage[e] \in {"passed", "failed"}
    /\ promise' = [promise EXCEPT ![e] =
                     CASE stage[e] = "passed" -> "success"
                       [] stage[e] = "failed" /\ e \in forced -> "quarantined"
                       [] OTHER -> "failure"]
    /\ stage' = [stage EXCEPT ![e] = "cleanup"]
    /\ UNCHANGED <<listVars, permitVars, site, testVars, forced>>

\* cleanupTempProject() returned (it swallows its own errors).
CleanupEnds(e) ==
    /\ stage[e] = "cleanup"
    /\ stage' = [stage EXCEPT ![e] = "gone"]
    /\ UNCHANGED <<promise, listVars, permitVars, site, testVars, forced>>

\* The world: an operation the host gave up on ends in its container.
OrphanEnds(c) ==
    /\ c \in orphaned
    /\ orphaned' = orphaned \ {c}
    /\ UNCHANGED <<promise, listVars, permitVars, pipeVars, testLocked, tainted, forced>>

Pipeline(e) ==
    \/ PrepOk(e) \/ PrepThrows(e)
    \/ CompileThrows(e) \/ CompileEnds(e) \/ CompileToTest(e)
    \/ TestBegins(e) \/ TestBarred(e)
    \/ TestEnds(e) \/ TestThrows(e) \/ TestTimesOut(e)
    \/ Settle(e) \/ CleanupEnds(e)


\* What a queue does on its own, whoever fills it.
QueueStep ==
    \/ \E e \in Entries : Pipeline(e) \/ BudgetRunsOut(e) \/ MaintenanceTimesOut(e)
    \/ \E e \in Entries, c \in Containers : QueueTimeout(e, c)
    \/ \E c \in Containers : Dispatch(c) \/ DispatchNothing(c) \/ OrphanEnds(c)

\* One queue used directly, as in a single-container bench.
Next ==
    \/ QueueStep
    \/ \E e \in Entries, c \in Containers, ex \in SUBSET Containers : Enqueue(e, c, ex)

\* Continuations run: permits granted are used, and every operation on a
\* container answers or is given up on.  Nothing is asked of the clock.
QueueFairness ==
    /\ \A c \in Containers : WF_queueVars(Dispatch(c) \/ DispatchNothing(c))
    /\ \A e \in Entries : WF_queueVars(Pipeline(e))

Spec == Init /\ [][Next]_queueVars /\ QueueFairness

-----------------------------------------------------------------------------
(* Properties.                                                             *)

\* compileSemaphore never leaks or invents a permit: its counter is the
\* pipelines before the end of their compile phase plus the permit the
\* dispatcher was granted and has not handed on (releaseOnce, P1).
PermitAccounting ==
    \A c \in Containers :
        /\ permits[c] <= MaxPermits
        /\ permits[c] = Cardinality(Compiling(c))
                          + (IF dispatcher[c] = "granted" THEN 1 ELSE 0)

\* Work is never stranded by the `dispatching` flag: while a queue holds
\* entries its dispatcher runs, and it only sleeps when every permit is out.
NoStall ==
    \A c \in Containers :
        /\ pending[c] # {} => dispatcher[c] # "idle"
        /\ dispatcher[c] = "waiting" => permits[c] = MaxPermits

\* The test mutex: one owner per container, locked exactly while there is
\* one, and nobody waits for a free lock.
TestMutexOK ==
    \A c \in Containers :
        /\ \A d, e \in InTest(c) : d = e
        /\ testLocked[c] <=> InTest(c) # {}
        /\ Blocked(c) # {} => testLocked[c]

\* A test never runs in a container beside an operation that timed out
\* there and is still going (C4).
NoTestBesideOrphan ==
    \A e \in Entries : stage[e] = "testing" => site[e] \notin orphaned

\* A test has its container to itself.
TestsAlone == TestMutexOK /\ NoTestBesideOrphan

\* Every unsettled entry is in exactly one place: in one queue, or in a
\* pipeline that will settle it; a settled one is in none of them.
Unsettled == {"prep", "compile", "blocked", "entering", "testing", "passed", "failed"}

Places(e) == {c \in Containers : e \in pending[c]}

ExactlyOnePlace ==
    \A e \in Entries :
        /\ \A c, d \in Places(e) : c = d
        /\ Places(e) # {} => stage[e] = "none"
        /\ promise[e] = "waiting" <=> Places(e) # {} \/ stage[e] \in Unsettled

\* Every enqueue() is answered.
EveryEntrySettles ==
    \A e \in Entries : promise[e] = "waiting" ~> promise[e] \in Settlements

\* Every dispatched pipeline ends, so drain() returns and load falls to 0.
EveryPipelineEnds ==
    \A e \in Entries : stage[e] = "prep" ~> stage[e] = "gone"

\* Nothing that was begun is left hanging, neither a promise nor a pipeline.
AllWorkEnds == EveryEntrySettles /\ EveryPipelineEnds
=============================================================================
