----------------------- MODULE CompileQueuePoolProofs -----------------------
(***************************************************************************)
(* Proofs about CompileQueue and about CompileQueuePool, for any           *)
(* containers, any finite set of entries, any limits, queue size and       *)
(* exclusion lists.                                                        *)
(*                                                                         *)
(* First the queues by themselves (Spec of CompileQueue).  Their inductive *)
(* invariant is built in three layers.  Base: where each entry is, which   *)
(* no counter or lock matters to.  QueueInv: Base and the permit           *)
(* accounting, which counts pipelines.  TestInv: the test mutex and the    *)
(* taint, which need to know where pipelines are.                          *)
(*                                                                         *)
(* Then the pool (PoolSpec).  A step of a queue on its own keeps what the  *)
(* first part proves of it when the parked entries are the ones that are   *)
(* away.  What is new is a plan, the one form that a drain, a flush and a  *)
(* recovery have in common.                                                *)
(***************************************************************************)
EXTENDS CompileQueuePool, FiniteSetTheorems, TLAPS

-----------------------------------------------------------------------------
(* A queue on its own. *)

\* All of TypeOK but the range of the permit counters, which is a
\* consequence of the permit accounting.
Typed ==
    /\ promise \in [Entries -> {"idle", "waiting"} \cup Settlements]
    /\ pending \in [Containers -> SUBSET Entries]
    /\ before \in SUBSET (Entries \X Entries)
    /\ excluded \in [Entries -> SUBSET Containers]
    /\ spent \in SUBSET Entries
    /\ stage \in [Entries -> Stages]
    /\ site \in [Entries -> Containers \cup {Nowhere}]
    /\ testLocked \in [Containers -> BOOLEAN]
    /\ tainted \in SUBSET Containers
    /\ forced \in SUBSET Entries
    /\ orphaned \in SUBSET Containers

\* An entry nobody enqueued has no pipeline.
Fresh == \A e \in Entries : promise[e] = "idle" => stage[e] = "none"

\* A pipeline belongs to a container.
Sited == \A e \in Entries : site[e] \in Containers <=> stage[e] # "none"

\* ExactlyOnePlace, for a queue that shares its work with a pool: entries of
\* `away` wait somewhere else.
WellPlaced(away) ==
    \A e \in Entries :
        /\ \A c, d \in Places(e) : c = d
        /\ Places(e) # {} => stage[e] = "none" /\ e \notin away
        /\ e \in away => stage[e] = "none"
        /\ promise[e] = "waiting" <=> Places(e) # {} \/ e \in away \/ stage[e] \in Unsettled

Base(away) == Typed /\ Fresh /\ Sited /\ WellPlaced(away)

\* The counters.
Counted ==
    /\ dispatcher \in [Containers -> {"idle", "waiting", "granted"}]
    /\ permits \in [Containers -> Nat]
    /\ PermitAccounting

QueueInv(away) == Base(away) /\ Counted

-----------------------------------------------------------------------------
(* Base, one lemma for each action or group of actions.                    *)

LEMMA EnqueueBase ==
    ASSUME NEW away \in SUBSET Entries, Base(away), NEW e \in Entries,
           NEW c \in Containers, NEW ex \in SUBSET Containers,
           Enqueue(e, c, ex)
    PROVE  Base(away)'
<1>1. CASE promise'[e] = "waiting"
  <2>1. /\ promise' = [promise EXCEPT ![e] = "waiting"]
        /\ pending' = [pending EXCEPT ![c] = @ \cup {e}]
        /\ before' = before \cup (pending[c] \X {e})
        /\ excluded' = [excluded EXCEPT ![e] = ex]
        /\ UNCHANGED <<spent, stage, site, testLocked, tainted, orphaned, forced>>
    BY <1>1 DEF Enqueue, Reject, Base, Typed, pipeVars, testVars
  <2>2. promise[e] = "idle"
    BY DEF Enqueue
  <2>3. stage[e] = "none" /\ Places(e) = {} /\ e \notin away
    BY <2>2 DEF Base, Fresh, WellPlaced
  <2>4. Places(e)' = {c} /\ \A d \in Entries \ {e} : Places(d)' = Places(d)
    BY <2>1, <2>3 DEF Places, Base, Typed
  <2>5. Typed'
    BY <2>1 DEF Base, Typed
  <2>6. Fresh' /\ Sited'
    BY <2>1 DEF Base, Typed, Fresh, Sited
  <2>7. WellPlaced(away)'
    BY SMTT(30), <2>1, <2>3, <2>4 DEF Base, Typed, WellPlaced, Unsettled
  <2> QED
    BY <2>5, <2>6, <2>7 DEF Base
<1>2. CASE promise'[e] # "waiting"
  <2>1. PICK why \in {"ineligible", "full"} :
          /\ promise' = [promise EXCEPT ![e] = why]
          /\ UNCHANGED <<pending, before, excluded, spent, stage, site, testLocked,
                         tainted, orphaned, forced>>
    BY <1>2 DEF Enqueue, Reject, Base, Typed, pipeVars, testVars, listVars
  <2>2. promise[e] = "idle"
    BY DEF Enqueue
  <2>3. \A d \in Entries : Places(d)' = Places(d)
    BY <2>1 DEF Places
  <2> QED
    BY <2>1, <2>2, <2>3
    DEF Base, Typed, Fresh, Sited, WellPlaced, Settlements, Unsettled
<1> QED
  BY <1>1, <1>2

\* A continuation of e's pipeline that leaves the lists, its container and
\* every other pipeline's stage alone but for waiters that go on to test.
OthersWait(e) ==
    \A d \in Entries \ {e} :
        stage'[d] = stage[d] \/ (stage[d] = "blocked" /\ stage'[d] = "entering")

LEMMA PipeBase ==
    ASSUME NEW away \in SUBSET Entries, Base(away),
           NEW e \in Entries, stage[e] # "none",
           NEW next \in Stages \ {"none"}, NEW how \in Settlements \cup {"waiting"},
           stage' \in [Entries -> Stages], stage'[e] = next, OthersWait(e),
           promise' = [promise EXCEPT ![e] = how],
           how = "waiting" <=> next \in Unsettled,
           before' \in SUBSET (Entries \X Entries),
           testLocked' \in [Containers -> BOOLEAN],
           tainted' \in SUBSET Containers, orphaned' \in SUBSET Containers,
           UNCHANGED <<pending, excluded, spent, site, forced>>
    PROVE  Base(away)'
<1>1. Typed'
  BY DEF Base, Typed
<1>2. Fresh'
  <2> SUFFICES ASSUME NEW d \in Entries, promise'[d] = "idle"
               PROVE  stage'[d] = "none"
    BY DEF Fresh
  <2>1. d # e /\ promise[d] = "idle"
    BY DEF Base, Typed, Settlements
  <2> QED
    BY <2>1 DEF Base, Fresh, OthersWait
<1>3. Sited'
  <2> SUFFICES ASSUME NEW d \in Entries
               PROVE  stage'[d] # "none" <=> stage[d] # "none"
    BY DEF Sited, Base
  <2> QED
    BY DEF OthersWait
<1>4. \A d \in Entries : Places(d)' = Places(d)
  BY DEF Places
<1>5. WellPlaced(away)'
  <2> SUFFICES ASSUME NEW d \in Entries
               PROVE  /\ Places(d)' # {} => stage'[d] = "none" /\ d \notin away
                      /\ d \in away => stage'[d] = "none"
                      /\ promise'[d] = "waiting" <=>
                            Places(d)' # {} \/ d \in away \/ stage'[d] \in Unsettled
    BY <1>4 DEF Base, WellPlaced
  <2>1. CASE d = e
    BY <1>4, <2>1 DEF Base, Typed, WellPlaced
  <2>2. CASE d # e
    BY <1>4, <2>2 DEF Base, Typed, WellPlaced, OthersWait, Unsettled
  <2> QED
    BY <2>1, <2>2
<1> QED
  BY <1>1, <1>2, <1>3, <1>5 DEF Base

\* Mutex.release() seen by PipeBase: at most the first waiter moves on.
LEMMA ReleaseTestEffect ==
    ASSUME NEW away \in SUBSET Entries, Base(away),
           NEW e \in Entries, stage[e] \in {"entering", "testing"},
           NEW next \in Stages, ReleaseTest(e, next)
    PROVE  \E W \in SUBSET Blocked(site[e]) :
              /\ e \notin W
              /\ stage' = [d \in Entries |-> IF d = e THEN next
                                            ELSE IF d \in W THEN "entering" ELSE stage[d]]
              /\ before' \in SUBSET (Entries \X Entries)
              /\ \/ /\ W = {} /\ Blocked(site[e]) = {}
                    /\ testLocked' = [testLocked EXCEPT ![site[e]] = FALSE]
                 \/ /\ W # {} /\ \A v, w \in W : v = w
                    /\ UNCHANGED testLocked
<1> DEFINE c == site[e]
<1>1. CASE /\ Blocked(c) = {}
           /\ testLocked' = [testLocked EXCEPT ![c] = FALSE]
           /\ stage' = [stage EXCEPT ![e] = next]
           /\ UNCHANGED before
  <2> WITNESS {} \in SUBSET Blocked(site[e])
  <2> QED
    BY <1>1 DEF Base, Typed
<1>2. ASSUME NEW w \in Heads(Blocked(c)),
             stage' = [stage EXCEPT ![e] = next, ![w] = "entering"],
             before' = Without({w}), UNCHANGED testLocked
      PROVE  \E W \in SUBSET Blocked(site[e]) :
              /\ e \notin W
              /\ stage' = [d \in Entries |-> IF d = e THEN next
                                            ELSE IF d \in W THEN "entering" ELSE stage[d]]
              /\ before' \in SUBSET (Entries \X Entries)
              /\ \/ /\ W = {} /\ Blocked(site[e]) = {}
                    /\ testLocked' = [testLocked EXCEPT ![site[e]] = FALSE]
                 \/ /\ W # {} /\ \A v, u \in W : v = u
                    /\ UNCHANGED testLocked
  <2>1. w \in Blocked(c) /\ w \in Entries /\ w # e
    BY <1>2 DEF Heads, Blocked
  <2>2. {w} \in SUBSET Blocked(site[e])
    BY <2>1
  <2> WITNESS {w} \in SUBSET Blocked(site[e])
  <2>3. before' \in SUBSET (Entries \X Entries)
    BY <1>2 DEF Without, Base, Typed
  <2>4. stage' = [d \in Entries |-> IF d = e THEN next
                                   ELSE IF d \in {w} THEN "entering" ELSE stage[d]]
    BY <1>2, <2>1 DEF Base, Typed
  <2> QED
    BY <1>2, <2>1, <2>3, <2>4
<1> QED
  BY <1>1, <1>2 DEF ReleaseTest

\* PipeBase for a continuation that wakes nobody.
LEMMA LonePipeBase ==
    ASSUME NEW away \in SUBSET Entries, Base(away),
           NEW e \in Entries, stage[e] # "none",
           NEW next \in Stages \ {"none"}, NEW how \in Settlements \cup {"waiting"},
           stage' = [stage EXCEPT ![e] = next],
           promise' = [promise EXCEPT ![e] = how],
           how = "waiting" <=> next \in Unsettled,
           before' \in SUBSET (Entries \X Entries),
           testLocked' \in [Containers -> BOOLEAN],
           tainted' \in SUBSET Containers, orphaned' \in SUBSET Containers,
           UNCHANGED <<pending, excluded, spent, site, forced>>
    PROVE  Base(away)'
<1>1. stage' \in [Entries -> Stages] /\ stage'[e] = next /\ OthersWait(e)
  BY DEF Base, Typed, OthersWait
<1> QED
  BY <1>1, PipeBase

\* PipeBase for a continuation of the owner of the test mutex.
LEMMA OwnerPipeBase ==
    ASSUME NEW away \in SUBSET Entries, Base(away),
           NEW e \in Entries, stage[e] \in {"entering", "testing"},
           NEW next \in Stages \ {"none"}, NEW how \in Settlements \cup {"waiting"},
           ReleaseTest(e, next),
           promise' = [promise EXCEPT ![e] = how],
           how = "waiting" <=> next \in Unsettled,
           tainted' \in SUBSET Containers, orphaned' \in SUBSET Containers,
           UNCHANGED <<pending, excluded, spent, site, forced>>
    PROVE  Base(away)'
<1>1. PICK W \in SUBSET Blocked(site[e]) :
              /\ e \notin W
              /\ stage' = [d \in Entries |-> IF d = e THEN next
                                            ELSE IF d \in W THEN "entering" ELSE stage[d]]
              /\ before' \in SUBSET (Entries \X Entries)
              /\ \/ /\ W = {} /\ Blocked(site[e]) = {}
                    /\ testLocked' = [testLocked EXCEPT ![site[e]] = FALSE]
                 \/ /\ W # {} /\ \A v, w \in W : v = w
                    /\ UNCHANGED testLocked
  BY ReleaseTestEffect
<1>2. stage' \in [Entries -> Stages] /\ stage'[e] = next /\ OthersWait(e)
  BY <1>1 DEF Base, Typed, OthersWait, Blocked, Stages
<1>3. testLocked' \in [Containers -> BOOLEAN]
  BY <1>1 DEF Base, Typed
<1>4. stage[e] # "none"
  OBVIOUS
<1> QED
  BY <1>1, <1>2, <1>3, <1>4, PipeBase

LEMMA PipelineBase ==
    ASSUME NEW away \in SUBSET Entries, Base(away), NEW e \in Entries, Pipeline(e)
    PROVE  Base(away)'
<1> DEFINE Same == promise' = [promise EXCEPT ![e] = "waiting"]
<1>a. /\ before \in SUBSET (Entries \X Entries)
      /\ testLocked \in [Containers -> BOOLEAN]
      /\ tainted \in SUBSET Containers /\ orphaned \in SUBSET Containers
      /\ site[e] \in Containers \cup {Nowhere}
  BY DEF Base, Typed
<1>b. stage[e] \in Unsettled => promise[e] = "waiting"
  BY DEF Base, WellPlaced
<1>c. UNCHANGED promise /\ stage[e] \in Unsettled => Same
  BY <1>b DEF Base, Typed
<1>d. stage[e] # "none" => site[e] \in Containers
  BY DEF Base, Sited
<1> USE DEF listVars, permitVars, pipeVars, testVars, Stages, Settlements, Unsettled, Reject
<1>1. CASE PrepOk(e)
  BY <1>1, <1>a, <1>c, LonePipeBase DEF PrepOk
<1>2. CASE PrepThrows(e)
  BY <1>2, <1>a, LonePipeBase DEF PrepThrows
<1>3. CASE CompileThrows(e)
  BY <1>3, <1>a, LonePipeBase DEF CompileThrows
<1>4. CASE CompileEnds(e)
  <2>1. PICK result \in {"passed", "failed"} : stage' = [stage EXCEPT ![e] = result]
    BY <1>4 DEF CompileEnds
  <2> QED
    BY <1>4, <1>a, <1>c, <2>1, LonePipeBase DEF CompileEnds
<1>5. CASE CompileToTest(e)
  <2>1. CASE ~testLocked[site[e]]
    <3>1. /\ stage[e] = "compile" /\ stage' = [stage EXCEPT ![e] = "entering"]
          /\ testLocked' = [testLocked EXCEPT ![site[e]] = TRUE]
          /\ UNCHANGED <<before, promise, pending, excluded, spent, site, tainted, orphaned, forced>>
      BY <1>5, <2>1 DEF CompileToTest
    <3>2. testLocked' \in [Containers -> BOOLEAN]
      BY <3>1, <1>a
    <3> QED
      BY <3>1, <3>2, <1>a, <1>c, LonePipeBase
  <2>2. CASE testLocked[site[e]]
    <3>1. /\ stage[e] = "compile" /\ stage' = [stage EXCEPT ![e] = "blocked"]
          /\ before' = before \cup (Blocked(site[e]) \X {e})
          /\ UNCHANGED <<testLocked, promise, pending, excluded, spent, site, tainted, orphaned, forced>>
      BY <1>5, <2>2 DEF CompileToTest
    <3>2. before' \in SUBSET (Entries \X Entries)
      BY <3>1, <1>a DEF Blocked
    <3> QED
      BY <3>1, <3>2, <1>a, <1>c, LonePipeBase
  <2> QED
    BY <2>1, <2>2
<1>6. CASE TestBegins(e)
  BY <1>6, <1>a, <1>c, LonePipeBase DEF TestBegins
<1>7. CASE TestBarred(e)
  BY <1>7, <1>a, OwnerPipeBase DEF TestBarred
<1>8. CASE TestEnds(e)
  BY <1>8, <1>a, <1>c, OwnerPipeBase DEF TestEnds
<1>9. CASE TestThrows(e)
  BY <1>9, <1>a, OwnerPipeBase DEF TestThrows
<1>10. CASE TestTimesOut(e)
  BY <1>10, <1>a, <1>d, OwnerPipeBase DEF TestTimesOut
<1>11. CASE Settle(e)
  BY <1>11, <1>a, LonePipeBase DEF Settle
<1>12. CASE CleanupEnds(e)
  <2>1. promise[e] \in Settlements \cup {"waiting"} /\ promise[e] # "waiting"
    BY <1>12 DEF CleanupEnds, Base, Typed, Fresh, WellPlaced
  <2>2. promise' = [promise EXCEPT ![e] = promise[e]]
    BY <1>12 DEF CleanupEnds, Base, Typed
  <2> QED
    BY <1>12, <1>a, <2>1, <2>2, LonePipeBase DEF CleanupEnds
<1> QED
  BY <1>1, <1>2, <1>3, <1>4, <1>5, <1>6, <1>7, <1>8, <1>9, <1>10, <1>11, <1>12
  DEF Pipeline

LEMMA QueueTimeoutBase ==
    ASSUME NEW away \in SUBSET Entries, Base(away), NEW e \in Entries,
           NEW c \in Containers, QueueTimeout(e, c)
    PROVE  Base(away)'
<1>1. /\ e \in pending[c] /\ pending' = [pending EXCEPT ![c] = @ \ {e}]
      /\ before' = Without({e}) /\ promise' = [promise EXCEPT ![e] = "timeout"]
      /\ UNCHANGED <<excluded, spent, stage, site, testLocked, tainted, orphaned, forced>>
  BY DEF QueueTimeout, Reject, pipeVars, testVars
<1>2. Places(e) = {c} /\ stage[e] = "none" /\ e \notin away
  BY <1>1 DEF Base, WellPlaced, Places
<1>3. Places(e)' = {} /\ \A d \in Entries \ {e} : Places(d)' = Places(d)
  BY <1>1, <1>2 DEF Places, Base, Typed
<1>4. Typed'
  BY <1>1 DEF Base, Typed, Without, Settlements
<1>5. Fresh' /\ Sited'
  BY <1>1 DEF Base, Typed, Fresh, Sited
<1>6. WellPlaced(away)'
  <2> SUFFICES ASSUME NEW d \in Entries
               PROVE  /\ \A a, b \in Places(d)' : a = b
                      /\ Places(d)' # {} => stage'[d] = "none" /\ d \notin away
                      /\ d \in away => stage'[d] = "none"
                      /\ promise'[d] = "waiting" <=>
                            Places(d)' # {} \/ d \in away \/ stage'[d] \in Unsettled
    BY DEF WellPlaced
  <2>1. CASE d = e
    BY <1>1, <1>2, <1>3, <2>1 DEF Base, Typed, Unsettled
  <2>2. CASE d # e
    BY <1>1, <1>3, <2>2 DEF Base, Typed, WellPlaced
  <2> QED
    BY <2>1, <2>2
<1> QED
  BY <1>4, <1>5, <1>6 DEF Base

LEMMA DispatchBase ==
    ASSUME NEW away \in SUBSET Entries, Base(away), NEW c \in Containers, Dispatch(c)
    PROVE  Base(away)'
<1>1. PICK e \in Heads(pending[c]) :
        /\ pending' = [pending EXCEPT ![c] = @ \ {e}]
        /\ before' = Without({e})
        /\ stage' = [stage EXCEPT ![e] = "prep"]
        /\ site' = [site EXCEPT ![e] = c]
  BY DEF Dispatch
<1>2. UNCHANGED <<promise, excluded, spent, testLocked, tainted, orphaned, forced>>
  BY DEF Dispatch, testVars
<1>3. e \in pending[c] /\ e \in Entries
  BY DEF Heads, Base, Typed
<1>4. Places(e) = {c} /\ promise[e] = "waiting" /\ stage[e] = "none" /\ e \notin away
  BY <1>3 DEF Base, WellPlaced, Places
<1>5. Places(e)' = {} /\ \A d \in Entries \ {e} : Places(d)' = Places(d)
  BY <1>1, <1>3, <1>4 DEF Places, Base, Typed
<1>6. Typed'
  BY <1>1, <1>2, <1>3 DEF Base, Typed, Without, Stages
<1>7. Fresh' /\ Sited'
  BY <1>1, <1>2, <1>3, <1>4 DEF Base, Typed, Fresh, Sited
<1>8. WellPlaced(away)'
  <2> SUFFICES ASSUME NEW d \in Entries
               PROVE  /\ \A a, b \in Places(d)' : a = b
                      /\ Places(d)' # {} => stage'[d] = "none" /\ d \notin away
                      /\ d \in away => stage'[d] = "none"
                      /\ promise'[d] = "waiting" <=>
                            Places(d)' # {} \/ d \in away \/ stage'[d] \in Unsettled
    BY DEF WellPlaced
  <2>1. CASE d = e
    BY <1>1, <1>2, <1>3, <1>4, <1>5, <2>1 DEF Base, Typed, Unsettled
  <2>2. CASE d # e
    BY <1>1, <1>2, <1>3, <1>5, <2>2 DEF Base, Typed, WellPlaced
  <2> QED
    BY <2>1, <2>2
<1> QED
  BY <1>6, <1>7, <1>8 DEF Base

\* The rest moves no entry: time, an empty-handed dispatcher, the world.
LEMMA StillBase ==
    ASSUME NEW away \in SUBSET Entries, Base(away), UNCHANGED <<promise, pending,
           before, excluded, stage, site,
                             testLocked, tainted, forced>>,
           spent' \in SUBSET Entries, orphaned' \in SUBSET Containers
    PROVE  Base(away)'
  BY DEF Base, Typed, Fresh, Sited, WellPlaced, Places, Unsettled

LEMMA NextBase ==
    ASSUME NEW away \in SUBSET Entries, Base(away), [Next]_queueVars
    PROVE  Base(away)'
<1>a. spent \in SUBSET Entries /\ orphaned \in SUBSET Containers
  BY DEF Base, Typed
<1>1. ASSUME NEW e \in Entries, BudgetRunsOut(e) PROVE Base(away)'
  BY <1>1, <1>a, StillBase DEF BudgetRunsOut, permitVars, pipeVars, testVars
<1>2. ASSUME NEW e \in Entries, MaintenanceTimesOut(e) PROVE Base(away)'
  <2>1. site[e] \in Containers
    BY <1>2 DEF MaintenanceTimesOut, Base, Sited
  <2> QED
    BY <1>2, <1>a, <2>1, StillBase DEF MaintenanceTimesOut, listVars, permitVars, pipeVars
<1>3. ASSUME NEW c \in Containers, DispatchNothing(c) PROVE Base(away)'
  BY <1>3, <1>a, StillBase DEF DispatchNothing, listVars, pipeVars, testVars
<1>4. ASSUME NEW c \in Containers, OrphanEnds(c) PROVE Base(away)'
  BY <1>4, <1>a, StillBase DEF OrphanEnds, listVars, permitVars, pipeVars
<1>5. CASE UNCHANGED queueVars
  BY <1>5, <1>a, StillBase DEF queueVars, listVars, permitVars, pipeVars, testVars
<1>6. CASE QueueStep
  BY <1>6, <1>1, <1>2, <1>3, <1>4, PipelineBase, QueueTimeoutBase, DispatchBase DEF QueueStep
<1> QED
  BY <1>5, <1>6, EnqueueBase DEF Next

-----------------------------------------------------------------------------
(* The permit accounting.                                                  *)

\* The permit a dispatcher was granted and has not handed on.
Held(c) == IF dispatcher[c] = "granted" THEN 1 ELSE 0

LEMMA CompilingFinite ==
    ASSUME NEW c
    PROVE  IsFiniteSet(Compiling(c)) /\ Cardinality(Compiling(c)) \in Nat
<1>1. IsFiniteSet(Compiling(c))
  BY EntriesAssumption, FS_Subset DEF Compiling
<1> QED
  BY <1>1, FS_CardinalityType

\* Nobody enters or leaves a compile phase, and the counters stay.
LEMMA CountedSame ==
    ASSUME NEW away \in SUBSET Entries, QueueInv(away), UNCHANGED permitVars,
           \A c \in Containers : Compiling(c)' = Compiling(c)
    PROVE  Counted'
  BY DEF QueueInv, Counted, PermitAccounting, permitVars

\* releaseOnce(): a pipeline leaves its compile phase and gives its permit
\* back, to the dispatcher when that waits for one.
LEMMA ReleaseCounted ==
    ASSUME NEW away \in SUBSET Entries, QueueInv(away),
           NEW e \in Entries, stage[e] \in {"prep", "compile"},
           ReleasePermit(site[e]), UNCHANGED site,
           stage'[e] \notin {"prep", "compile"}, OthersWait(e)
    PROVE  Counted'
<1> DEFINE c == site[e]
<1>1. c \in Containers
  BY DEF QueueInv, Base, Sited
<1>2. e \in Compiling(c)
  BY DEF Compiling
<1>3. Compiling(c)' = Compiling(c) \ {e}
  BY DEF Compiling, OthersWait
<1>4. \A d \in Containers \ {c} : Compiling(d)' = Compiling(d)
  BY DEF Compiling, OthersWait
<1>5. /\ Cardinality(Compiling(c)) \in Nat
      /\ Cardinality(Compiling(c)) - 1 \in Nat
      /\ Cardinality(Compiling(c)') = Cardinality(Compiling(c)) - 1
  <2>1. IsFiniteSet(Compiling(c)) /\ Cardinality(Compiling(c)) \in Nat
    BY CompilingFinite
  <2>2. Cardinality(Compiling(c) \ {e}) = Cardinality(Compiling(c)) - 1
    BY <1>2, <2>1, FS_RemoveElement
  <2>3. IsFiniteSet(Compiling(c) \ {e})
    BY <2>1, FS_Subset
  <2>4. Cardinality(Compiling(c) \ {e}) \in Nat
    BY <2>3, FS_CardinalityType
  <2> QED
    BY <1>3, <2>1, <2>2, <2>4
<1>6. /\ dispatcher \in [Containers -> {"idle", "waiting", "granted"}]
      /\ permits \in [Containers -> Nat]
      /\ \A d \in Containers : permits[d] <= MaxPermits
      /\ \A d \in Containers : permits[d] = Cardinality(Compiling(d)) + Held(d)
  BY DEF QueueInv, Counted, PermitAccounting, Held
<1>7. CASE /\ dispatcher[c] = "waiting"
           /\ dispatcher' = [dispatcher EXCEPT ![c] = "granted"]
           /\ UNCHANGED permits
  <2>1. Held(c) = 0 /\ Held(c)' = 1 /\ \A d \in Containers \ {c} : Held(d)' = Held(d)
    BY <1>1, <1>6, <1>7 DEF Held
  <2>2. \A d \in Containers : permits'[d] = Cardinality(Compiling(d)') + Held(d)'
    BY <1>1, <1>4, <1>5, <1>6, <1>7, <2>1
  <2> QED
    BY <1>1, <1>6, <1>7, <2>2 DEF Counted, PermitAccounting, Held
<1>8. CASE /\ dispatcher[c] # "waiting"
           /\ permits' = [permits EXCEPT ![c] = @ - 1]
           /\ UNCHANGED dispatcher
  <2>1. Held(c) \in Nat /\ \A d \in Containers : Held(d)' = Held(d)
    BY <1>8 DEF Held
  <2>2. \A d \in Containers : permits'[d] = Cardinality(Compiling(d)') + Held(d)'
    BY <1>1, <1>4, <1>5, <1>6, <1>8, <2>1
  <2>3. permits'[c] \in Nat /\ permits'[c] <= MaxPermits
    BY <1>1, <1>5, <1>6, <1>8, <2>1, PermitsAssumption
  <2>4. permits' \in [Containers -> Nat] /\ \A d \in Containers : permits'[d] <= MaxPermits
    BY <1>1, <1>6, <1>8, <2>3
  <2> QED
    BY <1>6, <1>8, <2>2, <2>4 DEF Counted, PermitAccounting, Held
<1> QED
  BY <1>7, <1>8 DEF ReleasePermit

\* An enqueue starts the dispatcher of its queue, with a permit if one is
\* free.
LEMMA WakeCounted ==
    ASSUME NEW away \in SUBSET Entries, QueueInv(away),
           NEW L \in SUBSET Containers, Wake(L),
           \A c \in Containers : Compiling(c)' = Compiling(c)
    PROVE  Counted'
<1>1. /\ dispatcher \in [Containers -> {"idle", "waiting", "granted"}]
      /\ permits \in [Containers -> Nat]
      /\ \A d \in Containers : permits[d] <= MaxPermits
      /\ \A d \in Containers : permits[d] = Cardinality(Compiling(d)) + Held(d)
  BY DEF QueueInv, Counted, PermitAccounting, Held
<1> DEFINE idle == {c \in L : dispatcher[c] = "idle"}
           free == {c \in idle : permits[c] < MaxPermits}
<1>2. /\ dispatcher' = [c \in Containers |->
                           IF c \in free THEN "granted"
                           ELSE IF c \in idle \ free THEN "waiting" ELSE dispatcher[c]]
      /\ permits' = [c \in Containers |->
                           permits[c] + (IF c \in free THEN 1 ELSE 0)]
  BY DEF Wake
<1>3. /\ dispatcher' \in [Containers -> {"idle", "waiting", "granted"}]
      /\ permits' \in [Containers -> Nat]
  BY <1>1, <1>2
<1>4. ASSUME NEW d \in Containers
      PROVE  permits'[d] <= MaxPermits /\ permits'[d] = Cardinality(Compiling(d)') + Held(d)'
  <2>1. Cardinality(Compiling(d)) \in Nat
    BY CompilingFinite
  <2>2. CASE d \in free
    BY <1>1, <1>2, <2>1, <2>2, PermitsAssumption DEF Held
  <2>3. CASE d \notin free
    BY <1>1, <1>2, <2>1, <2>3, PermitsAssumption DEF Held
  <2> QED
    BY <2>2, <2>3
<1> QED
  BY <1>3, <1>4 DEF Counted, PermitAccounting, Held

\* The dispatcher hands its permit to the pipeline it starts, and may take
\* the next one.
LEMMA DispatchCounted ==
    ASSUME NEW away \in SUBSET Entries, QueueInv(away),
           NEW c \in Containers, Dispatch(c)
    PROVE  Counted'
<1>1. PICK e \in Heads(pending[c]) :
        /\ stage' = [stage EXCEPT ![e] = "prep"]
        /\ site' = [site EXCEPT ![e] = c]
        /\ \/ /\ dispatcher' = [dispatcher EXCEPT ![c] = "idle"]
              /\ UNCHANGED permits
           \/ /\ permits[c] < MaxPermits
              /\ permits' = [permits EXCEPT ![c] = @ + 1]
              /\ UNCHANGED dispatcher
           \/ /\ dispatcher' = [dispatcher EXCEPT ![c] = "waiting"]
              /\ UNCHANGED permits
  BY Zenon DEF Dispatch
<1>2. e \in pending[c] /\ e \in Entries
  BY DEF Heads, QueueInv, Base, Typed
<1>3. stage[e] = "none"
  BY <1>2 DEF QueueInv, Base, WellPlaced, Places
<1>4. e \notin Compiling(c) /\ Compiling(c)' = Compiling(c) \cup {e}
  BY <1>1, <1>2, <1>3 DEF Compiling, QueueInv, Base, Typed
<1>5. \A d \in Containers \ {c} : Compiling(d)' = Compiling(d)
  BY <1>1, <1>2, <1>3 DEF Compiling, QueueInv, Base, Typed
<1>6. /\ Cardinality(Compiling(c)) \in Nat
      /\ Cardinality(Compiling(c)') = Cardinality(Compiling(c)) + 1
  BY <1>4, CompilingFinite, FS_AddElement
<1>7. /\ dispatcher \in [Containers -> {"idle", "waiting", "granted"}]
      /\ permits \in [Containers -> Nat]
      /\ \A d \in Containers : permits[d] <= MaxPermits
      /\ \A d \in Containers : permits[d] = Cardinality(Compiling(d)) + Held(d)
      /\ dispatcher[c] = "granted"
  BY DEF QueueInv, Counted, PermitAccounting, Held, Dispatch
<1>8. /\ dispatcher' \in [Containers -> {"idle", "waiting", "granted"}]
      /\ permits' \in [Containers -> Nat]
      /\ \A d \in Containers : permits'[d] <= MaxPermits
  BY <1>1, <1>7, PermitsAssumption
<1>9. ASSUME NEW d \in Containers
      PROVE  permits'[d] = Cardinality(Compiling(d)') + Held(d)'
  <2>1. CASE d = c
    BY <1>1, <1>6, <1>7, <2>1 DEF Held
  <2>2. CASE d # c
    BY <1>1, <1>5, <1>7, <2>2 DEF Held
  <2> QED
    BY <2>1, <2>2
<1> QED
  BY <1>8, <1>9 DEF Counted, PermitAccounting, Held

LEMMA DispatchNothingCounted ==
    ASSUME NEW away \in SUBSET Entries, QueueInv(away),
           NEW c \in Containers, DispatchNothing(c)
    PROVE  Counted'
<1>1. \A d \in Containers : Compiling(d)' = Compiling(d)
  BY DEF DispatchNothing, pipeVars, Compiling
<1>2. /\ dispatcher \in [Containers -> {"idle", "waiting", "granted"}]
      /\ permits \in [Containers -> Nat]
      /\ \A d \in Containers : permits[d] <= MaxPermits
      /\ \A d \in Containers : permits[d] = Cardinality(Compiling(d)) + Held(d)
  BY DEF QueueInv, Counted, PermitAccounting, Held
<1>3. /\ dispatcher[c] = "granted"
      /\ permits' = [permits EXCEPT ![c] = @ - 1]
      /\ dispatcher' = [dispatcher EXCEPT ![c] = "idle"]
  BY DEF DispatchNothing
<1>4. ASSUME NEW d \in Containers
      PROVE  /\ permits'[d] \in Nat /\ permits'[d] <= MaxPermits
             /\ permits'[d] = Cardinality(Compiling(d)') + Held(d)'
  <2>1. Cardinality(Compiling(d)) \in Nat
    BY CompilingFinite
  <2> QED
    BY <1>1, <1>2, <1>3, <2>1, PermitsAssumption DEF Held
<1>5. /\ dispatcher' \in [Containers -> {"idle", "waiting", "granted"}]
      /\ permits' \in [Containers -> Nat]
  BY <1>2, <1>3, <1>4
<1> QED
  BY <1>4, <1>5 DEF Counted, PermitAccounting, Held

\* What a step of e's pipeline does to the stages, in every case.
LEMMA PipelineStages ==
    ASSUME NEW away \in SUBSET Entries, Base(away), NEW e \in Entries, Pipeline(e)
    PROVE  /\ stage[e] # "none" /\ stage'[e] # "prep" /\ OthersWait(e)
           /\ stage' \in [Entries -> Stages] /\ UNCHANGED site
<1>0. stage' \in [Entries -> Stages]
  BY PipelineBase DEF Base, Typed
<1>1. ASSUME NEW next, stage' = [stage EXCEPT ![e] = next]
      PROVE  OthersWait(e) /\ stage'[e] = next
  BY <1>1 DEF OthersWait, Base, Typed
<1>2. ASSUME stage[e] \in {"entering", "testing"},
             NEW next \in Stages, ReleaseTest(e, next)
      PROVE  OthersWait(e) /\ stage'[e] = next
  <2>1. PICK W \in SUBSET Blocked(site[e]) :
              stage' = [d \in Entries |-> IF d = e THEN next
                                         ELSE IF d \in W THEN "entering" ELSE stage[d]]
    BY SMTT(30), <1>2, ReleaseTestEffect
  <2> QED
    BY <2>1 DEF OthersWait, Blocked
<1>3. CASE PrepOk(e) \/ PrepThrows(e) \/ CompileThrows(e) \/ CompileEnds(e)
  BY <1>0, <1>1, <1>3 DEF PrepOk, PrepThrows, CompileThrows, CompileEnds, pipeVars
<1>4. CASE CompileToTest(e) \/ TestBegins(e) \/ Settle(e) \/ CleanupEnds(e)
  BY <1>0, <1>1, <1>4 DEF CompileToTest, TestBegins, Settle, CleanupEnds, pipeVars
<1>5. CASE TestBarred(e) \/ TestEnds(e) \/ TestThrows(e) \/ TestTimesOut(e)
  BY <1>0, <1>2, <1>5 DEF TestBarred, TestEnds, TestThrows, TestTimesOut, Stages
<1> QED
  BY <1>3, <1>4, <1>5 DEF Pipeline

LEMMA PipelineCounted ==
    ASSUME NEW away \in SUBSET Entries, QueueInv(away), NEW e \in Entries, Pipeline(e)
    PROVE  Counted'
<1>0. /\ stage[e] # "none" /\ stage'[e] # "prep" /\ OthersWait(e)
      /\ stage' \in [Entries -> Stages] /\ UNCHANGED site
  BY PipelineStages DEF QueueInv
<1>1. CASE stage[e] \in {"prep", "compile"} /\ ~PrepOk(e)
  <2>1. ReleasePermit(site[e])
    BY <1>1, Zenon DEF Pipeline, PrepThrows, CompileThrows, CompileEnds, CompileToTest,
          TestBegins, TestBarred, TestEnds, TestThrows, TestTimesOut, Settle, CleanupEnds
  <2>2. stage'[e] \notin {"prep", "compile"}
    BY <1>1 DEF Pipeline, PrepThrows, CompileThrows, CompileEnds, CompileToTest,
          TestBegins, TestBarred, TestEnds, TestThrows, TestTimesOut, Settle, CleanupEnds,
          QueueInv, Base, Typed
  <2> QED
    BY <1>0, <1>1, <2>1, <2>2, ReleaseCounted
<1>2. CASE PrepOk(e)
  <2>1. stage[e] = "prep" /\ stage'[e] = "compile" /\ UNCHANGED permitVars
    BY <1>2 DEF PrepOk, QueueInv, Base, Typed
  <2>2. \A c \in Containers : Compiling(c)' = Compiling(c)
    BY <1>0, <2>1 DEF Compiling, OthersWait
  <2> QED
    BY <2>1, <2>2, CountedSame
<1>3. CASE stage[e] \notin {"prep", "compile"}
  <2>1. UNCHANGED permitVars
    BY <1>3 DEF Pipeline, PrepOk, PrepThrows, CompileThrows, CompileEnds, CompileToTest,
          TestBegins, TestBarred, TestEnds, TestThrows, TestTimesOut, Settle, CleanupEnds
  <2>2. stage'[e] # "compile"
    <3>1. \A next \in {"cleanup", "passed", "failed"} :
             stage[e] \in {"entering", "testing"} /\ ReleaseTest(e, next) => stage'[e] = next
      <4> SUFFICES ASSUME NEW next \in {"cleanup", "passed", "failed"},
                          stage[e] \in {"entering", "testing"}, ReleaseTest(e, next)
                   PROVE  stage'[e] = next
        OBVIOUS
      <4>1. next \in Stages
        BY DEF Stages
      <4> QED
        BY <4>1, ReleaseTestEffect DEF QueueInv
    <3> QED
      BY <1>3, <3>1 DEF Pipeline, PrepOk, PrepThrows, CompileThrows, CompileEnds,
          CompileToTest, TestBegins, TestBarred, TestEnds, TestThrows, TestTimesOut,
          Settle, CleanupEnds, QueueInv, Base, Typed
  <2>3. \A c \in Containers : Compiling(c)' = Compiling(c)
    BY <1>0, <1>3, <2>2 DEF Compiling, OthersWait
  <2> QED
    BY <2>1, <2>3, CountedSame
<1> QED
  BY <1>1, <1>2, <1>3

LEMMA NextCounted ==
    ASSUME NEW away \in SUBSET Entries, QueueInv(away), [Next]_queueVars
    PROVE  Counted'
<1>1. ASSUME UNCHANGED pipeVars, UNCHANGED permitVars
      PROVE  Counted'
  BY <1>1, CountedSame DEF Compiling, pipeVars
<1>2. ASSUME NEW e \in Entries, NEW c \in Containers, NEW ex \in SUBSET Containers,
             Enqueue(e, c, ex)
      PROVE  Counted'
  <2>1. \A d \in Containers : Compiling(d)' = Compiling(d)
    BY <1>2 DEF Enqueue, pipeVars, Compiling
  <2>2. CASE Wake({c})
    <3>1. PICK L \in SUBSET Containers : L = {c}
      OBVIOUS
    <3> QED
      BY <2>1, <2>2, <3>1, WakeCounted
  <2>3. CASE UNCHANGED permitVars
    BY <2>1, <2>3, CountedSame
  <2> QED
    BY <1>2, <2>2, <2>3, Zenon DEF Enqueue
<1>3. ASSUME NEW e \in Entries, BudgetRunsOut(e) \/ MaintenanceTimesOut(e)
      PROVE  Counted'
  BY <1>1, <1>3 DEF BudgetRunsOut, MaintenanceTimesOut
<1>4. ASSUME NEW e \in Entries, NEW c \in Containers, QueueTimeout(e, c)
      PROVE  Counted'
  BY <1>1, <1>4 DEF QueueTimeout
<1>5. ASSUME NEW c \in Containers, OrphanEnds(c)
      PROVE  Counted'
  BY <1>1, <1>5 DEF OrphanEnds
<1>6. CASE UNCHANGED queueVars
  BY <1>1, <1>6 DEF queueVars
<1>7. CASE QueueStep
  BY <1>3, <1>4, <1>5, <1>7, PipelineCounted, DispatchCounted, DispatchNothingCounted
  DEF QueueStep
<1> QED
  BY <1>2, <1>6, <1>7 DEF Next

-----------------------------------------------------------------------------

LEMMA InitCounted == Init => Counted
<1>1. Init => \A c \in Containers : Compiling(c) = {}
  BY DEF Init, Compiling
<1> QED
  BY SMTT(30), <1>1, PermitsAssumption, FS_EmptySet DEF Init, Counted, PermitAccounting

\* The inductive invariant: where entries are, and what is counted.
THEOREM QueueInvariant == Spec => []QueueInv({})
<1>1. Init => QueueInv({})
  <2> SUFFICES ASSUME Init PROVE QueueInv({})
    OBVIOUS
  <2>1. Base({})
    BY NowhereAssumption DEF Init, Base, Typed, Fresh, Sited, WellPlaced, Places, Unsettled, Stages
  <2> QED
    BY <2>1, InitCounted DEF QueueInv
<1>2. QueueInv({}) /\ [Next]_queueVars => QueueInv({})'
  BY NextBase, NextCounted DEF QueueInv
<1> QED
  BY <1>1, <1>2, PTL DEF Spec

\* The queue's state is well typed: no permit counter drops below zero.
THEOREM TypeCorrect == Spec => []TypeOK
<1>1. QueueInv({}) => TypeOK
  BY DEF QueueInv, Base, Typed, Counted, TypeOK
<1> QED
  BY <1>1, QueueInvariant, PTL

\* compileSemaphore never leaks or invents a permit (releaseOnce, P1).
THEOREM PermitsAccounted == Spec => []PermitAccounting
<1>1. QueueInv({}) => PermitAccounting
  BY DEF QueueInv, Counted
<1> QED
  BY <1>1, QueueInvariant, PTL

\* An unsettled entry is in one queue or in one pipeline, a settled one in
\* none: no timer, dispatcher or pipeline settles an entry another holds.
THEOREM OnePlace == Spec => []ExactlyOnePlace
<1>1. QueueInv({}) => ExactlyOnePlace
  BY DEF QueueInv, Base, WellPlaced, ExactlyOnePlace
<1> QED
  BY <1>1, QueueInvariant, PTL

-----------------------------------------------------------------------------
(* The test mutex and the taint barrier.                                   *)

\* A test runs on a container whose queue is not tainted.
UntaintedTests == \A e \in Entries : stage[e] = "testing" => site[e] \notin tainted

TestInv == TestMutexOK /\ UntaintedTests

\* Nobody enters, leaves or waits for a test phase.
LEMMA TestSame ==
    ASSUME TestInv, UNCHANGED <<testLocked, tainted, site>>,
           \A e \in Entries : stage[e] \in {"blocked", "entering", "testing"}
                              \/ stage'[e] \in {"blocked", "entering", "testing"}
                             => stage'[e] = stage[e]
    PROVE  TestInv'
<1>1. \A c \in Containers : InTest(c)' = InTest(c) /\ Blocked(c)' = Blocked(c)
  BY DEF InTest, Blocked
<1>2. TestMutexOK'
  BY <1>1 DEF TestInv, TestMutexOK
<1>3. UntaintedTests'
  BY DEF TestInv, UntaintedTests
<1> QED
  BY <1>2, <1>3 DEF TestInv

\* testMutex.acquire(): at once when the lock is free, else in line.
LEMMA AcquireTest ==
    ASSUME NEW away \in SUBSET Entries, Base(away), TestInv,
           NEW e \in Entries, CompileToTest(e)
    PROVE  TestInv'
<1> DEFINE c == site[e]
<1>1. /\ c \in Containers /\ stage[e] = "compile"
      /\ UNCHANGED <<site, tainted>>
  BY DEF CompileToTest, Base, Sited
<1>2. CASE ~testLocked[c]
  <2>1. /\ stage' = [stage EXCEPT ![e] = "entering"]
        /\ testLocked' = [testLocked EXCEPT ![c] = TRUE]
    BY <1>2 DEF CompileToTest
  <2>2. InTest(c) = {} /\ Blocked(c) = {}
    BY <1>1, <1>2 DEF TestInv, TestMutexOK
  <2>3. InTest(c)' = {e} /\ Blocked(c)' = {}
    BY <1>1, <2>1, <2>2 DEF InTest, Blocked, Base, Typed
  <2>4. \A d \in Containers \ {c} : InTest(d)' = InTest(d) /\ Blocked(d)' = Blocked(d)
    BY <1>1, <2>1 DEF InTest, Blocked, Base, Typed
  <2>5. TestMutexOK'
    <3>1. testLocked'[c] = TRUE /\ \A d \in Containers \ {c} : testLocked'[d] = testLocked[d]
      BY <1>1, <2>1 DEF Base, Typed
    <3> QED
      BY <1>1, <2>3, <2>4, <3>1 DEF TestInv, TestMutexOK
  <2>6. UntaintedTests'
    BY <1>1, <2>1 DEF TestInv, UntaintedTests, Base, Typed
  <2> QED
    BY <2>5, <2>6 DEF TestInv
<1>3. CASE testLocked[c]
  <2>1. stage' = [stage EXCEPT ![e] = "blocked"] /\ UNCHANGED testLocked
    BY <1>3 DEF CompileToTest
  <2>2. \A d \in Containers : InTest(d)' = InTest(d)
    BY <1>1, <2>1 DEF InTest, Base, Typed
  <2>3. \A d \in Containers \ {c} : Blocked(d)' = Blocked(d)
    BY <1>1, <2>1 DEF Blocked, Base, Typed
  <2>4. TestMutexOK'
    BY <1>1, <1>3, <2>1, <2>2, <2>3 DEF TestInv, TestMutexOK
  <2>5. UntaintedTests'
    BY <1>1, <2>1 DEF TestInv, UntaintedTests, Base, Typed
  <2> QED
    BY <2>4, <2>5 DEF TestInv
<1> QED
  BY <1>2, <1>3

\* testMutex.release(): the first waiter owns the lock, or it is free; the
\* owner is out, so tainting its container bars nobody who is testing.
LEMMA OwnerLeaves ==
    ASSUME NEW away \in SUBSET Entries, Base(away), TestInv,
           NEW e \in Entries, stage[e] \in {"entering", "testing"},
           NEW next \in {"cleanup", "passed", "failed"}, ReleaseTest(e, next),
           UNCHANGED site, tainted' \subseteq tainted \cup {site[e]}
    PROVE  TestInv'
<1> DEFINE c == site[e]
<1>1. c \in Containers /\ e \in InTest(c) /\ next \in Stages
  BY DEF Base, Sited, InTest, Stages
<1>2. InTest(c) = {e} /\ testLocked[c]
  BY <1>1 DEF TestInv, TestMutexOK
<1>3. PICK W \in SUBSET Blocked(c) :
              /\ e \notin W
              /\ stage' = [d \in Entries |-> IF d = e THEN next
                                            ELSE IF d \in W THEN "entering" ELSE stage[d]]
              /\ before' \in SUBSET (Entries \X Entries)
              /\ \/ /\ W = {} /\ Blocked(c) = {}
                    /\ testLocked' = [testLocked EXCEPT ![c] = FALSE]
                 \/ /\ W # {} /\ \A v, w \in W : v = w
                    /\ UNCHANGED testLocked
  BY <1>1, ReleaseTestEffect
<1>4. InTest(c)' = W /\ Blocked(c)' = Blocked(c) \ W
  BY <1>1, <1>2, <1>3 DEF InTest, Blocked
<1>5. \A d \in Containers \ {c} : InTest(d)' = InTest(d) /\ Blocked(d)' = Blocked(d)
  BY <1>1, <1>3 DEF InTest, Blocked
<1>6. TestMutexOK'
  <2>1. CASE W = {} /\ Blocked(c) = {} /\ testLocked' = [testLocked EXCEPT ![c] = FALSE]
    BY <1>1, <1>4, <1>5, <2>1 DEF TestInv, TestMutexOK, Base, Typed
  <2>2. CASE W # {} /\ (\A v, w \in W : v = w) /\ UNCHANGED testLocked
    BY <1>1, <1>2, <1>4, <1>5, <2>2 DEF TestInv, TestMutexOK
  <2> QED
    BY <1>3, <2>1, <2>2
<1>7. UntaintedTests'
  <2> SUFFICES ASSUME NEW d \in Entries, stage'[d] = "testing"
               PROVE  site[d] \notin tainted'
    BY DEF UntaintedTests
  <2>1. d # e /\ stage[d] = "testing"
    BY <1>3
  <2>2. d \in InTest(site[d]) /\ site[d] # c
    BY <1>2, <2>1 DEF InTest
  <2> QED
    BY <2>1, <2>2 DEF TestInv, UntaintedTests
<1> QED
  BY <1>6, <1>7 DEF TestInv

\* Past the taint barrier, which is read while the lock is held.
LEMMA TestBeginsOK ==
    ASSUME NEW away \in SUBSET Entries, Base(away), TestInv,
           NEW e \in Entries, TestBegins(e)
    PROVE  TestInv'
<1>1. /\ stage[e] = "entering" /\ site[e] \notin tainted
      /\ stage' = [stage EXCEPT ![e] = "testing"]
      /\ UNCHANGED <<site, testLocked, tainted>>
  BY DEF TestBegins, testVars
<1>2. \A c \in Containers : InTest(c)' = InTest(c) /\ Blocked(c)' = Blocked(c)
  BY <1>1 DEF InTest, Blocked, Base, Typed
<1>3. TestMutexOK'
  BY <1>1, <1>2 DEF TestInv, TestMutexOK
<1>4. UntaintedTests'
  BY <1>1 DEF TestInv, UntaintedTests, Base, Typed
<1> QED
  BY <1>3, <1>4 DEF TestInv

LEMMA PipelineTest ==
    ASSUME NEW away \in SUBSET Entries, Base(away), TestInv,
           NEW e \in Entries, Pipeline(e)
    PROVE  TestInv'
<1>1. CASE PrepOk(e) \/ PrepThrows(e) \/ CompileThrows(e) \/ CompileEnds(e)
  BY <1>1, TestSame
  DEF PrepOk, PrepThrows, CompileThrows, CompileEnds, testVars, Base, Typed
<1>2. CASE Settle(e) \/ CleanupEnds(e)
  BY <1>2, TestSame DEF Settle, CleanupEnds, testVars, Base, Typed
<1>3. CASE TestBarred(e) \/ TestEnds(e) \/ TestThrows(e)
  BY <1>3, OwnerLeaves DEF TestBarred, TestEnds, TestThrows, TestInv
<1>4. CASE TestTimesOut(e)
  BY <1>4, OwnerLeaves DEF TestTimesOut, TestInv
<1> QED
  BY <1>1, <1>2, <1>3, <1>4, AcquireTest, TestBeginsOK DEF Pipeline

LEMMA NextTest ==
    ASSUME NEW away \in SUBSET Entries, QueueInv(away), TestInv, [Next]_queueVars
    PROVE  TestInv'
<1>1. ASSUME UNCHANGED <<pipeVars, testLocked, tainted>>
      PROVE  TestInv'
  BY <1>1, TestSame DEF pipeVars
<1>2. ASSUME NEW e \in Entries, MaintenanceTimesOut(e)
      PROVE  TestInv'
  <2>1. UNCHANGED <<stage, site, testLocked, tainted>>
    BY <1>2 DEF MaintenanceTimesOut, pipeVars
  <2>2. \A c \in Containers : InTest(c)' = InTest(c) /\ Blocked(c)' = Blocked(c)
    BY <2>1 DEF InTest, Blocked
  <2> QED
    BY <2>1, <2>2 DEF TestInv, TestMutexOK, UntaintedTests
<1>3. ASSUME NEW c \in Containers, Dispatch(c)
      PROVE  TestInv'
  <2>1. PICK e \in Heads(pending[c]) :
          stage' = [stage EXCEPT ![e] = "prep"] /\ site' = [site EXCEPT ![e] = c]
    BY <1>3 DEF Dispatch
  <2>2. UNCHANGED <<testLocked, tainted>>
    BY <1>3 DEF Dispatch, testVars
  <2>3. e \in Entries /\ stage[e] = "none"
    BY <2>1 DEF Heads, QueueInv, Base, Typed, WellPlaced, Places
  <2>4. \A d \in Containers : InTest(d)' = InTest(d) /\ Blocked(d)' = Blocked(d)
    BY <2>1, <2>3 DEF InTest, Blocked, QueueInv, Base, Typed
  <2> QED
    BY <2>1, <2>2, <2>3, <2>4
    DEF TestInv, TestMutexOK, UntaintedTests, QueueInv, Base, Typed
<1>4. ASSUME NEW e \in Entries, NEW c \in Containers,
             QueueTimeout(e, c) \/ (\E ex \in SUBSET Containers : Enqueue(e, c, ex))
      PROVE  TestInv'
  BY <1>1, <1>4 DEF QueueTimeout, Enqueue, testVars
<1>5. ASSUME NEW e \in Entries, BudgetRunsOut(e)
      PROVE  TestInv'
  BY <1>1, <1>5 DEF BudgetRunsOut, testVars
<1>6. ASSUME NEW c \in Containers, DispatchNothing(c) \/ OrphanEnds(c)
      PROVE  TestInv'
  BY <1>1, <1>6 DEF DispatchNothing, OrphanEnds, testVars
<1>7. CASE UNCHANGED queueVars
  BY <1>1, <1>7 DEF queueVars, testVars
<1>8. CASE QueueStep
  BY <1>2, <1>3, <1>4, <1>5, <1>6, <1>8, PipelineTest DEF QueueStep, QueueInv
<1> QED
  BY <1>4, <1>7, <1>8 DEF Next

\* With no maintenance behind the queue's back, an operation is given up only
\* together with the taint of its queue.
LEMMA GivenUpTaints ==
    ASSUME ~NstMaintenance, [Next]_queueVars
    PROVE  orphaned' \ tainted' \subseteq orphaned \ tainted
<1>1. ASSUME NEW e \in Entries, TestTimesOut(e)
      PROVE  orphaned' \ tainted' \subseteq orphaned \ tainted
  BY <1>1 DEF TestTimesOut
<1>2. ASSUME NEW c \in Containers, OrphanEnds(c)
      PROVE  orphaned' \ tainted' \subseteq orphaned \ tainted
  BY <1>2 DEF OrphanEnds
<1>3. ASSUME NEW e \in Entries, Pipeline(e), ~TestTimesOut(e)
      PROVE  UNCHANGED <<tainted, orphaned>>
  BY <1>3 DEF Pipeline, PrepOk, PrepThrows, CompileThrows, CompileEnds, CompileToTest,
     TestBegins, TestBarred, TestEnds, TestThrows, Settle, CleanupEnds, testVars
<1>4. ASSUME NEW e \in Entries, NEW c \in Containers,
             QueueTimeout(e, c) \/ (\E ex \in SUBSET Containers : Enqueue(e, c, ex))
      PROVE  UNCHANGED <<tainted, orphaned>>
  BY <1>4 DEF QueueTimeout, Enqueue, testVars
<1>5. ASSUME NEW e \in Entries, BudgetRunsOut(e)
      PROVE  UNCHANGED <<tainted, orphaned>>
  BY <1>5 DEF BudgetRunsOut, testVars
<1>6. ASSUME NEW c \in Containers, Dispatch(c) \/ DispatchNothing(c)
      PROVE  UNCHANGED <<tainted, orphaned>>
  BY <1>6 DEF Dispatch, DispatchNothing, testVars
<1>7. ASSUME NEW e \in Entries, MaintenanceTimesOut(e)
      PROVE  FALSE
  BY <1>7 DEF MaintenanceTimesOut
<1>8. CASE UNCHANGED queueVars
  BY <1>8 DEF queueVars, testVars
<1> QED
  BY <1>1, <1>2, <1>3, <1>4, <1>5, <1>6, <1>7, <1>8 DEF Next, QueueStep

THEOREM TestInvariant == Spec => []TestInv
<1>1. Init => TestInv
  BY DEF Init, TestInv, TestMutexOK, UntaintedTests, InTest, Blocked
<1>2. QueueInv({}) /\ TestInv /\ [Next]_queueVars => TestInv'
  BY NextTest
<1> QED
  BY <1>1, <1>2, QueueInvariant, PTL DEF Spec

\* One owner of the test mutex per container, locked exactly while there is
\* one, and nobody waits for a free lock.
THEOREM MutexHolds == Spec => []TestMutexOK
<1>1. TestInv => TestMutexOK
  BY DEF TestInv
<1> QED
  BY <1>1, TestInvariant, PTL

\* Without in-container maintenance, no test runs beside an operation that
\* timed out in its container (C4).
THEOREM NoOrphanBeside ==
    ASSUME ~NstMaintenance
    PROVE  Spec => []NoTestBesideOrphan
<1>1. Init => orphaned \subseteq tainted
  BY DEF Init
<1>2. orphaned \subseteq tainted /\ [Next]_queueVars => (orphaned \subseteq tainted)'
  BY GivenUpTaints
<1>3. TestInv /\ orphaned \subseteq tainted => NoTestBesideOrphan
  BY DEF TestInv, UntaintedTests, NoTestBesideOrphan
<1> QED
  BY <1>1, <1>2, <1>3, TestInvariant, PTL DEF Spec

\* A test has its container to itself: no other test, and without in-container
\* maintenance no operation that timed out there.
THEOREM TestsRunAlone ==
    ASSUME ~NstMaintenance
    PROVE  Spec => []TestsAlone
<1>1. TestMutexOK /\ NoTestBesideOrphan => TestsAlone
  BY DEF TestsAlone
<1> QED
  BY <1>1, MutexHolds, NoOrphanBeside, PTL

-----------------------------------------------------------------------------
(* The dispatchers.                                                        *)

\* No queue's entries are left with an idle dispatcher by a step that only
\* takes entries away, or by one that does not touch queue and counters.
LEMMA StallSame ==
    ASSUME NoStall, UNCHANGED permitVars,
           \A c \in Containers : pending'[c] \subseteq pending[c]
    PROVE  NoStall'
  BY DEF NoStall, permitVars

LEMMA ReleaseStall ==
    ASSUME NEW away \in SUBSET Entries, QueueInv(away), NoStall,
           NEW c \in Containers, ReleasePermit(c), UNCHANGED pending
    PROVE  NoStall'
  BY DEF NoStall, ReleasePermit, QueueInv, Counted

LEMMA EnqueueStall ==
    ASSUME NEW away \in SUBSET Entries, QueueInv(away), NoStall, NEW e \in Entries,
           NEW c \in Containers,
           NEW ex \in SUBSET Containers, Enqueue(e, c, ex)
    PROVE  NoStall'
<1>1. CASE UNCHANGED <<listVars, permitVars>>
  BY <1>1 DEF NoStall, listVars, permitVars
<1>2. CASE Wake({c}) /\ pending' = [pending EXCEPT ![c] = @ \cup {e}]
  <2> DEFINE idle == {d \in {c} : dispatcher[d] = "idle"}
             free == {d \in idle : permits[d] < MaxPermits}
  <2>1. /\ dispatcher' = [d \in Containers |->
                             IF d \in free THEN "granted"
                             ELSE IF d \in idle \ free THEN "waiting" ELSE dispatcher[d]]
        /\ permits' = [d \in Containers |->
                             permits[d] + (IF d \in free THEN 1 ELSE 0)]
    BY <1>2 DEF Wake
  <2>2. /\ permits \in [Containers -> Nat]
        /\ \A d \in Containers : permits[d] <= MaxPermits
    BY DEF QueueInv, Counted, PermitAccounting
  <2>3. ASSUME NEW d \in Containers
        PROVE  /\ pending'[d] # {} => dispatcher'[d] # "idle"
               /\ dispatcher'[d] = "waiting" => permits'[d] = MaxPermits
    <3>1. CASE d \in idle
      BY <2>1, <2>2, <3>1, PermitsAssumption
    <3>2. CASE d \notin idle
      <4>1. permits'[d] = permits[d] /\ dispatcher'[d] = dispatcher[d]
        BY <2>1, <2>2, <3>2
      <4>2. dispatcher[d] = "waiting" => permits[d] = MaxPermits
        BY DEF NoStall
      <4>3. pending'[d] # {} => dispatcher[d] # "idle"
        <5>1. CASE d = c
          BY <3>2, <5>1
        <5>2. CASE d # c
          <6>1. pending'[d] = pending[d]
            BY <1>2, <5>2 DEF QueueInv, Base, Typed
          <6> QED
            BY <6>1 DEF NoStall
        <5> QED
          BY <5>1, <5>2
      <4> QED
        BY <4>1, <4>2, <4>3
    <3> QED
      BY <3>1, <3>2
  <2> QED
    BY <2>3 DEF NoStall
<1> QED
  BY <1>1, <1>2, Zenon DEF Enqueue

LEMMA DispatchStall ==
    ASSUME NEW away \in SUBSET Entries, QueueInv(away), NoStall,
           NEW c \in Containers, Dispatch(c)
    PROVE  NoStall'
<1>1. PICK e \in Heads(pending[c]) :
        /\ pending' = [pending EXCEPT ![c] = @ \ {e}]
        /\ \/ /\ pending[c] = {e}
              /\ dispatcher' = [dispatcher EXCEPT ![c] = "idle"]
              /\ UNCHANGED permits
           \/ /\ permits' = [permits EXCEPT ![c] = @ + 1]
              /\ UNCHANGED dispatcher
           \/ /\ permits[c] >= MaxPermits
              /\ dispatcher' = [dispatcher EXCEPT ![c] = "waiting"]
              /\ UNCHANGED permits
  BY Zenon DEF Dispatch
<1>2. /\ permits \in [Containers -> Nat] /\ permits[c] <= MaxPermits
      /\ dispatcher \in [Containers -> {"idle", "waiting", "granted"}]
      /\ pending \in [Containers -> SUBSET Entries]
      /\ dispatcher[c] = "granted"
  BY DEF QueueInv, Base, Typed, Counted, PermitAccounting, Dispatch
<1>3. ASSUME NEW d \in Containers
      PROVE  /\ pending'[d] # {} => dispatcher'[d] # "idle"
             /\ dispatcher'[d] = "waiting" => permits'[d] = MaxPermits
  <2>1. CASE d = c
    BY <1>1, <1>2, <2>1, PermitsAssumption
  <2>2. CASE d # c
    BY <1>1, <1>2, <2>2 DEF NoStall
  <2> QED
    BY <2>1, <2>2
<1> QED
  BY <1>3 DEF NoStall

LEMMA NextStall ==
    ASSUME NEW away \in SUBSET Entries, QueueInv(away), NoStall, [Next]_queueVars
    PROVE  NoStall'
<1>a. ASSUME UNCHANGED pending, UNCHANGED permitVars
      PROVE  NoStall'
  BY <1>a DEF NoStall, permitVars
<1>1. ASSUME NEW e \in Entries, Pipeline(e)
      PROVE  NoStall'
  <2>1. UNCHANGED pending /\ (UNCHANGED permitVars \/ ReleasePermit(site[e]))
    BY <1>1 DEF Pipeline, PrepOk, PrepThrows, CompileThrows, CompileEnds, CompileToTest,
          TestBegins, TestBarred, TestEnds, TestThrows, TestTimesOut, Settle, CleanupEnds,
          listVars
  <2>2. site[e] \in Containers
    BY <1>1, PipelineStages DEF QueueInv, Base, Sited
  <2> QED
    BY <1>a, <2>1, <2>2, ReleaseStall
<1>2. ASSUME NEW e \in Entries, BudgetRunsOut(e) \/ MaintenanceTimesOut(e)
      PROVE  NoStall'
  BY <1>a, <1>2 DEF BudgetRunsOut, MaintenanceTimesOut, listVars
<1>3. ASSUME NEW e \in Entries, NEW c \in Containers, QueueTimeout(e, c)
      PROVE  NoStall'
  BY <1>3, StallSame DEF QueueTimeout, QueueInv, Base, Typed
<1>4. ASSUME NEW c \in Containers, DispatchNothing(c)
      PROVE  NoStall'
  BY <1>4 DEF DispatchNothing, listVars, NoStall, QueueInv, Counted
<1>5. ASSUME NEW c \in Containers, OrphanEnds(c)
      PROVE  NoStall'
  BY <1>a, <1>5 DEF OrphanEnds, listVars
<1>6. CASE UNCHANGED queueVars
  BY <1>a, <1>6 DEF queueVars, listVars
<1>7. CASE QueueStep
  BY <1>1, <1>2, <1>3, <1>4, <1>5, <1>7, DispatchStall DEF QueueStep
<1> QED
  BY <1>6, <1>7, EnqueueStall DEF Next

\* Work is never stranded by the `dispatching` flag: a queue that holds
\* entries has a running dispatcher, which sleeps only for want of permits.
THEOREM NeverStalls == Spec => []NoStall
<1>1. Init => NoStall
  BY DEF Init, NoStall
<1>2. QueueInv({}) /\ NoStall /\ [Next]_queueVars => NoStall'
  BY NextStall
<1> QED
  BY <1>1, <1>2, QueueInvariant, PTL DEF Spec
-----------------------------------------------------------------------------
(* The pool. *)

PoolTyped ==
    /\ alert \in [Containers -> AlertKinds]
    /\ readmit \in [Containers -> {"no", "quiesced", "replaced"}]
    /\ parked \in SUBSET Entries

\* Where everything is.
PlaceInv == PoolTyped /\ QueueInv(parked)

PoolInv == PlaceInv /\ RoutedWell

-----------------------------------------------------------------------------
(* Plans. *)

At(pe, e) == {c \in Containers : e \in pe[c]}

\* Base, of promises, pending lists and parked entries other than those of
\* the present state.
Fits(pr, pe, pa) ==
    /\ pr \in [Entries -> {"idle", "waiting"} \cup Settlements]
    /\ pe \in [Containers -> SUBSET Entries]
    /\ pa \in SUBSET Entries
    /\ \A e \in Entries :
        /\ pr[e] = "idle" => stage[e] = "none"
        /\ \A c, d \in At(pe, e) : c = d
        /\ At(pe, e) # {} => stage[e] = "none" /\ e \notin pa
        /\ e \in pa => stage[e] = "none"
        /\ pr[e] = "waiting" <=> At(pe, e) # {} \/ e \in pa \/ stage[e] \in Unsettled

\* A plan for the entries of D, which sends work to the containers of `open`
\* that the entry does not exclude, and parks only what has none.
IsPlan(plan, D, open) ==
    /\ plan \in [D -> Containers \cup {"parked", "timeout", "error"}]
    /\ \A e \in D :
        /\ plan[e] \in Containers => plan[e] \in open \ excluded[e]
        /\ plan[e] = "parked" => open \subseteq excluded[e]

LEMMA FlushIsPlan ==
    ASSUME NEW open \in SUBSET Containers, NEW plan \in FlushPlans(open)
    PROVE  IsPlan(plan, parked, open)
<1> DEFINE choice == [e \in parked |->
              LET allowed == open \ excluded[e] IN
              IF allowed = {} THEN {"parked"}
              ELSE IF e \in spent THEN {"timeout"} ELSE allowed]
<1>1. /\ plan \in [parked -> Containers \cup {"parked", "timeout", "error"}]
      /\ \A e \in parked : plan[e] \in choice[e]
  BY DEF FlushPlans, Plans
<1>2. ASSUME NEW e \in parked
      PROVE  \/ plan[e] = "parked" /\ open \ excluded[e] = {}
             \/ plan[e] = "timeout"
             \/ plan[e] \in open \ excluded[e]
  BY <1>1
<1>3. {"parked", "timeout", "error"} \cap Containers = {}
  BY PoolAssumption
<1> QED
  BY <1>1, <1>2, <1>3 DEF IsPlan

LEMMA DrainIsPlan ==
    ASSUME NEW D, NEW open \in SUBSET Containers, NEW kind,
           NEW plan \in DrainPlans(D, open, kind)
    PROVE  IsPlan(plan, D, open)
<1> DEFINE choice == [e \in D |->
              LET allowed == open \ excluded[e] IN
              IF open = {} /\ ~canRecover(kind) THEN {"error"}
              ELSE IF e \in spent THEN {"timeout"}
              ELSE IF allowed = {} THEN {"parked"} ELSE allowed]
<1>1. /\ plan \in [D -> Containers \cup {"parked", "timeout", "error"}]
      /\ \A e \in D : plan[e] \in choice[e]
  BY DEF DrainPlans, Plans
<1>2. ASSUME NEW e \in D
      PROVE  \/ plan[e] = "parked" /\ open \ excluded[e] = {}
             \/ plan[e] \in {"timeout", "error"}
             \/ plan[e] \in open \ excluded[e]
  BY <1>1
<1>3. {"parked", "timeout", "error"} \cap Containers = {}
  BY PoolAssumption
<1> QED
  BY <1>1, <1>2, <1>3 DEF IsPlan

\* Each entry of a plan is afterwards where the plan says, and nowhere else.
LEMMA PlanFits ==
    ASSUME Fits(promise, pending, parked),
           NEW D \in SUBSET Entries, NEW open \in SUBSET Containers, NEW plan,
           IsPlan(plan, D, open),
           \A e \in D : e \in parked \/ At(pending, e) # {}
    PROVE  Fits(PromiseAfter(plan), PendingAfter(plan), ParkedAfter(plan))
<1>1. {"parked", "timeout", "error"} \cap Containers = {}
  BY PoolAssumption
<1>2. DOMAIN plan = D
  BY DEF IsPlan
<1>3. PromiseAfter(plan) \in [Entries -> {"idle", "waiting"} \cup Settlements]
  BY <1>2 DEF PromiseAfter, Fits, Settlements
<1>4. PendingAfter(plan) \in [Containers -> SUBSET Entries]
  BY <1>2 DEF PendingAfter, Going, Fits
<1>5. ParkedAfter(plan) \in SUBSET Entries
  BY <1>2 DEF ParkedAfter, Going, Fits
<1>6. ASSUME NEW e \in Entries
      PROVE  /\ PromiseAfter(plan)[e] = "idle" => stage[e] = "none"
             /\ \A c, d \in At(PendingAfter(plan), e) : c = d
             /\ At(PendingAfter(plan), e) # {} => stage[e] = "none" /\ e \notin ParkedAfter(plan)
             /\ e \in ParkedAfter(plan) => stage[e] = "none"
             /\ PromiseAfter(plan)[e] = "waiting" <=>
                   At(PendingAfter(plan), e) # {} \/ e \in ParkedAfter(plan) \/ stage[e] \in Unsettled
  <2>1. CASE e \notin D
    <3>1. At(PendingAfter(plan), e) = At(pending, e)
      BY <1>2, <2>1 DEF At, PendingAfter, Going
    <3>2. e \in ParkedAfter(plan) <=> e \in parked
      BY <1>2, <2>1 DEF ParkedAfter, Going
    <3>3. PromiseAfter(plan)[e] = promise[e]
      BY <1>2, <2>1 DEF PromiseAfter
    <3> QED
      BY <3>1, <3>2, <3>3 DEF Fits
  <2>2. CASE e \in D
    <3>1. stage[e] = "none" /\ promise[e] = "waiting"
      BY <2>2 DEF Fits
    <3>2. stage[e] \notin Unsettled
      BY <3>1 DEF Unsettled
    <3>3. At(PendingAfter(plan), e) = {c \in Containers : plan[e] = c}
      BY <1>2, <2>2 DEF At, PendingAfter, Going
    <3>4. e \in ParkedAfter(plan) <=> plan[e] = "parked"
      BY <1>2, <2>2 DEF ParkedAfter, Going
    <3>5. PromiseAfter(plan)[e] = IF plan[e] \in {"timeout", "error"} THEN plan[e] ELSE "waiting"
      BY <1>2, <2>2, <3>1 DEF PromiseAfter
    <3>6. plan[e] \in Containers \cup {"parked", "timeout", "error"}
      BY <2>2 DEF IsPlan
    <3>7. CASE plan[e] \in Containers
      <4>1. At(PendingAfter(plan), e) = {plan[e]}
        BY <3>3, <3>7
      <4> QED
        BY <1>1, <3>1, <3>4, <3>5, <3>7, <4>1
    <3>8. CASE plan[e] \in {"parked", "timeout", "error"}
      <4>1. At(PendingAfter(plan), e) = {}
        BY <1>1, <3>3, <3>8
      <4> QED
        BY <3>1, <3>2, <3>4, <3>5, <3>8, <4>1
    <3> QED
      BY <3>6, <3>7, <3>8
  <2> QED
    BY <2>1, <2>2
<1> QED
  BY <1>3, <1>4, <1>5, <1>6 DEF Fits

\* The order after a plan is one over the entries.
LEMMA OrderIsTyped ==
    ASSUME Base(parked), parked \in SUBSET Entries,
           NEW plan, DOMAIN plan \in SUBSET Entries,
           NEW order \in SUBSET (Entries \X Entries)
    PROVE  BeforeAfter(plan, order) \in SUBSET (Entries \X Entries)
<1>1. \A d : Going(plan, d) \in SUBSET Entries
  BY DEF Going
<1>2. \A c \in Containers : pending[c] \ DOMAIN plan \in SUBSET Entries
  BY DEF Base, Typed
<1>3. Without(DOMAIN plan) \in SUBSET (Entries \X Entries)
  BY DEF Base, Typed, Without
<1>4. (parked \ DOMAIN plan) \X Going(plan, "parked") \in SUBSET (Entries \X Entries)
  BY <1>1
<1>5. ASSUME NEW p \in Behind(plan)
      PROVE  p \in Entries \X Entries
  <2>1. CASE p \in (parked \ DOMAIN plan) \X Going(plan, "parked")
    BY <1>4, <2>1
  <2>2. CASE p \notin (parked \ DOMAIN plan) \X Going(plan, "parked")
    <3>1. PICK c \in Containers : p \in (pending[c] \ DOMAIN plan) \X Going(plan, c)
      BY <2>2 DEF Behind
    <3> QED
      BY <1>1, <1>2, <3>1
  <2> QED
    BY <2>1, <2>2
<1> QED
  BY <1>3, <1>5 DEF BeforeAfter

\* Base is Fits and what no plan touches.
LEMMA FitsIsBase ==
    ASSUME Base(parked), PoolTyped
    PROVE  Fits(promise, pending, parked)
BY DEF Base, Typed, Fresh, WellPlaced, PoolTyped, Fits, At, Places

LEMMA BaseFromFits ==
    ASSUME Base(parked), NEW pr, NEW pe, NEW pa, Fits(pr, pe, pa),
           promise' = pr, pending' = pe, parked' = pa,
           before' \in SUBSET (Entries \X Entries),
           excluded' \in [Entries -> SUBSET Containers],
           spent' \in SUBSET Entries, tainted' \in SUBSET Containers,
           forced' \in SUBSET Entries,
           UNCHANGED <<stage, site, testLocked, orphaned>>
    PROVE  Base(parked)'
<1>1. Typed'
  BY DEF Base, Typed, Fits
<1>2. Fresh'
  BY DEF Fresh, Fits
<1>3. Sited'
  BY DEF Base, Sited
<1>4. WellPlaced(parked)'
  BY DEF WellPlaced, Fits, At, Places, Unsettled
<1> QED
  BY <1>1, <1>2, <1>3, <1>4 DEF Base
-----------------------------------------------------------------------------
(* Where everything is: PlaceInv. *)

\* What every step of the pool but a queue's own leaves to be shown.
LEMMA PoolStepPlaces ==
    ASSUME PlaceInv, NEW pr, NEW pe, NEW pa, Fits(pr, pe, pa),
           promise' = pr, pending' = pe, parked' = pa,
           before' \in SUBSET (Entries \X Entries),
           excluded' \in [Entries -> SUBSET Containers],
           tainted' \in SUBSET Containers, forced' \in SUBSET Entries,
           alert' \in [Containers -> AlertKinds],
           readmit' \in [Containers -> {"no", "quiesced", "replaced"}],
           UNCHANGED <<stage, site, testLocked, orphaned, spent>>,
           UNCHANGED permitVars \/ \E L \in SUBSET Containers : Wake(L)
    PROVE  PlaceInv'
<1>1. Base(parked)'
  BY BaseFromFits DEF PlaceInv, QueueInv, Base, Typed
<1>2. parked \in SUBSET Entries /\ QueueInv(parked)
  BY DEF PlaceInv, PoolTyped
<1>3. \A c \in Containers : Compiling(c)' = Compiling(c)
  BY DEF Compiling
<1>4. Counted'
  <2>1. PICK away \in SUBSET Entries : away = parked
    BY <1>2
  <2>2. QueueInv(away)
    BY <1>2, <2>1
  <2>3. ASSUME NEW L \in SUBSET Containers, Wake(L)
        PROVE  Counted'
    BY <1>3, <2>2, <2>3, WakeCounted
  <2>4. CASE UNCHANGED permitVars
    BY <1>3, <2>2, <2>4, CountedSame
  <2> QED
    BY <2>3, <2>4
<1>5. PoolTyped'
  BY DEF PoolTyped, Fits
<1> QED
  BY <1>1, <1>4, <1>5 DEF PlaceInv, QueueInv

LEMMA QueueStepPlaces ==
    ASSUME PlaceInv, [Next]_queueVars, UNCHANGED poolVars
    PROVE  PlaceInv'
<1>0. UNCHANGED alert /\ UNCHANGED readmit /\ UNCHANGED parked
  BY DEF poolVars
<1>1. PICK away \in SUBSET Entries : away = parked
  BY DEF PlaceInv, PoolTyped
<1>2. QueueInv(away) /\ Base(away)
  BY <1>1 DEF PlaceInv, QueueInv
<1>3. Base(away)' /\ Counted'
  BY <1>2, NextBase, NextCounted
<1>4. parked' = away
  BY <1>0, <1>1
<1>5. Base(parked)'
  BY <1>3, <1>4 DEF Base, WellPlaced, Typed, Fresh, Sited
<1>6. PoolTyped'
  BY <1>0 DEF PlaceInv, PoolTyped
<1> QED
  BY <1>3, <1>5, <1>6 DEF PlaceInv, QueueInv

\* A plan carried out.
LEMMA PlanPlaces ==
    ASSUME PlaceInv,
           NEW D \in SUBSET Entries, NEW open \in SUBSET Containers, NEW plan,
           IsPlan(plan, D, open), \A e \in D : e \in parked \/ At(pending, e) # {},
           NEW order \in SUBSET (Entries \X Entries),
           promise' = PromiseAfter(plan), pending' = PendingAfter(plan),
           parked' = ParkedAfter(plan), before' = BeforeAfter(plan, order),
           Wake(Receivers(plan)), UNCHANGED excluded,
           tainted' \in SUBSET Containers, forced' \in SUBSET Entries,
           alert' \in [Containers -> AlertKinds],
           readmit' \in [Containers -> {"no", "quiesced", "replaced"}],
           UNCHANGED <<stage, site, testLocked, orphaned, spent>>
    PROVE  PlaceInv'
<1>1. Base(parked) /\ PoolTyped /\ parked \in SUBSET Entries
  BY DEF PlaceInv, QueueInv, PoolTyped
<1>2. PICK pr, pe, pa : pr = promise' /\ pe = pending' /\ pa = parked'
  OBVIOUS
<1>3. Fits(pr, pe, pa)
  BY <1>1, <1>2, FitsIsBase, PlanFits
<1>4. BeforeAfter(plan, order) \in SUBSET (Entries \X Entries)
  <2>1. DOMAIN plan \in SUBSET Entries
    BY DEF IsPlan
  <2> QED
    BY <1>1, <2>1, OrderIsTyped
<1>5. excluded' \in [Entries -> SUBSET Containers]
  BY <1>1 DEF Base, Typed
<1>6. \E L \in SUBSET Containers : Wake(L)
  BY DEF Receivers
<1> QED
  BY <1>2, <1>3, <1>4, <1>5, <1>6, PoolStepPlaces

\* A submission joins a queue, or is answered at once.
LEMMA JoinFits ==
    ASSUME NEW pr, NEW pe, NEW pa, Fits(pr, pe, pa),
           NEW e \in Entries, NEW c \in Containers, pr[e] = "idle"
    PROVE  Fits([pr EXCEPT ![e] = "waiting"], [pe EXCEPT ![c] = @ \cup {e}], pa)
<1> DEFINE pe2 == [pe EXCEPT ![c] = @ \cup {e}]
<1>1. stage[e] = "none" /\ At(pe, e) = {} /\ e \notin pa
  BY DEF Fits
<1>2. At(pe2, e) = {c}
  BY <1>1 DEF At, Fits
<1>3. \A d \in Entries \ {e} : At(pe2, d) = At(pe, d)
  BY DEF At, Fits
<1>4. pe2 \in [Containers -> SUBSET Entries]
  BY DEF Fits
<1> HIDE DEF pe2
<1>5. Fits([pr EXCEPT ![e] = "waiting"], pe2, pa)
  BY <1>1, <1>2, <1>3, <1>4 DEF Fits
<1> QED
  BY <1>5 DEF pe2

LEMMA AnswerFits ==
    ASSUME NEW pr, NEW pe, NEW pa, Fits(pr, pe, pa),
           NEW e \in Entries, NEW why \in Settlements, pr[e] = "idle"
    PROVE  Fits([pr EXCEPT ![e] = why], pe, pa)
<1>1. why # "waiting" /\ why # "idle"
  BY DEF Settlements
<1> QED
  BY <1>1 DEF Fits

\* Parked entries are withdrawn.
LEMMA WithdrawFits ==
    ASSUME NEW pr, NEW pe, NEW pa, Fits(pr, pe, pa),
           NEW S \in SUBSET pa, NEW why \in Settlements
    PROVE  Fits([e \in Entries |-> IF e \in S THEN why ELSE pr[e]], pe, pa \ S)
<1>1. why # "waiting" /\ why # "idle"
  BY DEF Settlements
<1>2. \A e \in S : At(pe, e) = {} /\ stage[e] = "none" /\ stage[e] \notin Unsettled
  BY DEF Fits, Unsettled
<1> QED
  BY <1>1, <1>2 DEF Fits

LEMMA PoolEnqueuePlaces ==
    ASSUME PlaceInv, NEW e \in Entries, NEW ex \in SUBSET Containers, PoolEnqueue(e, ex)
    PROVE  PlaceInv'
<1>1. PICK plan \in FlushPlans(Targets(ex)), c \in Targets(ex) :
         /\ parked' = ParkedAfter(plan)
         /\ \/ /\ promise' = [PromiseAfter(plan) EXCEPT ![e] = "full"]
               /\ pending' = PendingAfter(plan)
               /\ before' = BeforeAfter(plan, before)
               /\ Wake(Receivers(plan))
               /\ UNCHANGED excluded
            \/ /\ promise' = [PromiseAfter(plan) EXCEPT ![e] = "waiting"]
               /\ pending' = [PendingAfter(plan) EXCEPT ![c] = @ \cup {e}]
               /\ before' = BeforeAfter(plan, before) \cup (PendingAfter(plan)[c] \X {e})
               /\ Wake(Receivers(plan) \cup {c})
               /\ excluded' = [excluded EXCEPT ![e] = ex \cup Alerted]
  BY Zenon DEF PoolEnqueue
<1>2. /\ promise[e] = "idle"
      /\ UNCHANGED <<stage, site, testLocked, tainted, orphaned, spent, forced, alert, readmit>>
  BY DEF PoolEnqueue, pipeVars, testVars
<1>3. Base(parked) /\ PoolTyped /\ parked \in SUBSET Entries /\ Typed
  BY DEF PlaceInv, QueueInv, PoolTyped, Base
<1>4. Targets(ex) \in SUBSET Containers /\ c \in Containers
  BY DEF Targets
<1>5. IsPlan(plan, parked, Targets(ex))
  BY <1>4, FlushIsPlan
<1>6. PICK pr, pe, pa : /\ pr = PromiseAfter(plan) /\ pe = PendingAfter(plan)
                        /\ pa = ParkedAfter(plan)
  OBVIOUS
<1>7. Fits(pr, pe, pa)
  BY <1>3, <1>4, <1>5, <1>6, FitsIsBase, PlanFits
<1>8. pr[e] = "idle"
  <2>1. e \notin parked
    BY <1>2, <1>3 DEF Base, WellPlaced
  <2> QED
    BY <1>2, <1>5, <1>6, <2>1 DEF PromiseAfter, IsPlan
<1>9. BeforeAfter(plan, before) \in SUBSET (Entries \X Entries)
  <2>1. DOMAIN plan \in SUBSET Entries /\ before \in SUBSET (Entries \X Entries)
    BY <1>3, <1>5 DEF IsPlan, Typed
  <2> QED
    BY <1>3, <2>1, OrderIsTyped
<1>10. /\ excluded \in [Entries -> SUBSET Containers]
       /\ tainted' \in SUBSET Containers /\ forced' \in SUBSET Entries
       /\ alert' \in [Containers -> AlertKinds]
       /\ readmit' \in [Containers -> {"no", "quiesced", "replaced"}]
  BY <1>2, <1>3 DEF Typed, PoolTyped
<1>11. CASE /\ promise' = [PromiseAfter(plan) EXCEPT ![e] = "full"]
            /\ pending' = PendingAfter(plan)
            /\ before' = BeforeAfter(plan, before)
            /\ Wake(Receivers(plan))
            /\ UNCHANGED excluded
  <2>1. PICK q : q = [pr EXCEPT ![e] = "full"]
    OBVIOUS
  <2>2. Fits(q, pe, pa)
    BY <1>7, <1>8, <2>1, AnswerFits DEF Settlements
  <2>3. promise' = q /\ pending' = pe /\ parked' = pa
    BY <1>1, <1>6, <1>11, <2>1
  <2>4. \E L \in SUBSET Containers : Wake(L)
    BY <1>11 DEF Receivers
  <2> QED
    BY <1>2, <1>9, <1>10, <1>11, <2>2, <2>3, <2>4, PoolStepPlaces
<1>12. CASE /\ promise' = [PromiseAfter(plan) EXCEPT ![e] = "waiting"]
            /\ pending' = [PendingAfter(plan) EXCEPT ![c] = @ \cup {e}]
            /\ before' = BeforeAfter(plan, before) \cup (PendingAfter(plan)[c] \X {e})
            /\ Wake(Receivers(plan) \cup {c})
            /\ excluded' = [excluded EXCEPT ![e] = ex \cup Alerted]
  <2>1. PICK q, r : q = [pr EXCEPT ![e] = "waiting"] /\ r = [pe EXCEPT ![c] = @ \cup {e}]
    OBVIOUS
  <2>2. Fits(q, r, pa)
    BY <1>4, <1>7, <1>8, <2>1, JoinFits
  <2>3. promise' = q /\ pending' = r /\ parked' = pa
    BY <1>1, <1>6, <1>12, <2>1
  <2>4. \E L \in SUBSET Containers : Wake(L)
    BY <1>4, <1>12 DEF Receivers
  <2>5. pe[c] \in SUBSET Entries
    BY <1>4, <1>7 DEF Fits
  <2>6. before' \in SUBSET (Entries \X Entries)
    BY <1>6, <1>9, <1>12, <2>5
  <2>7. excluded' \in [Entries -> SUBSET Containers]
    BY <1>10, <1>12 DEF Alerted
  <2> QED
    BY <1>2, <1>10, <2>2, <2>3, <2>4, <2>6, <2>7, PoolStepPlaces
<1> QED
  BY <1>1, <1>11, <1>12

LEMMA PoolIneligiblePlaces ==
    ASSUME PlaceInv, NEW e \in Entries, NEW ex, PoolIneligible(e, ex)
    PROVE  PlaceInv'
<1>1. /\ promise[e] = "idle" /\ promise' = [promise EXCEPT ![e] = "ineligible"]
      /\ UNCHANGED <<pending, before, excluded, spent, stage, site, testLocked, tainted,
                     orphaned, forced, alert, readmit, parked>>
      /\ UNCHANGED permitVars
  BY DEF PoolIneligible, Reject, listVars, pipeVars, testVars, poolVars
<1>2. Base(parked) /\ PoolTyped /\ Typed
  BY DEF PlaceInv, QueueInv, Base
<1>3. PICK pr, pe, pa : pr = promise /\ pe = pending /\ pa = parked
  OBVIOUS
<1>4. Fits(pr, pe, pa)
  BY <1>2, <1>3, FitsIsBase
<1>5. PICK q : q = [pr EXCEPT ![e] = "ineligible"]
  OBVIOUS
<1>6. Fits(q, pe, pa)
  BY <1>1, <1>3, <1>4, <1>5, AnswerFits DEF Settlements
<1>7. promise' = q /\ pending' = pe /\ parked' = pa
  BY <1>1, <1>3, <1>5
<1> QED
  BY <1>1, <1>2, <1>6, <1>7, PoolStepPlaces DEF Typed, PoolTyped

\* The park timer, and the cancellation of everything parked.
LEMMA WithdrawPlaces ==
    ASSUME PlaceInv, NEW S \in SUBSET parked, NEW why \in Settlements,
           promise' = [e \in Entries |-> IF e \in S THEN why ELSE promise[e]],
           parked' = parked \ S, before' = Without(S),
           UNCHANGED <<pending, excluded, spent, stage, site, testLocked, tainted,
                       orphaned, forced, alert, readmit>>,
           UNCHANGED permitVars
    PROVE  PlaceInv'
<1>1. Base(parked) /\ PoolTyped /\ Typed
  BY DEF PlaceInv, QueueInv, Base
<1>2. PICK pr, pe, pa : pr = promise /\ pe = pending /\ pa = parked
  OBVIOUS
<1>3. Fits(pr, pe, pa) /\ S \in SUBSET pa
  BY <1>1, <1>2, FitsIsBase
<1>4. PICK q, r : /\ q = [e \in Entries |-> IF e \in S THEN why ELSE pr[e]]
                  /\ r = pa \ S
  OBVIOUS
<1>5. Fits(q, pe, r)
  <2>1. Fits([e \in Entries |-> IF e \in S THEN why ELSE pr[e]], pe, pa \ S)
    BY <1>3, WithdrawFits
  <2> QED
    BY <1>4, <2>1
<1>6. promise' = q /\ pending' = pe /\ parked' = r
  BY <1>2, <1>4
<1>7. before' \in SUBSET (Entries \X Entries)
  BY <1>1 DEF Without, Typed
<1> QED
  BY <1>1, <1>5, <1>6, <1>7, PoolStepPlaces DEF Typed, PoolTyped

LEMMA ParkTimeoutPlaces ==
    ASSUME PlaceInv, NEW e \in Entries, ParkTimeout(e)
    PROVE  PlaceInv'
<1>1. PICK S \in SUBSET parked : S = {e}
  BY DEF ParkTimeout
<1>2. promise \in [Entries -> {"idle", "waiting"} \cup Settlements]
  BY DEF PlaceInv, QueueInv, Base, Typed
<1>3. promise' = [d \in Entries |-> IF d \in S THEN "timeout" ELSE promise[d]]
  BY <1>1, <1>2 DEF ParkTimeout, Reject
<1>4. parked' = parked \ S /\ before' = Without(S)
  BY <1>1 DEF ParkTimeout
<1>5. /\ UNCHANGED <<pending, excluded, spent, stage, site, testLocked, tainted,
                     orphaned, forced, alert, readmit>>
      /\ UNCHANGED permitVars
  BY DEF ParkTimeout, pipeVars, testVars
<1>6. "timeout" \in Settlements
  BY DEF Settlements
<1> QED
  BY <1>3, <1>4, <1>5, <1>6, WithdrawPlaces

LEMMA CancelParkedPlaces ==
    ASSUME PlaceInv, CancelParked
    PROVE  PlaceInv'
<1>1. PICK S \in SUBSET parked : S = parked
  OBVIOUS
<1>2. promise' = [d \in Entries |-> IF d \in S THEN "error" ELSE promise[d]]
  BY <1>1 DEF CancelParked
<1>3. parked' = parked \ S /\ before' = Without(S)
  BY <1>1 DEF CancelParked
<1>4. /\ UNCHANGED <<pending, excluded, spent, stage, site, testLocked, tainted,
                     orphaned, forced, alert, readmit>>
      /\ UNCHANGED permitVars
  BY DEF CancelParked, pipeVars, testVars
<1>5. "error" \in Settlements
  BY DEF Settlements
<1> QED
  BY <1>2, <1>3, <1>4, <1>5, WithdrawPlaces

LEMMA AlertRaisedPlaces ==
    ASSUME PlaceInv, NEW S \in SUBSET Containers, NEW kind \in {"local", "global"},
           AlertRaised(S, kind)
    PROVE  PlaceInv'
<1> DEFINE drained == UNION {pending[c] : c \in S}
<1>1. PICK plan \in DrainPlans(drained, Targets(S), kind), r \in DrainOrders(S) :
         /\ promise' = PromiseAfter(plan)
         /\ pending' = PendingAfter(plan)
         /\ parked' = ParkedAfter(plan)
         /\ before' = BeforeAfter(plan, before \cup UNION {pending[p[1]] \X pending[p[2]] : p \in r})
         /\ Wake(Receivers(plan))
  BY Zenon DEF AlertRaised
<1>2. /\ alert' = [c \in Containers |-> IF c \in S THEN kind ELSE alert[c]]
      /\ readmit' = [c \in Containers |->
                       IF c \in S /\ readmit[c] = "quiesced" THEN "replaced" ELSE readmit[c]]
      /\ forced' = forced \cup MarkActive(S)
      /\ UNCHANGED <<excluded, spent, stage, site, testLocked, tainted, orphaned>>
  BY DEF AlertRaised, pipeVars, testVars
<1>3. Typed /\ PoolTyped
  BY DEF PlaceInv, QueueInv, Base
<1>4. drained \in SUBSET Entries /\ \A e \in drained : At(pending, e) # {}
  BY <1>3 DEF Typed, At
<1>5. Targets(S) \in SUBSET Containers
  BY DEF Targets
<1>6. IsPlan(plan, drained, Targets(S))
  BY <1>1, <1>5, DrainIsPlan
<1>7. PICK order : order = before \cup UNION {pending[p[1]] \X pending[p[2]] : p \in r}
  OBVIOUS
<1>8. order \in SUBSET (Entries \X Entries)
  <2>1. \A p \in r : pending[p[1]] \X pending[p[2]] \in SUBSET (Entries \X Entries)
    <3> SUFFICES ASSUME NEW p \in r
                 PROVE  pending[p[1]] \X pending[p[2]] \in SUBSET (Entries \X Entries)
      OBVIOUS
    <3>1. p[1] \in Containers /\ p[2] \in Containers
      BY DEF DrainOrders
    <3>2. pending[p[1]] \in SUBSET Entries /\ pending[p[2]] \in SUBSET Entries
      BY <1>3, <3>1 DEF Typed
    <3> QED
      BY <3>2
  <2>2. before \in SUBSET (Entries \X Entries)
    BY <1>3 DEF Typed
  <2> QED
    BY <1>7, <2>1, <2>2
<1>9. /\ tainted' \in SUBSET Containers /\ forced' \in SUBSET Entries
      /\ alert' \in [Containers -> AlertKinds]
      /\ readmit' \in [Containers -> {"no", "quiesced", "replaced"}]
  BY <1>2, <1>3 DEF Typed, PoolTyped, AlertKinds, MarkActive, Active
<1>10. before' = BeforeAfter(plan, order)
  BY <1>1, <1>7
<1>11. PICK D \in SUBSET Entries : D = drained
  BY <1>4
<1>12. IsPlan(plan, D, Targets(S)) /\ \A e \in D : e \in parked \/ At(pending, e) # {}
  BY <1>4, <1>6, <1>11
<1> HIDE DEF drained
<1> QED
  BY <1>1, <1>2, <1>5, <1>8, <1>9, <1>10, <1>12, PlanPlaces

LEMMA RecoveredPlaces ==
    ASSUME PlaceInv, NEW c \in Containers, Recovered(c)
    PROVE  PlaceInv'
<1> DEFINE open == (Containers \ Alerted) \cup {c}
<1>1. PICK plan \in FlushPlans(open) :
         /\ promise' = PromiseAfter(plan)
         /\ pending' = PendingAfter(plan)
         /\ parked' = ParkedAfter(plan)
         /\ before' = BeforeAfter(plan, before)
         /\ Wake(Receivers(plan))
  BY Zenon DEF Recovered
<1>2. /\ alert' = [alert EXCEPT ![c] = "none"]
      /\ readmit' = [readmit EXCEPT ![c] = "no"]
      /\ tainted' = tainted \ {c}
      /\ UNCHANGED <<excluded, spent, stage, site, testLocked, orphaned, forced>>
  BY DEF Recovered, pipeVars
<1>3. Typed /\ PoolTyped /\ parked \in SUBSET Entries
  BY DEF PlaceInv, QueueInv, Base, PoolTyped
<1>4. open \in SUBSET Containers
  OBVIOUS
<1>5. IsPlan(plan, parked, open)
  BY <1>1, <1>4, FlushIsPlan
<1>6. /\ tainted' \in SUBSET Containers /\ forced' \in SUBSET Entries
      /\ alert' \in [Containers -> AlertKinds]
      /\ readmit' \in [Containers -> {"no", "quiesced", "replaced"}]
  BY <1>2, <1>3 DEF Typed, PoolTyped, AlertKinds
<1>7. PICK D \in SUBSET Entries, order \in SUBSET (Entries \X Entries) :
        D = parked /\ order = before
  BY <1>3 DEF Typed
<1>8. /\ IsPlan(plan, D, open) /\ before' = BeforeAfter(plan, order)
      /\ \A e \in D : e \in parked \/ At(pending, e) # {}
  BY <1>1, <1>5, <1>7
<1> HIDE DEF open
<1> QED
  BY <1>1, <1>2, <1>4, <1>6, <1>8, PlanPlaces

LEMMA NextPlaces ==
    ASSUME PlaceInv, [PoolNext]_vars
    PROVE  PlaceInv'
<1>1. CASE QueueStep /\ PoolRests
  BY <1>1, QueueStepPlaces DEF Next, PoolRests
<1>2. ASSUME NEW c \in Containers, Quiesced(c) \/ ClearRefused(c)
      PROVE  PlaceInv'
  <2>1. /\ UNCHANGED queueVars /\ UNCHANGED <<alert, parked>>
        /\ \E how \in {"no", "quiesced"} : readmit' = [readmit EXCEPT ![c] = how]
    BY <1>2 DEF Quiesced, ClearRefused
  <2>2. QueueInv(parked)'
    <3>1. PICK away \in SUBSET Entries : away = parked
      BY DEF PlaceInv, PoolTyped
    <3>2. QueueInv(away) /\ Base(away)
      BY <3>1 DEF PlaceInv, QueueInv
    <3>3. Base(away)' /\ Counted'
      BY <2>1, <3>2, NextBase, NextCounted
    <3>4. parked' = away
      BY <2>1, <3>1
    <3> QED
      BY <3>3, <3>4 DEF QueueInv, Base, WellPlaced, Typed, Fresh, Sited
  <2>3. PoolTyped'
    BY <2>1 DEF PlaceInv, PoolTyped
  <2> QED
    BY <2>2, <2>3 DEF PlaceInv
<1>3. CASE UNCHANGED vars
  BY <1>3, QueueStepPlaces DEF vars
<1>4. ASSUME NEW e \in Entries, NEW ex \in CallerExclusions,
             PoolEnqueue(e, ex) \/ PoolIneligible(e, ex)
      PROVE  PlaceInv'
  <2>1. ex \in SUBSET Containers
    BY PoolAssumption
  <2> QED
    BY <1>4, <2>1, PoolEnqueuePlaces, PoolIneligiblePlaces
<1> QED
  BY <1>1, <1>2, <1>3, <1>4, ParkTimeoutPlaces, CancelParkedPlaces, AlertRaisedPlaces,
     RecoveredPlaces
  DEF PoolNext, PoolStep

LEMMA InitPlaces == PoolInit => PlaceInv
<1> SUFFICES ASSUME PoolInit PROVE PlaceInv
  OBVIOUS
<1>1. Base(parked)
  BY NowhereAssumption
  DEF PoolInit, Init, Base, Typed, Fresh, Sited, WellPlaced, Places, Stages, Unsettled
<1>2. Counted
  BY InitCounted DEF PoolInit
<1>3. PoolTyped
  BY DEF PoolInit, PoolTyped, AlertKinds
<1> QED
  BY <1>1, <1>2, <1>3 DEF PlaceInv, QueueInv

THEOREM PlacesInvariant == PoolSpec => []PlaceInv
BY InitPlaces, NextPlaces, PTL DEF PoolSpec

\* The history of re-admissions.
OverlookedTyped == overlooked \in SUBSET Containers

LEMMA OverlookedKept ==
    ASSUME OverlookedTyped, [PoolNext]_vars
    PROVE  OverlookedTyped'
BY DEF OverlookedTyped, PoolNext, PoolStep, PoolRests, Recovered, ParkTimeout, CancelParked,
       AlertRaised, Quiesced, ClearRefused, PoolEnqueue, PoolIneligible, vars

\* Across drains, parking, flushes, timers and cancellation every unsettled
\* entry of the pool is in exactly one place, and a settled one in none.
THEOREM NothingIsLost == PoolSpec => []NothingLostOrDoubled
<1>1. PlaceInv /\ OverlookedTyped => NothingLostOrDoubled
  <2> SUFFICES ASSUME PlaceInv, OverlookedTyped PROVE NothingLostOrDoubled
    OBVIOUS
  <2>1. TypeOK
    BY DEF PlaceInv, QueueInv, Base, Typed, Counted, TypeOK
  <2>2. PoolTypeOK
    BY <2>1 DEF PoolTypeOK, PlaceInv, PoolTyped, OverlookedTyped
  <2> QED
    BY <2>2 DEF NothingLostOrDoubled, PlaceInv, QueueInv, Base, WellPlaced
<1>2. PoolInit => OverlookedTyped
  BY DEF PoolInit, OverlookedTyped
<1>3. OverlookedTyped /\ [PoolNext]_vars => OverlookedTyped'
  BY OverlookedKept
<1> QED
  BY <1>1, <1>2, <1>3, PlacesInvariant, PTL DEF PoolSpec

-----------------------------------------------------------------------------
(* Work is where it may be: RoutedWell. *)

\* The queues on their own: lists only shrink, and a pipeline starts on the
\* container whose list its entry was in.
LEMMA QueueMoves ==
    ASSUME NEW away \in SUBSET Entries, Base(away), QueueStep
    PROVE  /\ UNCHANGED <<excluded, forced>>
           /\ \A c \in Containers : pending'[c] \subseteq pending[c]
           /\ \A e \in Entries :
                \/ site'[e] = site[e] /\ (stage[e] = "gone" => stage'[e] = "gone")
                \/ \E c \in Containers : e \in pending[c] /\ site'[e] = c
<1>1. ASSUME NEW e \in Entries, Pipeline(e)
      PROVE  /\ UNCHANGED <<excluded, forced, pending, site>>
             /\ \A d \in Entries : stage[d] = "gone" => stage'[d] = "gone"
  <2>1. UNCHANGED <<excluded, forced, pending>> /\ stage[e] # "gone"
    BY <1>1 DEF Pipeline, PrepOk, PrepThrows, CompileThrows, CompileEnds, CompileToTest,
          TestBegins, TestBarred, TestEnds, TestThrows, TestTimesOut, Settle, CleanupEnds,
          listVars
  <2>2. OthersWait(e) /\ UNCHANGED site
    BY <1>1, PipelineStages
  <2> QED
    BY <2>1, <2>2 DEF OthersWait
<1>2. ASSUME NEW e \in Entries, BudgetRunsOut(e) \/ MaintenanceTimesOut(e)
      PROVE  UNCHANGED <<excluded, forced, pending, site, stage>>
  BY <1>2 DEF BudgetRunsOut, MaintenanceTimesOut, listVars, pipeVars
<1>3. ASSUME NEW c \in Containers, DispatchNothing(c) \/ OrphanEnds(c)
      PROVE  UNCHANGED <<excluded, forced, pending, site, stage>>
  BY <1>3 DEF DispatchNothing, OrphanEnds, listVars, pipeVars
<1>4. ASSUME NEW e \in Entries, NEW c \in Containers, QueueTimeout(e, c)
      PROVE  /\ UNCHANGED <<excluded, forced, site, stage>>
             /\ \A d \in Containers : pending'[d] \subseteq pending[d]
  <2>1. pending \in [Containers -> SUBSET Entries]
    BY DEF Base, Typed
  <2> QED
    BY <1>4, <2>1 DEF QueueTimeout, pipeVars
<1>5. ASSUME NEW c \in Containers, Dispatch(c)
      PROVE  /\ UNCHANGED <<excluded, forced>>
             /\ \A d \in Containers : pending'[d] \subseteq pending[d]
             /\ \A e \in Entries :
                  \/ site'[e] = site[e] /\ stage'[e] = stage[e]
                  \/ e \in pending[c] /\ site'[e] = c
  <2>1. PICK e \in Heads(pending[c]) :
          /\ pending' = [pending EXCEPT ![c] = @ \ {e}]
          /\ stage' = [stage EXCEPT ![e] = "prep"]
          /\ site' = [site EXCEPT ![e] = c]
    BY <1>5 DEF Dispatch
  <2>2. UNCHANGED <<excluded, forced>>
    BY <1>5 DEF Dispatch
  <2>3. e \in pending[c]
    BY DEF Heads
  <2> QED
    BY <2>1, <2>2, <2>3 DEF Base, Typed
<1> QED
  BY <1>1, <1>2, <1>3, <1>4, <1>5 DEF QueueStep

LEMMA QueueStepRoutes ==
    ASSUME PoolInv, QueueStep, UNCHANGED poolVars
    PROVE  RoutedWell'
<1>0. UNCHANGED alert /\ UNCHANGED readmit /\ UNCHANGED parked
  BY DEF poolVars
<1>1. PICK away \in SUBSET Entries : away = parked
  BY DEF PoolInv, PlaceInv, PoolTyped
<1>2. Base(away)
  BY <1>1 DEF PoolInv, PlaceInv, QueueInv
<1>3. /\ UNCHANGED <<excluded, forced>>
      /\ \A c \in Containers : pending'[c] \subseteq pending[c]
      /\ \A e \in Entries :
           \/ site'[e] = site[e] /\ (stage[e] = "gone" => stage'[e] = "gone")
           \/ \E c \in Containers : e \in pending[c] /\ site'[e] = c
  BY <1>2, QueueMoves
<1>4. Alerted' = Alerted
  BY <1>0 DEF Alerted
<1>5. \A c \in Containers : Active(c)' \subseteq Active(c) \cup pending[c]
  BY <1>3 DEF Active
<1>6. NothingPendingOnAlerted' /\ InFlightOnAlertedIsForced'
  <2>1. \A c \in Alerted : c \in Containers
    BY DEF Alerted
  <2> QED
    BY <1>3, <1>4, <1>5, <2>1
    DEF PoolInv, RoutedWell, NothingPendingOnAlerted, InFlightOnAlertedIsForced
<1>7. ExclusionsHonoured'
  <2> SUFFICES ASSUME NEW e \in Entries
               PROVE  site'[e] \notin excluded'[e] /\ Places(e)' \cap excluded'[e] = {}
    BY DEF ExclusionsHonoured
  <2>1. site[e] \notin excluded[e] /\ Places(e) \cap excluded[e] = {}
    BY DEF PoolInv, RoutedWell, ExclusionsHonoured
  <2>2. Places(e)' \subseteq Places(e)
    BY <1>3 DEF Places
  <2>3. \A c \in Containers : e \in pending[c] => c \in Places(e)
    BY DEF Places
  <2> QED
    BY <1>3, <2>1, <2>2, <2>3
<1>8. ParkedHasNoTarget'
  BY <1>0, <1>3, <1>4 DEF PoolInv, RoutedWell, ParkedHasNoTarget
<1>9. QuietWhileReadmitting'
  BY <1>0, <1>3, <1>4, <1>5 DEF PoolInv, RoutedWell, QuietWhileReadmitting
<1> QED
  BY <1>6, <1>7, <1>8, <1>9 DEF RoutedWell

\* A plan carried out when the containers open to it are those that are not
\* alerted afterwards, and all that waits on an alerted one is in the plan.
LEMMA PlanRoutes ==
    ASSUME PoolInv,
           NEW D \in SUBSET Entries, NEW plan, IsPlan(plan, D, Containers \ Alerted'),
           pending' = PendingAfter(plan), parked' = ParkedAfter(plan),
           UNCHANGED <<excluded, stage, site>>,
           \A e \in D : e \in parked \/ At(pending, e) # {},
           \A c \in Alerted' : pending[c] \subseteq D /\ Active(c) \subseteq forced',
           \A e \in parked \ D : Containers \subseteq Alerted' \cup excluded[e],
           \A c \in Containers : readmit'[c] # "no" => c \in Alerted' /\ Active(c) = {}
    PROVE  RoutedWell'
<1>1. \A c \in Containers : Active(c)' = Active(c)
  BY DEF Active
<1>2. DOMAIN plan = D
  BY DEF IsPlan
<1>3. \A c \in Containers : pending'[c] = (pending[c] \ D) \cup {e \in D : plan[e] = c}
  BY <1>2 DEF PendingAfter, Going
<1>4. parked' = (parked \ D) \cup {e \in D : plan[e] = "parked"}
  BY <1>2 DEF ParkedAfter, Going
<1>5. \A c \in Alerted' : c \in Containers
  BY DEF Alerted
<1>6. NothingPendingOnAlerted'
  <2> SUFFICES ASSUME NEW c \in Alerted' PROVE pending'[c] = {}
    BY DEF NothingPendingOnAlerted
  <2> QED
    BY <1>3, <1>5 DEF IsPlan
<1>7. InFlightOnAlertedIsForced'
  BY <1>1, <1>5 DEF InFlightOnAlertedIsForced
<1>8. ExclusionsHonoured'
  <2> SUFFICES ASSUME NEW e \in Entries
               PROVE  site'[e] \notin excluded'[e] /\ Places(e)' \cap excluded'[e] = {}
    BY DEF ExclusionsHonoured
  <2>1. site[e] \notin excluded[e] /\ Places(e) \cap excluded[e] = {}
    BY DEF PoolInv, RoutedWell, ExclusionsHonoured
  <2>2. ASSUME NEW c \in Places(e)' PROVE c \notin excluded[e]
    <3>1. c \in Containers /\ e \in pending'[c]
      BY DEF Places
    <3>2. e \in pending[c] \/ (e \in D /\ plan[e] = c)
      BY <1>3, <3>1
    <3> QED
      BY <2>1, <3>1, <3>2 DEF Places, IsPlan
  <2> QED
    BY <2>1, <2>2
<1>9. ParkedHasNoTarget'
  <2> SUFFICES ASSUME NEW e \in parked', NEW c \in Containers
               PROVE  c \in Alerted' \cup excluded[e]
    BY DEF ParkedHasNoTarget
  <2> QED
    BY <1>4 DEF IsPlan
<1>10. QuietWhileReadmitting'
  BY <1>1, <1>6 DEF QuietWhileReadmitting, NothingPendingOnAlerted
<1> QED
  BY <1>6, <1>7, <1>8, <1>9, <1>10 DEF RoutedWell

LEMMA AlertRaisedRoutes ==
    ASSUME PoolInv, NEW S \in SUBSET Containers, NEW kind \in {"local", "global"},
           AlertRaised(S, kind)
    PROVE  RoutedWell'
<1> DEFINE drained == UNION {pending[c] : c \in S}
<1>1. PICK plan \in DrainPlans(drained, Targets(S), kind) :
         pending' = PendingAfter(plan) /\ parked' = ParkedAfter(plan)
  BY Zenon DEF AlertRaised
<1>2. /\ alert' = [c \in Containers |-> IF c \in S THEN kind ELSE alert[c]]
      /\ readmit' = [c \in Containers |->
                       IF c \in S /\ readmit[c] = "quiesced" THEN "replaced" ELSE readmit[c]]
      /\ forced' = forced \cup MarkActive(S)
      /\ UNCHANGED <<excluded, stage, site>>
  BY DEF AlertRaised, pipeVars
<1>3. Typed /\ PoolTyped
  BY DEF PoolInv, PlaceInv, QueueInv, Base
<1>4. Alerted' = Alerted \cup S
  BY <1>2 DEF Alerted
<1>5. Targets(S) = Containers \ Alerted'
  BY <1>4 DEF Targets
<1>6. drained \in SUBSET Entries /\ \A e \in drained : At(pending, e) # {}
  BY <1>3 DEF Typed, At
<1>7. IsPlan(plan, drained, Containers \ Alerted')
  BY <1>1, <1>5, DrainIsPlan
<1>8. ASSUME NEW c \in Alerted'
      PROVE  pending[c] \subseteq drained /\ Active(c) \subseteq forced'
  <2>1. CASE c \in S
    BY <1>2, <2>1 DEF MarkActive
  <2>2. CASE c \in Alerted
    BY <1>2, <2>2
    DEF PoolInv, RoutedWell, NothingPendingOnAlerted, InFlightOnAlertedIsForced
  <2> QED
    BY <1>4, <2>1, <2>2
<1>9. \A e \in parked : Containers \subseteq Alerted' \cup excluded[e]
  BY <1>4 DEF PoolInv, RoutedWell, ParkedHasNoTarget
<1>10. \A c \in Containers : readmit'[c] # "no" => c \in Alerted' /\ Active(c) = {}
  BY <1>2, <1>4 DEF PoolInv, RoutedWell, QuietWhileReadmitting
<1>11. PICK D \in SUBSET Entries : D = drained
  BY <1>6
<1> HIDE DEF drained
<1>12. /\ IsPlan(plan, D, Containers \ Alerted')
       /\ \A e \in D : e \in parked \/ At(pending, e) # {}
       /\ \A c \in Alerted' : pending[c] \subseteq D /\ Active(c) \subseteq forced'
  BY <1>6, <1>7, <1>8, <1>11
<1> QED
  BY <1>1, <1>2, <1>9, <1>10, <1>12, PlanRoutes

LEMMA RecoveredRoutes ==
    ASSUME PoolInv, NEW c \in Containers, Recovered(c)
    PROVE  RoutedWell'
<1> DEFINE open == (Containers \ Alerted) \cup {c}
<1>1. PICK plan \in FlushPlans(open) :
         pending' = PendingAfter(plan) /\ parked' = ParkedAfter(plan)
  BY Zenon DEF Recovered
<1>2. /\ alert' = [alert EXCEPT ![c] = "none"]
      /\ readmit' = [readmit EXCEPT ![c] = "no"]
      /\ UNCHANGED <<excluded, stage, site, forced>>
  BY DEF Recovered, pipeVars
<1>3. Typed /\ PoolTyped /\ parked \in SUBSET Entries
  BY DEF PoolInv, PlaceInv, QueueInv, Base, PoolTyped
<1>4. Alerted' = Alerted \ {c}
  BY <1>2, <1>3 DEF Alerted, PoolTyped
<1>5. open = Containers \ Alerted'
  BY <1>4 DEF Alerted
<1>6. IsPlan(plan, parked, Containers \ Alerted')
  BY <1>1, <1>5, FlushIsPlan
<1>7. ASSUME NEW d \in Alerted'
      PROVE  pending[d] \subseteq parked /\ Active(d) \subseteq forced'
  BY <1>2, <1>4 DEF PoolInv, RoutedWell, NothingPendingOnAlerted, InFlightOnAlertedIsForced
<1>8. \A d \in Containers : readmit'[d] # "no" => d \in Alerted' /\ Active(d) = {}
  BY <1>2, <1>3, <1>4 DEF PoolInv, RoutedWell, QuietWhileReadmitting, PoolTyped
<1>9. PICK D \in SUBSET Entries : D = parked
  BY <1>3
<1>10. /\ IsPlan(plan, D, Containers \ Alerted')
       /\ \A e \in D : e \in parked \/ At(pending, e) # {}
       /\ \A d \in Alerted' : pending[d] \subseteq D /\ Active(d) \subseteq forced'
       /\ \A e \in parked \ D : Containers \subseteq Alerted' \cup excluded[e]
  BY <1>6, <1>7, <1>9
<1> QED
  BY <1>1, <1>2, <1>8, <1>10, PlanRoutes

\* Nothing that is parked can move when a submission flushes: its targets
\* are the containers that were closed to it before.
LEMMA IdleFlush ==
    ASSUME PoolInv, NEW ex, NEW plan \in FlushPlans(Targets(ex))
    PROVE  /\ PromiseAfter(plan) = promise
           /\ PendingAfter(plan) = pending
           /\ ParkedAfter(plan) = parked
           /\ DOMAIN plan = parked /\ \A e \in parked : plan[e] = "parked"
<1>1. Typed /\ parked \in SUBSET Entries /\ Base(parked)
  BY DEF PoolInv, PlaceInv, QueueInv, Base, PoolTyped
<1>2. DOMAIN plan = parked /\ \A e \in parked : plan[e] = "parked"
  <2> DEFINE choice == [e \in parked |->
              LET allowed == Targets(ex) \ excluded[e] IN
              IF allowed = {} THEN {"parked"}
              ELSE IF e \in spent THEN {"timeout"} ELSE allowed]
  <2>1. /\ plan \in [parked -> Containers \cup {"parked", "timeout", "error"}]
        /\ \A e \in parked : plan[e] \in choice[e]
    BY DEF FlushPlans, Plans
  <2>2. \A e \in parked : Targets(ex) \ excluded[e] = {}
    BY DEF PoolInv, RoutedWell, ParkedHasNoTarget, Targets
  <2> QED
    BY <2>1, <2>2
<1>3. "parked" \notin Containers
  BY PoolAssumption
<1>4. PromiseAfter(plan) = promise
  BY <1>1, <1>2 DEF PromiseAfter, Typed
<1>5. \A c \in Containers : pending[c] \cap parked = {}
  BY <1>1 DEF Base, WellPlaced, Places
<1>6. PendingAfter(plan) = pending
  <2>1. \A c \in Containers : PendingAfter(plan)[c] = pending[c]
    BY <1>2, <1>3, <1>5 DEF PendingAfter, Going
  <2> QED
    BY <1>1, <2>1 DEF PendingAfter, Typed
<1>7. ParkedAfter(plan) = parked
  BY <1>2 DEF ParkedAfter, Going
<1> QED
  BY <1>2, <1>4, <1>6, <1>7

LEMMA PoolEnqueueRoutes ==
    ASSUME PoolInv, NEW e \in Entries, NEW ex \in SUBSET Containers, PoolEnqueue(e, ex)
    PROVE  RoutedWell'
<1>1. PICK plan \in FlushPlans(Targets(ex)), c \in Targets(ex) :
         /\ parked' = ParkedAfter(plan)
         /\ \/ /\ pending' = PendingAfter(plan)
               /\ UNCHANGED excluded
            \/ /\ pending' = [PendingAfter(plan) EXCEPT ![c] = @ \cup {e}]
               /\ excluded' = [excluded EXCEPT ![e] = ex \cup Alerted]
  BY Zenon DEF PoolEnqueue
<1>2. promise[e] = "idle" /\ UNCHANGED <<stage, site, forced, alert, readmit>>
  BY DEF PoolEnqueue, pipeVars
<1>3. PendingAfter(plan) = pending /\ ParkedAfter(plan) = parked
  BY IdleFlush
<1>4. /\ pending \in [Containers -> SUBSET Entries]
      /\ excluded \in [Entries -> SUBSET Containers]
      /\ Base(parked)
  BY DEF PoolInv, PlaceInv, QueueInv, Base, Typed
<1>5. /\ Alerted' = Alerted /\ UNCHANGED readmit /\ UNCHANGED forced
      /\ \A d \in Containers : Active(d)' = Active(d)
  BY <1>2 DEF Alerted, Active
<1>6. CASE UNCHANGED pending /\ UNCHANGED excluded
  <2>1. UNCHANGED parked
    BY <1>1, <1>3
  <2>2. \A d \in Entries : Places(d)' = Places(d)
    BY <1>6 DEF Places
  <2> QED
    BY <1>2, <1>5, <1>6, <2>1, <2>2
    DEF PoolInv, RoutedWell, NothingPendingOnAlerted, InFlightOnAlertedIsForced,
        ExclusionsHonoured, ParkedHasNoTarget, QuietWhileReadmitting, Alerted
<1>7. CASE /\ pending' = [pending EXCEPT ![c] = @ \cup {e}]
           /\ excluded' = [excluded EXCEPT ![e] = ex \cup Alerted]
  <2>1. c \in Containers /\ c \notin Alerted /\ c \notin ex
    BY DEF Targets
  <2>2. stage[e] = "none" /\ Places(e) = {} /\ e \notin parked /\ site[e] \notin Containers
    BY <1>2, <1>4 DEF Base, Fresh, WellPlaced, Sited
  <2>3. Places(e)' = {c} /\ \A d \in Entries \ {e} : Places(d)' = Places(d)
    BY <1>4, <1>7, <2>1, <2>2 DEF Places
  <2>4. UNCHANGED parked
    BY <1>1, <1>3
  <2>5. \A d \in Containers \ {c} : pending'[d] = pending[d]
    BY <1>4, <1>7
  <2>6. /\ excluded'[e] = ex \cup Alerted
        /\ \A d \in Entries \ {e} : excluded'[d] = excluded[d]
    BY <1>4, <1>7
  <2>7. NothingPendingOnAlerted'
    BY <1>5, <2>1, <2>5 DEF PoolInv, RoutedWell, NothingPendingOnAlerted, Alerted
  <2>8. InFlightOnAlertedIsForced'
    BY <1>5 DEF PoolInv, RoutedWell, InFlightOnAlertedIsForced, Alerted
  <2>9. ExclusionsHonoured'
    <3> SUFFICES ASSUME NEW d \in Entries
                 PROVE  site[d] \notin excluded'[d] /\ Places(d)' \cap excluded'[d] = {}
      BY <1>2 DEF ExclusionsHonoured
    <3>1. CASE d = e
      BY <2>1, <2>2, <2>3, <2>6, <3>1 DEF Alerted
    <3>2. CASE d # e
      BY <2>3, <2>6, <3>2 DEF PoolInv, RoutedWell, ExclusionsHonoured
    <3> QED
      BY <3>1, <3>2
  <2>10. ParkedHasNoTarget'
    <3>1. \A d \in parked : d \in Entries /\ d # e
      BY <2>2 DEF PoolInv, PlaceInv, PoolTyped
    <3> QED
      BY <1>5, <2>4, <2>6, <3>1 DEF PoolInv, RoutedWell, ParkedHasNoTarget
  <2>11. QuietWhileReadmitting'
    BY <1>5, <2>1, <2>5 DEF PoolInv, RoutedWell, QuietWhileReadmitting
  <2> QED
    BY <2>7, <2>8, <2>9, <2>10, <2>11 DEF RoutedWell
<1> QED
  BY <1>1, <1>3, <1>6, <1>7

\* Steps that at most withdraw what is parked.
LEMMA RoutesSame ==
    ASSUME PoolInv, UNCHANGED <<pending, excluded, stage, site, forced, alert,
           readmit>>,
           parked' \subseteq parked
    PROVE  RoutedWell'
<1>1. /\ Alerted' = Alerted
      /\ \A d \in Containers : Active(d)' = Active(d)
      /\ \A d \in Entries : Places(d)' = Places(d)
  BY DEF Alerted, Active, Places
<1> QED
  BY <1>1
  DEF PoolInv, RoutedWell, NothingPendingOnAlerted, InFlightOnAlertedIsForced,
      ExclusionsHonoured, ParkedHasNoTarget, QuietWhileReadmitting, Alerted

\* canReadmit() says yes on a quiet container, and an alert that cannot be
\* cleared ends the recovery.
LEMMA ReadmitRoutes ==
    ASSUME PoolInv, NEW c \in Containers, Quiesced(c) \/ ClearRefused(c)
    PROVE  RoutedWell'
<1>1. /\ UNCHANGED <<pending, excluded, stage, site, forced, alert, parked>>
      /\ \A d \in Containers \ {c} : readmit'[d] = readmit[d]
      /\ readmit'[c] # "no" => Quiesced(c)
  BY DEF Quiesced, ClearRefused, queueVars, listVars, pipeVars, PoolInv, PlaceInv, PoolTyped
<1>2. /\ Alerted' = Alerted
      /\ \A d \in Containers : Active(d)' = Active(d)
      /\ \A d \in Entries : Places(d)' = Places(d)
  BY <1>1 DEF Alerted, Active, Places
<1>3. ASSUME Quiesced(c)
      PROVE  c \in Alerted /\ pending[c] = {} /\ Active(c) = {}
  <2>1. IsFiniteSet(pending[c]) /\ IsFiniteSet(Active(c))
    BY EntriesAssumption, FS_Subset DEF PoolInv, PlaceInv, QueueInv, Base, Typed, Active
  <2>2. Cardinality(pending[c]) \in Nat /\ Cardinality(Active(c)) \in Nat
    BY <2>1, FS_CardinalityType
  <2>3. Cardinality(pending[c]) + Cardinality(Active(c)) = 0 /\ alert[c] = "local"
    BY <1>3 DEF Quiesced, load
  <2>4. Cardinality(pending[c]) = 0 /\ Cardinality(Active(c)) = 0
    BY <2>2, <2>3
  <2> QED
    BY <2>1, <2>3, <2>4, FS_EmptySet DEF Alerted
<1>4. QuietWhileReadmitting'
  BY <1>1, <1>2, <1>3 DEF PoolInv, RoutedWell, QuietWhileReadmitting
<1> QED
  BY <1>1, <1>2, <1>4
  DEF PoolInv, RoutedWell, NothingPendingOnAlerted, InFlightOnAlertedIsForced,
      ExclusionsHonoured, ParkedHasNoTarget, Alerted

LEMMA NextRoutes ==
    ASSUME PoolInv, [PoolNext]_vars
    PROVE  RoutedWell'
<1>1. ASSUME NEW e \in Entries, ParkTimeout(e)
      PROVE  RoutedWell'
  BY <1>1, RoutesSame DEF ParkTimeout, pipeVars
<1>2. CASE CancelParked
  BY <1>2, RoutesSame DEF CancelParked, pipeVars
<1>3. ASSUME NEW e \in Entries, NEW ex \in CallerExclusions,
             PoolEnqueue(e, ex) \/ PoolIneligible(e, ex)
      PROVE  RoutedWell'
  <2>1. ex \in SUBSET Containers
    BY PoolAssumption
  <2>2. CASE PoolIneligible(e, ex)
    BY <2>2, RoutesSame DEF PoolIneligible, listVars, pipeVars, poolVars
  <2> QED
    BY <1>3, <2>1, <2>2, PoolEnqueueRoutes
<1>4. CASE UNCHANGED vars
  BY <1>4, RoutesSame DEF vars, queueVars, listVars, pipeVars, poolVars
<1>5. CASE QueueStep /\ PoolRests
  BY <1>5, QueueStepRoutes DEF PoolRests
<1> QED
  BY <1>1, <1>2, <1>3, <1>4, <1>5, AlertRaisedRoutes, ReadmitRoutes, RecoveredRoutes
  DEF PoolNext, PoolStep

THEOREM PoolInvariant == PoolSpec => []PoolInv
<1>1. PoolInit => PoolInv
  <2> SUFFICES ASSUME PoolInit PROVE RoutedWell
    BY InitPlaces DEF PoolInv
  <2>1. Alerted = {} /\ \A e \in Entries : Places(e) = {}
    BY DEF PoolInit, Init, Alerted, Places
  <2> QED
    BY <2>1, NowhereAssumption
    DEF PoolInit, Init, RoutedWell, NothingPendingOnAlerted, InFlightOnAlertedIsForced,
        ExclusionsHonoured, ParkedHasNoTarget, QuietWhileReadmitting
<1>2. PoolInv /\ [PoolNext]_vars => PoolInv'
  BY NextPlaces, NextRoutes DEF PoolInv
<1> QED
  BY <1>1, <1>2, PTL DEF PoolSpec

\* Routing, drain, flush, parking and recovery agree on which containers are
\* open to an entry: nothing waits on an alerted container, what runs there
\* is tagged, exclusions hold, what is parked has nowhere to go, and a
\* container is re-admitted only when it is quiet.
THEOREM WorkIsRoutedWell == PoolSpec => []RoutedWell
<1>1. PoolInv => RoutedWell
  BY DEF PoolInv
<1> QED
  BY <1>1, PoolInvariant, PTL

-----------------------------------------------------------------------------
(* The test mutex and the taint, across recoveries. *)

\* The mutex, the barrier, and what is given up: it has tainted the queue of its
\* container, or the container was re-admitted over it.
PoolTestInv ==
    /\ TestInv
    /\ orphaned \subseteq tainted \cup overlooked

LEMMA PoolNextTest ==
    ASSUME ~NstMaintenance, PlaceInv, PoolTestInv, [PoolNext]_vars
    PROVE  PoolTestInv'
<1>1. PICK away \in SUBSET Entries : away = parked
  BY DEF PlaceInv, PoolTyped
<1>2. QueueInv(away) /\ TestInv
  BY <1>1 DEF PlaceInv, PoolTestInv
<1>3. CASE UNCHANGED <<pipeVars, testVars, overlooked>>
  BY <1>2, <1>3, TestSame DEF pipeVars, testVars, PoolTestInv
<1>4. ASSUME NEW c \in Containers, Recovered(c)
      PROVE  PoolTestInv'
  <2>1. /\ tainted' = tainted \ {c} /\ overlooked' = overlooked \cup ({c} \cap orphaned)
        /\ UNCHANGED <<stage, site, testLocked, orphaned>>
    BY <1>4 DEF Recovered, pipeVars
  <2>2. \A d \in Containers : InTest(d)' = InTest(d) /\ Blocked(d)' = Blocked(d)
    BY <2>1 DEF InTest, Blocked
  <2>3. TestInv'
    BY <1>2, <2>1, <2>2 DEF TestInv, TestMutexOK, UntaintedTests
  <2> QED
    BY <2>1, <2>3 DEF PoolTestInv
<1>5. CASE QueueStep /\ PoolRests
  <2>1. TestInv'
    BY <1>2, <1>5, NextTest DEF Next
  <2>2. orphaned' \ tainted' \subseteq orphaned \ tainted
    BY <1>5, GivenUpTaints DEF Next
  <2>3. overlooked' = (overlooked \cap orphaned') \ tainted'
    BY <1>5 DEF PoolRests
  <2> QED
    BY <2>1, <2>2, <2>3 DEF PoolTestInv
<1>6. CASE \/ \E e \in Entries : ParkTimeout(e)
           \/ CancelParked
           \/ \E S \in SUBSET Containers, kind \in {"local", "global"} : AlertRaised(S, kind)
           \/ \E c \in Containers : Quiesced(c) \/ ClearRefused(c)
           \/ \E e \in Entries, ex \in CallerExclusions : PoolEnqueue(e, ex) \/ PoolIneligible(e, ex)
           \/ UNCHANGED vars
  BY <1>3, <1>6 DEF ParkTimeout, CancelParked, AlertRaised, Quiesced, ClearRefused,
     PoolEnqueue, PoolIneligible, vars, queueVars
<1> QED
  BY <1>4, <1>5, <1>6 DEF PoolNext, PoolStep

\* Over alerts, drains, flushes and recoveries of any kind, by probes alone as
\* well, tests are kept apart from each other, and from every operation the
\* queue has given up but those over which a container was re-admitted, while
\* in-container maintenance is off.
THEOREM PoolTestsRunAlone ==
    ASSUME ~NstMaintenance
    PROVE  PoolSpec => []TestsAloneUnlessReadmitted
<1>1. PoolInit => PoolTestInv
  BY DEF PoolInit, Init, PoolTestInv, TestInv, TestMutexOK, UntaintedTests, InTest, Blocked
<1>2. PlaceInv /\ PoolTestInv /\ [PoolNext]_vars => PoolTestInv'
  BY PoolNextTest
<1>3. PoolTestInv => TestsAloneUnlessReadmitted
  BY DEF PoolTestInv, TestInv, UntaintedTests, TestsAloneUnlessReadmitted
<1> QED
  BY <1>1, <1>2, <1>3, PlacesInvariant, PTL DEF PoolSpec

-----------------------------------------------------------------------------
(* The contract: the refinement mapping of every step is a legal one. *)

\* Only work that was dispatched is tagged by an alert.
TagInv == \A e \in forced : stage[e] # "none"

\* What a step does to the call of entry e, as its caller can see it.
CallMoves(e) ==
    \/ promise'[e] = promise[e] /\ (stage'[e] = "none" <=> stage[e] = "none")
    \/ promise[e] = "idle" /\ promise'[e] \in {"full", "ineligible"}
    \/ promise[e] = "idle" /\ promise'[e] = "waiting" /\ stage'[e] = "none"
    \/ /\ promise[e] = "waiting" /\ stage[e] = "none"
       /\ \/ promise'[e] \in {"timeout", "error"}
          \/ promise'[e] = "waiting" /\ stage'[e] # "none"
    \/ /\ promise[e] = "waiting" /\ stage[e] # "none"
       /\ \/ promise'[e] \in {"error", "success"}
          \/ promise'[e] = "failure" /\ e \notin forced
          \/ promise'[e] = "quarantined" /\ e \in forced

\* A call's moves are the contract's: workState changes legally or not at all.
LEMMA MovesAreLegal ==
    ASSUME PoolInv, TagInv, NEW e \in Entries, CallMoves(e), PlaceInv',
           e \in forced => e \in forced',
           e \in forced' => e \in forced \/ (stage[e] # "none" /\ promise'[e] = promise[e]
                                                             /\ stage'[e] # "none")
    PROVE  workState'[e] = workState[e] \/ Contract!Legal(workState[e], workState'[e])
<1> DEFINE Seen(p, st, tag) == IF p # "waiting" THEN p
                               ELSE IF st = "none" THEN "queued"
                               ELSE IF tag THEN "tagged" ELSE "running"
<1>1. workState[e] = Seen(promise[e], stage[e], e \in forced)
  BY DEF workState
<1>2. workState'[e] = Seen(promise'[e], stage'[e], e \in forced')
  BY DEF workState
<1>3. stage[e] = "none" => e \notin forced
  BY DEF TagInv
<1>4. /\ Contract!Legal("idle", "full") /\ Contract!Legal("idle", "ineligible")
      /\ Contract!Legal("idle", "queued") /\ Contract!Legal("queued", "running")
      /\ Contract!Legal("queued", "timeout") /\ Contract!Legal("queued", "error")
      /\ Contract!Legal("running", "tagged") /\ Contract!Legal("running", "success")
      /\ Contract!Legal("running", "failure") /\ Contract!Legal("running", "error")
      /\ Contract!Legal("tagged", "success") /\ Contract!Legal("tagged", "quarantined")
      /\ Contract!Legal("tagged", "error")
  BY DEF Contract!Legal, Contract!Moves
<1>5. CASE promise'[e] = promise[e] /\ (stage'[e] = "none" <=> stage[e] = "none")
  BY <1>1, <1>2, <1>3, <1>4, <1>5
<1>6. CASE promise[e] = "idle" /\ promise'[e] \in {"full", "ineligible"}
  BY <1>1, <1>2, <1>4, <1>6
<1>7. CASE promise[e] = "idle" /\ promise'[e] = "waiting" /\ stage'[e] = "none"
  BY <1>1, <1>2, <1>4, <1>7
<1>8. CASE promise[e] = "waiting" /\ stage[e] = "none"
  BY <1>1, <1>2, <1>3, <1>4, <1>8 DEF CallMoves
<1>9. CASE promise[e] = "waiting" /\ stage[e] # "none"
  BY <1>1, <1>2, <1>3, <1>4, <1>5, <1>9 DEF CallMoves
<1> QED
  BY <1>5, <1>6, <1>7, <1>8, <1>9 DEF CallMoves

LEMMA PipelineMoves ==
    ASSUME NEW away \in SUBSET Entries, Base(away), NEW e \in Entries, Pipeline(e)
    PROVE  UNCHANGED forced /\ \A d \in Entries : CallMoves(d)
<1>1. /\ stage[e] # "none" /\ OthersWait(e)
      /\ stage' \in [Entries -> Stages]
  BY PipelineStages
<1>2. stage[e] \in Unsettled => promise[e] = "waiting"
  BY DEF Base, WellPlaced
<1>3. promise \in [Entries -> {"idle", "waiting"} \cup Settlements]
  BY DEF Base, Typed
<1>4. /\ UNCHANGED forced
      /\ \/ UNCHANGED promise
         \/ /\ promise[e] = "waiting"
            /\ \/ promise' = [promise EXCEPT ![e] = "error"]
               \/ promise' = [promise EXCEPT ![e] = "success"]
               \/ promise' = [promise EXCEPT ![e] = "failure"] /\ e \notin forced
               \/ promise' = [promise EXCEPT ![e] = "quarantined"] /\ e \in forced
  <2>1. CASE Settle(e)
    <3>1. promise[e] = "waiting"
      BY <1>2, <2>1 DEF Settle, Unsettled
    <3> QED
      BY <2>1, <3>1 DEF Settle
  <2>2. CASE PrepThrows(e) \/ CompileThrows(e) \/ TestBarred(e) \/ TestThrows(e) \/ TestTimesOut(e)
    BY <1>2, <2>2 DEF PrepThrows, CompileThrows, TestBarred, TestThrows, TestTimesOut,
       Reject, Unsettled
  <2>3. CASE \/ PrepOk(e) \/ CompileEnds(e) \/ CompileToTest(e) \/ TestBegins(e)
             \/ TestEnds(e) \/ CleanupEnds(e)
    BY <2>3 DEF PrepOk, CompileEnds, CompileToTest, TestBegins, TestEnds, CleanupEnds
  <2> QED
    BY <2>1, <2>2, <2>3 DEF Pipeline
<1>5. stage'[e] # "none"
  <2>1. UNCHANGED site /\ Base(away)'
    BY PipelineStages, PipelineBase
  <2> QED
    BY <1>1, <2>1 DEF Base, Sited
<1>6. \A d \in Entries \ {e} : stage'[d] = "none" <=> stage[d] = "none"
  BY <1>1 DEF OthersWait
<1>7. \A d \in Entries \ {e} : promise'[d] = promise[d]
  BY <1>3, <1>4
<1>8. CallMoves(e)
  BY <1>1, <1>3, <1>4, <1>5 DEF CallMoves
<1> QED
  BY <1>4, <1>6, <1>7, <1>8 DEF CallMoves

LEMMA QueueStepMoves ==
    ASSUME NEW away \in SUBSET Entries, Base(away), QueueStep
    PROVE  UNCHANGED forced /\ \A d \in Entries : CallMoves(d)
<1>0. /\ promise \in [Entries -> {"idle", "waiting"} \cup Settlements]
      /\ stage \in [Entries -> Stages] /\ pending \in [Containers -> SUBSET Entries]
  BY DEF Base, Typed
<1>1. ASSUME UNCHANGED <<promise, stage, forced>>
      PROVE  UNCHANGED forced /\ \A d \in Entries : CallMoves(d)
  BY <1>1 DEF CallMoves
<1>2. ASSUME NEW e \in Entries, BudgetRunsOut(e) \/ MaintenanceTimesOut(e)
      PROVE  UNCHANGED <<promise, stage, forced>>
  BY <1>2 DEF BudgetRunsOut, MaintenanceTimesOut, pipeVars
<1>3. ASSUME NEW c \in Containers, DispatchNothing(c) \/ OrphanEnds(c)
      PROVE  UNCHANGED <<promise, stage, forced>>
  BY <1>3 DEF DispatchNothing, OrphanEnds, pipeVars
<1>4. ASSUME NEW e \in Entries, NEW c \in Containers, QueueTimeout(e, c)
      PROVE  UNCHANGED forced /\ \A d \in Entries : CallMoves(d)
  <2>1. e \in pending[c] /\ promise' = [promise EXCEPT ![e] = "timeout"]
        /\ UNCHANGED <<stage, forced>>
    BY <1>4 DEF QueueTimeout, Reject, pipeVars
  <2>2. promise[e] = "waiting" /\ stage[e] = "none"
    BY <2>1 DEF Base, WellPlaced, Places
  <2> QED
    BY <1>0, <2>1, <2>2 DEF CallMoves
<1>5. ASSUME NEW c \in Containers, Dispatch(c)
      PROVE  UNCHANGED forced /\ \A d \in Entries : CallMoves(d)
  <2>1. PICK e \in Heads(pending[c]) : stage' = [stage EXCEPT ![e] = "prep"]
    BY <1>5 DEF Dispatch
  <2>2. UNCHANGED <<promise, forced>>
    BY <1>5 DEF Dispatch
  <2>3. e \in pending[c] /\ e \in Entries
    BY <1>0 DEF Heads
  <2>4. promise[e] = "waiting" /\ stage[e] = "none"
    BY <2>3 DEF Base, WellPlaced, Places
  <2> QED
    BY <1>0, <2>1, <2>2, <2>3, <2>4 DEF CallMoves
<1> QED
  BY <1>1, <1>2, <1>3, <1>4, <1>5, PipelineMoves DEF QueueStep

\* A plan answers only what waited in a list.
LEMMA PlanMoves ==
    ASSUME PoolInv, NEW D \in SUBSET Entries, NEW plan, DOMAIN plan = D,
           \A e \in D : e \in parked \/ At(pending, e) # {},
           promise' = PromiseAfter(plan), UNCHANGED stage
    PROVE  \A d \in Entries : CallMoves(d)
<1>1. \A e \in D : promise[e] = "waiting" /\ stage[e] = "none"
  BY DEF PoolInv, PlaceInv, QueueInv, Base, WellPlaced, Places, At
<1>2. \A d \in Entries : promise'[d] = promise[d] \/ (d \in D /\ promise'[d] \in {"timeout", "error"})
  BY DEF PromiseAfter
<1> QED
  BY <1>1, <1>2 DEF CallMoves

LEMMA AlertRaisedMoves ==
    ASSUME PoolInv, NEW S \in SUBSET Containers, NEW kind \in {"local", "global"},
           AlertRaised(S, kind)
    PROVE  /\ \A d \in Entries : CallMoves(d)
           /\ forced \subseteq forced'
           /\ \A d \in forced' \ forced : stage[d] # "none" /\ promise'[d] = promise[d]
           /\ UNCHANGED stage
<1> DEFINE drained == UNION {pending[c] : c \in S}
<1>1. PICK plan \in DrainPlans(drained, Targets(S), kind) : promise' = PromiseAfter(plan)
  BY Zenon DEF AlertRaised
<1>2. Typed /\ Sited /\ WellPlaced(parked)
  BY DEF PoolInv, PlaceInv, QueueInv, Base
<1>3. drained \in SUBSET Entries /\ \A e \in drained : At(pending, e) # {}
  BY <1>2 DEF Typed, At
<1>4. DOMAIN plan = drained
  <2>1. Targets(S) \in SUBSET Containers
    BY DEF Targets
  <2>2. IsPlan(plan, drained, Targets(S))
    BY <1>1, <2>1, DrainIsPlan
  <2> QED
    BY <2>2 DEF IsPlan
<1>5. UNCHANGED stage /\ forced' = forced \cup MarkActive(S)
  BY DEF AlertRaised, pipeVars
<1>6. PICK D \in SUBSET Entries : D = drained
  BY <1>3
<1>7. \A d \in Entries : CallMoves(d)
  <2>1. DOMAIN plan = D /\ \A e \in D : e \in parked \/ At(pending, e) # {}
    BY <1>3, <1>4, <1>6
  <2> HIDE DEF drained
  <2> QED
    BY <1>1, <1>5, <2>1, PlanMoves
<1>8. \A d \in MarkActive(S) : d \in Entries /\ stage[d] # "none"
  BY <1>2 DEF MarkActive, Active, Sited
<1>9. \A d \in Entries : stage[d] # "none" => promise'[d] = promise[d]
  BY <1>1, <1>2, <1>3, <1>4 DEF PromiseAfter, WellPlaced, Places, At
<1> QED
  BY <1>5, <1>7, <1>8, <1>9

\* Every step of the pool, seen by the callers.
LEMMA NextMoves ==
    ASSUME PoolInv, TagInv, [PoolNext]_vars
    PROVE  /\ \A e \in Entries : CallMoves(e)
           /\ forced \subseteq forced'
           /\ \A e \in forced' \ forced :
                stage[e] # "none" /\ promise'[e] = promise[e] /\ stage'[e] # "none"
           /\ \A e \in Entries : stage[e] # "none" => stage'[e] # "none"
<1> DEFINE Goal == /\ \A e \in Entries : CallMoves(e)
                   /\ forced \subseteq forced'
                   /\ \A e \in forced' \ forced :
                        stage[e] # "none" /\ promise'[e] = promise[e] /\ stage'[e] # "none"
                   /\ \A e \in Entries : stage[e] # "none" => stage'[e] # "none"
<1>0. /\ promise \in [Entries -> {"idle", "waiting"} \cup Settlements]
      /\ parked \in SUBSET Entries /\ Base(parked) /\ WellPlaced(parked) /\ Fresh
  BY DEF PoolInv, PlaceInv, PoolTyped, QueueInv, Base, Typed
<1>1. ASSUME QueueStep PROVE Goal
  <2>1. PICK away \in SUBSET Entries : away = parked
    BY <1>0
  <2>2. Base(away)
    BY <1>0, <2>1
  <2>3. UNCHANGED forced /\ \A d \in Entries : CallMoves(d)
    BY <1>1, <2>2, QueueStepMoves
  <2>4. \A e \in Entries : stage[e] # "none" => stage'[e] # "none"
    <3>1. Base(away)'
      BY <1>1, <2>2, NextBase DEF Next
    <3>2. \A e \in Entries : site[e] \in Containers => site'[e] \in Containers
      BY <1>1, <2>2, QueueMoves
    <3> QED
      BY <2>2, <3>1, <3>2 DEF Base, Sited
  <2> QED
    BY <2>3, <2>4
<1>2. ASSUME NEW e \in Entries, NEW how \in {"full", "ineligible", "waiting"},
             promise[e] = "idle", promise' = [promise EXCEPT ![e] = how],
             UNCHANGED <<stage, forced>>
      PROVE  Goal
  <2>1. stage[e] = "none"
    BY <1>0, <1>2 DEF Fresh
  <2> QED
    BY <1>0, <1>2, <2>1 DEF CallMoves
<1>3. ASSUME NEW e \in Entries, NEW ex \in CallerExclusions, PoolEnqueue(e, ex)
      PROVE  Goal
  <2>1. PICK plan \in FlushPlans(Targets(ex)), how \in {"full", "waiting"} :
             promise' = [PromiseAfter(plan) EXCEPT ![e] = how]
    BY <1>3, Zenon DEF PoolEnqueue
  <2>2. promise[e] = "idle" /\ UNCHANGED <<stage, forced>>
    BY <1>3 DEF PoolEnqueue, pipeVars
  <2>3. PromiseAfter(plan) = promise
    BY IdleFlush
  <2> QED
    BY <1>2, <2>1, <2>2, <2>3
<1>4. ASSUME NEW e \in Entries, NEW ex \in CallerExclusions, PoolIneligible(e, ex)
      PROVE  Goal
  BY <1>2, <1>4 DEF PoolIneligible, Reject, pipeVars
<1>5. ASSUME NEW S \in SUBSET parked, NEW why \in {"timeout", "error"},
             promise' = [e \in Entries |-> IF e \in S THEN why ELSE promise[e]],
             UNCHANGED <<stage, forced>>
      PROVE  Goal
  <2>1. \A e \in S : promise[e] = "waiting" /\ stage[e] = "none"
    BY <1>0 DEF WellPlaced
  <2> QED
    BY <1>5, <2>1 DEF CallMoves
<1>6. ASSUME NEW e \in Entries, ParkTimeout(e)
      PROVE  Goal
  <2>1. {e} \in SUBSET parked
    BY <1>6 DEF ParkTimeout
  <2>2. promise' = [d \in Entries |-> IF d \in {e} THEN "timeout" ELSE promise[d]]
    BY <1>0, <1>6 DEF ParkTimeout, Reject
  <2>3. UNCHANGED <<stage, forced>>
    BY <1>6 DEF ParkTimeout, pipeVars
  <2> QED
    BY <1>5, <2>1, <2>2, <2>3
<1>7. ASSUME CancelParked PROVE Goal
  <2>1. promise' = [d \in Entries |-> IF d \in parked THEN "error" ELSE promise[d]]
        /\ UNCHANGED <<stage, forced>>
    BY <1>7 DEF CancelParked, pipeVars
  <2> QED
    BY <1>5, <2>1
<1>8. ASSUME NEW S \in SUBSET Containers,
             NEW kind \in {"local", "global"}, AlertRaised(S, kind)
      PROVE  Goal
  BY <1>8, AlertRaisedMoves
<1>9. ASSUME UNCHANGED <<promise, stage, forced>> PROVE Goal
  BY <1>9 DEF CallMoves
<1>10. ASSUME NEW c \in Containers, Quiesced(c) \/ ClearRefused(c)
       PROVE  Goal
  BY <1>9, <1>10 DEF Quiesced, ClearRefused, queueVars, pipeVars
<1>11. ASSUME NEW c \in Containers, Recovered(c)
       PROVE  Goal
  <2>1. PICK plan \in FlushPlans((Containers \ Alerted) \cup {c}) : promise' = PromiseAfter(plan)
    BY <1>11, Zenon DEF Recovered
  <2>2. UNCHANGED <<stage, forced>>
    BY <1>11 DEF Recovered, pipeVars
  <2>3. DOMAIN plan = parked
    BY <2>1 DEF FlushPlans, Plans
  <2>4. \A d \in Entries : CallMoves(d)
    <3>1. PICK D \in SUBSET Entries : D = parked
      BY <1>0
    <3> QED
      BY <2>1, <2>2, <2>3, <3>1, PlanMoves
  <2> QED
    BY <2>2, <2>4
<1>12. ASSUME UNCHANGED vars PROVE Goal
  BY <1>9, <1>12 DEF vars, queueVars, pipeVars
<1> HIDE DEF Goal
<1>13. Goal
  BY <1>1, <1>3, <1>4, <1>6, <1>7, <1>8, <1>10, <1>11, <1>12 DEF PoolNext, PoolStep
<1> QED
  BY <1>13 DEF Goal

\* The pool implements the contract of a call: draining, parking, flushing
\* and re-admitting an entry are invisible to its caller, a call is answered
\* once, and an overtaken run is never scored as failed.
THEOREM ContractKept == PoolSpec => KeepsContract
<1>1. PoolInit => TagInv /\ Contract!Init
  BY DEF PoolInit, Init, TagInv, Contract!Init, workState
<1>2. PoolInv /\ TagInv /\ [PoolNext]_vars => TagInv'
  <2> SUFFICES ASSUME PoolInv, TagInv, [PoolNext]_vars PROVE TagInv'
    OBVIOUS
  <2>1. forced \subseteq Entries
    BY DEF PoolInv, PlaceInv, QueueInv, Base, Typed
  <2> QED
    BY <2>1, NextMoves DEF TagInv
<1>3. PoolInv /\ TagInv /\ [PoolNext]_vars => [Contract!Next]_workState
  <2> SUFFICES ASSUME PoolInv, TagInv, [PoolNext]_vars PROVE Contract!Next
    OBVIOUS
  <2>1. PlaceInv'
    BY NextPlaces DEF PoolInv
  <2>2. workState' \in [Entries -> {"idle"} \cup Contract!Open \cup Contract!Answers]
    BY <2>1 DEF PlaceInv, QueueInv, Base, Typed, workState, Contract!Open, Contract!Answers,
       Settlements
  <2>3. ASSUME NEW e \in Entries
        PROVE  workState'[e] = workState[e] \/ Contract!Legal(workState[e], workState'[e])
    BY <2>1, NextMoves, MovesAreLegal
  <2> QED
    BY <2>2, <2>3 DEF Contract!Next
<1> QED
  BY <1>1, <1>2, <1>3, PoolInvariant, PTL DEF PoolSpec, KeepsContract

-----------------------------------------------------------------------------
(* First in, first out: OrderKept. *)

SameList(a, b) ==
    \/ {a, b} \subseteq parked
    \/ \E c \in Containers : {a, b} \subseteq pending[c]
    \/ \E c \in Containers : {a, b} \subseteq Blocked(c)

\* `before` orders entries of one list, one way.
Lined ==
    \A a, b \in Entries : <<a, b>> \in before => SameList(a, b) /\ <<b, a>> \notin before

\* What OrderKept says of a step, but for the converse pair.
KeepsOrder ==
    \A d, e \in Entries :
        <<d, e>> \in before /\ Together(d, e) /\ Together(d, e)' => <<d, e>> \in before'

\* Entries leave their lists.
LEMMA LeaveOrder ==
    ASSUME Lined, NEW S \in SUBSET Entries, before' = Without(S),
           before \in SUBSET (Entries \X Entries),
           \A a, b \in Entries \ S : SameList(a, b) => SameList(a, b)',
           \A x \in S : x \notin parked' /\ \A c \in Containers : x \notin pending'[c]
    PROVE  Lined' /\ KeepsOrder
<1>1. \A a, b \in Entries : <<a, b>> \in before' <=> <<a, b>> \in before /\ a \notin S /\ b \notin S
  BY DEF Without
<1>2. Lined'
  BY <1>1 DEF Lined
<1>3. KeepsOrder
  BY <1>1 DEF KeepsOrder, Together
<1> QED
  BY <1>2, <1>3

LEMMA SameOrder ==
    ASSUME Lined, UNCHANGED before,
           \A a, b \in Entries : SameList(a, b) => SameList(a, b)'
    PROVE  Lined' /\ KeepsOrder
BY DEF Lined, KeepsOrder

\* Entry e joins the end of the list L.
LEMMA JoinOrder ==
    ASSUME Lined, NEW e \in Entries,
           NEW L \in SUBSET Entries, before' = before \cup (L \X {e}),
           before \in SUBSET (Entries \X Entries), e \notin L,
           \A a \in Entries : ~SameList(a, e) /\ ~SameList(e, a),
           \A a, b \in Entries : SameList(a, b) => SameList(a, b)',
           \A a \in L : SameList(a, e)'
    PROVE  Lined' /\ KeepsOrder
<1>1. \A a, b \in Entries : <<a, b>> \in before' <=> <<a, b>> \in before \/ (a \in L /\ b = e)
  OBVIOUS
<1>2. \A a \in Entries : <<a, e>> \notin before /\ <<e, a>> \notin before
  BY DEF Lined
<1>3. ASSUME NEW a \in Entries, NEW b \in Entries, <<a, b>> \in before'
      PROVE  SameList(a, b)' /\ <<b, a>> \notin before'
  <2>1. CASE <<a, b>> \in before
    BY <1>1, <1>2, <2>1 DEF Lined
  <2>2. CASE a \in L /\ b = e
    BY <1>1, <1>2, <2>2
  <2> QED
    BY <1>1, <1>3, <2>1, <2>2
<1>4. Lined'
  BY <1>3 DEF Lined
<1>5. KeepsOrder
  BY <1>1 DEF KeepsOrder
<1> QED
  BY <1>4, <1>5

LEMMA ReleaseTestOrder ==
    ASSUME Base(parked), Lined, NEW e \in Entries, stage[e] \in {"entering", "testing"},
           NEW next \in {"passed", "failed", "cleanup"}, ReleaseTest(e, next),
           UNCHANGED <<pending, parked, site>>
    PROVE  Lined' /\ KeepsOrder
<1>1. /\ before \in SUBSET (Entries \X Entries)
      /\ stage \in [Entries -> Stages]
  BY DEF Base, Typed
<1>2. CASE UNCHANGED before /\ stage' = [stage EXCEPT ![e] = next]
  <2>1. \A c \in Containers : Blocked(c)' = Blocked(c)
    BY <1>1, <1>2 DEF Blocked
  <2> QED
    BY <1>2, <2>1, SameOrder DEF SameList
<1>3. ASSUME NEW w \in Heads(Blocked(site[e])), before' = Without({w}),
             stage' = [stage EXCEPT ![e] = next, ![w] = "entering"]
      PROVE  Lined' /\ KeepsOrder
  <2>1. w \in Entries /\ stage[w] = "blocked"
    BY DEF Heads, Blocked
  <2>2. w \notin parked /\ \A c \in Containers : w \notin pending[c]
    BY <2>1 DEF Base, WellPlaced, Places
  <2>3. \A c \in Containers : Blocked(c)' = Blocked(c) \ {w}
    BY <1>1, <1>3, <2>1 DEF Blocked
  <2>4. \A a, b \in Entries \ {w} : SameList(a, b) => SameList(a, b)'
    BY <2>3 DEF SameList
  <2>5. PICK S \in SUBSET Entries : S = {w}
    BY <2>1
  <2> QED
    BY <1>1, <1>3, <2>2, <2>4, <2>5, LeaveOrder
<1> QED
  BY <1>2, <1>3 DEF ReleaseTest

LEMMA CompileToTestOrder ==
    ASSUME Base(parked), Lined, NEW e \in Entries, CompileToTest(e), UNCHANGED parked
    PROVE  Lined' /\ KeepsOrder
<1>1. /\ before \in SUBSET (Entries \X Entries)
      /\ stage \in [Entries -> Stages]
      /\ stage[e] = "compile" /\ UNCHANGED <<pending, site>>
  BY DEF Base, Typed, CompileToTest
<1>2. e \notin parked /\ \A c \in Containers : e \notin pending[c] /\ e \notin Blocked(c)
  BY <1>1 DEF Base, WellPlaced, Places, Blocked
<1>3. CASE UNCHANGED before /\ stage' = [stage EXCEPT ![e] = "entering"]
  <2>1. \A c \in Containers : Blocked(c)' = Blocked(c)
    BY <1>1, <1>3 DEF Blocked
  <2> QED
    BY <1>1, <1>3, <2>1, SameOrder DEF SameList
<1>4. CASE /\ stage' = [stage EXCEPT ![e] = "blocked"]
           /\ before' = before \cup (Blocked(site[e]) \X {e})
  <2>1. site[e] \in Containers
    BY <1>1 DEF Base, Sited
  <2>2. /\ Blocked(site[e])' = Blocked(site[e]) \cup {e}
        /\ \A c \in Containers : Blocked(c) \subseteq Blocked(c)'
    BY <1>1, <1>4 DEF Blocked
  <2>3. \A a, b \in Entries : SameList(a, b) => SameList(a, b)'
    BY <1>1, <2>2 DEF SameList
  <2>4. \A a \in Entries : ~SameList(a, e) /\ ~SameList(e, a)
    BY <1>2 DEF SameList
  <2>5. PICK L \in SUBSET Entries : L = Blocked(site[e])
    BY DEF Blocked
  <2>6. \A a \in L : SameList(a, e)'
    BY <2>1, <2>2, <2>5, <1>1 DEF SameList
  <2>7. e \notin L
    BY <1>2, <2>1, <2>5
  <2> QED
    BY <1>1, <1>4, <2>3, <2>4, <2>5, <2>6, <2>7, JoinOrder
<1> QED
  BY <1>3, <1>4 DEF CompileToTest

LEMMA PipelineOrder ==
    ASSUME Base(parked), Lined, NEW e \in Entries, Pipeline(e), UNCHANGED parked
    PROVE  Lined' /\ KeepsOrder
<1>1. CASE TestBarred(e) \/ TestThrows(e) \/ TestTimesOut(e)
  <2>1. /\ stage[e] \in {"entering", "testing"} /\ ReleaseTest(e, "cleanup")
        /\ UNCHANGED <<pending, site>>
    BY <1>1 DEF TestBarred, TestThrows, TestTimesOut
  <2> QED
    BY <2>1, ReleaseTestOrder
<1>2. CASE TestEnds(e)
  <2>1. PICK result \in {"passed", "failed"} : ReleaseTest(e, result)
    BY <1>2 DEF TestEnds
  <2>2. stage[e] \in {"entering", "testing"} /\ UNCHANGED <<pending, site>>
    BY <1>2 DEF TestEnds
  <2> QED
    BY <2>1, <2>2, ReleaseTestOrder
<1>3. CASE \/ PrepOk(e) \/ PrepThrows(e) \/ CompileThrows(e) \/ CompileEnds(e)
           \/ TestBegins(e) \/ Settle(e) \/ CleanupEnds(e)
  <2>1. /\ UNCHANGED <<before, pending, site>> /\ stage[e] # "blocked"
        /\ \E next \in Stages \ {"blocked"} : stage' = [stage EXCEPT ![e] = next]
    BY <1>3 DEF PrepOk, PrepThrows, CompileThrows, CompileEnds, TestBegins, Settle,
       CleanupEnds, listVars, Stages
  <2>2. stage \in [Entries -> Stages]
    BY DEF Base, Typed
  <2>3. \A c \in Containers : Blocked(c)' = Blocked(c)
    BY <2>1, <2>2 DEF Blocked
  <2> QED
    BY <2>1, <2>3, SameOrder DEF SameList
<1> QED
  BY <1>1, <1>2, <1>3, CompileToTestOrder DEF Pipeline

LEMMA QueueStepOrder ==
    ASSUME Base(parked), Lined, QueueStep, UNCHANGED parked
    PROVE  Lined' /\ KeepsOrder
<1>0. /\ before \in SUBSET (Entries \X Entries)
      /\ stage \in [Entries -> Stages] /\ pending \in [Containers -> SUBSET Entries]
      /\ site \in [Entries -> Containers \cup {Nowhere}]
  BY DEF Base, Typed
<1>1. ASSUME UNCHANGED <<before, pending, stage, site>>
      PROVE  Lined' /\ KeepsOrder
  <2>1. \A c \in Containers : Blocked(c)' = Blocked(c)
    BY <1>1 DEF Blocked
  <2> QED
    BY <1>1, <2>1, SameOrder DEF SameList
<1>2. ASSUME NEW e \in Entries, BudgetRunsOut(e) \/ MaintenanceTimesOut(e)
      PROVE  UNCHANGED <<before, pending, stage, site>>
  BY <1>2 DEF BudgetRunsOut, MaintenanceTimesOut, listVars, pipeVars
<1>3. ASSUME NEW c \in Containers, DispatchNothing(c) \/ OrphanEnds(c)
      PROVE  UNCHANGED <<before, pending, stage, site>>
  BY <1>3 DEF DispatchNothing, OrphanEnds, listVars, pipeVars
<1>4. ASSUME NEW e \in Entries, NEW c \in Containers, e \in pending[c],
             pending' = [pending EXCEPT ![c] = @ \ {e}], before' = Without({e}),
             \A d \in Containers : Blocked(d)' = Blocked(d)
      PROVE  Lined' /\ KeepsOrder
  <2>1. e \notin parked /\ \A d \in Containers \ {c} : e \notin pending[d]
    BY <1>4 DEF Base, WellPlaced, Places
  <2>2. e \notin parked' /\ \A d \in Containers : e \notin pending'[d]
    BY <1>0, <1>4, <2>1
  <2>3. \A a, b \in Entries \ {e} : SameList(a, b) => SameList(a, b)'
    BY <1>0, <1>4 DEF SameList
  <2>4. PICK S \in SUBSET Entries : S = {e}
    OBVIOUS
  <2> QED
    BY <1>0, <1>4, <2>2, <2>3, <2>4, LeaveOrder
<1>5. ASSUME NEW e \in Entries, NEW c \in Containers, QueueTimeout(e, c)
      PROVE  Lined' /\ KeepsOrder
  <2>1. \A d \in Containers : Blocked(d)' = Blocked(d)
    BY <1>5 DEF QueueTimeout, pipeVars, Blocked
  <2> QED
    BY <1>4, <1>5, <2>1 DEF QueueTimeout
<1>6. ASSUME NEW c \in Containers, Dispatch(c)
      PROVE  Lined' /\ KeepsOrder
  <2>1. PICK e \in Heads(pending[c]) :
          /\ pending' = [pending EXCEPT ![c] = @ \ {e}]
          /\ before' = Without({e})
          /\ stage' = [stage EXCEPT ![e] = "prep"]
          /\ site' = [site EXCEPT ![e] = c]
    BY <1>6 DEF Dispatch
  <2>2. e \in pending[c] /\ e \in Entries
    BY <1>0 DEF Heads
  <2>3. stage[e] = "none"
    BY <2>2 DEF Base, WellPlaced, Places
  <2>4. \A d \in Containers : Blocked(d)' = Blocked(d)
    BY <1>0, <2>1, <2>2, <2>3 DEF Blocked
  <2> QED
    BY <1>4, <2>1, <2>2, <2>4
<1> QED
  BY <1>1, <1>2, <1>3, <1>5, <1>6, PipelineOrder DEF QueueStep

\* A plan carried out.  A list is moved as a whole or not at all, and the
\* order of what moves, which may extend `before`, goes one way.
LEMMA PlanOrder ==
    ASSUME PlaceInv, Lined, NEW D \in SUBSET Entries, NEW plan, DOMAIN plan = D,
           NEW order \in SUBSET (Entries \X Entries), before \subseteq order,
           \A a, b \in D : <<a, b>> \in order => <<b, a>> \notin order,
           \A a, b \in Entries : SameList(a, b) => (a \in D <=> b \in D),
           \A e \in D : e \in parked \/ At(pending, e) # {},
           pending' = PendingAfter(plan), parked' = ParkedAfter(plan),
           before' = BeforeAfter(plan, order), UNCHANGED <<stage, site>>
    PROVE  Lined' /\ KeepsOrder
<1>0. /\ before \in SUBSET (Entries \X Entries)
      /\ pending \in [Containers -> SUBSET Entries] /\ parked \in SUBSET Entries
      /\ "parked" \notin Containers
  BY PoolAssumption DEF PlaceInv, PoolTyped, QueueInv, Base, Typed
<1>1. \A c \in Containers : Blocked(c)' = Blocked(c)
  BY DEF Blocked
<1>2. \A c \in Containers : pending'[c] = (pending[c] \ D) \cup Going(plan, c)
  BY DEF PendingAfter
<1>3. parked' = (parked \ D) \cup Going(plan, "parked")
  BY DEF ParkedAfter
<1>4. \A x : Going(plan, x) = {e \in D : plan[e] = x}
  BY DEF Going
<1>5. \A a, b \in Entries :
        <<a, b>> \in before' <=>
           \/ <<a, b>> \in before /\ a \notin D /\ b \notin D
           \/ \E c \in Containers : a \in pending[c] \ D /\ b \in Going(plan, c)
           \/ a \in parked \ D /\ b \in Going(plan, "parked")
           \/ /\ <<a, b>> \in order /\ a \in D /\ b \in D
              /\ plan[a] = plan[b] /\ plan[a] \in Containers \cup {"parked"}
  <2> SUFFICES ASSUME NEW a \in Entries, NEW b \in Entries
               PROVE  <<a, b>> \in before' <=>
           \/ <<a, b>> \in before /\ a \notin D /\ b \notin D
           \/ \E c \in Containers : a \in pending[c] \ D /\ b \in Going(plan, c)
           \/ a \in parked \ D /\ b \in Going(plan, "parked")
           \/ /\ <<a, b>> \in order /\ a \in D /\ b \in D
              /\ plan[a] = plan[b] /\ plan[a] \in Containers \cup {"parked"}
    OBVIOUS
  <2>1. <<a, b>> \in Without(D) <=> <<a, b>> \in before /\ a \notin D /\ b \notin D
    BY DEF Without
  <2>2. <<a, b>> \in Behind(plan) <=>
           \/ \E c \in Containers : a \in pending[c] \ D /\ b \in Going(plan, c)
           \/ a \in parked \ D /\ b \in Going(plan, "parked")
    BY DEF Behind
  <2>3. <<a, b>> \in Joining(plan) <=>
           a \in D /\ b \in D /\ plan[a] = plan[b] /\ plan[a] \in Containers \cup {"parked"}
    BY DEF Joining
  <2> QED
    BY <2>1, <2>2, <2>3 DEF BeforeAfter
<1>6. ASSUME NEW a \in Entries, NEW b \in Entries, <<a, b>> \in before'
      PROVE  SameList(a, b)' /\ <<b, a>> \notin before'
  <2>1. CASE <<a, b>> \in before /\ a \notin D /\ b \notin D
    <3>1. SameList(a, b) /\ <<b, a>> \notin before
      BY <2>1 DEF Lined
    <3>2. SameList(a, b)'
      BY <1>1, <1>2, <1>3, <2>1, <3>1 DEF SameList
    <3>3. <<b, a>> \notin before'
      BY <1>4, <1>5, <2>1, <3>1
    <3> QED
      BY <3>2, <3>3
  <2>2. CASE \E c \in Containers : a \in pending[c] \ D /\ b \in Going(plan, c)
    <3>1. SameList(a, b)'
      BY <1>2, <2>2 DEF SameList
    <3>2. a \notin D /\ b \in D
      BY <1>4, <2>2
    <3> QED
      BY <1>4, <1>5, <3>1, <3>2
  <2>3. CASE a \in parked \ D /\ b \in Going(plan, "parked")
    <3>1. SameList(a, b)'
      BY <1>3, <2>3 DEF SameList
    <3>2. a \notin D /\ b \in D
      BY <1>4, <2>3
    <3> QED
      BY <1>4, <1>5, <3>1, <3>2
  <2>4. CASE /\ <<a, b>> \in order /\ a \in D /\ b \in D
             /\ plan[a] = plan[b] /\ plan[a] \in Containers \cup {"parked"}
    <3>1. SameList(a, b)'
      BY <1>2, <1>3, <1>4, <2>4 DEF SameList
    <3>2. <<b, a>> \notin order
      BY <2>4
    <3> QED
      BY <1>4, <1>5, <2>4, <3>1, <3>2
  <2> QED
    BY <1>5, <1>6, <2>1, <2>2, <2>3, <2>4
<1>7. Lined'
  BY <1>6 DEF Lined
<1>8. KeepsOrder
  <2> SUFFICES ASSUME NEW d \in Entries, NEW e \in Entries,
                      <<d, e>> \in before, Together(d, e)'
               PROVE  <<d, e>> \in before'
    BY DEF KeepsOrder
  <2>1. d \in D <=> e \in D
    BY DEF Lined
  <2>2. CASE d \notin D
    BY <1>5, <2>1, <2>2
  <2>3. CASE d \in D
    <3>1. e \in D
      BY <2>1, <2>3
    <3>2. \/ plan[d] = "parked" /\ plan[e] = "parked"
          \/ \E c \in Containers : plan[d] = c /\ plan[e] = c
      BY <1>2, <1>3, <1>4, <2>3, <3>1 DEF Together
    <3> QED
      BY <1>5, <2>3, <3>1, <3>2
  <2> QED
    BY <2>2, <2>3
<1> QED
  BY <1>7, <1>8

LEMMA AlertRaisedOrder ==
    ASSUME PlaceInv, Lined, NEW S \in SUBSET Containers,
           NEW kind \in {"local", "global"},
           AlertRaised(S, kind)
    PROVE  Lined' /\ KeepsOrder
<1> DEFINE drained == UNION {pending[c] : c \in S}
<1>1. PICK plan \in DrainPlans(drained, Targets(S), kind), r \in DrainOrders(S) :
         /\ pending' = PendingAfter(plan)
         /\ parked' = ParkedAfter(plan)
         /\ before' = BeforeAfter(plan, before \cup UNION {pending[p[1]] \X pending[p[2]] : p \in r})
  BY Zenon DEF AlertRaised
<1>a. PICK crossing : crossing = UNION {pending[p[1]] \X pending[p[2]] : p \in r}
  OBVIOUS
<1>2. UNCHANGED <<stage, site>>
  BY DEF AlertRaised, pipeVars
<1>3. Typed /\ WellPlaced(parked) /\ parked \in SUBSET Entries
  BY DEF PlaceInv, PoolTyped, QueueInv, Base
<1>4. drained \in SUBSET Entries /\ \A e \in drained : At(pending, e) # {}
  BY <1>3 DEF Typed, At
<1>5. DOMAIN plan = drained
  <2>1. Targets(S) \in SUBSET Containers
    BY DEF Targets
  <2>2. IsPlan(plan, drained, Targets(S))
    BY <1>1, <2>1, DrainIsPlan
  <2> QED
    BY <2>2 DEF IsPlan
<1>6. PICK D \in SUBSET Entries, order \in {before \cup crossing} :
        D = drained /\ order = before \cup crossing
  BY <1>4
<1>7. ASSUME NEW c \in Containers, NEW d \in Containers,
             NEW e \in pending[c], e \in pending[d]
      PROVE  c = d /\ e \in Entries /\ e \notin parked /\ stage[e] = "none"
  BY <1>3, <1>7 DEF Typed, WellPlaced, Places
<1>8. ASSUME NEW a \in Entries, NEW b \in Entries
      PROVE  <<a, b>> \in crossing <=>
               \E c, d \in S : <<c, d>> \in r /\ a \in pending[c] /\ b \in pending[d]
  <2>1. \A p \in r : p[1] \in S /\ p[2] \in S /\ p = <<p[1], p[2]>>
    BY DEF DrainOrders
  <2>2. ASSUME <<a, b>> \in crossing
        PROVE  \E c, d \in S : <<c, d>> \in r /\ a \in pending[c] /\ b \in pending[d]
    <3>1. PICK p \in r : <<a, b>> \in pending[p[1]] \X pending[p[2]]
      BY <1>a, <2>2
    <3> QED
      BY <2>1, <3>1
  <2>3. ASSUME NEW c \in S,
               NEW d \in S, <<c, d>> \in r, a \in pending[c], b \in pending[d]
        PROVE  <<a, b>> \in crossing
    BY <1>a, <2>3
  <2> QED
    BY <2>2, <2>3
<1>9. order \in SUBSET (Entries \X Entries)
  <2>1. \A p \in r : pending[p[1]] \X pending[p[2]] \in SUBSET (Entries \X Entries)
    <3> SUFFICES ASSUME NEW p \in r
                 PROVE  pending[p[1]] \X pending[p[2]] \in SUBSET (Entries \X Entries)
      OBVIOUS
    <3>1. p[1] \in Containers /\ p[2] \in Containers
      BY DEF DrainOrders
    <3>2. pending[p[1]] \in SUBSET Entries /\ pending[p[2]] \in SUBSET Entries
      BY <1>3, <3>1 DEF Typed
    <3> QED
      BY <3>2
  <2>2. before \in SUBSET (Entries \X Entries)
    BY <1>3 DEF Typed
  <2> QED
    BY <1>a, <1>6, <2>1, <2>2
<1>10. ASSUME NEW a \in D, NEW b \in D, <<a, b>> \in order
       PROVE  <<b, a>> \notin order
  <2>1. \A c, d \in S : <<c, d>> \in r => c # d /\ <<d, c>> \notin r
    BY DEF DrainOrders
  <2>2. a \in Entries /\ b \in Entries
    OBVIOUS
  <2>3. PICK c \in S, d \in S : a \in pending[c] /\ b \in pending[d]
    BY <1>6
  <2>4. /\ \A x \in S : a \in pending[x] => x = c
        /\ \A x \in S : b \in pending[x] => x = d
    BY <1>7, <2>3
  <2>5. /\ <<a, b>> \in crossing => <<c, d>> \in r
        /\ <<b, a>> \in crossing => <<d, c>> \in r
    BY <1>8, <2>2, <2>4
  <2>6. CASE c = d
    <3>1. <<a, b>> \notin crossing /\ <<b, a>> \notin crossing
      BY <2>1, <2>6, <2>5
    <3>2. <<a, b>> \in before
      BY <1>6, <1>10, <3>1
    <3> QED
      BY <1>6, <2>2, <3>1, <3>2 DEF Lined
  <2>7. CASE c # d
    <3>1. ~SameList(a, b) /\ ~SameList(b, a)
      BY <1>7, <2>3, <2>7 DEF SameList, Blocked
    <3>2. <<a, b>> \notin before /\ <<b, a>> \notin before
      BY <2>2, <3>1 DEF Lined
    <3>3. <<a, b>> \in crossing
      BY <1>6, <1>10, <3>2
    <3>4. <<c, d>> \in r
      BY <2>5, <3>3
    <3>5. <<b, a>> \notin crossing
      BY <2>1, <2>5, <3>4
    <3> QED
      BY <1>6, <3>2, <3>5
  <2> QED
    BY <2>6, <2>7
<1>11. ASSUME NEW a \in Entries, NEW b \in Entries, SameList(a, b)
       PROVE  a \in D <=> b \in D
  BY <1>6, <1>7, <1>11 DEF SameList, Blocked
<1>12. /\ DOMAIN plan = D /\ before \subseteq order /\ before' = BeforeAfter(plan, order)
       /\ \A e \in D : e \in parked \/ At(pending, e) # {}
  BY <1>1, <1>a, <1>4, <1>5, <1>6
<1> HIDE DEF drained
<1> QED
  BY <1>1, <1>2, <1>9, <1>10, <1>11, <1>12, PlanOrder

LEMMA RecoveredOrder ==
    ASSUME PlaceInv, Lined, NEW c \in Containers, Recovered(c)
    PROVE  Lined' /\ KeepsOrder
<1>1. PICK plan \in FlushPlans((Containers \ Alerted) \cup {c}) :
         /\ pending' = PendingAfter(plan)
         /\ parked' = ParkedAfter(plan)
         /\ before' = BeforeAfter(plan, before)
  BY Zenon DEF Recovered
<1>2. UNCHANGED <<stage, site>>
  BY DEF Recovered, pipeVars
<1>3. Typed /\ WellPlaced(parked) /\ parked \in SUBSET Entries
  BY DEF PlaceInv, PoolTyped, QueueInv, Base
<1>4. DOMAIN plan = parked
  BY <1>1 DEF FlushPlans, Plans
<1>5. PICK D \in SUBSET Entries, order \in SUBSET (Entries \X Entries) :
        D = parked /\ order = before
  BY <1>3 DEF Typed
<1>6. \A a, b \in D : <<a, b>> \in order => <<b, a>> \notin order
  BY <1>5 DEF Lined
<1>7. ASSUME NEW a \in Entries, NEW b \in Entries, SameList(a, b)
      PROVE  a \in D <=> b \in D
  BY <1>3, <1>5, <1>7 DEF SameList, Blocked, WellPlaced, Places
<1>8. /\ DOMAIN plan = D /\ before \subseteq order /\ before' = BeforeAfter(plan, order)
      /\ \A e \in D : e \in parked \/ At(pending, e) # {}
  BY <1>1, <1>4, <1>5
<1> QED
  BY <1>1, <1>2, <1>6, <1>7, <1>8, PlanOrder

LEMMA PoolEnqueueOrder ==
    ASSUME PoolInv, Lined, NEW e \in Entries, NEW ex, PoolEnqueue(e, ex)
    PROVE  Lined' /\ KeepsOrder
<1>1. PICK plan \in FlushPlans(Targets(ex)), c \in Targets(ex) :
         /\ parked' = ParkedAfter(plan)
         /\ \/ /\ pending' = PendingAfter(plan)
               /\ before' = BeforeAfter(plan, before)
            \/ /\ pending' = [PendingAfter(plan) EXCEPT ![c] = @ \cup {e}]
               /\ before' = BeforeAfter(plan, before) \cup (PendingAfter(plan)[c] \X {e})
  BY Zenon DEF PoolEnqueue
<1>2. promise[e] = "idle" /\ UNCHANGED <<stage, site>>
  BY DEF PoolEnqueue, pipeVars
<1>3. /\ PendingAfter(plan) = pending /\ ParkedAfter(plan) = parked
      /\ DOMAIN plan = parked /\ \A d \in parked : plan[d] = "parked"
  BY IdleFlush
<1>4. Typed /\ WellPlaced(parked) /\ Fresh /\ parked \in SUBSET Entries /\ "parked" \notin Containers
  BY PoolAssumption DEF PoolInv, PlaceInv, PoolTyped, QueueInv, Base
<1>5. \A a, b \in Entries : SameList(a, b) => (a \in parked <=> b \in parked)
  BY <1>4 DEF SameList, Blocked, WellPlaced, Places
<1>6. BeforeAfter(plan, before) = before
  <2>1. before \in SUBSET (Entries \X Entries)
    BY <1>4 DEF Typed
  <2>2. Behind(plan) = {}
    <3>1. \A c2 \in Containers : Going(plan, c2) = {}
      BY <1>3, <1>4 DEF Going
    <3> QED
      BY <1>3, <3>1 DEF Behind
  <2>3. \A a, b \in Entries : <<a, b>> \in before =>
          <<a, b>> \in Without(parked) \/ <<a, b>> \in Joining(plan)
    <3> SUFFICES ASSUME NEW a \in Entries, NEW b \in Entries, <<a, b>> \in before
                 PROVE  <<a, b>> \in Without(parked) \/ <<a, b>> \in Joining(plan)
      OBVIOUS
    <3>1. a \in parked <=> b \in parked
      BY <1>5 DEF Lined
    <3> QED
      BY <1>3, <3>1 DEF Without, Joining
  <2>4. Without(parked) \subseteq before
    BY DEF Without
  <2> QED
    BY <1>3, <2>1, <2>2, <2>3, <2>4 DEF BeforeAfter
<1>7. \A d \in Containers : Blocked(d)' = Blocked(d)
  BY <1>2 DEF Blocked
<1>8. CASE UNCHANGED pending /\ UNCHANGED before
  BY <1>1, <1>3, <1>7, <1>8, SameOrder DEF SameList
<1>9. CASE /\ pending' = [pending EXCEPT ![c] = @ \cup {e}]
           /\ before' = before \cup (pending[c] \X {e})
  <2>1. stage[e] = "none" /\ e \notin parked /\ \A d \in Containers : e \notin pending[d]
    BY <1>2, <1>4 DEF Fresh, WellPlaced, Places
  <2>2. c \in Containers
    BY DEF Targets
  <2>3. \A a \in Entries : ~SameList(a, e) /\ ~SameList(e, a)
    BY <2>1 DEF SameList, Blocked
  <2>4. /\ pending'[c] = pending[c] \cup {e} /\ UNCHANGED parked
        /\ \A d \in Containers : pending[d] \subseteq pending'[d]
    BY <1>1, <1>3, <1>4, <1>9, <2>2 DEF Typed
  <2>5. \A a, b \in Entries : SameList(a, b) => SameList(a, b)'
    BY <1>7, <2>4 DEF SameList
  <2>6. PICK L \in SUBSET Entries : L = pending[c]
    BY <1>4, <2>2 DEF Typed
  <2>7. e \notin L /\ before' = before \cup (L \X {e}) /\ \A a \in L : SameList(a, e)'
    BY <1>9, <2>1, <2>2, <2>4, <2>6 DEF SameList
  <2>8. before \in SUBSET (Entries \X Entries)
    BY <1>4 DEF Typed
  <2> QED
    BY <2>3, <2>5, <2>7, <2>8, JoinOrder
<1> QED
  BY <1>1, <1>3, <1>6, <1>8, <1>9

LEMMA NextOrder ==
    ASSUME PoolInv, Lined, [PoolNext]_vars
    PROVE  Lined' /\ KeepsOrder
<1>0. /\ PlaceInv /\ Base(parked) /\ WellPlaced(parked)
      /\ before \in SUBSET (Entries \X Entries) /\ parked \in SUBSET Entries
  BY DEF PoolInv, PlaceInv, PoolTyped, QueueInv, Base, Typed
<1>1. CASE QueueStep /\ PoolRests
  BY <1>0, <1>1, QueueStepOrder DEF PoolRests, poolVars
<1>2. ASSUME NEW S \in SUBSET parked, before' = Without(S), parked' = parked \ S,
             UNCHANGED <<pending, stage, site>>
      PROVE  Lined' /\ KeepsOrder
  <2>1. \A d \in Containers : Blocked(d)' = Blocked(d)
    BY <1>2 DEF Blocked
  <2>2. \A a, b \in Entries \ S : SameList(a, b) => SameList(a, b)'
    BY <1>2, <2>1 DEF SameList
  <2>3. \A x \in S : x \notin parked' /\ \A c \in Containers : x \notin pending'[c]
    BY <1>0, <1>2 DEF WellPlaced, Places
  <2>4. S \in SUBSET Entries
    BY <1>0
  <2> QED
    BY <1>0, <1>2, <2>2, <2>3, <2>4, LeaveOrder
<1>3. ASSUME NEW e \in Entries, ParkTimeout(e)
      PROVE  Lined' /\ KeepsOrder
  <2>1. PICK S \in SUBSET parked : S = {e}
    BY <1>3 DEF ParkTimeout
  <2>2. /\ before' = Without(S) /\ parked' = parked \ S
        /\ UNCHANGED <<pending, stage, site>>
    BY <1>3, <2>1 DEF ParkTimeout, pipeVars
  <2> QED
    BY <1>2, <2>2
<1>4. CASE CancelParked
  <2>1. PICK S \in SUBSET parked : S = parked
    OBVIOUS
  <2>2. /\ before' = Without(S) /\ parked' = parked \ S
        /\ UNCHANGED <<pending, stage, site>>
    BY <1>4, <2>1 DEF CancelParked, pipeVars
  <2> QED
    BY <1>2, <2>2
<1>5. ASSUME UNCHANGED <<before, pending, parked, stage, site>>
      PROVE  Lined' /\ KeepsOrder
  <2>1. \A d \in Containers : Blocked(d)' = Blocked(d)
    BY <1>5 DEF Blocked
  <2> QED
    BY <1>5, <2>1, SameOrder DEF SameList
<1>6. ASSUME NEW c \in Containers, Quiesced(c) \/ ClearRefused(c)
      PROVE  Lined' /\ KeepsOrder
  BY <1>5, <1>6 DEF Quiesced, ClearRefused, queueVars, listVars, pipeVars
<1>7. ASSUME NEW e \in Entries, NEW ex \in CallerExclusions, PoolIneligible(e, ex)
      PROVE  Lined' /\ KeepsOrder
  BY <1>5, <1>7 DEF PoolIneligible, listVars, pipeVars, poolVars
<1>8. CASE UNCHANGED vars
  BY <1>5, <1>8 DEF vars, queueVars, listVars, pipeVars, poolVars
<1> QED
  BY <1>0, <1>1, <1>3, <1>4, <1>6, <1>7, <1>8, AlertRaisedOrder, RecoveredOrder,
     PoolEnqueueOrder
  DEF PoolNext, PoolStep

\* Draining, parking, flushing and re-admitting never reorder: two entries
\* that are in one list before a step and in one after it keep their order.
THEOREM OrderIsKept == PoolSpec => OrderKept
<1>1. PoolInit => Lined
  BY DEF PoolInit, Init, Lined
<1>2. PoolInv /\ Lined /\ [PoolNext]_vars => Lined'
  BY NextOrder
<1>3. PoolInv /\ Lined /\ [PoolNext]_vars =>
        [\A d, e \in Entries :
           <<d, e>> \in before /\ Together(d, e) /\ Together(d, e)'
           => <<d, e>> \in before' /\ <<e, d>> \notin before']_vars
  <2> SUFFICES ASSUME PoolInv, Lined, [PoolNext]_vars,
                      NEW d \in Entries, NEW e \in Entries,
                      <<d, e>> \in before, Together(d, e), Together(d, e)'
               PROVE  <<d, e>> \in before' /\ <<e, d>> \notin before'
    OBVIOUS
  <2>1. Lined' /\ KeepsOrder
    BY NextOrder
  <2>2. <<d, e>> \in before'
    BY <2>1 DEF KeepsOrder
  <2> QED
    BY <2>1, <2>2 DEF Lined
<1> QED
  BY <1>1, <1>2, <1>3, PoolInvariant, PTL DEF PoolSpec, OrderKept
=============================================================================
