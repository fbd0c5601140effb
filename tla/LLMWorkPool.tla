---------------------------- MODULE LLMWorkPool ----------------------------
(***************************************************************************)
(* The pool of LLM requests of src/parallel/llm-work-pool.ts over the      *)
(* limiter of one provider.  An item is one call of submit(); submitBatch()*)
(* is several of them at once.                                             *)
(*                                                                         *)
(* What the model answers, and how often continuation and empty-retry call *)
(* it, is left out: a request succeeds with a number of tokens or fails    *)
(* with an error the pool classifies.                                      *)
(***************************************************************************)
EXTENDS RateLimiter

CONSTANTS
    MaxGlobal,     \* maxGlobalConcurrency
    MaxRetries,    \* MAX_IMMEDIATE_RETRIES
    Errors,        \* kinds of error that requests meet
    RetryAfters,   \* retry-after values that providers send, 0 for none
    ActualTokens   \* tokens a request can turn out to have used

ErrorKinds == {"rate_limit", "quota", "connection", "other"}

ASSUME PoolAssumption ==
    /\ MaxGlobal \in Nat \ {0}
    /\ MaxRetries \in Nat
    /\ Errors \subseteq ErrorKinds
    /\ RetryAfters \subseteq Nat
    /\ ActualTokens \subseteq Nat

VARIABLES
    pc,              \* where submit() of an item is
    retries,         \* retryCount of executeWork()
    activeRequests,  \* activeRequests
    shuttingDown,    \* shuttingDown
    draining         \* drain() has been called and has not returned

poolVars == <<pc, retries, activeRequests, shuttingDown, draining>>
vars == <<limiterVars, poolVars>>

Places == {"new", "polling", "execute", "retrying", "done", "refused"}

\* Types, and the size of the counters.
TypeOK ==
    /\ active \in SUBSET Items
    /\ estimated \in SUBSET active
    /\ waiters \in Seq(Items)
    /\ \A k \in DOMAIN window :
          window[k].of \in Items /\ window[k].tokens \in Nat
    /\ backoff \in Nat
    /\ multiplier \in 1..64
    /\ pc \in [Items -> Places]
    /\ retries \in [Items -> 0..MaxRetries]
    /\ activeRequests \in 0..MaxGlobal
    /\ shuttingDown \in BOOLEAN
    /\ draining \in BOOLEAN

Init ==
    /\ LimiterInit
    /\ pc = [i \in Items |-> "new"]
    /\ retries = [i \in Items |-> 0]
    /\ activeRequests = 0
    /\ shuttingDown = FALSE
    /\ draining = FALSE

-----------------------------------------------------------------------------

\* submit() need not poll any longer.
SlotFree == activeRequests < MaxGlobal

\* submit() refuses, polls for a global slot, or begins.
Submit(i) ==
    /\ pc[i] = "new"
    /\ ~SlotFree \/ shuttingDown
    /\ pc' = [pc EXCEPT ![i] = IF shuttingDown THEN "refused" ELSE "polling"]
    /\ UNCHANGED <<limiterVars, retries, activeRequests, shuttingDown, draining>>

\* The slot is taken and executeWork() asks for its lease in the same step.
Begin(i) ==
    /\ pc[i] = "polling" \/ (pc[i] = "new" /\ ~shuttingDown)
    /\ SlotFree
    /\ pc' = [pc EXCEPT ![i] = "execute"]
    /\ activeRequests' = activeRequests + 1
    /\ Acquire(i)
    /\ UNCHANGED <<retries, shuttingDown, draining>>

\* The request sleeps in acquire().
Asleep(i) == pc[i] = "execute" /\ i \notin active \cup ToSet(waiters)

\* The timer of acquire() fires.
WakeUp(i) ==
    /\ Asleep(i)
    /\ Acquire(i)
    /\ UNCHANGED poolVars

\* The model answers; the lease is released with what was used.
Answer(i) ==
    /\ i \in active
    /\ \E tokens \in ActualTokens : \E w \in Corrections(i, tokens) : Release(i, w, backoff)
    /\ pc' = [pc EXCEPT ![i] = "done"]
    /\ activeRequests' = activeRequests - 1
    /\ UNCHANGED <<retries, shuttingDown, draining>>

\* isRateLimitError(), isTransientError().
IsRateLimit(error) == error \in {"rate_limit", "quota"}
IsTransient(error) == error \in {"rate_limit", "connection"}

\* Mutant: the lease is released on the way out only, not before a retry.
ReleaseOnFailureLate(i, b) ==
    IF retries[i] < MaxRetries THEN UNCHANGED limiterVars ELSE Release(i, window, b)

\* The catch block: updateFromError(), then release().
ReleaseOnFailure(i, b) == Release(i, window, b)

\* Whether executeWork() retries.
Again(i, error) == IsTransient(error) /\ retries[i] < MaxRetries

\* The request fails.
Fail(i) ==
    /\ i \in active
    /\ \E error \in Errors, after \in RetryAfters :
          /\ ReleaseOnFailure(i, IF IsRateLimit(error) THEN BackoffAfter(after) ELSE backoff)
          /\ pc' = [pc EXCEPT ![i] = IF Again(i, error) THEN "retrying" ELSE "done"]
          /\ activeRequests' = activeRequests - (IF Again(i, error) THEN 0 ELSE 1)
    /\ UNCHANGED <<retries, shuttingDown, draining>>

\* The delay before a retry is over; executeWork() calls itself.
Retry(i) ==
    /\ pc[i] = "retrying"
    /\ pc' = [pc EXCEPT ![i] = "execute"]
    /\ retries' = [retries EXCEPT ![i] = @ + 1]
    /\ Acquire(i)
    /\ UNCHANGED <<activeRequests, shuttingDown, draining>>

Drain ==
    /\ ~shuttingDown
    /\ shuttingDown' = TRUE
    /\ draining' = TRUE
    /\ UNCHANGED <<limiterVars, pc, retries, activeRequests>>

Drained ==
    /\ draining
    /\ activeRequests = 0
    /\ draining' = FALSE
    /\ UNCHANGED <<limiterVars, pc, retries, activeRequests, shuttingDown>>

\* reset().
Reopen ==
    /\ shuttingDown
    /\ shuttingDown' = FALSE
    /\ UNCHANGED <<limiterVars, pc, retries, activeRequests, draining>>

TimePasses == (Age \/ BackoffEnds) /\ UNCHANGED poolVars

Next ==
    \/ \E i \in Items : \/ Submit(i) \/ Begin(i) \/ WakeUp(i)
                        \/ Answer(i) \/ Fail(i) \/ Retry(i)
    \/ Drain \/ Drained \/ Reopen
    \/ TimePasses

Spec == Init /\ [][Next]_vars

\* Timers fire, time passes and the provider answers, each adapter having a
\* timeout of its own; neither success nor failure is promised.
Fairness ==
    /\ WF_vars(TimePasses)
    /\ \A i \in Items : /\ WF_vars(Submit(i) \/ Begin(i))
                        /\ WF_vars(WakeUp(i))
                        /\ WF_vars(Retry(i))
                        /\ WF_vars(Answer(i) \/ Fail(i))

FairSpec == Spec /\ Fairness

-----------------------------------------------------------------------------

\* No request leaks a lease, a place among the waiters or a global slot, on
\* any way out of executeWork() and between its retries: only a request being
\* executed is known to the limiter, once, and the slots taken are those of
\* the requests that are executed or wait to be retried.
NothingLeaks ==
    /\ TypeOK
    /\ active \cup ToSet(waiters) \subseteq {i \in Items : pc[i] = "execute"}
    /\ active \cap ToSet(waiters) = {}
    /\ Cardinality(ToSet(waiters)) = Len(waiters)
    /\ activeRequests = Cardinality({i \in Items : pc[i] \in {"execute", "retrying"}})

\* acquire() "blocks until a slot is available" (rate-limiter.ts:157): a
\* request among the waiters gets a lease in the end.  This does not hold: see
\* README, section 3.
EveryWaiterGranted == \A i \in Items : i \in ToSet(waiters) ~> i \in active
=============================================================================
