---------------------------- MODULE RateLimiter ----------------------------
(***************************************************************************)
(* The limiter of one LLM provider, src/parallel/rate-limiter.ts.  A lease *)
(* is named by the request that holds it: a request acquires one lease at  *)
(* a time.                                                                 *)
(*                                                                         *)
(* The clock is not modelled: an entry of the last minute leaves it when   *)
(* time has passed, oldest first, and a back-off ends.  The two windows of *)
(* the code (requests, tokens) are one sequence here, since an estimate is *)
(* recorded together with its request.                                     *)
(***************************************************************************)
EXTENDS Naturals, Sequences, FiniteSets, SequencesExt

CONSTANTS
    Items,       \* requests
    Concurrent,  \* limits.concurrent
    Rpm,         \* limits.rpm
    Tpm,         \* limits.tpm
    Estimate     \* estimatedTokens of a request

ASSUME LimiterAssumption ==
    /\ IsFiniteSet(Items)
    /\ Concurrent \in Nat \ {0}
    /\ Rpm \in Nat \ {0}
    /\ Tpm \in Nat \ {0}
    /\ Estimate \in Nat \ {0}

VARIABLES
    active,      \* requests with a lease (activeLeases)
    estimated,   \* those whose lease carries the estimate
    waiters,     \* requests in the list of waiters
    window,      \* what was requested and used in the last minute, oldest first
    backoff,     \* length in seconds of the back-off under way, 0 if there is none
    multiplier   \* backoffMultiplier

limiterVars == <<active, estimated, waiters, window, backoff, multiplier>>

LimiterInit ==
    /\ active = {}
    /\ estimated = {}
    /\ waiters = <<>>
    /\ window = <<>>
    /\ backoff = 0
    /\ multiplier = 1

Request(i, tokens) == [of |-> i, kind |-> "request", tokens |-> tokens]
Usage(i, tokens) == [of |-> i, kind |-> "usage", tokens |-> tokens]

Requests(w) == Cardinality({k \in DOMAIN w : w[k].kind = "request"})
Tokens(w) == FoldSeq(LAMBDA entry, sum : entry.tokens + sum, 0, w)

Lesser(a, b) == IF a < b THEN a ELSE b

-----------------------------------------------------------------------------

\* Mutant: the limit is taken one too high.
LimitOffByOne(leases, w, b) ==
    CASE b > 0 -> "backoff"
      [] b = 0 /\ Cardinality(leases) > Concurrent -> "concurrent"
      [] b = 0 /\ Cardinality(leases) <= Concurrent /\ Requests(w) >= Rpm -> "rpm"
      [] OTHER -> IF Tokens(w) >= Tpm THEN "tpm" ELSE "none"

\* isLimited(): the first limit that `leases`, window `w` and back-off `b` meet.
Limit(leases, w, b) ==
    CASE b > 0 -> "backoff"
      [] b = 0 /\ Cardinality(leases) >= Concurrent -> "concurrent"
      [] b = 0 /\ Cardinality(leases) < Concurrent /\ Requests(w) >= Rpm -> "rpm"
      [] OTHER -> IF Tokens(w) >= Tpm THEN "tpm" ELSE "none"

\* acquire(): a lease now, or a place among the waiters, or a timer after
\* which it is called again (the request is then neither leased nor waiting).
Acquire(i) ==
    LET limit == Limit(active, window, backoff) IN
    /\ active' = IF limit = "none" THEN active \cup {i} ELSE active
    /\ estimated' = IF limit = "none" THEN estimated \cup {i} ELSE estimated
    /\ window' = IF limit = "none" THEN Append(window, Request(i, Estimate)) ELSE window
    /\ waiters' = IF limit = "concurrent" THEN Append(waiters, i) ELSE waiters
    /\ UNCHANGED <<backoff, multiplier>>

\* Entries that release() may take for the estimate of i: those with its
\* number of tokens made within a second of the lease.  The lease's own entry is
\* one of them unless it is a minute old or was taken for another's.
EstimatesLike(i) ==
    LET like == {k \in DOMAIN window : i \in estimated /\ window[k].tokens = Estimate}
        own  == {k \in like : window[k].of = i}
    IN  {k \in like : \A o \in own : k <= o}

\* The windows that can result when release() learns what i really used.
Corrections(i, tokens) ==
    LET pushed == IF tokens > 0 THEN Append(window, Usage(i, tokens)) ELSE window
        fixed  == {[window EXCEPT ![k].tokens = tokens] : k \in EstimatesLike(i)}
    IN  IF i \in estimated /\ tokens = Estimate THEN {window}
        ELSE IF \E k \in EstimatesLike(i) : window[k].of = i THEN fixed
        ELSE fixed \cup {pushed}

\* Mutant: processWaiters() is not called.
ServesNobody(leases, w, b) == 0

\* processWaiters(): how many get a lease, given the other leases, the window
\* and the back-off.  Their leases carry no estimate, so the tokens stay.
Serves(leases, w, b) ==
    IF Limit(leases, w, b) # "none" THEN 0
    ELSE Lesser(Len(waiters),
                Lesser(Concurrent - Cardinality(leases), Rpm - Requests(w)))

\* The waiters that get the leases: the first n.
Served(n) == SubSeq(waiters, 1, n)

\* activeLeases.delete().
LeasesWithout(i) == active \ {i}

\* release(): the lease goes, the multiplier is reset and waiters are served,
\* under the window `w` and the back-off `b` of that moment.
Release(i, w, b) ==
    LET n      == Serves(LeasesWithout(i), w, b)
        served == Served(n)
    IN  /\ active' = LeasesWithout(i) \cup ToSet(served)
        /\ estimated' = estimated \ {i}
        /\ waiters' = SubSeq(waiters, n + 1, Len(waiters))
        /\ window' = w \o [k \in 1..n |-> Request(served[k], 0)]
        /\ backoff' = b
        /\ multiplier' = 1

\* updateFromError(): the back-off a rate-limit error starts, in seconds;
\* `after` is the provider's retry-after, 0 if it sent none.
BackoffAfter(after) == IF after > 0 THEN after ELSE Lesser(multiplier, 60)

\* A minute has passed since the oldest entry of the window.
Age ==
    /\ window # <<>>
    /\ window' = Tail(window)
    /\ UNCHANGED <<active, estimated, waiters, backoff, multiplier>>

\* The back-off is over.
BackoffEnds ==
    /\ backoff > 0
    /\ backoff' = 0
    /\ UNCHANGED <<active, estimated, waiters, window, multiplier>>

-----------------------------------------------------------------------------

\* The limits of the provider are kept in every interleaving of acquire() and
\* release(): never more leases than `concurrent`, and never more than `rpm`
\* requests in a minute, whoever gets the leases (isLimited, createLease).
LimitsHeld ==
    /\ Cardinality(active) <= Concurrent
    /\ Requests(window) <= Rpm

\* A release leaves a waiter behind only when a limit stands against it: all
\* slots it can fill are filled in the same step (processWaiters).
ReleaseServesWaiters ==
    [][\A i \in active :
          i \notin active' => waiters' = <<>> \/ Limit(active', window', backoff') # "none"
      ]_limiterVars

\* Waiters are served in the order they came: one gets its lease only together
\* with all that wait before it (waiters.push, waiters.shift).
WaitersInOrder ==
    [][\A j, k \in DOMAIN waiters :
          j < k /\ waiters[k] \in active' => waiters[j] \in active']_limiterVars

\* What the waiters are promised.
ServedInTurn == ReleaseServesWaiters /\ WaitersInOrder
=============================================================================
