-------------------------- MODULE InfraRetryProofs --------------------------
(***************************************************************************)
(* Proofs about InfraRetry, for any containers, alerts and retry budget.   *)
(*                                                                         *)
(* The inductive invariant ties the trail to the loop: as many records as  *)
(* attempts, every container blamed by one on the exclusion list, and the  *)
(* item in flight on a container that is not on that list.                 *)
(***************************************************************************)
EXTENDS InfraRetry, FiniteSetTheorems, TLAPS

\* One record for each retry planned.
TrailCounts ==
    /\ phase \in {"call"} \cup InFlight => Len(trail) = attempt
    /\ phase = "asleep" => Len(trail) = attempt + 1

\* The item is in flight on a container that may be used.
InFlightAllowed ==
    phase \in InFlight => /\ at \in Containers \ exclude
                          /\ routed \in Containers \ exclude

BlamedExcluded == phase # "ended" => Blamed \subseteq exclude

RetryInv == TypeOK /\ TrailCounts /\ InFlightAllowed /\ BlamedExcluded /\ TrailChains

-----------------------------------------------------------------------------

\* f is t but for the container and the outcome of its last record ...
Kept(t, f) ==
    /\ f \in Seq(Record) /\ Len(f) = Len(t)
    /\ \A i \in 1..Len(t) : f[i].orig = t[i].orig
    /\ \A i \in 1..(Len(t) - 1) : f[i].retry = t[i].retry

\* ... and that container is c when a retry was under way.
Finalized(t, f, c) ==
    /\ Kept(t, f)
    /\ attempt > 0 /\ Len(t) > 0 => f[Len(t)].retry = c

\* finalizeActive() writes the container and the outcome of the last record
\* only, and nothing of a first attempt.
LEMMA FinalizeOK ==
    ASSUME NEW t \in Seq(Record), attempt \in Nat,
           NEW result \in {"succeeded", "infra_again", "non_infra_failure"},
           NEW c \in Containers \cup {"nowhere"}
    PROVE  Finalized(t, Finalize(t, result, c), c)
<1> DEFINE f == Finalize(t, result, c)
<1>1. CASE attempt > 0 /\ t # <<>>
  <2> DEFINE n == Len(t)
             r == [t[n] EXCEPT !.retry = c, !.outcome = result]
  <2>1. n \in 1..n /\ n \in Nat /\ t[n] \in Record
    BY <1>1
  <2>2. r \in Record /\ r.orig = t[n].orig /\ r.retry = c
    BY <2>1 DEF Record
  <2>3. f = [t EXCEPT ![n] = r]
    BY <1>1 DEF Finalize
  <2> HIDE DEF r
  <2> QED
    BY <2>1, <2>2, <2>3 DEF Finalized, Kept
<1>2. CASE ~(attempt > 0 /\ t # <<>>)
  BY <1>2 DEF Finalize, Finalized, Kept
<1> QED
  BY <1>1, <1>2

\* TrailChains, of any trail.
Chained(t) ==
    /\ \A i \in 1..(Len(t) - 1) : t[i].retry = t[i + 1].orig
    /\ \A i, j \in 1..Len(t) : t[i].orig = t[j].orig => i = j

\* A chain stays one when only the last record's retry container changes.
LEMMA ChainKept ==
    ASSUME NEW t \in Seq(Record), NEW f \in Seq(Record), Chained(t), Len(f) = Len(t),
           \A i \in 1..Len(t) : f[i].orig = t[i].orig,
           \A i \in 1..(Len(t) - 1) : f[i].retry = t[i].retry
    PROVE  Chained(f)
<1>1. ASSUME NEW i \in 1..(Len(f) - 1)
      PROVE  f[i].retry = f[i + 1].orig
  <2>1. i \in 1..(Len(t) - 1) /\ i + 1 \in 1..Len(t)
    BY <1>1
  <2>2. f[i].retry = t[i].retry /\ f[i + 1].orig = t[i + 1].orig
    BY <2>1
  <2>3. t[i].retry = t[i + 1].orig
    BY <2>1 DEF Chained
  <2> QED
    BY <2>2, <2>3
<1>2. ASSUME NEW i \in 1..Len(f), NEW j \in 1..Len(f), f[i].orig = f[j].orig
      PROVE  i = j
  BY <1>2 DEF Chained
<1> QED
  BY <1>1, <1>2 DEF Chained

\* A chain grows by a record that starts where its last retry failed, on a
\* container no record blames yet.
LEMMA ChainGrows ==
    ASSUME NEW f \in Seq(Record), NEW p \in Record, Chained(f),
           Len(f) > 0 => f[Len(f)].retry = p.orig,
           \A i \in 1..Len(f) : f[i].orig # p.orig
    PROVE  Chained(Append(f, p))
<1> DEFINE g == Append(f, p)
           n == Len(f)
<1>1. n \in Nat /\ Len(g) = n + 1 /\ g[n + 1] = p /\ \A i \in 1..n : g[i] = f[i]
  OBVIOUS
<1> HIDE DEF g
<1>2. ASSUME NEW i \in 1..(Len(g) - 1)
      PROVE  g[i].retry = g[i + 1].orig
  <2>1. i \in 1..n
    BY <1>1
  <2>2. CASE i = n
    BY <1>1, <2>1, <2>2
  <2>3. CASE i # n
    <3>1. i \in 1..(n - 1) /\ i + 1 \in 1..n
      BY <1>1, <2>1, <2>3
    <3>2. g[i] = f[i] /\ g[i + 1] = f[i + 1]
      BY <1>1, <2>1, <3>1
    <3>3. f[i].retry = f[i + 1].orig
      BY <3>1 DEF Chained
    <3> QED
      BY <3>2, <3>3
  <2> QED
    BY <2>2, <2>3
<1>3. ASSUME NEW i \in 1..Len(g), NEW j \in 1..Len(g), g[i].orig = g[j].orig
      PROVE  i = j
  <2>1. CASE i \in 1..n /\ j \in 1..n
    BY <1>1, <1>3, <2>1 DEF Chained
  <2>2. CASE ~(i \in 1..n /\ j \in 1..n)
    BY <1>1, <1>3, <2>2
  <2> QED
    BY <2>1, <2>2
<1> QED
  BY <1>2, <1>3 DEF Chained, g

\* A call that ends leaves the chain as it was.
LEMMA EndOK ==
    ASSUME RetryInv, NEW how \in Verdicts, NEW f, Kept(trail, f), End(how, f),
           maxRetries' = maxRetries, attempt' = attempt, waived \subseteq waived',
           waived' \subseteq AlertIds, exclude' \subseteq Containers,
           UNCHANGED <<routed, at, tagged>>,
           alerted' = alerted, outage' = outage
    PROVE  RetryInv'
<1>1. trail \in Seq(Record) /\ attempt \in Nat
  BY DEF RetryInv, TypeOK
<1>2. /\ f \in Seq(Record) /\ Len(f) = Len(trail)
      /\ \A i \in 1..Len(trail) : f[i].orig = trail[i].orig
      /\ \A i \in 1..(Len(trail) - 1) : f[i].retry = trail[i].retry
  BY DEF Kept
<1>3. phase' = "ended" /\ verdict' = how /\ trail' = f
  BY DEF End
<1>4. Cardinality(waived) \in Nat /\ Cardinality(waived') \in Nat
      /\ Cardinality(waived) <= Cardinality(waived')
  <2>1. IsFiniteSet(waived')
    BY RetryAssumption, FS_Subset
  <2> QED
    BY <2>1, FS_Subset, FS_CardinalityType
<1>5. TypeOK'
  BY <1>2, <1>3, <1>4 DEF RetryInv, TypeOK, Phases
<1>6. TrailChains'
  <2>1. Chained(trail)
    BY SMTT(30), <1>1 DEF RetryInv, TrailChains, Chained
  <2>2. Chained(f)
    BY <1>1, <1>2, <2>1, ChainKept
  <2> QED
    BY <1>2, <1>3, <2>2 DEF TrailChains, Chained
<1> QED
  BY <1>3, <1>5, <1>6 DEF RetryInv, TrailCounts, InFlightAllowed, BlamedExcluded, InFlight

\* A retry planned after the failure of container c: c joins the exclusions,
\* and the trail grows by a record that continues its chain.
LEMMA PlanOK ==
    ASSUME RetryInv, phase \in InFlight, NEW c \in Containers \ exclude,
           NEW why \in {"failure", "alert_drain"}, NEW debit \in BOOLEAN,
           NEW a \in AlertIds \cup {"none"},
           Plan(Planned(c, why, debit, a), Finalize(trail, "infra_again", c)),
           exclude' = Widened(c),
           maxRetries' = maxRetries, attempt' = attempt, waived \subseteq waived',
           waived' \subseteq AlertIds,
           UNCHANGED <<routed, at, tagged, alerted, outage>>
    PROVE  RetryInv'
<1> DEFINE f == Finalize(trail, "infra_again", c)
           p == Planned(c, why, debit, a)
           n == Len(trail)
<1>1. trail \in Seq(Record) /\ attempt \in Nat /\ n \in Nat /\ n = attempt
  BY DEF RetryInv, TypeOK, TrailCounts
<1>2. /\ f \in Seq(Record) /\ Len(f) = n
      /\ \A i \in 1..n : f[i].orig = trail[i].orig
      /\ \A i \in 1..(n - 1) : f[i].retry = trail[i].retry
      /\ n > 0 => f[n].retry = c
  <2>1. Finalized(trail, f, c)
    BY <1>1, FinalizeOK
  <2> HIDE DEF f, p
  <2> QED
    BY <1>1, <2>1 DEF Finalized, Kept, InFlight
<1>3. p \in Record /\ p.orig = c
  BY DEF Planned, Record
<1>4. phase' = "asleep" /\ trail' = Append(f, p) /\ UNCHANGED verdict
  BY DEF Plan
<1> HIDE DEF f, p
<1>5. /\ trail' \in Seq(Record) /\ Len(trail') = n + 1
      /\ \A i \in 1..n : trail'[i] = f[i]
      /\ trail'[n + 1] = p
  BY <1>1, <1>2, <1>3, <1>4
<1>6. Cardinality(waived) \in Nat /\ Cardinality(waived') \in Nat
      /\ Cardinality(waived) <= Cardinality(waived')
  <2>1. IsFiniteSet(waived')
    BY RetryAssumption, FS_Subset
  <2> QED
    BY <2>1, FS_Subset, FS_CardinalityType
<1>7. exclude' \subseteq Containers /\ exclude \subseteq exclude' /\ c \in exclude'
  BY DEF Widened, RetryInv, TypeOK
<1>8. TypeOK'
  BY <1>4, <1>5, <1>6, <1>7 DEF RetryInv, TypeOK, Phases
<1>9. TrailCounts' /\ InFlightAllowed'
  BY <1>1, <1>4, <1>5 DEF TrailCounts, InFlightAllowed, InFlight
<1>10. \A i \in 1..n : trail[i].orig \in exclude
  BY <1>1 DEF RetryInv, BlamedExcluded, Blamed, InFlight
<1>11. BlamedExcluded'
  <2> SUFFICES ASSUME NEW i \in DOMAIN trail'
               PROVE  trail'[i].orig \in exclude'
    BY DEF BlamedExcluded, Blamed
  <2>1. CASE i \in 1..n
    BY <1>2, <1>5, <1>7, <1>10, <2>1
  <2>2. CASE i = n + 1
    BY <1>3, <1>5, <1>7, <2>2
  <2> QED
    BY <1>1, <1>5, <2>1, <2>2
<1>12. TrailChains'
  <2>1. Chained(trail)
    BY <1>1 DEF RetryInv, TrailChains, Chained
  <2>2. Chained(f)
    BY <1>1, <1>2, <2>1, ChainKept
  <2>3. \A i \in 1..Len(f) : f[i].orig # p.orig
    BY <1>2, <1>3, <1>10
  <2>4. Chained(trail')
    BY <1>2, <1>3, <1>4, <2>2, <2>3, ChainGrows
  <2> QED
    BY <1>5, <2>4 DEF TrailChains, Chained
<1> QED
  BY <1>8, <1>9, <1>11, <1>12 DEF RetryInv

\* Kept composes: the thrown error of an exhausted retry is caught and
\* finalizes the record once more.
LEMMA KeptTwice ==
    ASSUME NEW t \in Seq(Record), NEW f, NEW g, Kept(t, f), Kept(f, g)
    PROVE  Kept(t, g)
<1>1. /\ f \in Seq(Record) /\ Len(f) = Len(t)
      /\ \A i \in 1..Len(t) : f[i].orig = t[i].orig
      /\ \A i \in 1..(Len(t) - 1) : f[i].retry = t[i].retry
  BY DEF Kept
<1>2. /\ g \in Seq(Record) /\ Len(g) = Len(f)
      /\ \A i \in 1..Len(f) : g[i].orig = f[i].orig
      /\ \A i \in 1..(Len(f) - 1) : g[i].retry = f[i].retry
  BY DEF Kept
<1>3. \A i \in 1..Len(t) : g[i].orig = t[i].orig
  BY <1>1, <1>2
<1>4. \A i \in 1..(Len(t) - 1) : g[i].retry = t[i].retry
  BY <1>1, <1>2
<1> QED
  BY <1>1, <1>2, <1>3, <1>4 DEF Kept

\* The trail of a call without retries is not finalized at all.
LEMMA KeptSame ==
    ASSUME NEW t \in Seq(Record)
    PROVE  Kept(t, t)
BY DEF Kept

-----------------------------------------------------------------------------

\* Routing, starting, unparking and the alerts touch neither the trail nor
\* the exclusions, and never put the item on an excluded container.
LEMMA PoolKeeps ==
    ASSUME RetryInv,
           (\E c \in Containers : Route(c)) \/ Start \/ Unpark \/ HealthChanges
    PROVE  RetryInv'
<1>1. UNCHANGED <<maxRetries, attempt, exclude, trail, waived, verdict>>
  BY DEF Route, Start, Unpark, HealthChanges
<1>2. \/ /\ phase' \in InFlight /\ (phase \in InFlight \/ phase = "call")
         /\ at' \in Containers \ exclude /\ routed' \in Containers \ exclude
      \/ ~(phase \in InFlight) /\ phase' = phase /\ UNCHANGED <<routed, at>>
  <2>1. CASE \E c \in Containers : Route(c)
    BY <2>1 DEF Route, Open, InFlight
  <2>2. CASE Start
    BY <2>2 DEF Start, poolVars, InFlight, RetryInv, InFlightAllowed
  <2>3. CASE Unpark
    BY <2>3 DEF Unpark, Open, InFlight, RetryInv, InFlightAllowed
  <2>4. CASE HealthChanges
    BY <2>4 DEF HealthChanges, InFlight, RetryInv, InFlightAllowed
  <2> QED
    BY <2>1, <2>2, <2>3, <2>4
<1>3. tagged' \in BOOLEAN /\ alerted' \in SUBSET Containers /\ outage' \in BOOLEAN
  <2>1. tagged \in BOOLEAN /\ alerted \in SUBSET Containers /\ outage \in BOOLEAN
    BY DEF RetryInv, TypeOK
  <2> QED
    BY <2>1 DEF Route, Start, Unpark, HealthChanges, poolVars, healthVars
<1>4. TypeOK'
  BY <1>1, <1>2, <1>3 DEF RetryInv, TypeOK, Phases
<1>5. TrailCounts'
  BY <1>1, <1>2 DEF RetryInv, TrailCounts, InFlight
<1>6. InFlightAllowed'
  BY <1>1, <1>2 DEF InFlightAllowed, InFlight
<1>7. BlamedExcluded' /\ TrailChains'
  BY <1>1, <1>2 DEF RetryInv, BlamedExcluded, Blamed, TrailChains, InFlight
<1> QED
  BY <1>4, <1>5, <1>6, <1>7 DEF RetryInv

\* An answer that ends the call without another look at the exclusions.
LEMMA EndingsKeep ==
    ASSUME RetryInv, Succeeds \/ QuarantinedDisabled \/ NotInfra
                     \/ FailsDisabled \/ NoEligible
    PROVE  RetryInv'
<1>1. trail \in Seq(Record) /\ attempt \in Nat /\ routed \in Containers \cup {"nowhere"}
  BY DEF RetryInv, TypeOK
<1>2. /\ maxRetries' = maxRetries /\ attempt' = attempt /\ waived \subseteq waived'
      /\ waived' \subseteq AlertIds /\ exclude' \subseteq Containers
      /\ UNCHANGED <<routed, at, tagged>> /\ alerted' = alerted /\ outage' = outage
  <2>1. waived \subseteq AlertIds /\ exclude \subseteq Containers
    BY DEF RetryInv, TypeOK
  <2> QED
    BY <2>1 DEF Succeeds, QuarantinedDisabled, NotInfra, FailsDisabled, NoEligible,
                poolVars, healthVars
<1>3. \E how \in Verdicts : \E f : Kept(trail, f) /\ End(how, f)
  <2>1. Kept(trail, trail)
    BY <1>1, KeptSame
  <2>2. \A result \in {"succeeded", "infra_again", "non_infra_failure"},
          c \in Containers \cup {"nowhere"} :
            Kept(trail, Finalize(trail, result, c))
    BY <1>1, FinalizeOK DEF Finalized
  <2>3. CASE Succeeds
    <3>1. End("result", Finalize(trail, "succeeded", routed))
      BY <2>3 DEF Succeeds
    <3> QED
      BY <1>1, <2>2, <3>1 DEF Verdicts
  <2>4. CASE QuarantinedDisabled
    <3>1. End("disabled", trail)
      BY <2>4 DEF QuarantinedDisabled
    <3> QED
      BY <2>1, <3>1 DEF Verdicts
  <2>5. CASE NotInfra
    <3>1. End("unchanged", Finalize(trail, "non_infra_failure", routed))
      BY <2>5 DEF NotInfra
    <3> QED
      BY <1>1, <2>2, <3>1 DEF Verdicts
  <2>6. CASE FailsDisabled
    <3>1. End("unchanged", trail)
      BY <2>6 DEF FailsDisabled
    <3> QED
      BY <2>1, <3>1 DEF Verdicts
  <2>7. CASE NoEligible
    <3>1. End("no_eligible_containers", Finalize(trail, "non_infra_failure", "nowhere"))
      BY <2>7 DEF NoEligible
    <3> QED
      BY <2>2, <3>1 DEF Verdicts, Exhaustions
  <2> QED
    BY <2>3, <2>4, <2>5, <2>6, <2>7
<1> QED
  BY <1>2, <1>3, EndOK

\* A quarantined result: the trail is finalized, then extended, or the call
\* ends with the exclusions covering everything.
LEMMA QuarantinedKeeps ==
    ASSUME RetryInv, NEW a \in AlertIds, Quarantined(a)
    PROVE  RetryInv'
<1> DEFINE closed == Finalize(trail, "infra_again", at)
<1>1. /\ trail \in Seq(Record) /\ attempt \in Nat /\ phase \in InFlight
      /\ at \in Containers \ exclude /\ routed \in Containers
  BY DEF RetryInv, TypeOK, InFlightAllowed, Quarantined, InFlight
<1>2. /\ maxRetries' = maxRetries /\ attempt' = attempt /\ waived \subseteq waived'
      /\ waived' \subseteq AlertIds /\ exclude' \subseteq Containers
      /\ exclude' = Widened(at)
      /\ UNCHANGED <<routed, at, tagged>> /\ alerted' = alerted /\ outage' = outage
  BY <1>1 DEF Quarantined, Widened, RetryInv, TypeOK, poolVars, healthVars
<1>3. CASE CaughtAgain(closed)
  <2>1. Kept(trail, closed)
    BY <1>1, FinalizeOK DEF Finalized
  <2>2. closed \in Seq(Record)
    BY <2>1 DEF Kept
  <2> HIDE DEF closed
  <2>3. \A result \in {"succeeded", "infra_again", "non_infra_failure"} :
            Kept(closed, Finalize(closed, result, routed))
    BY <1>1, <2>2, FinalizeOK DEF Finalized
  <2>4. PICK how \in Verdicts, result \in {"succeeded", "infra_again", "non_infra_failure"} :
            End(how, Finalize(closed, result, routed))
    BY <1>3 DEF CaughtAgain, Verdicts, Exhaustions
  <2>5. Kept(trail, Finalize(closed, result, routed))
    BY <1>1, <2>1, <2>3, KeptTwice
  <2> QED
    BY <1>2, <2>4, <2>5, EndOK
<1>4. CASE ~CaughtAgain(closed)
  <2>1. Plan(Planned(at, "alert_drain", a \in waived, a), closed)
    BY <1>4 DEF Quarantined
  <2>2. CASE a \in waived
    <3>1. Plan(Planned(at, "alert_drain", TRUE, a), closed)
      BY <2>1, <2>2, Zenon
    <3> QED
      BY <1>1, <1>2, <3>1, PlanOK
  <2>3. CASE a \notin waived
    <3>1. (a \in waived) = FALSE
      BY <2>3
    <3>2. Plan(Planned(at, "alert_drain", FALSE, a), closed)
      BY <2>1, <3>1, Zenon
    <3> QED
      BY <1>1, <1>2, <3>2, PlanOK
  <2> QED
    BY <2>2, <2>3
<1> QED
  BY <1>3, <1>4

\* An infrastructure failure, of any container the item may have been on.
LEMMA InfraKeeps ==
    ASSUME RetryInv, phase \in InFlight, NEW c \in Containers \ exclude, Infra(c)
    PROVE  RetryInv'
<1> DEFINE closed == Finalize(trail, "infra_again", c)
<1>1. trail \in Seq(Record) /\ attempt \in Nat
  BY DEF RetryInv, TypeOK
<1>2. /\ maxRetries' = maxRetries /\ attempt' = attempt /\ waived' = waived
      /\ waived' \subseteq AlertIds /\ exclude' \subseteq Containers
      /\ UNCHANGED <<routed, at, tagged>> /\ alerted' = alerted /\ outage' = outage
  BY DEF Infra, Widened, RetryInv, TypeOK, poolVars, healthVars
<1>3. Kept(trail, closed)
  BY <1>1, FinalizeOK DEF Finalized
<1>4. CASE \E how \in Verdicts : End(how, closed)
  BY <1>2, <1>3, <1>4, EndOK
<1>5. CASE ~\E how \in Verdicts : End(how, closed)
  <2>1. exclude' = Widened(c) /\ Plan(Planned(c, "failure", TRUE, "none"), closed)
    <3>1. ~End("budget_exhausted", closed) /\ ~End("global_outage", closed)
          /\ ~End("no_eligible_containers", closed)
      BY <1>5 DEF Verdicts, Exhaustions
    <3> QED
      BY <3>1 DEF Infra
  <2> QED
    BY <1>2, <2>1, PlanOK
<1> QED
  BY <1>4, <1>5

\* The pause: round the loop with one record per attempt, or out of it with
\* the last record's placeholder filled in.
LEMMA WakeKeeps ==
    ASSUME RetryInv, Wake
    PROVE  RetryInv'
<1>1. /\ trail \in Seq(Record) /\ attempt \in Nat /\ maxRetries \in Nat
      /\ phase = "asleep" /\ Len(trail) = attempt + 1
  BY RetryAssumption DEF RetryInv, TypeOK, TrailCounts, Wake
<1>2. /\ maxRetries' = maxRetries /\ waived' = waived /\ exclude' = exclude
      /\ UNCHANGED <<routed, at, tagged>> /\ alerted' = alerted /\ outage' = outage
  BY DEF Wake, poolVars, healthVars
<1>3. CASE /\ attempt + 1 <= maxRetries + Cardinality(waived)
           /\ attempt' = attempt + 1 /\ phase' = "call" /\ UNCHANGED <<trail, verdict>>
  <2>1. TypeOK'
    <3>1. IsFiniteSet(waived)
      BY RetryAssumption, FS_Subset DEF RetryInv, TypeOK
    <3>2. Cardinality(waived) \in Nat
      BY <3>1, FS_CardinalityType
    <3>3. attempt' \in 0..(maxRetries' + Cardinality(waived'))
      BY <1>1, <1>2, <1>3, <3>2
    <3> QED
      BY <1>2, <1>3, <3>3 DEF RetryInv, TypeOK, Phases
  <2>2. TrailCounts' /\ InFlightAllowed'
    BY <1>1, <1>3 DEF TrailCounts, InFlightAllowed, InFlight
  <2>3. BlamedExcluded' /\ TrailChains'
    BY <1>1, <1>2, <1>3 DEF RetryInv, BlamedExcluded, Blamed, TrailChains
  <2> QED
    BY <2>1, <2>2, <2>3 DEF RetryInv
<1>4. CASE /\ End("budget_exhausted",
                  Abandoned(trail))
           /\ UNCHANGED attempt
  <2> DEFINE n == Len(trail)
             r == [trail[n] EXCEPT !.retry = trail[n].orig]
             f == [trail EXCEPT ![n] = r]
  <2>1. n \in 1..n /\ n \in Nat /\ trail[n] \in Record
    BY <1>1
  <2>2. r \in Record /\ r.orig = trail[n].orig
    BY <2>1 DEF Record
  <2>3. End("budget_exhausted", f)
    BY <1>4 DEF Abandoned
  <2> HIDE DEF r
  <2>4. Kept(trail, f)
    BY <1>1, <2>1, <2>2 DEF Kept
  <2>5. waived \subseteq waived' /\ waived' \subseteq AlertIds /\ exclude' \subseteq Containers
    BY <1>2 DEF RetryInv, TypeOK
  <2> HIDE DEF f
  <2> QED
    BY <1>2, <1>4, <2>3, <2>4, <2>5, EndOK DEF Verdicts, Exhaustions
<1> QED
  BY <1>3, <1>4 DEF Wake

-----------------------------------------------------------------------------

\* The records, the attempts, the exclusions and the place of the item fit
\* together in every reachable state.
THEOREM RetryInvariant == Spec => []RetryInv
<1>1. Init => RetryInv
  <2> SUFFICES ASSUME Init
               PROVE  RetryInv
    OBVIOUS
  <2>1. Cardinality({}) = 0
    BY FS_EmptySet
  <2>2. TypeOK
    <3>1. 0 \in 0..(maxRetries + Cardinality(waived)) /\ trail \in Seq(Record)
      BY <2>1, RetryAssumption DEF Init
    <3> QED
      BY <3>1 DEF Init, TypeOK, Phases, Verdicts
  <2>3. TrailCounts /\ InFlightAllowed /\ BlamedExcluded /\ TrailChains
    BY DEF Init, TrailCounts, InFlightAllowed, InFlight, BlamedExcluded, Blamed, TrailChains
  <2> QED
    BY <2>2, <2>3 DEF RetryInv
<1>2. RetryInv /\ [Next]_vars => RetryInv'
  <2> SUFFICES ASSUME RetryInv, [Next]_vars
               PROVE  RetryInv'
    OBVIOUS
  <2>1. CASE (\E c \in Containers : Route(c)) \/ Start \/ Unpark \/ HealthChanges
    BY <2>1, PoolKeeps
  <2>2. CASE Succeeds \/ QuarantinedDisabled \/ NotInfra \/ FailsDisabled \/ NoEligible
    BY <2>2, EndingsKeep
  <2>3. CASE \E a \in AlertIds : Quarantined(a)
    BY <2>3, QuarantinedKeeps
  <2>4. CASE InfraNamed
    <3>1. phase \in InFlight /\ Infra(at)
      BY <2>4 DEF InfraNamed, InFlight
    <3>2. at \in Containers \ exclude
      BY <3>1 DEF RetryInv, InFlightAllowed
    <3> QED
      BY <3>1, <3>2, InfraKeeps
  <2>5. CASE InfraUnnamed
    <3>1. phase \in InFlight /\ Infra(routed)
      BY <2>5 DEF InfraUnnamed
    <3>2. routed \in Containers \ exclude
      BY <3>1 DEF RetryInv, InFlightAllowed
    <3> QED
      BY <3>1, <3>2, InfraKeeps
  <2>6. CASE Wake
    BY <2>6, WakeKeeps
  <2>7. CASE UNCHANGED vars
    <3>1. UNCHANGED <<phase, maxRetries, attempt, exclude, trail, waived, verdict>>
          /\ UNCHANGED <<routed, at, tagged, alerted, outage>>
      BY <2>7 DEF vars, loopVars, poolVars, healthVars
    <3> QED
      BY <3>1 DEF RetryInv, TypeOK, TrailCounts, InFlightAllowed, InFlight,
                  BlamedExcluded, Blamed, TrailChains
  <2> QED
    BY <2>1, <2>2, <2>3, <2>4, <2>5, <2>6, <2>7 DEF Next, Answer
<1> QED
  BY <1>1, <1>2, PTL DEF Spec

\* Every variable of the loop has its type: in particular the attempts stay
\* within the budget and the waivers granted.
THEOREM RetryTypeCorrect == Spec => []TypeOK
BY RetryInvariant, PTL DEF RetryInv

\* No attempt waits or runs on a container an earlier attempt was failed by.
THEOREM NeverBack == Spec => []NeverBackToFailed
<1>1. RetryInv => NeverBackToFailed
  BY DEF RetryInv, InFlightAllowed, InFlight, BlamedExcluded, NeverBackToFailed
<1> QED
  BY <1>1, RetryInvariant, PTL

\* The trail is a chain over distinct containers.
THEOREM TrailIsChain == Spec => []TrailChains
BY RetryInvariant, PTL DEF RetryInv

-----------------------------------------------------------------------------
(* What is handed over, and who pays for the retries.                      *)

\* Until the call ends nothing is decided, and every record is of a retry
\* that failed or was not made yet.
Undecided ==
    phase # "ended" => /\ verdict = "none"
                       /\ \A i \in 1..Len(trail) : trail[i].outcome = "infra_again"

\* Without a budget nothing is recorded, so nothing is left to fill in.
DisabledBare ==
    maxRetries = 0 => phase # "asleep" /\ trail = <<>> /\ waived = {}

\* The records of retries that consumed no budget.
Free(t) == {i \in 1..Len(t) : ~t[i].debited}

\* Waived alerts and free retries are in one to one correspondence, until the
\* call ends on an alert it has no container left to retry.
WaiversPaired ==
    /\ \A i \in Free(trail) : trail[i].alert \in waived
    /\ \A i, j \in Free(trail) : trail[i].alert = trail[j].alert => i = j
    /\ phase # "ended" => \A a \in waived : \E i \in Free(trail) : trail[i].alert = a

AccountInv == RetryInv /\ Undecided /\ DisabledBare /\ DeliveredRight /\ WaiversPaired

\* f is t with container c and outcome o in its last record.
Refilled(t, f, c, o) ==
    /\ f \in Seq(Record) /\ Len(f) = Len(t)
    /\ \A i \in 1..(Len(t) - 1) : f[i] = t[i]
    /\ \A i \in 1..Len(t) : f[i].alert = t[i].alert /\ f[i].debited = t[i].debited
    /\ Len(t) > 0 => f[Len(t)].retry = c /\ f[Len(t)].outcome = o

Outcomes == {"succeeded", "infra_again", "non_infra_failure"}

\* With one record per attempt, finalizeActive() fills in the last one.
LEMMA FinalizeRefills ==
    ASSUME NEW t \in Seq(Record), attempt \in Nat, Len(t) = attempt,
           NEW o \in Outcomes, NEW c \in Containers \cup {"nowhere"}
    PROVE  Refilled(t, Finalize(t, o, c), c, o)
<1>1. CASE t # <<>>
  <2> DEFINE n == Len(t)
             r == [t[n] EXCEPT !.retry = c, !.outcome = o]
  <2>1. n \in 1..n /\ n \in Nat /\ t[n] \in Record /\ attempt > 0
    BY <1>1
  <2>2. /\ r \in Record /\ r.retry = c /\ r.outcome = o
        /\ r.alert = t[n].alert /\ r.debited = t[n].debited
    BY <2>1 DEF Record, Outcomes
  <2>3. Finalize(t, o, c) = [t EXCEPT ![n] = r]
    BY <1>1, <2>1 DEF Finalize
  <2> HIDE DEF r
  <2> QED
    BY <2>1, <2>2, <2>3 DEF Refilled
<1>2. CASE t = <<>>
  BY <1>2 DEF Finalize, Refilled
<1> QED
  BY <1>1, <1>2

\* So does the exit of the loop, with the origin of the retry never made.
LEMMA AbandonRefills ==
    ASSUME NEW t \in Seq(Record), Len(t) > 0, t[Len(t)].outcome = "infra_again"
    PROVE  Refilled(t, Abandoned(t), t[Len(t)].orig, "infra_again")
           /\ t[Len(t)].orig \in Containers
<1> DEFINE n == Len(t)
           r == [t[n] EXCEPT !.retry = t[n].orig]
<1>1. n \in 1..n /\ n \in Nat /\ t[n] \in Record
  OBVIOUS
<1>2. /\ r \in Record /\ r.retry = t[n].orig /\ r.outcome = "infra_again"
      /\ r.alert = t[n].alert /\ r.debited = t[n].debited /\ t[n].orig \in Containers
  BY <1>1 DEF Record
<1>3. Abandoned(t) = [t EXCEPT ![n] = r]
  BY DEF Abandoned
<1> HIDE DEF r
<1> QED
  BY <1>1, <1>2, <1>3 DEF Refilled

\* Filling in twice is filling in as the second time.
LEMMA RefilledTwice ==
    ASSUME NEW t \in Seq(Record), NEW f, NEW g, NEW c, NEW o, NEW d, NEW p,
           Refilled(t, f, c, o), Refilled(f, g, d, p)
    PROVE  Refilled(t, g, d, p)
<1>1. Len(f) = Len(t) /\ Len(t) \in Nat
  BY DEF Refilled
<1>2. \A i \in 1..(Len(t) - 1) : g[i] = t[i]
  BY <1>1 DEF Refilled
<1>3. \A i \in 1..Len(t) : g[i].alert = t[i].alert /\ g[i].debited = t[i].debited
  BY <1>1 DEF Refilled
<1> QED
  BY <1>1, <1>2, <1>3 DEF Refilled

-----------------------------------------------------------------------------
(* The four shapes of a step.                                              *)

\* Nothing that is recorded changes, and the call neither ends nor pauses.
Quiet ==
    /\ UNCHANGED <<maxRetries, trail, waived, verdict>>
    /\ phase' = "ended" => phase = "ended"
    /\ phase = "ended" => phase' = "ended"
    /\ phase' = "asleep" => phase = "asleep"

\* The call ends without having retried, as it was told.
EndsBare ==
    /\ maxRetries = 0 /\ phase # "ended" /\ phase' = "ended"
    /\ verdict' \in {"disabled", "unchanged"}
    /\ UNCHANGED <<maxRetries, trail, waived>>

\* The call ends and its last record, if any, gets container c and outcome o.
EndsWith(c, o) ==
    /\ phase # "ended" /\ phase' = "ended" /\ maxRetries' = maxRetries
    /\ Refilled(trail, trail', c, o)
    /\ o = "succeeded" <=> verdict' = "result"
    /\ verdict' # "quarantined"
    /\ waived \subseteq waived' /\ (maxRetries = 0 => waived' = waived)

\* Another retry is planned: on the budget, or free for a new alert.
Plans(record) ==
    /\ phase # "ended" /\ phase' = "asleep"
    /\ maxRetries > 0 /\ UNCHANGED <<maxRetries, verdict>>
    /\ \E f : \E c \in Containers : Refilled(trail, f, c, "infra_again") /\ trail' = Append(f, record)
    /\ record \in Record /\ record.outcome = "infra_again"
    /\ \/ record.debited = TRUE /\ waived' = waived
       \/ /\ record.debited = FALSE /\ record.alert \notin waived
          /\ waived' = waived \cup {record.alert}

Shape ==
    \/ Quiet \/ EndsBare
    \/ \E c \in Containers \cup {"nowhere"} : \E o \in Outcomes : EndsWith(c, o)
    \/ \E record : Plans(record)

\* In flight, or about to be, there is one record for each attempt.
LEMMA OnePerAttempt ==
    ASSUME RetryInv, phase \in {"call"} \cup InFlight
    PROVE  /\ trail \in Seq(Record) /\ attempt \in Nat /\ Len(trail) = attempt
           /\ phase # "ended" /\ phase # "asleep"
           /\ maxRetries \in Nat
           /\ routed \in Containers \cup {"nowhere"}
           /\ phase \in InFlight => at \in Containers /\ routed \in Containers
BY RetryAssumption DEF RetryInv, TypeOK, TrailCounts, InFlightAllowed, InFlight

LEMMA EndingShapes ==
    ASSUME RetryInv, NEW c \in Containers \cup {"nowhere"}, NEW o \in Outcomes,
           phase \in {"call"} \cup InFlight,
           NEW how, End(how, Finalize(trail, o, c)),
           o = "succeeded" <=> how = "result", how # "quarantined",
           UNCHANGED <<maxRetries, waived>>
    PROVE  EndsWith(c, o)
<1>1. /\ trail \in Seq(Record) /\ attempt \in Nat /\ Len(trail) = attempt
      /\ phase # "ended"
  BY OnePerAttempt
<1>2. Refilled(trail, Finalize(trail, o, c), c, o)
  BY <1>1, FinalizeRefills
<1> QED
  BY <1>1, <1>2 DEF EndsWith, End

LEMMA QuarantinedShape ==
    ASSUME RetryInv, NEW a \in AlertIds, Quarantined(a)
    PROVE  Shape
<1> DEFINE closed == Finalize(trail, "infra_again", at)
<1>1. /\ trail \in Seq(Record) /\ attempt \in Nat /\ Len(trail) = attempt
      /\ phase \in InFlight /\ phase # "ended" /\ at \in Containers /\ routed \in Containers
  BY OnePerAttempt DEF Quarantined, InFlight
<1>2. /\ maxRetries' = maxRetries /\ maxRetries > 0 /\ waived' = waived \cup {a}
      /\ maxRetries \in Nat
  BY <1>1, OnePerAttempt DEF Quarantined
<1>3. Refilled(trail, closed, at, "infra_again")
  BY <1>1, FinalizeRefills DEF Outcomes
<1>4. CASE CaughtAgain(closed)
  <2> HIDE DEF closed
  <2>1. closed \in Seq(Record) /\ Len(closed) = attempt
    BY <1>1, <1>3 DEF Refilled
  <2>2. PICK how \in Verdicts, o \in Outcomes :
            /\ End(how, Finalize(closed, o, routed))
            /\ o # "succeeded" /\ how # "result" /\ how # "quarantined"
    BY <1>4 DEF CaughtAgain, Outcomes, Verdicts, Exhaustions
  <2>3. Refilled(closed, Finalize(closed, o, routed), routed, o)
    BY <1>1, <2>1, FinalizeRefills
  <2>4. Refilled(trail, Finalize(closed, o, routed), routed, o)
    BY <1>1, <1>3, <2>3, RefilledTwice
  <2>5. EndsWith(routed, o)
    BY <1>1, <1>2, <2>2, <2>4 DEF EndsWith, End
  <2> QED
    BY <1>1, <2>5 DEF Shape
<1>5. CASE ~CaughtAgain(closed)
  <2> DEFINE record == Planned(at, "alert_drain", a \in waived, a)
  <2>1. Plan(record, closed)
    BY <1>5 DEF Quarantined
  <2>2. /\ record.outcome = "infra_again" /\ record.alert = a
        /\ record.debited = (a \in waived)
    BY DEF Planned
  <2>3. (a \in waived) \in BOOLEAN
    OBVIOUS
  <2>4. record \in Record
    BY <1>1, <2>3 DEF Planned, Record
  <2> HIDE DEF closed, record
  <2>5. /\ phase' = "asleep" /\ verdict' = verdict /\ trail' = Append(closed, record)
    BY <2>1 DEF Plan
  <2>6. \/ record.debited = TRUE /\ waived' = waived
        \/ /\ record.debited = FALSE /\ record.alert \notin waived
           /\ waived' = waived \cup {record.alert}
    <3>1. CASE a \in waived
      <4>1. waived \cup {a} = waived
        BY <3>1
      <4> QED
        BY <1>2, <2>2, <3>1, <4>1
    <3>2. CASE a \notin waived
      <4>1. (a \in waived) = FALSE
        BY <3>2
      <4> QED
        BY <1>2, <2>2, <3>2, <4>1
    <3> QED
      BY <3>1, <3>2
  <2>7. Plans(record)
    BY <1>1, <1>2, <1>3, <2>2, <2>4, <2>5, <2>6 DEF Plans
  <2> QED
    BY <2>7 DEF Shape
<1> QED
  BY <1>4, <1>5

LEMMA InfraShape ==
    ASSUME RetryInv, phase \in InFlight, maxRetries > 0, NEW c \in Containers, Infra(c)
    PROVE  Shape
<1> DEFINE closed == Finalize(trail, "infra_again", c)
           record == Planned(c, "failure", TRUE, "none")
<1>1. /\ trail \in Seq(Record) /\ attempt \in Nat /\ Len(trail) = attempt /\ phase # "ended"
  BY OnePerAttempt
<1>2. maxRetries' = maxRetries /\ waived' = waived
  BY DEF Infra
<1>3. Refilled(trail, closed, c, "infra_again")
  BY <1>1, FinalizeRefills DEF Outcomes
<1>4. CASE \E how \in Exhaustions : End(how, closed)
  <2>1. PICK how \in Exhaustions : End(how, closed)
    BY <1>4
  <2>2. how # "result" /\ how # "quarantined"
    BY DEF Exhaustions
  <2>3. EndsWith(c, "infra_again")
    BY <1>2, <2>1, <2>2, EndingShapes DEF Outcomes
  <2> QED
    BY <2>3 DEF Shape, Outcomes
<1>5. CASE ~\E how \in Exhaustions : End(how, closed)
  <2>1. ~End("budget_exhausted", closed) /\ ~End("global_outage", closed)
        /\ ~End("no_eligible_containers", closed)
    BY <1>5 DEF Exhaustions
  <2>2. Plan(record, closed)
    BY <2>1 DEF Infra
  <2>3. record \in Record /\ record.outcome = "infra_again" /\ record.debited = TRUE
    BY DEF Planned, Record
  <2> HIDE DEF closed, record
  <2>4. Plans(record)
    BY <1>1, <1>2, <1>3, <2>2, <2>3 DEF Plans, Plan
  <2> QED
    BY <2>4 DEF Shape
<1> QED
  BY <1>4, <1>5

LEMMA WakeShape ==
    ASSUME RetryInv, Undecided, Wake
    PROVE  Shape
<1>1. /\ trail \in Seq(Record) /\ Len(trail) = attempt + 1 /\ attempt \in Nat
      /\ phase = "asleep" /\ UNCHANGED <<maxRetries, waived>>
  BY DEF RetryInv, TypeOK, TrailCounts, Wake
<1>2. CASE phase' = "call" /\ UNCHANGED <<trail, verdict>>
  BY <1>1, <1>2 DEF Shape, Quiet
<1>3. CASE End("budget_exhausted", Abandoned(trail))
  <2>1. Len(trail) > 0 /\ trail[Len(trail)].outcome = "infra_again"
    BY <1>1 DEF Undecided
  <2>2. /\ Refilled(trail, Abandoned(trail), trail[Len(trail)].orig, "infra_again")
        /\ trail[Len(trail)].orig \in Containers
    BY <1>1, <2>1, AbandonRefills
  <2>3. EndsWith(trail[Len(trail)].orig, "infra_again")
    BY <1>1, <1>3, <2>2 DEF EndsWith, End
  <2> QED
    BY <2>2, <2>3 DEF Shape, Outcomes
<1> QED
  BY <1>2, <1>3 DEF Wake

\* Every step of the loop, of the pool and of the alerts has a shape.
LEMMA Shapes ==
    ASSUME RetryInv, Undecided, [Next]_vars
    PROVE  Shape
<1>1. CASE (\E c \in Containers : Route(c)) \/ Start \/ Unpark \/ HealthChanges
  <2>1. UNCHANGED <<maxRetries, trail, waived, verdict>>
    BY <1>1 DEF Route, Start, Unpark, HealthChanges
  <2>2. phase # "ended" /\ phase' # "ended" /\ (phase' = "asleep" => phase = "asleep")
    <3>1. CASE \E c \in Containers : Route(c)
      BY <3>1 DEF Route
    <3>2. CASE Start \/ Unpark
      BY <3>2 DEF Start, Unpark
    <3>3. CASE HealthChanges
      BY <3>3 DEF HealthChanges
    <3> QED
      BY <1>1, <3>1, <3>2, <3>3
  <2> QED
    BY <2>1, <2>2 DEF Shape, Quiet
<1>2. CASE Succeeds
  <2>1. /\ phase \in InFlight /\ End("result", Finalize(trail, "succeeded", routed))
        /\ UNCHANGED <<maxRetries, waived>> /\ routed \in Containers \cup {"nowhere"}
    BY <1>2 DEF Succeeds, InFlight, RetryInv, TypeOK
  <2>2. EndsWith(routed, "succeeded")
    BY <2>1, EndingShapes DEF Outcomes
  <2> QED
    BY <2>1, <2>2 DEF Shape, Outcomes
<1>3. CASE QuarantinedDisabled \/ FailsDisabled
  BY <1>3 DEF QuarantinedDisabled, FailsDisabled, End, InFlight, Shape, EndsBare
<1>4. CASE NotInfra
  <2>1. /\ phase \in InFlight /\ End("unchanged", Finalize(trail, "non_infra_failure", routed))
        /\ UNCHANGED <<maxRetries, waived>> /\ routed \in Containers \cup {"nowhere"}
    BY <1>4 DEF NotInfra, RetryInv, TypeOK
  <2>2. EndsWith(routed, "non_infra_failure")
    BY <2>1, EndingShapes DEF Outcomes
  <2> QED
    BY <2>1, <2>2 DEF Shape, Outcomes
<1>5. CASE NoEligible
  <2>1. /\ phase = "call" /\ UNCHANGED <<maxRetries, waived>>
        /\ End("no_eligible_containers", Finalize(trail, "non_infra_failure", "nowhere"))
    BY <1>5 DEF NoEligible
  <2>2. EndsWith("nowhere", "non_infra_failure")
    BY <2>1, EndingShapes DEF Outcomes
  <2> QED
    BY <2>2 DEF Shape, Outcomes
<1>6. CASE \E a \in AlertIds : Quarantined(a)
  BY <1>6, QuarantinedShape
<1>7. CASE InfraNamed \/ InfraUnnamed
  <2>1. PICK c \in {at, routed} : phase \in InFlight /\ maxRetries > 0 /\ Infra(c)
    BY <1>7 DEF InfraNamed, InfraUnnamed, InFlight
  <2>2. c \in Containers
    BY <2>1, OnePerAttempt
  <2> QED
    BY <2>1, <2>2, InfraShape
<1>8. CASE Wake
  BY <1>8, WakeShape
<1>9. CASE UNCHANGED vars
  BY <1>9 DEF vars, loopVars, Shape, Quiet
<1> QED
  BY <1>1, <1>2, <1>3, <1>4, <1>5, <1>6, <1>7, <1>8, <1>9 DEF Next, Answer

-----------------------------------------------------------------------------

LEMMA UndecidedKept ==
    ASSUME RetryInv, Undecided, DisabledBare, Shape
    PROVE  Undecided' /\ DisabledBare'
<1>0. trail \in Seq(Record) /\ Len(trail) \in Nat
  BY DEF RetryInv, TypeOK
<1>1. CASE Quiet
  BY <1>1 DEF Quiet, Undecided, DisabledBare
<1>2. CASE EndsBare
  BY <1>2 DEF EndsBare, Undecided, DisabledBare
<1>3. CASE \E c \in Containers \cup {"nowhere"} : \E o \in Outcomes : EndsWith(c, o)
  <2>1. PICK c \in Containers \cup {"nowhere"}, o \in Outcomes : EndsWith(c, o)
    BY <1>3
  <2>2. phase' = "ended" /\ maxRetries' = maxRetries /\ Len(trail') = Len(trail)
        /\ trail' \in Seq(Record) /\ (maxRetries = 0 => waived' = waived)
    BY <2>1 DEF EndsWith, Refilled
  <2>3. trail = <<>> => trail' = <<>>
    BY <2>2
  <2> QED
    BY <2>2, <2>3 DEF Undecided, DisabledBare
<1>4. CASE \E record : Plans(record)
  <2>1. PICK record : Plans(record)
    BY <1>4
  <2>2. PICK f : \E c \in Containers :
            Refilled(trail, f, c, "infra_again") /\ trail' = Append(f, record)
    BY <2>1 DEF Plans
  <2>3. phase # "ended" /\ maxRetries' = maxRetries /\ maxRetries > 0 /\ verdict' = verdict
        /\ record.outcome = "infra_again"
    BY <2>1 DEF Plans
  <2>4. /\ f \in Seq(Record) /\ Len(f) = Len(trail)
        /\ \A i \in 1..(Len(trail) - 1) : f[i] = trail[i]
        /\ Len(trail) > 0 => f[Len(trail)].outcome = "infra_again"
    BY <2>2 DEF Refilled
  <2>5. \A i \in 1..Len(trail) : f[i].outcome = "infra_again"
    BY <1>0, <2>3, <2>4 DEF Undecided
  <2>6. \A i \in 1..Len(trail') : trail'[i].outcome = "infra_again"
    BY <1>0, <2>2, <2>3, <2>4, <2>5
  <2>7. maxRetries # 0
    BY <2>3, RetryAssumption DEF RetryInv, TypeOK
  <2> QED
    BY <2>3, <2>6, <2>7 DEF Undecided, DisabledBare
<1> QED
  BY <1>1, <1>2, <1>3, <1>4 DEF Shape

LEMMA DeliveredKept ==
    ASSUME RetryInv, Undecided, DisabledBare, DeliveredRight, Shape
    PROVE  DeliveredRight'
<1>0. trail \in Seq(Record) /\ Len(trail) \in Nat
  BY DEF RetryInv, TypeOK
<1>1. CASE Quiet
  BY <1>1 DEF Quiet, DeliveredRight, DeliveredTrailComplete, QuarantinedNeverReturned
<1>2. CASE EndsBare
  BY <1>2 DEF EndsBare, DisabledBare, DeliveredRight, DeliveredTrailComplete,
              QuarantinedNeverReturned
<1>3. CASE \E c \in Containers \cup {"nowhere"} : \E o \in Outcomes : EndsWith(c, o)
  <2>1. PICK c \in Containers \cup {"nowhere"}, o \in Outcomes : EndsWith(c, o)
    BY <1>3
  <2>2. /\ phase # "ended" /\ verdict' # "quarantined"
        /\ o = "succeeded" <=> verdict' = "result"
        /\ trail' \in Seq(Record) /\ Len(trail') = Len(trail)
        /\ \A i \in 1..(Len(trail) - 1) : trail'[i] = trail[i]
        /\ Len(trail) > 0 => trail'[Len(trail)].retry = c /\ trail'[Len(trail)].outcome = o
    BY <2>1 DEF EndsWith, Refilled
  <2>3. \A i \in 1..(Len(trail) - 1) :
            trail[i].retry \in Containers /\ trail[i].outcome = "infra_again"
    <3> SUFFICES ASSUME NEW i \in 1..(Len(trail) - 1)
                 PROVE  trail[i].retry \in Containers /\ trail[i].outcome = "infra_again"
      OBVIOUS
    <3>1. i \in 1..Len(trail) /\ i + 1 \in 1..Len(trail)
      BY <1>0
    <3>2. trail[i + 1] \in Record
      BY <1>0, <3>1
    <3>3. trail[i].retry = trail[i + 1].orig
      BY <3>1 DEF RetryInv, TrailChains
    <3> QED
      BY <2>2, <3>1, <3>2, <3>3 DEF Undecided, Record
  <2>4. c # "pending"
    BY RetryAssumption
  <2>5. \A i \in 1..Len(trail') : trail'[i].retry # "pending"
    BY <1>0, <2>2, <2>3, <2>4, RetryAssumption
  <2>6. verdict' = "result" =>
          \A i \in 1..Len(trail') :
            trail'[i].outcome = (IF i = Len(trail') THEN "succeeded" ELSE "infra_again")
    BY <1>0, <2>2, <2>3
  <2>7. DOMAIN trail' = 1..Len(trail')
    BY <2>2
  <2> QED
    BY <2>2, <2>5, <2>6, <2>7
       DEF DeliveredRight, DeliveredTrailComplete, QuarantinedNeverReturned
<1>4. CASE \E record : Plans(record)
  BY <1>4 DEF Plans, DeliveredRight, DeliveredTrailComplete, QuarantinedNeverReturned
<1> QED
  BY <1>1, <1>2, <1>3, <1>4 DEF Shape

LEMMA WaiversKept ==
    ASSUME RetryInv, WaiversPaired, Shape
    PROVE  WaiversPaired'
<1>0. trail \in Seq(Record) /\ Len(trail) \in Nat
  BY DEF RetryInv, TypeOK
<1>1. CASE Quiet
  BY <1>1 DEF Quiet, WaiversPaired, Free
<1>2. CASE EndsBare
  BY <1>2 DEF EndsBare, WaiversPaired, Free
<1>3. CASE \E c \in Containers \cup {"nowhere"} : \E o \in Outcomes : EndsWith(c, o)
  <2>1. /\ phase' = "ended" /\ waived \subseteq waived' /\ Len(trail') = Len(trail)
        /\ \A i \in 1..Len(trail) :
             trail'[i].alert = trail[i].alert /\ trail'[i].debited = trail[i].debited
    BY <1>3 DEF EndsWith, Refilled
  <2> QED
    BY <1>0, <2>1 DEF WaiversPaired, Free
<1>4. CASE \E record : Plans(record)
  <2>1. PICK record : Plans(record)
    BY <1>4
  <2>2. PICK f : \E c \in Containers :
            Refilled(trail, f, c, "infra_again") /\ trail' = Append(f, record)
    BY <2>1 DEF Plans
  <2> DEFINE n == Len(trail)
  <2>3. /\ f \in Seq(Record) /\ Len(f) = n
        /\ \A i \in 1..n : f[i].alert = trail[i].alert /\ f[i].debited = trail[i].debited
    BY <2>2 DEF Refilled
  <2>4. /\ Len(trail') = n + 1 /\ trail'[n + 1] = record
        /\ \A i \in 1..n : trail'[i].alert = trail[i].alert
                           /\ trail'[i].debited = trail[i].debited
    BY <1>0, <2>2, <2>3
  <2> HIDE DEF n
  <2>5. n \in Nat /\ n = Len(trail) /\ n + 1 \in 1..(n + 1) /\ n + 1 \notin 1..n
    BY <1>0 DEF n
  <2>6. CASE record.debited = TRUE /\ waived' = waived
    <3>1. Free(trail') = Free(trail)
      BY <2>4, <2>5, <2>6 DEF Free
    <3>2. \A i \in Free(trail) : i \in 1..n /\ trail'[i].alert = trail[i].alert
      BY <2>4, <2>5 DEF Free
    <3>3. phase # "ended"
      BY <2>1 DEF Plans
    <3> QED
      BY <2>6, <3>1, <3>2, <3>3 DEF WaiversPaired
  <2>7. CASE /\ record.debited = FALSE /\ record.alert \notin waived
             /\ waived' = waived \cup {record.alert}
    <3>1. Free(trail') = Free(trail) \cup {n + 1}
      BY <2>4, <2>5, <2>7 DEF Free
    <3>2. \A i \in Free(trail) : /\ i # n + 1 /\ trail'[i].alert = trail[i].alert
                                 /\ trail[i].alert \in waived
      BY <2>4, <2>5 DEF Free, WaiversPaired
    <3>3. phase # "ended"
      BY <2>1 DEF Plans
    <3>4. \A i \in Free(trail') : trail'[i].alert \in waived'
      BY <2>4, <2>7, <3>1, <3>2
    <3>5. \A i, j \in Free(trail') : trail'[i].alert = trail'[j].alert => i = j
      BY <2>4, <2>7, <3>1, <3>2 DEF WaiversPaired
    <3>6. \A a \in waived' : \E i \in Free(trail') : trail'[i].alert = a
      BY <2>4, <2>7, <3>1, <3>2, <3>3 DEF WaiversPaired
    <3> QED
      BY <3>4, <3>5, <3>6 DEF WaiversPaired
  <2> QED
    BY <2>1, <2>6, <2>7 DEF Plans
<1> QED
  BY <1>1, <1>2, <1>3, <1>4 DEF Shape

\* The accounts of the call are right in every reachable state.
THEOREM AccountInvariant == Spec => []AccountInv
<1>1. Init => Undecided /\ DisabledBare /\ DeliveredRight /\ WaiversPaired
  BY DEF Init, Undecided, DisabledBare, DeliveredRight, DeliveredTrailComplete,
         QuarantinedNeverReturned, WaiversPaired, Free
<1>2. RetryInv /\ Undecided /\ DisabledBare /\ DeliveredRight /\ WaiversPaired /\ [Next]_vars
        => (Undecided /\ DisabledBare /\ DeliveredRight /\ WaiversPaired)'
  BY Shapes, UndecidedKept, DeliveredKept, WaiversKept
<1> QED
  BY <1>1, <1>2, RetryInvariant, PTL DEF Spec, AccountInv

\* What is handed over has no placeholder, a result ends in its only success,
\* and a quarantined result is never handed over.
THEOREM DeliveredIsRight == Spec => []DeliveredRight
BY AccountInvariant, PTL DEF AccountInv

\* As many free retries as waived alerts, so no more debited ones than the
\* budget when a call is made.
LEMMA BudgetHolds ==
    ASSUME AccountInv, phase = "call"
    PROVE  Cardinality({i \in DOMAIN trail : trail[i].debited}) <= maxRetries
<1> DEFINE n == Len(trail)
           D == {i \in 1..n : trail[i].debited}
           F == Free(trail)
<1>1. /\ trail \in Seq(Record) /\ n \in Nat /\ n = attempt /\ maxRetries \in Nat
      /\ attempt <= maxRetries + Cardinality(waived)
  BY RetryAssumption DEF AccountInv, RetryInv, TypeOK, TrailCounts
<1>2. IsFiniteSet(1..n) /\ Cardinality(1..n) = n
  BY <1>1, FS_Interval
<1>3. F \subseteq 1..n /\ D = (1..n) \ F
  BY DEF Free
<1>4. IsFiniteSet(F) /\ Cardinality(F) \in Nat
  BY <1>2, <1>3, FS_Subset, FS_CardinalityType
<1>5. Cardinality(waived) \in Nat /\ Cardinality(waived) <= Cardinality(F)
  <2> DEFINE g == [i \in F |-> trail[i].alert]
  <2>1. \A i \in F : trail[i].alert \in waived
    BY DEF AccountInv, WaiversPaired
  <2>2. \A a \in waived : \E i \in F : trail[i].alert = a
    BY DEF AccountInv, WaiversPaired
  <2>3. g \in Surjection(F, waived)
    BY <2>1, <2>2 DEF Surjection
  <2> HIDE DEF g, F
  <2> QED
    BY <1>4, <2>3, FS_Surjection, FS_CardinalityType
<1>6. Cardinality(D) = n - Cardinality(F)
  <2> HIDE DEF D, F
  <2>1. (1..n) \cap F = F
    BY <1>3
  <2>2. Cardinality((1..n) \ F) = Cardinality(1..n) - Cardinality((1..n) \cap F)
    BY <1>2, FS_Difference
  <2> QED
    BY <1>2, <1>3, <2>1, <2>2
<1>7. DOMAIN trail = 1..n
  BY <1>1
<1> HIDE DEF n, F
<1>8. Cardinality(D) <= maxRetries
  BY <1>1, <1>4, <1>5, <1>6
<1> QED
  BY <1>7, <1>8

\* One alert pays for one retry at most, and the budget for at most
\* maxRetries that ran.
THEOREM WaiverIsOnce == Spec => []WaiverOnce
<1>1. AccountInv => WaiverOnce
  <2> SUFFICES ASSUME AccountInv
               PROVE  WaiverOnce
    OBVIOUS
  <2>1. TypeOK /\ trail \in Seq(Record)
    BY DEF AccountInv, RetryInv, TypeOK
  <2>2. DOMAIN trail = 1..Len(trail)
    BY <2>1
  <2>3. \A i, j \in DOMAIN trail :
          ~trail[i].debited /\ ~trail[j].debited /\ trail[i].alert = trail[j].alert => i = j
    BY <2>2 DEF AccountInv, WaiversPaired, Free
  <2> QED
    BY <2>1, <2>3, BudgetHolds DEF WaiverOnce
<1> QED
  BY <1>1, AccountInvariant, PTL
=============================================================================
