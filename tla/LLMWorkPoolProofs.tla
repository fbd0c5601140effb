------------------------- MODULE LLMWorkPoolProofs -------------------------
(***************************************************************************)
(* Proofs about RateLimiter and LLMWorkPool, for any finite set of         *)
(* requests, any limits, any errors and any number of tokens used.         *)
(*                                                                         *)
(* The limiter comes first: what its operators do to the window of the     *)
(* last minute and to the waiters, and that acquire(), release() and time  *)
(* keep LimiterInv.  The pool adds where each of its requests is.  Nothing *)
(* depends on what the tokens of a window sum up to.                       *)
(***************************************************************************)
EXTENDS LLMWorkPool, FiniteSetTheorems, TLAPS

Entry == [of: Items, kind: {"request", "usage"}, tokens: Nat]

\* The entries of a window that isLimited() counts against rpm.
Counted(w) == {k \in 1..Len(w) : w[k].kind = "request"}

Injective(s) == \A j, k \in 1..Len(s) : s[j] = s[k] => j = k

\* The limiter: leases, waiters and window, and the two limits on them.
LimiterInv ==
    /\ active \in SUBSET Items
    /\ estimated \in SUBSET active
    /\ waiters \in Seq(Items) /\ Injective(waiters)
    /\ active \cap ToSet(waiters) = {}
    /\ window \in Seq(Entry)
    /\ backoff \in Nat
    /\ multiplier \in 1..64
    /\ Cardinality(active) <= Concurrent
    /\ Cardinality(Counted(window)) <= Rpm

-----------------------------------------------------------------------------
(* The window of the last minute.                                          *)

LEMMA CountedFinite ==
    ASSUME NEW w \in Seq(Entry)
    PROVE  /\ IsFiniteSet(Counted(w)) /\ Cardinality(Counted(w)) \in Nat
           /\ Requests(w) = Cardinality(Counted(w))
<1>1. Len(w) \in Nat /\ DOMAIN w = 1..Len(w)
  OBVIOUS
<1>2. IsFiniteSet(1..Len(w))
  BY <1>1, FS_Interval
<1>3. Counted(w) \subseteq 1..Len(w)
  BY DEF Counted
<1>4. IsFiniteSet(Counted(w))
  BY <1>2, <1>3, FS_Subset
<1> QED
  BY <1>1, <1>4, FS_CardinalityType DEF Requests, Counted

\* A lease adds one request to the window ...
LEMMA CountedLease ==
    ASSUME NEW w \in Seq(Entry), NEW i \in Items, NEW tokens \in Nat
    PROVE  /\ Append(w, Request(i, tokens)) \in Seq(Entry)
           /\ Cardinality(Counted(Append(w, Request(i, tokens)))) = Cardinality(Counted(w)) + 1
<1> DEFINE n == Len(w)
           e == Request(i, tokens)
           v == Append(w, e)
<1>1. e \in Entry /\ e.kind = "request"
  BY DEF Request, Entry
<1> HIDE DEF e
<1>2. /\ n \in Nat /\ v \in Seq(Entry) /\ Len(v) = n + 1 /\ v[n + 1] = e
      /\ \A k \in 1..n : v[k] = w[k]
  BY <1>1
<1> HIDE DEF n, v
<1>3. Counted(v) = Counted(w) \cup {n + 1} /\ n + 1 \notin Counted(w)
  BY <1>1, <1>2 DEF Counted, n
<1>4. Cardinality(Counted(v)) = Cardinality(Counted(w)) + 1
  BY <1>3, CountedFinite, FS_AddElement
<1> QED
  BY <1>2, <1>4 DEF v, e

\* ... the real usage none ...
LEMMA CountedUsage ==
    ASSUME NEW w \in Seq(Entry), NEW i \in Items, NEW tokens \in Nat
    PROVE  /\ Append(w, Usage(i, tokens)) \in Seq(Entry)
           /\ Counted(Append(w, Usage(i, tokens))) = Counted(w)
<1> DEFINE n == Len(w)
           e == Usage(i, tokens)
           v == Append(w, e)
<1>1. e \in Entry /\ e.kind # "request"
  BY DEF Usage, Entry
<1> HIDE DEF e
<1>2. /\ n \in Nat /\ v \in Seq(Entry) /\ Len(v) = n + 1 /\ v[n + 1] = e
      /\ \A k \in 1..n : v[k] = w[k]
  BY <1>1
<1> HIDE DEF n, v
<1>3. Counted(v) = Counted(w)
  BY <1>1, <1>2 DEF Counted, n
<1> QED
  BY <1>2, <1>3 DEF v, e

\* ... and neither does correcting an estimate.
LEMMA CountedCorrected ==
    ASSUME NEW w \in Seq(Entry), NEW k \in 1..Len(w), NEW tokens \in Nat
    PROVE  /\ [w EXCEPT ![k].tokens = tokens] \in Seq(Entry)
           /\ Counted([w EXCEPT ![k].tokens = tokens]) = Counted(w)
<1> DEFINE e == [w[k] EXCEPT !.tokens = tokens]
           v == [w EXCEPT ![k] = e]
<1>1. w[k] \in Entry /\ Len(w) \in Nat
  OBVIOUS
<1>2. e \in Entry /\ e.kind = w[k].kind
  BY <1>1 DEF Entry
<1> HIDE DEF e
<1>3. /\ v \in Seq(Entry) /\ Len(v) = Len(w) /\ v[k] = e
      /\ \A j \in 1..Len(w) : j # k => v[j] = w[j]
  BY <1>2
<1>4. Counted(v) = Counted(w)
  BY <1>2, <1>3 DEF Counted
<1> QED
  BY <1>3, <1>4 DEF e

\* Time takes the oldest entry away.
LEMMA CountedAged ==
    ASSUME NEW w \in Seq(Entry), w # <<>>
    PROVE  /\ Tail(w) \in Seq(Entry)
           /\ Cardinality(Counted(Tail(w))) <= Cardinality(Counted(w))
<1> DEFINE v == Tail(w)
           f == [k \in Counted(v) |-> k + 1]
<1>1. /\ v \in Seq(Entry) /\ Len(v) = Len(w) - 1 /\ Len(w) \in Nat
      /\ \A k \in 1..Len(v) : v[k] = w[k + 1]
  OBVIOUS
<1> HIDE DEF v
<1>2. \A k \in Counted(v) : k \in Nat /\ k + 1 \in Counted(w)
  BY <1>1 DEF Counted
<1>3. f \in Injection(Counted(v), Counted(w))
  BY <1>2 DEF Injection, IsInjective
<1> HIDE DEF f
<1>4. Cardinality(Counted(v)) <= Cardinality(Counted(w))
  BY <1>3, CountedFinite, FS_Injection
<1> QED
  BY <1>1, <1>4 DEF v

\* Serving n waiters adds n requests, with no tokens.
LEMMA CountedServed ==
    ASSUME NEW w \in Seq(Entry), NEW n \in Nat, NEW s \in Seq(Items), n <= Len(s)
    PROVE  /\ w \o [k \in 1..n |-> Request(s[k], 0)] \in Seq(Entry)
           /\ Cardinality(Counted(w \o [k \in 1..n |-> Request(s[k], 0)]))
                = Cardinality(Counted(w)) + n
<1> DEFINE u == [k \in 1..n |-> Request(s[k], 0)]
           m == Len(w)
           v == w \o u
<1>1. \A k \in 1..n : s[k] \in Items
  OBVIOUS
<1>2. \A k \in 1..n : Request(s[k], 0) \in Entry /\ Request(s[k], 0).kind = "request"
  BY <1>1 DEF Request, Entry
<1>3. /\ u \in Seq(Entry) /\ Len(u) = n
      /\ \A k \in 1..n : u[k].kind = "request"
  BY <1>2
<1> HIDE DEF u
<1>4. /\ m \in Nat /\ v \in Seq(Entry) /\ Len(v) = m + n
      /\ \A k \in 1..m : v[k] = w[k]
      /\ \A k \in (m + 1)..(m + n) : v[k].kind = "request"
  <2>1. m \in Nat /\ v \in Seq(Entry) /\ Len(v) = m + n /\ \A k \in 1..m : v[k] = w[k]
    <3>1. m \in Nat /\ w \in Seq(Entry)
      OBVIOUS
    <3>2. v \in Seq(Entry) /\ Len(v) = m + n
      BY <1>3, <3>1
    <3>3. \A k \in 1..m : v[k] = w[k]
      BY <1>3, <3>1
    <3> QED
      BY <3>1, <3>2, <3>3
  <2>2. ASSUME NEW k \in (m + 1)..(m + n)
        PROVE  v[k].kind = "request"
    <3>1. k - m \in 1..n /\ v[k] = u[k - m]
      BY <1>3, <2>1
    <3> QED
      BY <1>3, <3>1
  <2> QED
    BY <2>1, <2>2
<1> HIDE DEF v, m
<1>5. /\ Counted(v) = Counted(w) \cup ((m + 1)..(m + n))
      /\ Counted(w) \cap ((m + 1)..(m + n)) = {}
  BY <1>4 DEF Counted, m
<1>6. IsFiniteSet((m + 1)..(m + n)) /\ Cardinality((m + 1)..(m + n)) = n
  BY <1>4, FS_Interval
<1>7. Cardinality(Counted(v)) = Cardinality(Counted(w)) + n
  <2>1. IsFiniteSet(Counted(w)) /\ Cardinality(Counted(w)) \in Nat
    BY CountedFinite
  <2>2. PICK S, T : S = Counted(w) /\ T = (m + 1)..(m + n)
    OBVIOUS
  <2>3. Cardinality(S \cup T) = Cardinality(S) + Cardinality(T) - Cardinality(S \cap T)
    BY <1>6, <2>1, <2>2, FS_Union
  <2>4. S \cap T = {} /\ Cardinality({}) = 0
    BY <1>5, <2>2, FS_EmptySet
  <2>5. Cardinality(S \cup T) = Cardinality(Counted(v))
    BY <1>5, <2>2, Zenon
  <2>6. Cardinality(S \cap T) = 0
    BY <2>4, Zenon
  <2>7. Cardinality(S) = Cardinality(Counted(w)) /\ Cardinality(T) = n
    BY <1>6, <2>2
  <2> QED
    BY <2>1, <2>3, <2>5, <2>6, <2>7
<1> QED
  BY <1>4, <1>7 DEF v, u

-----------------------------------------------------------------------------
(* The waiters.                                                            *)

\* A sequence without repetitions has as many elements as places.
LEMMA InjectiveSize ==
    ASSUME NEW s \in Seq(Items), Injective(s)
    PROVE  IsFiniteSet(ToSet(s)) /\ Cardinality(ToSet(s)) = Len(s)
<1> DEFINE f == [k \in 1..Len(s) |-> s[k]]
<1>1. Len(s) \in Nat /\ DOMAIN s = 1..Len(s)
  OBVIOUS
<1>2. f \in Bijection(1..Len(s), ToSet(s))
  <2>1. f \in [1..Len(s) -> ToSet(s)]
    BY <1>1 DEF ToSet
  <2>2. \A j, k \in 1..Len(s) : f[j] = f[k] => j = k
    BY <1>1 DEF Injective
  <2>3. \A x \in ToSet(s) : \E k \in 1..Len(s) : f[k] = x
    BY <1>1 DEF ToSet
  <2> HIDE DEF f
  <2> QED
    BY <2>1, <2>2, <2>3 DEF Bijection, Injection, Surjection, IsInjective
<1> HIDE DEF f
<1>3. ExistsBijection(1..Len(s), ToSet(s))
  BY <1>2 DEF ExistsBijection
<1>4. IsFiniteSet(1..Len(s)) /\ Cardinality(1..Len(s)) = Len(s)
  BY <1>1, FS_Interval
<1> QED
  BY <1>3, <1>4, FS_Bijection

\* processWaiters() splits the waiters in two: those with a lease, and the
\* rest in the order they had.
LEMMA WaitersSplit ==
    ASSUME NEW s \in Seq(Items), Injective(s), NEW n \in 0..Len(s)
    PROVE  /\ SubSeq(s, 1, n) \in Seq(Items) /\ Len(SubSeq(s, 1, n)) = n
           /\ \A k \in 1..n : SubSeq(s, 1, n)[k] = s[k]
           /\ ToSet(SubSeq(s, 1, n)) = {s[k] : k \in 1..n}
           /\ Injective(SubSeq(s, 1, n))
           /\ SubSeq(s, n + 1, Len(s)) \in Seq(Items)
           /\ Len(SubSeq(s, n + 1, Len(s))) = Len(s) - n
           /\ ToSet(SubSeq(s, n + 1, Len(s))) = {s[k] : k \in (n + 1)..Len(s)}
           /\ Injective(SubSeq(s, n + 1, Len(s)))
<1> DEFINE a == SubSeq(s, 1, n)
           b == SubSeq(s, n + 1, Len(s))
           m == Len(s)
<1>1. /\ m \in Nat /\ n \in Nat /\ n <= m
      /\ a \in Seq(Items) /\ Len(a) = n /\ DOMAIN a = 1..n
      /\ \A k \in 1..n : a[k] = s[k]
  <2>1. m \in Nat /\ n \in Nat /\ n <= m
    OBVIOUS
  <2>2. a \in Seq(Items) /\ Len(a) = n
    BY <2>1
  <2>3. \A k \in 1..n : a[k] = s[k]
    BY <2>1
  <2> QED
    BY <2>1, <2>2, <2>3
<1>2. /\ b \in Seq(Items) /\ Len(b) = m - n /\ DOMAIN b = 1..(m - n)
      /\ \A k \in 1..(m - n) : b[k] = s[n + k]
  <2>1. b \in Seq(Items) /\ Len(b) = m - n
    BY <1>1
  <2>2. \A k \in 1..(m - n) : b[k] = s[n + k]
    BY <1>1
  <2> QED
    BY <1>1, <2>1, <2>2
<1> HIDE DEF a, b
<1>3. ToSet(a) = {s[k] : k \in 1..n} /\ Injective(a)
  <2>1. ToSet(a) = {a[k] : k \in 1..n}
    BY <1>1 DEF ToSet
  <2>2. ToSet(a) = {s[k] : k \in 1..n}
    BY <1>1, <2>1
  <2>3. ASSUME NEW j \in 1..n, NEW k \in 1..n, a[j] = a[k]
        PROVE  j = k
    <3>1. j \in 1..m /\ k \in 1..m /\ s[j] = s[k]
      BY <1>1, <2>3
    <3> QED
      BY <3>1 DEF Injective
  <2>4. Injective(a)
    BY <1>1, <2>3 DEF Injective
  <2> QED
    BY <2>2, <2>4
<1>4. Injective(b)
  <2> SUFFICES ASSUME NEW j \in 1..(m - n), NEW k \in 1..(m - n), b[j] = b[k]
               PROVE  j = k
    BY <1>2 DEF Injective
  <2>1. n + j \in 1..m /\ n + k \in 1..m /\ s[n + j] = s[n + k]
    BY <1>1, <1>2
  <2>2. n + j = n + k
    BY <2>1 DEF Injective
  <2> QED
    BY <1>1, <2>2
<1>5. ToSet(b) = {s[k] : k \in (n + 1)..m}
  <2>1. ASSUME NEW k \in 1..(m - n)
        PROVE  n + k \in (n + 1)..m /\ b[k] = s[n + k]
    BY <1>1, <1>2
  <2>2. ASSUME NEW k \in (n + 1)..m
        PROVE  k - n \in 1..(m - n) /\ b[k - n] = s[k]
    BY <1>1, <1>2
  <2>3. ToSet(b) = {b[k] : k \in 1..(m - n)}
    BY <1>2 DEF ToSet
  <2>4. \A x : x \in ToSet(b) <=> \E k \in (n + 1)..m : x = s[k]
    <3>1. ASSUME NEW x, x \in ToSet(b)
          PROVE  \E k \in (n + 1)..m : x = s[k]
      BY <2>1, <2>3, <3>1
    <3>2. ASSUME NEW k \in (n + 1)..m
          PROVE  s[k] \in ToSet(b)
      BY <2>2, <2>3
    <3> QED
      BY <3>1, <3>2
  <2> QED
    BY <2>4
<1> QED
  BY <1>1, <1>2, <1>3, <1>4, <1>5 DEF a, b

\* A new waiter goes to the end.
LEMMA WaiterJoins ==
    ASSUME NEW s \in Seq(Items), Injective(s), NEW i \in Items, i \notin ToSet(s)
    PROVE  /\ Append(s, i) \in Seq(Items) /\ Injective(Append(s, i))
           /\ ToSet(Append(s, i)) = ToSet(s) \cup {i}
<1> DEFINE v == Append(s, i)
           n == Len(s)
<1>1. /\ n \in Nat /\ v \in Seq(Items) /\ Len(v) = n + 1 /\ v[n + 1] = i
      /\ \A k \in 1..n : v[k] = s[k]
      /\ DOMAIN s = 1..n /\ DOMAIN v = 1..(n + 1)
  OBVIOUS
<1>2. \A k \in 1..n : s[k] # i
  BY <1>1 DEF ToSet
<1> HIDE DEF v, n
<1>3. Injective(v)
  BY <1>1, <1>2 DEF Injective, n
<1>4. ToSet(v) = ToSet(s) \cup {i}
  BY <1>1 DEF ToSet
<1> QED
  BY <1>1, <1>3, <1>4 DEF v

-----------------------------------------------------------------------------
(* acquire(), release(), time.                                             *)

\* What isLimited() finds, with the tokens left open.
LEMMA LimitMeans ==
    ASSUME NEW leases, NEW w \in Seq(Entry), NEW b \in Nat, Cardinality(leases) \in Nat
    PROVE  /\ Limit(leases, w, b) = "none" =>
                /\ b = 0 /\ Cardinality(leases) < Concurrent
                /\ Cardinality(Counted(w)) < Rpm
           /\ Cardinality(leases) >= Concurrent \/ Cardinality(Counted(w)) >= Rpm
                => Limit(leases, w, b) # "none"
<1> DEFINE p == Cardinality(leases)
           q == Requests(w)
           full == Tokens(w) >= Tpm
<1>1. q \in Nat /\ q = Cardinality(Counted(w)) /\ p \in Nat
  BY CountedFinite
<1>2. Concurrent \in Nat /\ Rpm \in Nat
  BY LimiterAssumption
<1>3. Limit(leases, w, b) =
        CASE b > 0 -> "backoff"
          [] b = 0 /\ p >= Concurrent -> "concurrent"
          [] b = 0 /\ p < Concurrent /\ q >= Rpm -> "rpm"
          [] OTHER -> IF full THEN "tpm" ELSE "none"
  BY DEF Limit
<1> HIDE DEF p, q, full
<1>4. CASE b > 0
  BY <1>2, <1>3, <1>4
<1>5. CASE b = 0 /\ p >= Concurrent
  BY <1>1, <1>2, <1>3, <1>5 DEF p
<1>6. CASE b = 0 /\ p < Concurrent /\ q >= Rpm
  BY <1>1, <1>2, <1>3, <1>6 DEF p
<1>7. CASE b = 0 /\ p < Concurrent /\ q < Rpm
  BY <1>1, <1>2, <1>3, <1>7 DEF p
<1> QED
  BY <1>1, <1>2, <1>4, <1>5, <1>6, <1>7

LEMMA ActiveFinite ==
    ASSUME NEW S \in SUBSET Items
    PROVE  IsFiniteSet(S) /\ Cardinality(S) \in Nat
BY LimiterAssumption, FS_Subset, FS_CardinalityType

\* The request gets its lease, a place among the waiters, or a timer.
LEMMA AcquireOK ==
    ASSUME LimiterInv, NEW i \in Items, i \notin active \cup ToSet(waiters), Acquire(i)
    PROVE  /\ LimiterInv'
           /\ active \subseteq active' /\ active' \subseteq active \cup {i}
           /\ active' \cup ToSet(waiters') \subseteq active \cup ToSet(waiters) \cup {i}
<1> DEFINE limit == Limit(active, window, backoff)
<1>1. /\ active' = IF limit = "none" THEN active \cup {i} ELSE active
      /\ estimated' = IF limit = "none" THEN estimated \cup {i} ELSE estimated
      /\ window' = IF limit = "none" THEN Append(window, Request(i, Estimate)) ELSE window
      /\ waiters' = IF limit = "concurrent" THEN Append(waiters, i) ELSE waiters
      /\ backoff' = backoff /\ multiplier' = multiplier
  BY DEF Acquire
<1>2. /\ limit = "none" => /\ Cardinality(active) < Concurrent
                           /\ Cardinality(Counted(window)) < Rpm
      /\ Cardinality(active) \in Nat /\ IsFiniteSet(active)
      /\ Cardinality(Counted(window)) \in Nat
  BY ActiveFinite, LimitMeans, CountedFinite DEF LimiterInv
<1> HIDE DEF limit
<1>3. CASE limit = "none"
  <2>1. Estimate \in Nat /\ Concurrent \in Nat /\ Rpm \in Nat
    BY LimiterAssumption
  <2>2. window' \in Seq(Entry) /\ Cardinality(Counted(window')) <= Rpm
    BY <1>1, <1>2, <1>3, <2>1, CountedLease DEF LimiterInv
  <2>3. Cardinality(active') <= Concurrent
    <3>1. Cardinality(active \cup {i}) = Cardinality(active) + 1
      BY <1>2, FS_AddElement
    <3> QED
      BY <1>1, <1>2, <1>3, <2>1, <3>1
  <2>4. active' = active \cup {i} /\ waiters' = waiters /\ estimated' = estimated \cup {i}
    BY <1>1, <1>3
  <2> QED
    BY <1>1, <2>2, <2>3, <2>4 DEF LimiterInv
<1>4. CASE limit = "concurrent"
  <2>1. /\ active' = active /\ estimated' = estimated /\ window' = window
        /\ waiters' = Append(waiters, i)
    BY <1>1, <1>4
  <2>2. /\ waiters' \in Seq(Items) /\ Injective(waiters')
        /\ ToSet(waiters') = ToSet(waiters) \cup {i}
    BY <2>1, WaiterJoins DEF LimiterInv
  <2> QED
    BY <1>1, <2>1, <2>2 DEF LimiterInv
<1>5. CASE limit \notin {"none", "concurrent"}
  <2>1. UNCHANGED limiterVars
    BY <1>1, <1>5 DEF limiterVars
  <2> QED
    BY <2>1 DEF LimiterInv, limiterVars
<1> QED
  BY <1>3, <1>4, <1>5

\* How many waiters are served: all of them, or as many as a limit allows.
LEMMA ServesOK ==
    ASSUME LimiterInv, NEW leases \in SUBSET Items, NEW w \in Seq(Entry), NEW b \in Nat,
           Cardinality(leases) <= Concurrent, Cardinality(Counted(w)) <= Rpm
    PROVE  /\ Serves(leases, w, b) \in 0..Len(waiters)
           /\ Cardinality(leases) + Serves(leases, w, b) <= Concurrent
           /\ Cardinality(Counted(w)) + Serves(leases, w, b) <= Rpm
           /\ \/ Serves(leases, w, b) = Len(waiters)
              \/ Serves(leases, w, b) = 0 /\ Limit(leases, w, b) # "none"
              \/ Cardinality(leases) + Serves(leases, w, b) = Concurrent
              \/ Cardinality(Counted(w)) + Serves(leases, w, b) = Rpm
<1> DEFINE n == Serves(leases, w, b)
           limit == Limit(leases, w, b)
           p == Cardinality(leases)
           q == Cardinality(Counted(w))
           m == Len(waiters)
<1>1. p \in Nat /\ q \in Nat /\ m \in Nat /\ Concurrent \in Nat /\ Rpm \in Nat
      /\ p <= Concurrent /\ q <= Rpm
  BY ActiveFinite, CountedFinite, LimiterAssumption DEF LimiterInv
<1>2. limit = "none" => p < Concurrent /\ q < Rpm
  BY <1>1, LimitMeans
<1>3. n = IF limit # "none" THEN 0 ELSE Lesser(m, Lesser(Concurrent - p, Rpm - q))
  BY CountedFinite DEF Serves
<1> HIDE DEF n, limit, p, q, m
<1>4. /\ n \in 0..m /\ p + n <= Concurrent /\ q + n <= Rpm
      /\ n = m \/ (n = 0 /\ limit # "none") \/ p + n = Concurrent \/ q + n = Rpm
  BY <1>1, <1>2, <1>3 DEF Lesser
<1> QED
  BY <1>4 DEF n, limit, p, q, m

\* What release() leaves: the lease is gone, the first n waiters have theirs,
\* and the other waiters wait on, in their order.
LEMMA ReleaseOK ==
    ASSUME LimiterInv, NEW i \in active, NEW w \in Seq(Entry), NEW b \in Nat,
           Cardinality(Counted(w)) <= Rpm, Release(i, w, b)
    PROVE  /\ LimiterInv'
           /\ i \notin active' \cup ToSet(waiters')
           /\ active' \cup ToSet(waiters') = (active \ {i}) \cup ToSet(waiters)
           /\ \E n \in 0..Len(waiters) :
                 active' = (active \ {i}) \cup {waiters[k] : k \in 1..n}
           /\ waiters' = <<>> \/ Limit(active', window', backoff') # "none"
<1> DEFINE leases == active \ {i}
           n == Serves(leases, w, b)
           served == SubSeq(waiters, 1, n)
           m == Len(waiters)
<1>1. /\ waiters \in Seq(Items) /\ Injective(waiters) /\ m \in Nat
      /\ active \in SUBSET Items /\ IsFiniteSet(active) /\ Cardinality(active) \in Nat
      /\ leases \in SUBSET Items /\ IsFiniteSet(leases) /\ Cardinality(leases) \in Nat
      /\ Cardinality(leases) <= Concurrent /\ Concurrent \in Nat /\ Rpm \in Nat
      /\ active \cap ToSet(waiters) = {}
  <2>1. /\ active \in SUBSET Items /\ leases \in SUBSET Items
        /\ IsFiniteSet(active) /\ IsFiniteSet(leases)
        /\ Cardinality(active) \in Nat /\ Cardinality(leases) \in Nat
        /\ Cardinality(active) <= Concurrent
    BY ActiveFinite DEF LimiterInv
  <2>2. Cardinality(leases) <= Cardinality(active)
    BY <2>1, FS_Subset
  <2>3. Concurrent \in Nat /\ Rpm \in Nat
    BY LimiterAssumption
  <2>4. /\ waiters \in Seq(Items) /\ Injective(waiters) /\ m \in Nat
        /\ active \cap ToSet(waiters) = {}
    BY DEF LimiterInv
  <2> HIDE DEF leases
  <2> QED
    BY <2>1, <2>2, <2>3, <2>4
<1>2. /\ n \in 0..m
      /\ Cardinality(leases) + n <= Concurrent /\ Cardinality(Counted(w)) + n <= Rpm
      /\ \/ n = m
         \/ n = 0 /\ Limit(leases, w, b) # "none"
         \/ Cardinality(leases) + n = Concurrent
         \/ Cardinality(Counted(w)) + n = Rpm
  BY <1>1, ServesOK
<1>3. /\ active' = leases \cup ToSet(served)
      /\ estimated' = estimated \ {i}
      /\ waiters' = SubSeq(waiters, n + 1, m)
      /\ window' = w \o [k \in 1..n |-> Request(served[k], 0)]
      /\ backoff' = b /\ multiplier' = 1
  BY DEF Release, LeasesWithout, Served
<1> HIDE DEF n
<1>4. /\ served \in Seq(Items) /\ Len(served) = n
      /\ ToSet(served) = {waiters[k] : k \in 1..n} /\ Injective(served)
      /\ waiters' \in Seq(Items) /\ Len(waiters') = m - n /\ Injective(waiters')
      /\ ToSet(waiters') = {waiters[k] : k \in (n + 1)..m}
  BY <1>1, <1>2, <1>3, WaitersSplit
<1>5. ToSet(waiters) = {waiters[k] : k \in 1..m}
  BY <1>1 DEF ToSet
<1>6. /\ ToSet(served) \cap ToSet(waiters') = {}
      /\ ToSet(served) \cup ToSet(waiters') = ToSet(waiters)
  <2>1. \A j \in 1..n, k \in (n + 1)..m : waiters[j] # waiters[k]
    BY <1>1, <1>2 DEF Injective
  <2>2. \A k \in 1..m : k \in 1..n \/ k \in (n + 1)..m
    BY <1>1, <1>2
  <2>3. \A k \in 1..n : k \in 1..m
    BY <1>1, <1>2
  <2>4. \A k \in (n + 1)..m : k \in 1..m
    BY <1>1, <1>2
  <2> QED
    BY <1>4, <1>5, <2>1, <2>2, <2>3, <2>4
<1> HIDE DEF served
<1>7. /\ IsFiniteSet(ToSet(served)) /\ Cardinality(ToSet(served)) = n
  BY <1>4, InjectiveSize
<1>8. leases \cap ToSet(served) = {}
  BY <1>1, <1>6
<1>9. Cardinality(active') = Cardinality(leases) + n
  <2> HIDE DEF leases
  <2>1. Cardinality(active') = Cardinality(leases) + n - Cardinality({})
    BY <1>1, <1>3, <1>7, <1>8, FS_Union
  <2> QED
    BY <1>1, <1>2, <2>1, FS_EmptySet
<1>10. /\ window' \in Seq(Entry)
       /\ Cardinality(Counted(window')) = Cardinality(Counted(w)) + n
  <2>1. n \in Nat /\ n <= Len(served)
    BY <1>1, <1>2, <1>4
  <2> QED
    BY <1>3, <1>4, <2>1, CountedServed
<1>11. active' \in SUBSET Items
  <2>1. \A k \in 1..m : waiters[k] \in Items
    BY <1>1
  <2>2. ToSet(waiters) \subseteq Items
    BY <1>5, <2>1
  <2>3. ToSet(waiters) \cup active \subseteq Items
    BY <1>1, <2>2
  <2> QED
    BY <1>3, <1>6, <2>3
<1>12. LimiterInv'
  <2>1. estimated' \in SUBSET active'
    BY <1>3 DEF LimiterInv
  <2>2. active' \cap ToSet(waiters') = {}
    BY <1>1, <1>3, <1>6
  <2> QED
    BY <1>2, <1>3, <1>4, <1>9, <1>10, <1>11, <2>1, <2>2, SMTT(20) DEF LimiterInv
<1>13. waiters' = <<>> \/ Limit(active', window', backoff') # "none"
  <2>1. /\ Cardinality(active') \in Nat /\ Cardinality(Counted(window')) \in Nat
    BY <1>10, <1>11, ActiveFinite, CountedFinite
  <2>2. CASE n = m
    BY <1>1, <1>4, <2>2
  <2>3. CASE n = 0 /\ Limit(leases, w, b) # "none"
    <3>1. ToSet(served) = {}
      BY <1>4, <2>3
    <3>2. active' = leases
      BY <1>3, <3>1
    <3>3. window' = w
      BY <1>3, <2>3
    <3> QED
      BY <1>3, <2>3, <3>2, <3>3
  <2>4. CASE Cardinality(leases) + n = Concurrent \/ Cardinality(Counted(w)) + n = Rpm
    <3>1. Cardinality(active') >= Concurrent \/ Cardinality(Counted(window')) >= Rpm
      BY <1>1, <1>9, <1>10, <2>4
    <3> QED
      BY <1>3, <1>10, <2>1, <3>1, LimitMeans
  <2> QED
    BY <1>2, <2>2, <2>3, <2>4
<1>14. /\ i \notin active' \cup ToSet(waiters')
       /\ active' \cup ToSet(waiters') = (active \ {i}) \cup ToSet(waiters)
  BY <1>1, <1>3, <1>6
<1>15. active' = (active \ {i}) \cup {waiters[k] : k \in 1..n}
  BY <1>3, <1>4
<1> QED
  BY <1>2, <1>12, <1>13, <1>14, <1>15

\* The window after release() learnt the real usage counts the same requests.
LEMMA CorrectionsOK ==
    ASSUME LimiterInv, NEW i \in active, NEW tokens \in Nat, NEW w \in Corrections(i, tokens)
    PROVE  w \in Seq(Entry) /\ Cardinality(Counted(w)) <= Rpm
<1>1. window \in Seq(Entry) /\ Cardinality(Counted(window)) <= Rpm /\ i \in Items
  BY DEF LimiterInv
<1>2. EstimatesLike(i) \subseteq 1..Len(window)
  BY <1>1 DEF EstimatesLike
<1>3. \/ w = window \/ w = Append(window, Usage(i, tokens))
      \/ \E k \in EstimatesLike(i) : w = [window EXCEPT ![k].tokens = tokens]
  BY DEF Corrections
<1>4. CASE w = Append(window, Usage(i, tokens))
  BY <1>1, <1>4, CountedUsage
<1>5. CASE \E k \in EstimatesLike(i) : w = [window EXCEPT ![k].tokens = tokens]
  <2>1. PICK k \in 1..Len(window) : w = [window EXCEPT ![k].tokens = tokens]
    BY <1>2, <1>5
  <2>2. w \in Seq(Entry) /\ Counted(w) = Counted(window)
    BY <1>1, <2>1, CountedCorrected
  <2> QED
    BY <1>1, <2>2
<1>6. CASE w = window
  BY <1>1, <1>6
<1> QED
  BY <1>3, <1>4, <1>5, <1>6

LEMMA TimeOK ==
    ASSUME LimiterInv, Age \/ BackoffEnds
    PROVE  LimiterInv' /\ UNCHANGED <<active, waiters>>
<1>1. CASE Age
  <2>1. window # <<>> /\ window' = Tail(window) /\ window \in Seq(Entry)
    BY <1>1 DEF Age, LimiterInv
  <2>2. /\ window' \in Seq(Entry)
        /\ Cardinality(Counted(window')) <= Cardinality(Counted(window))
    BY <2>1, CountedAged
  <2>3. /\ Cardinality(Counted(window')) \in Nat /\ Cardinality(Counted(window)) \in Nat
        /\ Rpm \in Nat
    BY <2>1, <2>2, CountedFinite, LimiterAssumption
  <2>4. Cardinality(Counted(window')) <= Rpm
    BY <2>2, <2>3 DEF LimiterInv
  <2> QED
    BY <1>1, <2>2, <2>4 DEF Age, LimiterInv
<1>2. CASE BackoffEnds
  BY <1>2 DEF BackoffEnds, LimiterInv
<1> QED
  BY <1>1, <1>2

-----------------------------------------------------------------------------
(* The pool.                                                               *)

\* The requests that hold a global slot.
Slotted == {i \in Items : pc[i] \in {"execute", "retrying"}}

\* The pool's own variables; a request that waits to be retried has a retry
\* left.
OwnTypeOK ==
    /\ pc \in [Items -> Places]
    /\ retries \in [Items -> 0..MaxRetries]
    /\ \A i \in Items : pc[i] = "retrying" => retries[i] < MaxRetries
    /\ activeRequests \in 0..MaxGlobal
    /\ shuttingDown \in BOOLEAN
    /\ draining \in BOOLEAN

PoolInv ==
    /\ LimiterInv
    /\ OwnTypeOK
    /\ active \cup ToSet(waiters) \subseteq {i \in Items : pc[i] = "execute"}
    /\ activeRequests = Cardinality(Slotted)

\* A request enters or leaves the pool, or stays in it or out of it.
LEMMA SlotsCounted ==
    ASSUME OwnTypeOK, activeRequests = Cardinality(Slotted), NEW i \in Items,
           NEW place \in Places, pc' = [pc EXCEPT ![i] = place]
    PROVE  /\ i \notin Slotted /\ place \in {"execute", "retrying"}
                => Cardinality(Slotted') = activeRequests + 1
           /\ i \in Slotted /\ place \notin {"execute", "retrying"}
                => Cardinality(Slotted') = activeRequests - 1
           /\ (i \in Slotted <=> place \in {"execute", "retrying"})
                => Cardinality(Slotted') = activeRequests
<1>1. IsFiniteSet(Slotted)
  BY ActiveFinite DEF Slotted
<1>2. Slotted' = IF place \in {"execute", "retrying"} THEN Slotted \cup {i} ELSE Slotted \ {i}
  BY DEF Slotted, OwnTypeOK
<1> HIDE DEF Slotted
<1>3. CASE place \in {"execute", "retrying"}
  BY <1>1, <1>2, <1>3, FS_AddElement
<1>4. CASE place \notin {"execute", "retrying"}
  BY <1>1, <1>2, <1>4, FS_RemoveElement
<1> QED
  BY <1>3, <1>4

\* A request begins, wakes up or is retried: it asks for a lease.
LEMMA AsksKeeps ==
    ASSUME PoolInv, NEW i \in Items, Begin(i) \/ WakeUp(i) \/ Retry(i)
    PROVE  PoolInv' /\ active \subseteq active' /\ i \notin ToSet(waiters)
           /\ active' \subseteq active \cup {i}
<1>1. i \notin active \cup ToSet(waiters) /\ Acquire(i)
  BY DEF Begin, WakeUp, Asleep, Retry, PoolInv
<1>2. /\ LimiterInv' /\ active \subseteq active' /\ active' \subseteq active \cup {i}
      /\ active' \cup ToSet(waiters') \subseteq active \cup ToSet(waiters) \cup {i}
  BY <1>1, AcquireOK DEF PoolInv
<1>3. /\ UNCHANGED <<shuttingDown, draining>>
      /\ pc' \in [Items -> Places] /\ pc'[i] = "execute"
      /\ \A j \in Items : j # i => pc'[j] = pc[j]
      /\ pc' = [pc EXCEPT ![i] = "execute"]
  BY DEF Begin, WakeUp, Asleep, Retry, poolVars, Places, PoolInv, OwnTypeOK
<1>4. /\ retries' \in [Items -> 0..MaxRetries]
      /\ \A j \in Items : pc'[j] = "retrying" => retries'[j] < MaxRetries
  <2>1. CASE Retry(i)
    <3>1. /\ retries' = [retries EXCEPT ![i] = @ + 1]
          /\ retries[i] < MaxRetries /\ retries[i] \in Nat /\ MaxRetries \in Nat
      BY <2>1, PoolAssumption DEF Retry, PoolInv, OwnTypeOK
    <3> QED
      BY <1>3, <3>1 DEF PoolInv, OwnTypeOK
  <2>2. CASE Begin(i) \/ WakeUp(i)
    BY <1>3, <2>2 DEF Begin, WakeUp, poolVars, PoolInv, OwnTypeOK
  <2> QED
    BY <2>1, <2>2
<1>5. activeRequests' \in 0..MaxGlobal /\ activeRequests' = Cardinality(Slotted')
  <2>1. "execute" \in Places /\ OwnTypeOK /\ activeRequests = Cardinality(Slotted)
    BY DEF Places, PoolInv
  <2>2. CASE Begin(i)
    <3>1. i \notin Slotted /\ activeRequests' = activeRequests + 1 /\ activeRequests < MaxGlobal
      BY <2>2 DEF Begin, SlotFree, Slotted
    <3>2. Cardinality(Slotted') = activeRequests + 1
      BY <1>3, <2>1, <3>1, SlotsCounted
    <3>3. activeRequests \in Nat /\ MaxGlobal \in Nat
      BY <2>1, PoolAssumption DEF OwnTypeOK
    <3> QED
      BY <3>1, <3>2, <3>3
  <2>3. CASE WakeUp(i) \/ Retry(i)
    <3>1. i \in Slotted /\ activeRequests' = activeRequests
      BY <2>3 DEF WakeUp, Asleep, Retry, poolVars, Slotted
    <3>2. Cardinality(Slotted') = activeRequests
      BY <1>3, <2>1, <3>1, SlotsCounted
    <3> QED
      BY <2>1, <3>1, <3>2 DEF OwnTypeOK
  <2> QED
    BY <2>2, <2>3
<1>6. active' \cup ToSet(waiters') \subseteq {j \in Items : pc'[j] = "execute"}
  BY <1>2, <1>3 DEF PoolInv
<1> QED
  BY <1>1, <1>2, <1>3, <1>4, <1>5, <1>6 DEF PoolInv, OwnTypeOK

\* A request is over or waits to be retried; its lease is released.
LEMMA ReleasesKeeps ==
    ASSUME PoolInv, NEW i \in Items, i \in active, NEW w \in Seq(Entry), NEW b \in Nat,
           Cardinality(Counted(w)) <= Rpm, Release(i, w, b),
           NEW place \in {"done", "retrying"}, pc' = [pc EXCEPT ![i] = place],
           place = "retrying" => retries[i] < MaxRetries,
           activeRequests' = activeRequests - (IF place = "retrying" THEN 0 ELSE 1),
           UNCHANGED <<retries, shuttingDown, draining>>
    PROVE  PoolInv'
<1>1. /\ LimiterInv' /\ i \notin active' \cup ToSet(waiters')
      /\ active' \cup ToSet(waiters') = (active \ {i}) \cup ToSet(waiters)
  BY ReleaseOK DEF PoolInv
<1>2. /\ pc \in [Items -> Places] /\ pc[i] = "execute" /\ i \in Slotted
      /\ place \in Places
  BY DEF PoolInv, OwnTypeOK, Slotted, Places
<1>3. /\ pc' \in [Items -> Places]
      /\ \A j \in Items : pc'[j] = IF j = i THEN place ELSE pc[j]
  BY <1>2
<1>4. active' \cup ToSet(waiters') \subseteq {j \in Items : pc'[j] = "execute"}
  BY <1>1, <1>3 DEF PoolInv
<1>5. activeRequests' \in 0..MaxGlobal /\ activeRequests' = Cardinality(Slotted')
  <2>1. activeRequests \in 0..MaxGlobal /\ MaxGlobal \in Nat /\ OwnTypeOK
        /\ activeRequests = Cardinality(Slotted)
    BY PoolAssumption DEF PoolInv, OwnTypeOK
  <2>2. activeRequests' = Cardinality(Slotted')
    <3>1. /\ place = "retrying" => Cardinality(Slotted') = activeRequests
          /\ place = "done" => Cardinality(Slotted') = activeRequests - 1
      BY <1>2, <2>1, SlotsCounted
    <3>2. CASE place = "retrying"
      BY <2>1, <3>1, <3>2
    <3>3. CASE place = "done"
      BY <2>1, <3>1, <3>3
    <3> QED
      BY <3>2, <3>3
  <2>3. Cardinality(Slotted') \in Nat
    <3>1. Slotted' \in SUBSET Items
      BY DEF Slotted
    <3> QED
      BY <3>1, ActiveFinite
  <2> QED
    BY <2>1, <2>2, <2>3
<1>6. \A j \in Items : pc'[j] = "retrying" => retries'[j] < MaxRetries
  BY <1>3 DEF PoolInv, OwnTypeOK
<1> QED
  BY <1>1, <1>3, <1>4, <1>5, <1>6 DEF PoolInv, OwnTypeOK

\* How a request ends an execution: which window and back-off its release()
\* works with.
Releasing(i) ==
    \E w \in Seq(Entry) : \E b \in Nat :
        i \in active /\ Cardinality(Counted(w)) <= Rpm /\ Release(i, w, b)

LEMMA EndsKeeps ==
    ASSUME PoolInv, NEW i \in Items, Answer(i) \/ Fail(i)
    PROVE  PoolInv' /\ Releasing(i)
<1>0. i \in active /\ LimiterInv
  BY DEF Answer, Fail, PoolInv
<1>1. CASE Answer(i)
  <2>1. PICK tokens \in ActualTokens : \E w \in Corrections(i, tokens) : Release(i, w, backoff)
    BY <1>1 DEF Answer
  <2>2. PICK w \in Corrections(i, tokens) : Release(i, w, backoff)
    BY <2>1
  <2>3. w \in Seq(Entry) /\ Cardinality(Counted(w)) <= Rpm
    BY <1>0, <2>2, CorrectionsOK, PoolAssumption
  <2>4. backoff \in Nat
    BY <1>0 DEF LimiterInv
  <2>5. /\ pc' = [pc EXCEPT ![i] = "done"] /\ activeRequests' = activeRequests - 1
        /\ UNCHANGED <<retries, shuttingDown, draining>>
    BY <1>1 DEF Answer
  <2>6. PoolInv'
    BY <1>0, <2>2, <2>3, <2>4, <2>5, ReleasesKeeps
  <2> QED
    BY <1>0, <2>2, <2>3, <2>4, <2>6 DEF Releasing
<1>2. CASE Fail(i)
  <2>1. PICK error \in Errors, after \in RetryAfters :
          /\ ReleaseOnFailure(i, IF IsRateLimit(error) THEN BackoffAfter(after) ELSE backoff)
          /\ pc' = [pc EXCEPT ![i] = IF Again(i, error) THEN "retrying" ELSE "done"]
          /\ activeRequests' = activeRequests - (IF Again(i, error) THEN 0 ELSE 1)
    BY <1>2 DEF Fail
  <2> DEFINE b == IF IsRateLimit(error) THEN BackoffAfter(after) ELSE backoff
             place == IF Again(i, error) THEN "retrying" ELSE "done"
  <2>2. b \in Nat
    BY <1>0, PoolAssumption DEF LimiterInv, BackoffAfter, Lesser
  <2>3. /\ window \in Seq(Entry) /\ Cardinality(Counted(window)) <= Rpm
        /\ Release(i, window, b)
    BY <1>0, <2>1 DEF LimiterInv, ReleaseOnFailure
  <2>4. /\ place \in {"done", "retrying"} /\ pc' = [pc EXCEPT ![i] = place]
        /\ place = "retrying" => retries[i] < MaxRetries
        /\ activeRequests' = activeRequests - (IF place = "retrying" THEN 0 ELSE 1)
        /\ UNCHANGED <<retries, shuttingDown, draining>>
    BY <1>2, <2>1 DEF Fail, Again
  <2> HIDE DEF b, place
  <2>5. PoolInv'
    BY <1>0, <2>2, <2>3, <2>4, ReleasesKeeps
  <2> QED
    BY <1>0, <2>2, <2>3, <2>5 DEF Releasing
<1> QED
  BY <1>1, <1>2

\* Submissions that are refused or poll, and the pool's switches.
LEMMA OthersKeep ==
    ASSUME PoolInv, (\E i \in Items : Submit(i)) \/ Drain \/ Drained \/ Reopen
                    \/ UNCHANGED vars
    PROVE  PoolInv' /\ UNCHANGED limiterVars
<1>1. UNCHANGED limiterVars
  BY DEF Submit, Drain, Drained, Reopen, vars
<1>2. LimiterInv' /\ active' = active /\ waiters' = waiters
  BY <1>1 DEF PoolInv, LimiterInv, limiterVars
<1>3. CASE \E i \in Items : Submit(i)
  <2>1. PICK i \in Items : Submit(i)
    BY <1>3
  <2> DEFINE place == IF shuttingDown THEN "refused" ELSE "polling"
  <2>2. /\ pc[i] = "new" /\ pc' = [pc EXCEPT ![i] = place] /\ place \in {"refused", "polling"}
        /\ UNCHANGED <<retries, activeRequests, shuttingDown, draining>>
    BY <2>1 DEF Submit
  <2> HIDE DEF place
  <2>3. i \notin Slotted /\ OwnTypeOK /\ activeRequests = Cardinality(Slotted)
        /\ place \in Places
    BY <2>2 DEF Slotted, PoolInv, Places
  <2>4. Cardinality(Slotted') = activeRequests
    BY <2>2, <2>3, SlotsCounted
  <2>5. /\ pc' \in [Items -> Places]
        /\ \A j \in Items : pc'[j] = IF j = i THEN place ELSE pc[j]
    BY <2>2, <2>3 DEF OwnTypeOK
  <2>6. OwnTypeOK'
    BY <2>2, <2>3, <2>5 DEF OwnTypeOK
  <2>7. active' \cup ToSet(waiters') \subseteq {j \in Items : pc'[j] = "execute"}
    BY <1>2, <2>2, <2>5 DEF PoolInv
  <2> QED
    BY <1>1, <1>2, <2>2, <2>4, <2>6, <2>7 DEF PoolInv
<1>4. CASE Drain \/ Drained \/ Reopen \/ UNCHANGED vars
  <2>1. UNCHANGED <<pc, retries, activeRequests>>
        /\ shuttingDown' \in BOOLEAN /\ draining' \in BOOLEAN
    BY <1>4 DEF Drain, Drained, Reopen, vars, poolVars, PoolInv, OwnTypeOK
  <2>2. OwnTypeOK' /\ Slotted' = Slotted
    BY <2>1 DEF PoolInv, OwnTypeOK, Slotted
  <2> QED
    BY <1>1, <1>2, <2>1, <2>2 DEF PoolInv
<1> QED
  BY <1>3, <1>4

LEMMA TimeKeeps ==
    ASSUME PoolInv, TimePasses
    PROVE  PoolInv' /\ UNCHANGED <<active, waiters>>
<1>1. LimiterInv' /\ UNCHANGED <<active, waiters>>
  BY TimeOK DEF TimePasses, PoolInv
<1>2. OwnTypeOK' /\ Slotted' = Slotted
  BY DEF TimePasses, poolVars, PoolInv, OwnTypeOK, Slotted
<1> QED
  BY <1>1, <1>2 DEF PoolInv, TimePasses, poolVars

LEMMA NextKeeps ==
    ASSUME PoolInv, [Next]_vars
    PROVE  PoolInv'
BY AsksKeeps, EndsKeeps, OthersKeep, TimeKeeps DEF Next

-----------------------------------------------------------------------------

\* Leases, waiters, window and slots fit together in every reachable state.
THEOREM LeaseInvariant == Spec => []PoolInv
<1>1. Init => PoolInv
  <2> SUFFICES ASSUME Init
               PROVE  PoolInv
    OBVIOUS
  <2>1. Cardinality({}) = 0 /\ Concurrent \in Nat /\ Rpm \in Nat /\ MaxGlobal \in Nat
    BY FS_EmptySet, LimiterAssumption, PoolAssumption
  <2>2. Counted(<<>>) = {} /\ ToSet(<<>>) = {} /\ Injective(<<>>)
    BY DEF Counted, ToSet, Injective
  <2>3. LimiterInv
    <3>1. active = {} /\ waiters = <<>> /\ window = <<>>
      BY DEF Init, LimiterInit
    <3>2. waiters \in Seq(Items) /\ window \in Seq(Entry)
      BY <3>1
    <3>3. Cardinality(active) <= Concurrent /\ Cardinality(Counted(window)) <= Rpm
      BY <2>1, <2>2, <3>1
    <3> QED
      BY <2>2, <3>1, <3>2, <3>3 DEF Init, LimiterInit, LimiterInv
  <2>4. Slotted = {}
    BY DEF Init, Slotted
  <2>5. OwnTypeOK
    <3>1. 0 \in 0..MaxRetries /\ 0 \in 0..MaxGlobal
      BY PoolAssumption
    <3> QED
      BY <3>1 DEF Init, OwnTypeOK, Places
  <2> QED
    BY <2>1, <2>2, <2>3, <2>4, <2>5 DEF Init, LimiterInit, PoolInv
<1>2. PoolInv /\ [Next]_vars => PoolInv'
  BY NextKeeps
<1> QED
  BY <1>1, <1>2, PTL DEF Spec

\* Never more leases than `concurrent`, nor more than `rpm` requests in a
\* minute, in every interleaving of acquire() and release().
THEOREM LimitsAreHeld == Spec => []LimitsHeld
<1>1. PoolInv => LimitsHeld
  BY CountedFinite DEF PoolInv, LimiterInv, LimitsHeld
<1> QED
  BY <1>1, LeaseInvariant, PTL

\* No lease, no place among the waiters and no global slot is leaked or
\* invented, on any way out of executeWork() and between its retries.
THEOREM NothingIsLeaked == Spec => []NothingLeaks
<1>1. PoolInv => NothingLeaks
  <2> SUFFICES ASSUME PoolInv
               PROVE  NothingLeaks
    OBVIOUS
  <2>1. \A k \in DOMAIN window : window[k].of \in Items /\ window[k].tokens \in Nat
    <3> SUFFICES ASSUME NEW k \in DOMAIN window
                 PROVE  window[k].of \in Items /\ window[k].tokens \in Nat
      OBVIOUS
    <3>1. window[k] \in Entry
      BY DEF PoolInv, LimiterInv
    <3> QED
      BY <3>1 DEF Entry
  <2>2. TypeOK
    BY <2>1 DEF PoolInv, LimiterInv, OwnTypeOK, TypeOK
  <2>3. Cardinality(ToSet(waiters)) = Len(waiters)
    BY InjectiveSize DEF PoolInv, LimiterInv
  <2> QED
    BY <2>2, <2>3 DEF PoolInv, LimiterInv, NothingLeaks, Slotted
<1> QED
  BY <1>1, LeaseInvariant, PTL

-----------------------------------------------------------------------------
(* The waiters' turn.                                                      *)

\* Leases change hands in three ways.
LEMMA LeaseSteps ==
    ASSUME PoolInv, [Next]_vars
    PROVE  \/ UNCHANGED <<active, waiters>>
           \/ \E i \in Items : /\ i \notin ToSet(waiters)
                               /\ active \subseteq active' /\ active' \subseteq active \cup {i}
           \/ \E i \in Items : Releasing(i)
<1>1. CASE \E i \in Items : Begin(i) \/ WakeUp(i) \/ Retry(i)
  BY <1>1, AsksKeeps
<1>2. CASE \E i \in Items : Answer(i) \/ Fail(i)
  BY <1>2, EndsKeeps
<1>3. CASE (\E i \in Items : Submit(i)) \/ Drain \/ Drained \/ Reopen \/ UNCHANGED vars
  BY <1>3, OthersKeep DEF limiterVars
<1>4. CASE TimePasses
  BY <1>4, TimeKeeps
<1> QED
  BY <1>1, <1>2, <1>3, <1>4 DEF Next

\* A release leaves a waiter behind only when a limit stands against it, and
\* waiters are served in the order they came.
THEOREM WaitersAreServedInTurn == Spec => ServedInTurn
<1> DEFINE Serving ==
             \A i \in active : i \notin active' =>
                 waiters' = <<>> \/ Limit(active', window', backoff') # "none"
           Ordered ==
             \A j, k \in DOMAIN waiters :
                 j < k /\ waiters[k] \in active' => waiters[j] \in active'
<1>1. PoolInv /\ [Next]_vars => Serving /\ Ordered
  <2> SUFFICES ASSUME PoolInv, [Next]_vars
               PROVE  Serving /\ Ordered
    OBVIOUS
  <2>1. /\ LimiterInv /\ waiters \in Seq(Items) /\ Injective(waiters)
        /\ active \cap ToSet(waiters) = {}
        /\ DOMAIN waiters = 1..Len(waiters) /\ Len(waiters) \in Nat
        /\ \A k \in DOMAIN waiters : waiters[k] \in ToSet(waiters)
    BY DEF PoolInv, LimiterInv, ToSet
  <2>2. CASE UNCHANGED <<active, waiters>>
    BY <2>1, <2>2
  <2>3. CASE \E i \in Items : /\ i \notin ToSet(waiters)
                              /\ active \subseteq active' /\ active' \subseteq active \cup {i}
    BY <2>1, <2>3
  <2>4. CASE \E i \in Items : Releasing(i)
    <3>1. PICK i \in Items : Releasing(i)
      BY <2>4
    <3>2. PICK w \in Seq(Entry), b \in Nat :
            i \in active /\ Cardinality(Counted(w)) <= Rpm /\ Release(i, w, b)
      BY <3>1 DEF Releasing
    <3>3. /\ waiters' = <<>> \/ Limit(active', window', backoff') # "none"
          /\ \E n \in 0..Len(waiters) :
                active' = (active \ {i}) \cup {waiters[k] : k \in 1..n}
      BY <2>1, <3>2, ReleaseOK
    <3>4. PICK n \in 0..Len(waiters) :
            active' = (active \ {i}) \cup {waiters[k] : k \in 1..n}
      BY <3>3
    <3>5. ASSUME NEW j \in 1..Len(waiters), NEW k \in 1..Len(waiters), j < k,
                 waiters[k] \in active'
          PROVE  waiters[j] \in active'
      <4>1. waiters[k] \notin active
        BY <2>1, <3>5
      <4>2. PICK l \in 1..n : waiters[k] = waiters[l]
        BY <3>4, <3>5, <4>1
      <4>3. k = l
        BY <2>1, <4>2 DEF Injective
      <4>4. j \in 1..n
        BY <2>1, <3>5, <4>2, <4>3
      <4> QED
        BY <3>4, <4>4
    <3> QED
      BY <2>1, <3>3, <3>5
  <2> QED
    BY <2>2, <2>3, <2>4, LeaseSteps
<1>2. PoolInv /\ [Next]_vars => [Serving]_limiterVars /\ [Ordered]_limiterVars
  BY <1>1
<1> QED
  BY <1>2, LeaseInvariant, PTL
     DEF Spec, ServedInTurn, ReleaseServesWaiters, WaitersInOrder
=============================================================================
