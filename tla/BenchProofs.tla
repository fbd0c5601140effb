------------------------------ MODULE BenchProofs ------------------------------
(***************************************************************************)
(* Proofs about Bench and about FolderLock, which processes that bench     *)
(* share.  The two have no variable in common, and no fact about the one   *)
(* is used for the other.                                                  *)
(*                                                                         *)
(* Bench: for any tasks, variants, attempts, rounds and failures.  The     *)
(* semaphore is a part of its own: who leaves hands the permit to the      *)
(* first waiter.  A round then is right because the place of a task tells  *)
(* what its pairs have come to.                                            *)
(*                                                                         *)
(* FolderLock: for any processes, thresholds and bound on the faults, the  *)
(* file implements Mutex as long as processes are prompt and none fails.   *)
(***************************************************************************)
EXTENDS Bench, FolderLock, FiniteSetTheorems, TLAPS

-----------------------------------------------------------------------------
(* Bench. *)

\* What of the types does not depend on the semaphore.
BenchTyped ==
    /\ taskConcurrency \in 1..MaxConcurrency
    /\ phase \in {"running", "prompt", "saved", "thrown"} /\ round \in 1..MaxRounds
    /\ task \in [Tasks -> Permitted \cup Over \cup {"waiting"}]
    /\ variantsToRun \subseteq Variants
    /\ pair \in [Pairs -> {"idle", "llm", "compile"} \cup Ended]
    /\ attempt \in [Pairs -> 0..AttemptLimit]
    /\ criticalAbort \in BOOLEAN /\ troubles \in 0..MaxTroubles
    /\ results \subseteq Record /\ allResults \subseteq Record

InLine == {t \in Tasks : task[t] = "waiting"}

\* A permit is out or nobody waits.
Semaphore ==
    /\ Cardinality(TaskHolders) <= taskConcurrency
    /\ waiters \in Seq(Tasks) /\ IsInjective(waiters) /\ ToSet(waiters) = InLine
    /\ waiters # <<>> => Cardinality(TaskHolders) = taskConcurrency

\* A pair is at work in a running task only.
AtWork == \A p \in Pairs : pair[p] \in {"llm", "compile"} =>
              task[p[1]] = "running" /\ p[2] \in variantsToRun

\* The pairs of a completed task have ended, and not with a critical error.
Delivered == \A t \in Tasks : task[t] = "done" => \A p \in PairsOf(t) :
                 /\ pair[p] \in Ended \ {"critical"}
                 /\ pair[p] \in HasResult => Result(p) \in results

\* A task is passed over only after another one has failed.
Aborted ==
    /\ criticalAbort => \E t \in Tasks : task[t] = "failed"
    /\ (\E t \in Tasks : task[t] = "skipped") => criticalAbort

\* The last conjunct of RoundIsMerged.
Returned == phase \in {"prompt", "saved"} =>
    \A p \in Pairs : InRound(p) =>
        /\ pair[p] \in Ended \ {"critical"}
        /\ pair[p] \in HasResult => Result(p) \in allResults

\* In the first round the aggregator has what the pairs ended with.
FirstResults == round = 1 => \A r \in results :
    task[r.task] = "done" /\ r = Result(<<r.task, r.variant>>)

RoundInv ==
    /\ AtWork /\ Delivered /\ Aborted /\ Returned
    /\ phase # "running" => Settled
    /\ FirstResults /\ FirstRoundHasOneEach

BenchInv == BenchTyped /\ Semaphore /\ RoundInv

-----------------------------------------------------------------------------
(* The semaphore. *)

\* Counting up to a member numbers the members of a set.
LEMMA PlacesNumber ==
    ASSUME NEW S \in SUBSET Tasks
    PROVE  /\ IsFiniteSet(S) /\ Cardinality(S) \in Nat
           /\ \A t \in S : Place(S, t) \in 1..Cardinality(S)
           /\ \A t, u \in S : Place(S, t) = Place(S, u) => t = u
           /\ \A i \in 1..Cardinality(S) : \E t \in S : Place(S, t) = i
<1> DEFINE Upto(t) == {s \in S : s <= t}
<1>1. IsFiniteSet(S) /\ Cardinality(S) \in Nat /\ S \subseteq Int
  <2>1. IsFiniteSet(1..NTasks) /\ 1..NTasks \subseteq Int
    BY BenchAssumption, FS_Interval
  <2> QED
    BY <2>1, FS_Subset, FS_CardinalityType DEF Tasks
<1>2. ASSUME NEW t \in S
      PROVE  /\ IsFiniteSet(Upto(t)) /\ Cardinality(Upto(t)) \in 1..Cardinality(S)
             /\ Place(S, t) = Cardinality(Upto(t))
  <2>1. Upto(t) \in SUBSET S /\ t \in Upto(t)
    BY <1>1
  <2>2. IsFiniteSet(Upto(t)) /\ Cardinality(Upto(t)) <= Cardinality(S)
    BY <1>1, <2>1, FS_Subset
  <2>3. Cardinality(Upto(t)) \in Nat /\ Cardinality(Upto(t)) # 0
    BY <2>1, <2>2, FS_CardinalityType, FS_EmptySet
  <2> QED
    BY <1>1, <2>2, <2>3 DEF Place
<1>3. ASSUME NEW t \in S, NEW u \in S, t < u
      PROVE  Place(S, t) # Place(S, u)
  <2>1. Upto(t) \in SUBSET Upto(u) /\ u \in Upto(u) /\ u \notin Upto(t)
    <3>1. t \in Int /\ u \in Int /\ \A s \in S : s \in Int
      BY <1>1
    <3>2. \A s \in S : s <= t => s <= u
      BY <1>3, <3>1
    <3>3. u <= u /\ ~(u <= t)
      BY <1>3, <3>1
    <3> QED
      BY <3>2, <3>3
  <2>2. Cardinality(Upto(u)) # Cardinality(Upto(t))
    BY <1>2, <2>1, FS_Subset
  <2> QED
    BY <1>2, <2>2
<1>4. \A t, u \in S : Place(S, t) = Place(S, u) => t = u
  BY <1>1, <1>3
<1> DEFINE f == [t \in S |-> Place(S, t)]
<1>5. f \in Injection(S, 1..Cardinality(S))
  BY <1>2, <1>4 DEF Injection, IsInjective
<1>6. IsFiniteSet(1..Cardinality(S)) /\ Cardinality(1..Cardinality(S)) = Cardinality(S)
  BY <1>1, FS_Interval
<1>7. f \in Surjection(S, 1..Cardinality(S))
  <2> HIDE DEF f
  <2> QED
    BY <1>5, <1>6, FS_Injection
<1>8. \A i \in 1..Cardinality(S) : \E t \in S : Place(S, t) = i
  BY <1>7 DEF Surjection
<1> QED
  BY <1>1, <1>2, <1>4, <1>8

PermittedIn(tk) == {t \in Tasks : tk[t] \in Permitted}
WaitingIn(tk) == {t \in Tasks : tk[t] = "waiting"}

\* The first have a permit and the others wait in order.
LEMMA AskedInOrder ==
    ASSUME NEW S \in SUBSET Tasks, NEW n \in Nat, n >= 1
    PROVE  /\ AskedTask(S, n) \in [Tasks -> {"out", "admitted", "waiting"}]
           /\ \A t \in Tasks \ S : AskedTask(S, n)[t] = "out"
           /\ AskedWaiters(S, n) \in Seq(Tasks) /\ IsInjective(AskedWaiters(S, n))
           /\ ToSet(AskedWaiters(S, n)) = WaitingIn(AskedTask(S, n))
           /\ Cardinality(PermittedIn(AskedTask(S, n))) <= n
           /\ AskedWaiters(S, n) # <<>> => Cardinality(PermittedIn(AskedTask(S, n))) = n
<1> DEFINE k == Cardinality(S)
<1> DEFINE F == FirstPermits(S, n)
<1> DEFINE w == AskedWaiters(S, n)
<1>1. /\ IsFiniteSet(S) /\ k \in Nat
      /\ \A t \in S : Place(S, t) \in 1..k
      /\ \A t, u \in S : Place(S, t) = Place(S, u) => t = u
      /\ \A i \in 1..k : \E t \in S : Place(S, t) = i
  BY PlacesNumber
<1>2. \A i \in 1..(k - n) : w[i] \in S /\ Place(S, w[i]) = n + i
  <2>1. \A i \in 1..(k - n) : n + i \in 1..k
    BY <1>1
  <2>2. \A i \in 1..(k - n) : \E t \in S : Place(S, t) = n + i
    BY <1>1, <2>1
  <2> QED
    BY <2>2 DEF AskedWaiters
<1>3. PICK m \in Nat : 1..(k - n) = 1..m
  <2>1. CASE k >= n
    BY <1>1, <2>1
  <2>2. CASE k < n
    <3>1. 1..(k - n) = 1..0
      BY <1>1, <2>2
    <3> QED
      BY <3>1
  <2> QED
    BY <1>1, <2>1, <2>2
<1>4. DOMAIN w = 1..m /\ w = [i \in 1..m |-> w[i]]
  BY <1>3 DEF AskedWaiters
<1>5. w \in Seq(Tasks)
  <2>1. \A i \in 1..m : w[i] \in Tasks
    BY <1>2, <1>3
  <2>2. w \in [1..m -> Tasks]
    BY <1>4, <2>1
  <2> HIDE DEF w
  <2> QED
    BY <2>2
<1>6. IsInjective(w)
  <2>1. ASSUME NEW i \in 1..(k - n), NEW j \in 1..(k - n), w[i] = w[j]
        PROVE  i = j
    <3>1. n + i = n + j
      BY <1>2, <2>1
    <3> QED
      BY <3>1
  <2> QED
    BY <1>3, <1>4, <2>1 DEF IsInjective
<1>7. \A t \in S : t \in F <=> Place(S, t) <= n
  BY DEF FirstPermits
<1>8. ToSet(w) = S \ F
  <2>1. ASSUME NEW t \in S, t \notin F PROVE t \in ToSet(w)
    <3>1. PICK i : i = Place(S, t) - n
      OBVIOUS
    <3>2. i \in 1..(k - n) /\ n + i = Place(S, t)
      BY <1>1, <1>7, <2>1, <3>1
    <3>3. w[i] = t
      BY <1>1, <1>2, <3>2
    <3> QED
      BY <1>3, <1>4, <3>2, <3>3 DEF ToSet
  <2>2. ASSUME NEW i \in 1..(k - n) PROVE w[i] \in S \ F
    BY <1>2, <1>7
  <2> QED
    BY <1>3, <1>4, <2>1, <2>2 DEF ToSet
<1>9. F \in SUBSET S
  BY DEF FirstPermits
<1>10. WaitingIn(AskedTask(S, n)) = S \ F
  BY DEF AskedTask, WaitingIn
<1>11. PermittedIn(AskedTask(S, n)) = F
  BY <1>9 DEF AskedTask, PermittedIn, Permitted
<1> DEFINE f == [t \in F |-> Place(S, t)]
<1>12. f \in Injection(F, 1..n)
  BY <1>1, <1>7, <1>9 DEF Injection, IsInjective
<1>13. IsFiniteSet(1..n) /\ Cardinality(1..n) = n
  BY FS_Interval
<1>14. Cardinality(F) <= n /\ (Cardinality(F) = n <=> f \in Surjection(F, 1..n))
  <2> HIDE DEF f, F
  <2> QED
    BY <1>12, <1>13, FS_Injection
<1>15. ASSUME w # <<>> PROVE Cardinality(F) = n
  <2>1. 1..(k - n) # {}
    <3>1. 1..m # {}
      <4> HIDE DEF w
      <4> QED
        BY <1>4, <1>5, <1>15
    <3> QED
      BY <1>3, <3>1
  <2>2. k > n
    BY <1>1, <2>1
  <2>3. ASSUME NEW i \in 1..n PROVE \E t \in F : f[t] = i
    BY <1>1, <1>7, <2>2
  <2>4. f \in Surjection(F, 1..n)
    BY <1>12, <2>3 DEF Surjection, Injection
  <2> QED
    BY <1>14, <2>4
<1>16. AskedTask(S, n) \in [Tasks -> {"out", "admitted", "waiting"}]
  BY DEF AskedTask
<1>17. \A t \in Tasks \ S : AskedTask(S, n)[t] = "out"
  BY DEF AskedTask
<1> QED
  BY <1>5, <1>6, <1>8, <1>10, <1>11, <1>14, <1>15, <1>16, <1>17

\* What leaving changes: the task has its place, and at most one waiter is in.
Left(t, place) ==
    /\ task' \in [Tasks -> Permitted \cup Over \cup {"waiting"}]
    /\ task'[t] = place
    /\ \A u \in Tasks \ {t} :
          task'[u] = task[u] \/ (task[u] = "waiting" /\ task'[u] = "admitted")

LEMMA LeavingHandsOver ==
    ASSUME BenchTyped, Semaphore, NEW t \in TaskHolders, NEW place \in Over,
           LeaveFor(t, place), taskConcurrency' = taskConcurrency
    PROVE  Left(t, place) /\ Semaphore'
<1>1. /\ task \in [Tasks -> Permitted \cup Over \cup {"waiting"}]
      /\ t \in Tasks /\ task[t] \in Permitted
  BY DEF BenchTyped, TaskHolders
<1>2. IsFiniteSet(TaskHolders) /\ Cardinality(TaskHolders) \in Nat
  <2>1. IsFiniteSet(Tasks)
    BY BenchAssumption, FS_Interval DEF Tasks
  <2> QED
    BY <2>1, FS_Subset, FS_CardinalityType DEF TaskHolders
<1>3. IsFiniteSet(TaskHolders \ {t}) /\ Cardinality(TaskHolders \ {t}) = Cardinality(TaskHolders) - 1
  BY <1>2, FS_RemoveElement
<1>4. place \notin Permitted /\ place # "waiting"
  BY DEF Permitted, Over
<1>5. taskConcurrency \in Nat
  BY BenchAssumption DEF BenchTyped
<1>6. CASE waiters = <<>>
  <2>1. task' = [task EXCEPT ![t] = place] /\ waiters' = waiters
    BY <1>6 DEF LeaveFor
  <2>2. Left(t, place)
    BY <1>1, <2>1 DEF Left
  <2>3. TaskHolders' = TaskHolders \ {t}
    BY <1>1, <1>4, <2>1 DEF TaskHolders, Permitted
  <2>4. InLine' = InLine
    BY <1>1, <1>4, <2>1 DEF InLine, Permitted
  <2>5. Cardinality(TaskHolders') <= taskConcurrency'
    BY <1>2, <1>3, <1>5, <2>3 DEF Semaphore
  <2>6. /\ waiters' \in Seq(Tasks) /\ IsInjective(waiters') /\ ToSet(waiters') = InLine'
        /\ waiters' = <<>>
    BY <1>6, <2>1, <2>4 DEF Semaphore
  <2> QED
    BY <2>2, <2>5, <2>6 DEF Semaphore
<1>7. CASE waiters # <<>>
  <2>1. task' = [task EXCEPT ![t] = place, ![Head(waiters)] = "admitted"] /\ waiters' = Tail(waiters)
    BY <1>7 DEF LeaveFor
  <2>2. PICK h : h = Head(waiters)
    OBVIOUS
  <2>3. waiters \in Seq(Tasks) /\ IsInjective(waiters) /\ Len(waiters) \in Nat /\ Len(waiters) >= 1
    BY <1>7 DEF Semaphore
  <2>4. h = waiters[1] /\ 1 \in DOMAIN waiters /\ DOMAIN waiters = 1..Len(waiters)
    BY <2>2, <2>3
  <2>5. h \in InLine
    BY <2>4 DEF Semaphore, ToSet
  <2>6. h \in Tasks /\ task[h] = "waiting" /\ h # t
    BY <1>1, <2>5 DEF InLine, Permitted
  <2>7. Left(t, place)
    BY <1>1, <2>1, <2>2, <2>6 DEF Left, Permitted
  <2>8. TaskHolders' = (TaskHolders \ {t}) \cup {h}
    BY <1>1, <1>4, <2>1, <2>2, <2>6 DEF TaskHolders, Permitted
  <2>9. InLine' = InLine \ {h}
    BY <1>1, <1>4, <2>1, <2>2, <2>6 DEF InLine, Permitted
  <2>10. Cardinality(TaskHolders') = Cardinality(TaskHolders)
    <3>1. h \notin TaskHolders \ {t}
      BY <2>6 DEF TaskHolders, Permitted
    <3>2. PICK H : H = TaskHolders \ {t}
      OBVIOUS
    <3>3. Cardinality(H \cup {h}) = Cardinality(H) + 1
      BY <1>3, <3>1, <3>2, FS_AddElement
    <3> QED
      BY <1>2, <1>3, <2>8, <3>2, <3>3
  <2>11. Cardinality(TaskHolders) = taskConcurrency
    BY <1>7 DEF Semaphore
  <2>12. /\ waiters' \in Seq(Tasks) /\ Len(waiters') = Len(waiters) - 1
         /\ DOMAIN waiters' = 1..(Len(waiters) - 1)
         /\ \A i \in 1..(Len(waiters) - 1) : waiters'[i] = waiters[i + 1]
    BY <2>1, <2>3
  <2>13. IsInjective(waiters')
    <3>1. ASSUME NEW i \in 1..(Len(waiters) - 1), NEW j \in 1..(Len(waiters) - 1),
                 waiters'[i] = waiters'[j]
          PROVE  i = j
      <4>1. i + 1 \in DOMAIN waiters /\ j + 1 \in DOMAIN waiters
        BY <2>3, <2>4
      <4>2. i + 1 = j + 1
        BY <2>3, <2>12, <3>1, <4>1 DEF IsInjective
      <4> QED
        BY <4>2
    <3> QED
      BY <2>12, <3>1 DEF IsInjective
  <2>14. ToSet(waiters') = InLine'
    <3>1. ToSet(waiters) = InLine
      BY DEF Semaphore
    <3>2. ASSUME NEW i \in 1..(Len(waiters) - 1) PROVE waiters'[i] \in InLine \ {h}
      <4>1. i + 1 \in DOMAIN waiters /\ i + 1 # 1
        BY <2>3, <2>4
      <4> QED
        BY <2>3, <2>4, <2>12, <3>1, <4>1 DEF ToSet, IsInjective
    <3>3. ASSUME NEW u \in InLine \ {h} PROVE \E i \in 1..(Len(waiters) - 1) : waiters'[i] = u
      <4>1. PICK j \in DOMAIN waiters : waiters[j] = u
        BY <3>1 DEF ToSet
      <4>2. j - 1 \in 1..(Len(waiters) - 1) /\ (j - 1) + 1 = j
        BY <2>3, <2>4, <4>1
      <4> QED
        BY <2>12, <4>1, <4>2
    <3>4. \A u : u \in ToSet(waiters') <=> \E i \in 1..(Len(waiters) - 1) : waiters'[i] = u
      BY <2>12 DEF ToSet
    <3>5. \A u : u \in ToSet(waiters') <=> u \in InLine \ {h}
      BY <3>2, <3>3, <3>4
    <3> QED
      BY <2>9, <3>5
  <2> QED
    BY <1>2, <1>5, <2>7, <2>10, <2>11, <2>12, <2>13, <2>14 DEF Semaphore
<1> QED
  BY <1>6, <1>7

-----------------------------------------------------------------------------
(* The answers that pairs get. *)

\* An answer moves the one pair that is at work.
Answered(p) ==
    /\ pair[p] \in {"llm", "compile"}
    /\ \E e \in {"llm", "compile"} \cup Ended : pair' = [pair EXCEPT ![p] = e]
    /\ attempt' \in [Pairs -> 0..AttemptLimit] /\ troubles' \in 0..MaxTroubles
    /\ UNCHANGED <<taskConcurrency, loopVars, runVars>>

LEMMA AnswersMoveOne ==
    ASSUME BenchTyped, NEW p \in Pairs, Answer(p)
    PROVE  Answered(p)
<1>0. /\ attempt \in [Pairs -> 0..AttemptLimit] /\ troubles \in 0..MaxTroubles
      /\ AttemptLimit \in Nat /\ MaxTroubles \in Nat
  BY BenchAssumption DEF BenchTyped
<1>1. Trouble => troubles' \in 0..MaxTroubles
  BY <1>0 DEF Trouble
<1>2. ASSUME attempt[p] < AttemptLimit, attempt' = [attempt EXCEPT ![p] = @ + 1]
      PROVE  attempt' \in [Pairs -> 0..AttemptLimit]
  BY <1>0, <1>2
<1>3. ASSUME NEW v \in {"model", "transient"}, AttemptFails(p, v)
      PROVE  /\ \E e \in {"llm", "compile"} \cup Ended : pair' = [pair EXCEPT ![p] = e]
             /\ attempt' \in [Pairs -> 0..AttemptLimit] /\ troubles' \in 0..MaxTroubles
             /\ UNCHANGED <<taskConcurrency, loopVars, runVars>>
  BY <1>0, <1>1, <1>2, <1>3 DEF AttemptFails, PairStep, Ended, Verdicts
<1>4. CASE NoCode(p)
  BY <1>3, <1>4 DEF NoCode, Answered
<1>5. CASE Code(p)
  BY <1>0, <1>5 DEF Code, PairStep, Answered
<1>6. CASE Passes(p)
  BY <1>0, <1>6 DEF Passes, PairStep, Answered, Ended, Verdicts
<1>7. CASE ModelFails(p)
  BY <1>3, <1>7 DEF ModelFails, Answered
<1>8. CASE InfraFails(p)
  BY <1>0, <1>1, <1>8 DEF InfraFails, PairStep, Answered, Ended
<1>9. CASE Throws(p)
  BY <1>0, <1>1, <1>9 DEF Throws, PairStep, Answered, Ended
<1>10. CASE CriticalError(p)
  BY <1>0, <1>1, <1>10 DEF CriticalError, PairStep, Answered, Ended
<1> QED
  BY <1>4, <1>5, <1>6, <1>7, <1>8, <1>9, <1>10 DEF Answer

LEMMA AnswerKeeps ==
    ASSUME BenchInv, NEW p \in Pairs, Answered(p)
    PROVE  BenchInv'
<1>1. /\ UNCHANGED <<taskConcurrency, phase, round, variantsToRun, allResults>>
      /\ UNCHANGED <<task, waiters, criticalAbort, results>>
  BY DEF Answered, loopVars, runVars
<1>2. PICK e \in {"llm", "compile"} \cup Ended : pair' = [pair EXCEPT ![p] = e]
  BY DEF Answered
<1>3. pair \in [Pairs -> {"idle", "llm", "compile"} \cup Ended] /\ task[p[1]] = "running"
      /\ p[2] \in variantsToRun /\ p[1] \in Tasks
  BY DEF BenchInv, BenchTyped, RoundInv, AtWork, Answered, Pairs
<1>4. BenchTyped'
  BY <1>1, <1>2, <1>3 DEF BenchInv, BenchTyped, Answered, Record
<1>5. Semaphore'
  BY <1>1 DEF BenchInv, Semaphore, TaskHolders, InLine
<1>6. \A q \in Pairs : q # p => pair'[q] = pair[q]
  BY <1>2, <1>3
<1>7. AtWork'
  BY <1>1, <1>3, <1>6 DEF BenchInv, RoundInv, AtWork
<1>8. ASSUME NEW q \in Pairs, task[q[1]] # "running"
      PROVE  pair'[q] = pair[q] /\ Result(q)' = Result(q)
  BY <1>1, <1>3, <1>6, <1>8 DEF Result
<1>9. Delivered'
  <2> SUFFICES ASSUME NEW t \in Tasks, task[t] = "done", NEW q \in PairsOf(t)
               PROVE  /\ pair'[q] \in Ended \ {"critical"}
                      /\ pair'[q] \in HasResult => Result(q)' \in results
    BY <1>1 DEF Delivered, PairsOf
  <2>1. q \in Pairs /\ q[1] = t
    BY DEF PairsOf, Pairs, BenchInv, BenchTyped
  <2> QED
    BY <1>8, <2>1 DEF BenchInv, RoundInv, Delivered
<1>10. Aborted' /\ (phase # "running" => Settled)'
  BY <1>1 DEF BenchInv, RoundInv, Aborted, Settled
<1>11. phase = "running"
  BY <1>3 DEF BenchInv, RoundInv, Settled, Over
<1>12. Returned'
  BY <1>1, <1>11 DEF Returned
<1>13. FirstResults'
  <2> SUFFICES ASSUME round = 1, NEW r \in results
               PROVE  task[r.task] = "done" /\ r = Result(<<r.task, r.variant>>)'
    BY <1>1 DEF FirstResults
  <2>1. task[r.task] = "done" /\ r = Result(<<r.task, r.variant>>)
    BY DEF BenchInv, RoundInv, FirstResults
  <2>2. <<r.task, r.variant>> \in Pairs
    BY DEF BenchInv, BenchTyped, Record, Pairs
  <2> QED
    BY <1>8, <2>1, <2>2
<1>14. FirstRoundHasOneEach'
  BY <1>1 DEF BenchInv, RoundInv, FirstRoundHasOneEach
<1> QED
  BY <1>4, <1>5, <1>7, <1>9, <1>10, <1>12, <1>13, <1>14 DEF BenchInv, RoundInv

-----------------------------------------------------------------------------
(* The steps of tasks. *)

LEMMA BeginKeeps ==
    ASSUME BenchInv, NEW t \in Tasks, Begin(t)
    PROVE  BenchInv'
<1>1. /\ task[t] = "admitted" /\ ~criticalAbort
      /\ UNCHANGED <<taskConcurrency, phase, round, variantsToRun, allResults>>
      /\ UNCHANGED <<waiters, criticalAbort, results, troubles>>
      /\ task' = [task EXCEPT ![t] = "running"]
  BY DEF Begin, MayBegin, loopVars
<1>2. /\ task \in [Tasks -> Permitted \cup Over \cup {"waiting"}]
      /\ pair \in [Pairs -> {"idle", "llm", "compile"} \cup Ended]
      /\ attempt \in [Pairs -> 0..AttemptLimit] /\ AttemptLimit \in Nat \ {0}
  BY BenchAssumption DEF BenchInv, BenchTyped
<1>3. /\ task' \in [Tasks -> Permitted \cup Over \cup {"waiting"}] /\ task'[t] = "running"
      /\ \A u \in Tasks \ {t} : task'[u] = task[u]
  BY <1>1, <1>2 DEF Permitted
<1>4. /\ pair' \in [Pairs -> {"idle", "llm", "compile"} \cup Ended]
      /\ attempt' \in [Pairs -> 0..AttemptLimit]
      /\ \A q \in Pairs : pair'[q] = IF q \in PairsOf(t) THEN "llm" ELSE pair[q]
  BY <1>2 DEF Begin
<1>5. \A q \in Pairs : q \in PairsOf(t) <=> q[1] = t /\ q[2] \in variantsToRun
  BY DEF PairsOf, Pairs
<1>6. BenchTyped'
  BY <1>1, <1>3, <1>4 DEF BenchInv, BenchTyped, Record, Permitted, Over
<1>7. TaskHolders' = TaskHolders /\ InLine' = InLine
  BY <1>1, <1>3 DEF TaskHolders, InLine, Permitted
<1>8. Semaphore'
  BY <1>1, <1>7 DEF BenchInv, Semaphore
<1>9. AtWork'
  <2> SUFFICES ASSUME NEW q \in Pairs, pair'[q] \in {"llm", "compile"}
               PROVE  task'[q[1]] = "running" /\ q[2] \in variantsToRun
    BY <1>1 DEF AtWork
  <2>1. q[1] \in Tasks
    BY DEF Pairs
  <2> QED
    BY <1>3, <1>4, <1>5, <2>1 DEF BenchInv, RoundInv, AtWork
<1>10. ASSUME NEW q \in Pairs, task[q[1]] # "admitted"
       PROVE  pair'[q] = pair[q] /\ Result(q)' = Result(q)
  BY <1>1, <1>4, <1>5, <1>10 DEF Result
<1>11. Delivered'
  <2> SUFFICES ASSUME NEW u \in Tasks, task'[u] = "done", NEW q \in PairsOf(u)
               PROVE  /\ pair'[q] \in Ended \ {"critical"}
                      /\ pair'[q] \in HasResult => Result(q)' \in results
    BY <1>1 DEF Delivered, PairsOf
  <2>1. q \in Pairs /\ q[1] = u /\ task[u] = "done"
    BY <1>3 DEF PairsOf, Pairs, BenchInv, BenchTyped
  <2> QED
    BY <1>10, <2>1 DEF BenchInv, RoundInv, Delivered
<1>12. Aborted'
  BY <1>1, <1>3 DEF BenchInv, RoundInv, Aborted
<1>13. phase = "running"
  BY <1>1 DEF BenchInv, RoundInv, Settled, Over
<1>14. Returned' /\ (phase # "running" => Settled)'
  BY <1>1, <1>13 DEF Returned
<1>15. FirstResults'
  <2> SUFFICES ASSUME round = 1, NEW r \in results
               PROVE  task'[r.task] = "done" /\ r = Result(<<r.task, r.variant>>)'
    BY <1>1 DEF FirstResults
  <2>1. task[r.task] = "done" /\ r = Result(<<r.task, r.variant>>)
    BY DEF BenchInv, RoundInv, FirstResults
  <2>2. <<r.task, r.variant>> \in Pairs /\ r.task \in Tasks
    BY DEF BenchInv, BenchTyped, Record, Pairs
  <2> QED
    BY <1>1, <1>3, <1>10, <2>1, <2>2
<1>16. FirstRoundHasOneEach'
  BY <1>1 DEF BenchInv, RoundInv, FirstRoundHasOneEach
<1> QED
  BY <1>6, <1>8, <1>9, <1>11, <1>12, <1>14, <1>15, <1>16 DEF BenchInv, RoundInv

\* A task that leaves has no pair at work, so that all pairs stay as they are.
LEMMA LeavingKeeps ==
    ASSUME BenchInv, NEW t \in Tasks, NEW place \in Over, Left(t, place), Semaphore',
           task[t] \in Permitted, \A q \in PairsOf(t) : pair[q] \notin {"llm", "compile"},
           UNCHANGED <<taskConcurrency, loopVars, pairVars>>,
           results' \subseteq Record, results \subseteq results',
           Aborted',
           place = "done" => \A q \in PairsOf(t) :
               /\ pair[q] \in Ended \ {"critical"}
               /\ pair[q] \in HasResult => Result(q) \in results',
           \A r \in results' \ results : place = "done" /\ r.task = t /\ r = Result(<<r.task, r.variant>>),
           criticalAbort' \in BOOLEAN
    PROVE  BenchInv'
<1>1. UNCHANGED <<taskConcurrency, phase, round, variantsToRun, allResults, pair, attempt, troubles>>
  BY DEF loopVars, pairVars
<1>2. /\ task' \in [Tasks -> Permitted \cup Over \cup {"waiting"}] /\ task'[t] = place
      /\ \A u \in Tasks \ {t} :
            task'[u] = task[u] \/ (task[u] = "waiting" /\ task'[u] = "admitted")
  BY DEF Left
<1>3. \A q \in Pairs : Result(q)' = Result(q)
  BY <1>1 DEF Result
<1>4. BenchTyped'
  BY <1>1, <1>2 DEF BenchInv, BenchTyped, Record, Permitted, Over
<1>5. AtWork'
  <2> SUFFICES ASSUME NEW q \in Pairs, pair[q] \in {"llm", "compile"}
               PROVE  task'[q[1]] = "running" /\ q[2] \in variantsToRun
    BY <1>1 DEF AtWork
  <2>1. q[1] \in Tasks /\ task[q[1]] = "running" /\ q[2] \in variantsToRun
    BY DEF BenchInv, RoundInv, AtWork, Pairs
  <2>2. q[1] # t
    BY <2>1 DEF PairsOf, Pairs
  <2> QED
    BY <1>2, <2>1, <2>2
<1>6. ASSUME NEW u \in Tasks, task'[u] = "done" PROVE (u = t /\ place = "done") \/ task[u] = "done"
  BY <1>2, <1>6
<1>7. Delivered'
  <2> SUFFICES ASSUME NEW u \in Tasks, task'[u] = "done", NEW q \in PairsOf(u)
               PROVE  /\ pair[q] \in Ended \ {"critical"}
                      /\ pair[q] \in HasResult => Result(q) \in results'
    <3>1. \A u \in Tasks : PairsOf(u)' = PairsOf(u) /\ PairsOf(u) \subseteq Pairs
      BY <1>1 DEF PairsOf, Pairs, BenchInv, BenchTyped
    <3> QED
      BY <1>1, <1>3, <3>1 DEF Delivered
  <2> QED
    BY <1>6 DEF BenchInv, RoundInv, Delivered
<1>8. phase = "running"
  BY DEF BenchInv, RoundInv, Settled, Over, Permitted
<1>9. Returned' /\ (phase # "running" => Settled)'
  BY <1>1, <1>8 DEF Returned
<1>10. FirstResults'
  <2> SUFFICES ASSUME round = 1, NEW r \in results'
               PROVE  task'[r.task] = "done" /\ r = Result(<<r.task, r.variant>>)'
    BY <1>1 DEF FirstResults
  <2>1. <<r.task, r.variant>> \in Pairs /\ r.task \in Tasks
    BY DEF Record, Pairs
  <2>2. CASE r \in results
    <3>1. task[r.task] = "done" /\ r = Result(<<r.task, r.variant>>)
      BY <2>2 DEF BenchInv, RoundInv, FirstResults
    <3>2. r.task # t
      BY <3>1 DEF Permitted
    <3> QED
      BY <1>2, <1>3, <2>1, <3>1, <3>2
  <2>3. CASE r \notin results
    BY <1>2, <1>3, <2>1, <2>3
  <2> QED
    BY <2>2, <2>3
<1>11. FirstRoundHasOneEach'
  BY <1>1 DEF BenchInv, RoundInv, FirstRoundHasOneEach
<1> QED
  BY <1>4, <1>5, <1>7, <1>9, <1>10, <1>11 DEF BenchInv, RoundInv

LEMMA TasksEndRight ==
    ASSUME BenchInv, NEW t \in Tasks, Skip(t) \/ Complete(t) \/ Abort(t)
    PROVE  BenchInv'
<1>0. /\ task \in [Tasks -> Permitted \cup Over \cup {"waiting"}]
      /\ results \subseteq Record /\ round \in 0..MaxRounds /\ criticalAbort \in BOOLEAN
      /\ variantsToRun \subseteq Variants
  BY BenchAssumption DEF BenchInv, BenchTyped
<1>1. ASSUME NEW place \in Over, LeaveFor(t, place), taskConcurrency' = taskConcurrency,
             task[t] \in Permitted
      PROVE  Left(t, place) /\ Semaphore'
  BY <1>1, LeavingHandsOver DEF BenchInv, TaskHolders
<1>2. ASSUME NEW place, Left(t, place), task[t] \in Permitted, NEW u \in Tasks, task[u] \in Over
      PROVE  task'[u] = task[u]
  <2>1. u # t /\ task[u] # "waiting"
    BY <1>2 DEF Permitted, Over
  <2> QED
    BY <1>2, <2>1 DEF Left
<1>3. CASE Skip(t)
  <2>1. /\ task[t] = "admitted" /\ criticalAbort /\ LeaveFor(t, "skipped")
        /\ UNCHANGED <<taskConcurrency, loopVars, criticalAbort, results, pairVars>>
    BY <1>3 DEF Skip, MayBegin
  <2>2. Left(t, "skipped") /\ Semaphore' /\ task[t] \in Permitted
    BY <1>1, <2>1 DEF Over, Permitted
  <2>3. PICK u \in Tasks : task[u] = "failed"
    BY <2>1 DEF BenchInv, RoundInv, Aborted
  <2>4. task'[u] = "failed"
    BY <1>2, <2>2, <2>3 DEF Over
  <2>5. Aborted'
    BY <2>1, <2>4 DEF Aborted
  <2>6. \A q \in PairsOf(t) : pair[q] \notin {"llm", "compile"}
    BY <1>0, <2>1 DEF BenchInv, RoundInv, AtWork, PairsOf, Pairs
  <2> QED
    BY <1>0, <2>1, <2>2, <2>5, <2>6, LeavingKeeps DEF Over
<1>4. CASE Complete(t)
  <2>1. /\ task[t] = "running" /\ AllEnded(t) /\ ~Critical(t) /\ LeaveFor(t, "done")
        /\ UNCHANGED <<taskConcurrency, loopVars, criticalAbort, pairVars>>
        /\ results' = results \cup {Result(p) : p \in {q \in PairsOf(t) : pair[q] \in HasResult}}
    BY <1>4 DEF Complete
  <2>2. Left(t, "done") /\ Semaphore' /\ task[t] \in Permitted
    BY <1>1, <2>1 DEF Over, Permitted
  <2>3. \A q \in PairsOf(t) : pair[q] \in Ended \ {"critical"}
    BY <2>1 DEF AllEnded, Critical
  <2>4. \A q \in PairsOf(t) : pair[q] \notin {"llm", "compile"}
    BY <2>3 DEF Ended, Verdicts
  <2>5. ASSUME NEW q \in PairsOf(t), pair[q] \in HasResult
        PROVE  /\ Result(q) \in Record /\ Result(q).task = t
               /\ Result(q) = Result(<<Result(q).task, Result(q).variant>>)
    <3>1. q = <<t, q[2]>> /\ q[2] \in Variants /\ q[1] = t
      BY <1>0 DEF PairsOf
    <3> QED
      BY <1>0, <2>5, <3>1 DEF Result, Record
  <2>6. results' \subseteq Record
    BY <1>0, <2>1, <2>5
  <2>7. \A r \in results' \ results : r.task = t /\ r = Result(<<r.task, r.variant>>)
    BY <2>1, <2>5
  <2>8. \A q \in PairsOf(t) : pair[q] \in HasResult => Result(q) \in results'
    BY <2>1
  <2>9. Aborted'
    <3>1. criticalAbort => \E u \in Tasks : task'[u] = "failed"
      BY <1>2, <2>2 DEF BenchInv, RoundInv, Aborted, Over
    <3>2. \A u \in Tasks : task'[u] = "skipped" => task[u] = "skipped"
      BY <2>2 DEF Left
    <3> QED
      BY <2>1, <3>1, <3>2 DEF BenchInv, RoundInv, Aborted
  <2> QED
    BY <1>0, <2>1, <2>2, <2>3, <2>4, <2>6, <2>7, <2>8, <2>9, LeavingKeeps DEF Over
<1>5. CASE Abort(t)
  <2>1. /\ task[t] = "running" /\ AllEnded(t) /\ LeaveFor(t, "failed") /\ criticalAbort' = TRUE
        /\ UNCHANGED <<taskConcurrency, loopVars, results, pairVars>>
    BY <1>5 DEF Abort
  <2>2. Left(t, "failed") /\ Semaphore' /\ task[t] \in Permitted
    BY <1>1, <2>1 DEF Over, Permitted
  <2>3. \A q \in PairsOf(t) : pair[q] \notin {"llm", "compile"}
    BY <2>1 DEF AllEnded, Ended, Verdicts
  <2>4. Aborted'
    BY <2>1, <2>2 DEF Left, Aborted
  <2> QED
    BY <1>0, <2>1, <2>2, <2>3, <2>4, LeavingKeeps DEF Over
<1> QED
  BY <1>3, <1>4, <1>5

-----------------------------------------------------------------------------
(* The loop. *)

LEMMA ReturnKeeps ==
    ASSUME BenchInv, Return
    PROVE  BenchInv'
<1>1. /\ phase = "running" /\ Settled /\ \A t \in Tasks : task[t] # "failed"
      /\ allResults' = Merged /\ phase' \in {"saved", "prompt"}
      /\ UNCHANGED <<taskConcurrency, round, variantsToRun>>
      /\ UNCHANGED <<task, waiters, criticalAbort, results, pair, attempt, troubles>>
  BY DEF Return, runVars, pairVars
<1>2. Merged \subseteq Record /\ results \subseteq Merged
  BY DEF BenchInv, BenchTyped, Merged
<1>3. BenchTyped'
  BY <1>1, <1>2 DEF BenchInv, BenchTyped, Record
<1>4. Semaphore'
  BY <1>1 DEF BenchInv, Semaphore, TaskHolders, InLine
<1>5. \A q \in Pairs : Result(q)' = Result(q)
  BY <1>1 DEF Result
<1>6. AtWork' /\ Aborted' /\ Settled'
  BY <1>1 DEF BenchInv, RoundInv, AtWork, Aborted, Settled
<1>7. \A t \in Tasks : PairsOf(t)' = PairsOf(t) /\ PairsOf(t) \subseteq Pairs
  BY <1>1 DEF PairsOf, Pairs, BenchInv, BenchTyped
<1>8. Delivered'
  BY <1>1, <1>5, <1>7 DEF BenchInv, RoundInv, Delivered
<1>9. Returned'
  <2> SUFFICES ASSUME NEW p \in Pairs, InRound(p)
               PROVE  /\ pair[p] \in Ended \ {"critical"}
                      /\ pair[p] \in HasResult => Result(p) \in Merged
    BY <1>1, <1>5 DEF Returned, InRound
  <2>1. p[1] \in Tasks /\ p \in PairsOf(p[1]) /\ task[p[1]] # "out"
    BY DEF InRound, PairsOf, Pairs
  <2>2. task[p[1]] = "done"
    BY <1>1, <2>1 DEF BenchInv, RoundInv, Aborted, Settled, Over
  <2> QED
    BY <1>2, <2>1, <2>2 DEF BenchInv, RoundInv, Delivered
<1>10. FirstResults'
  <2>1. \A r \in results : <<r.task, r.variant>> \in Pairs
    BY DEF BenchInv, BenchTyped, Record, Pairs
  <2> QED
    BY <1>1, <1>5, <2>1 DEF BenchInv, RoundInv, FirstResults
<1>11. FirstRoundHasOneEach'
  <2> SUFFICES ASSUME round = 1, NEW r \in Merged, NEW s \in Merged,
                      <<r.task, r.variant>> = <<s.task, s.variant>>
               PROVE  r = s
    BY <1>1 DEF FirstRoundHasOneEach
  <2>1. CASE r \in results /\ s \in results
    BY <2>1 DEF BenchInv, RoundInv, FirstResults
  <2>2. CASE r \notin results /\ s \notin results
    BY <2>2 DEF BenchInv, RoundInv, FirstRoundHasOneEach, Merged
  <2>3. CASE r \in results /\ s \notin results
    BY <2>3 DEF Merged, Keys
  <2>4. CASE r \notin results /\ s \in results
    BY <2>4 DEF Merged, Keys
  <2> QED
    BY <2>1, <2>2, <2>3, <2>4
<1> QED
  BY <1>3, <1>4, <1>6, <1>8, <1>9, <1>10, <1>11 DEF BenchInv, RoundInv

LEMMA ThrowOrSaveKeeps ==
    ASSUME BenchInv, Throw \/ Save
    PROVE  BenchInv'
<1>1. /\ UNCHANGED <<taskConcurrency, round, variantsToRun, allResults>>
      /\ UNCHANGED <<task, waiters, criticalAbort, results, pair, attempt, troubles>>
      /\ Settled
      /\ phase' = "thrown" \/ (phase = "prompt" /\ phase' = "saved")
  BY DEF Throw, Save, runVars, pairVars, BenchInv, RoundInv
<1>2. BenchTyped'
  BY <1>1 DEF BenchInv, BenchTyped, Record
<1>3. Semaphore'
  BY <1>1 DEF BenchInv, Semaphore, TaskHolders, InLine
<1>4. \A q : Result(q)' = Result(q)
  BY <1>1 DEF Result
<1>5. AtWork' /\ Aborted' /\ Settled'
  BY <1>1 DEF BenchInv, RoundInv, AtWork, Aborted, Settled
<1>6. \A t \in Tasks : PairsOf(t)' = PairsOf(t)
  BY <1>1 DEF PairsOf
<1>7. Delivered'
  BY <1>1, <1>4, <1>6 DEF BenchInv, RoundInv, Delivered
<1>8. Returned'
  BY <1>1, <1>4 DEF BenchInv, RoundInv, Returned, InRound
<1>9. FirstResults' /\ FirstRoundHasOneEach'
  BY <1>1, <1>4 DEF BenchInv, RoundInv, FirstResults, FirstRoundHasOneEach
<1> QED
  BY <1>2, <1>3, <1>5, <1>7, <1>8, <1>9 DEF BenchInv, RoundInv

\* A round that begins with these tasks and variants.
Asked(S, V, n) ==
    /\ task = AskedTask(S, n) /\ waiters = AskedWaiters(S, n) /\ variantsToRun = V
    /\ pair = [p \in Pairs |-> "idle"] /\ attempt = [p \in Pairs |-> 0]
    /\ criticalAbort = FALSE /\ phase = "running"

LEMMA AskedIsRight ==
    ASSUME NEW S \in SUBSET Tasks, NEW n \in 1..MaxConcurrency, taskConcurrency = n,
           NEW V \in SUBSET Variants, Asked(S, V, n),
           round \in 1..MaxRounds, troubles \in 0..MaxTroubles,
           results \subseteq Record, allResults \subseteq Record,
           round = 1 => results = {}, FirstRoundHasOneEach
    PROVE  BenchInv
<1>0. n \in Nat /\ n >= 1 /\ AttemptLimit \in Nat
  BY BenchAssumption
<1>1. /\ task \in [Tasks -> {"out", "admitted", "waiting"}]
      /\ waiters \in Seq(Tasks) /\ IsInjective(waiters) /\ ToSet(waiters) = WaitingIn(task)
      /\ Cardinality(PermittedIn(task)) <= n
      /\ waiters # <<>> => Cardinality(PermittedIn(task)) = n
  <2>1. task = AskedTask(S, n) /\ waiters = AskedWaiters(S, n)
    BY DEF Asked
  <2> QED
    BY <1>0, <2>1, AskedInOrder
<1>2. BenchTyped
  <2>1. task \in [Tasks -> Permitted \cup Over \cup {"waiting"}]
    BY <1>1 DEF Permitted, Over
  <2>2. /\ pair \in [Pairs -> {"idle", "llm", "compile"} \cup Ended]
        /\ attempt \in [Pairs -> 0..AttemptLimit]
    BY <1>0 DEF Asked
  <2> QED
    BY <2>1, <2>2 DEF BenchTyped, Asked
<1>3. Semaphore
  BY <1>1 DEF Semaphore, TaskHolders, InLine, PermittedIn, WaitingIn
<1>4. \A t \in Tasks : task[t] \notin {"done", "skipped"}
  BY <1>1
<1>5. AtWork /\ Delivered /\ Aborted /\ Returned /\ FirstResults
  BY <1>4 DEF Asked, AtWork, Delivered, Aborted, Returned, FirstResults
<1> QED
  BY <1>2, <1>3, <1>5 DEF BenchInv, RoundInv, Asked

LEMMA FirstIsRight == BenchInit => BenchInv
<1> SUFFICES ASSUME BenchInit PROVE BenchInv
  OBVIOUS
<1>1. PICK missing \in SUBSET Pairs \ {{}}, n \in 1..MaxConcurrency :
        /\ taskConcurrency = n /\ phase = "running" /\ round = 1
        /\ task = AskedTask(TasksOf(missing), n)
        /\ waiters = AskedWaiters(TasksOf(missing), n)
        /\ variantsToRun = VariantsOf(missing)
        /\ pair = [p \in Pairs |-> "idle"] /\ attempt = [p \in Pairs |-> 0]
        /\ criticalAbort = FALSE /\ results = {}
        /\ allResults = Previous(Pairs \ missing) /\ troubles = 0
  BY DEF BenchInit
<1> DEFINE S == TasksOf(missing)
<1> DEFINE V == VariantsOf(missing)
<1>2. S \in SUBSET Tasks /\ V \in SUBSET Variants
  BY <1>1 DEF TasksOf, VariantsOf, Pairs
<1>3. Asked(S, V, n)
  BY <1>1 DEF Asked
<1>4. round \in 1..MaxRounds /\ troubles \in 0..MaxTroubles /\ MaxRounds \in Nat
  BY <1>1, BenchAssumption
<1>5. allResults \subseteq Record
  BY <1>1, <1>4 DEF Previous, Record, Pairs, HasResult, Verdicts
<1>6. FirstRoundHasOneEach
  BY <1>1 DEF FirstRoundHasOneEach, Previous
<1> QED
  <2> HIDE DEF S, V
  <2> QED
    BY <1>1, <1>2, <1>3, <1>4, <1>5, <1>6, AskedIsRight

\* AskedIsRight of the next state.
LEMMA AgainIsRight ==
    ASSUME BenchInv, Retry
    PROVE  BenchInv'
<1> DEFINE S == TasksOf(Keys(Transient))
<1> DEFINE V == VariantsOf(Keys(Transient))
<1> DEFINE n == taskConcurrency
<1>1. /\ phase' = "running" /\ round' = round + 1 /\ round < MaxRounds
      /\ task' = AskedTask(S, n) /\ waiters' = AskedWaiters(S, n) /\ variantsToRun' = V
      /\ pair' = [p \in Pairs |-> "idle"] /\ attempt' = [p \in Pairs |-> 0]
      /\ criticalAbort' = FALSE
      /\ UNCHANGED <<taskConcurrency, allResults, troubles, results>>
  BY DEF Retry, RunParallel
<1>2. S \in SUBSET Tasks /\ V \in SUBSET Variants
  BY DEF TasksOf, VariantsOf, Keys, Transient, Record, BenchInv, BenchTyped
<1>3. /\ n \in Nat /\ n >= 1 /\ n \in 1..MaxConcurrency /\ AttemptLimit \in Nat
      /\ round' \in 1..MaxRounds /\ round' # 1
  BY <1>1, BenchAssumption DEF BenchInv, BenchTyped
<1>4. /\ task' \in [Tasks -> {"out", "admitted", "waiting"}]
      /\ waiters' \in Seq(Tasks) /\ IsInjective(waiters') /\ ToSet(waiters') = WaitingIn(task')
      /\ Cardinality(PermittedIn(task')) <= n
      /\ waiters' # <<>> => Cardinality(PermittedIn(task')) = n
  <2> HIDE DEF S, n
  <2> QED
    BY <1>1, <1>2, <1>3, AskedInOrder
<1> HIDE DEF S, V
<1>5. BenchTyped'
  <2>1. task' \in [Tasks -> Permitted \cup Over \cup {"waiting"}]
    BY <1>4 DEF Permitted, Over
  <2>2. /\ pair' \in [Pairs -> {"idle", "llm", "compile"} \cup Ended]
        /\ attempt' \in [Pairs -> 0..AttemptLimit]
    BY <1>1, <1>3
  <2> QED
    BY <1>1, <1>2, <1>3, <2>1, <2>2 DEF BenchInv, BenchTyped, Record
<1>6. Semaphore'
  BY <1>1, <1>4 DEF Semaphore, TaskHolders, InLine, PermittedIn, WaitingIn
<1>7. \A t \in Tasks : task'[t] \notin {"done", "skipped"}
  BY <1>4
<1>8. /\ AtWork' /\ Delivered' /\ Aborted' /\ Returned' /\ FirstResults' /\ FirstRoundHasOneEach'
      /\ phase' = "running"
  BY <1>1, <1>3, <1>7
     DEF AtWork, Delivered, Aborted, Returned, FirstResults, FirstRoundHasOneEach
<1> QED
  BY <1>5, <1>6, <1>8 DEF BenchInv, RoundInv

LEMMA BenchInvKept ==
    ASSUME BenchInv, [BenchNext]_benchVars
    PROVE  BenchInv'
<1>1. CASE TaskStep
  BY <1>1, BeginKeeps, TasksEndRight DEF TaskStep
<1>2. CASE \E p \in Pairs : Answer(p)
  BY <1>2, AnswersMoveOne, AnswerKeeps DEF BenchInv
<1>3. CASE Return \/ Throw \/ Save \/ Retry
  BY <1>3, ReturnKeeps, ThrowOrSaveKeeps, AgainIsRight
<1>4. CASE UNCHANGED benchVars
  <2>1. /\ UNCHANGED <<taskConcurrency, phase, round, variantsToRun, allResults>>
        /\ UNCHANGED <<task, waiters, criticalAbort, results, pair, attempt, troubles>>
    BY <1>4 DEF benchVars, loopVars, runVars, pairVars
  <2>2. BenchTyped'
    BY <2>1 DEF BenchInv, BenchTyped, Record
  <2>3. Semaphore'
    BY <2>1 DEF BenchInv, Semaphore, TaskHolders, InLine
  <2>4. \A q : Result(q)' = Result(q)
    BY <2>1 DEF Result
  <2>5. (AtWork /\ Aborted /\ (phase # "running" => Settled))'
    BY <2>1 DEF BenchInv, RoundInv, AtWork, Aborted, Settled
  <2>6. \A t \in Tasks : PairsOf(t)' = PairsOf(t)
    BY <2>1 DEF PairsOf
  <2>7. Delivered'
    BY <2>1, <2>4, <2>6 DEF BenchInv, RoundInv, Delivered
  <2>8. Returned'
    BY <2>1, <2>4 DEF BenchInv, RoundInv, Returned, InRound
  <2>9. FirstResults' /\ FirstRoundHasOneEach'
    BY <2>1, <2>4 DEF BenchInv, RoundInv, FirstResults, FirstRoundHasOneEach
  <2> QED
    BY <2>2, <2>3, <2>5, <2>7, <2>8, <2>9 DEF BenchInv, RoundInv
<1> QED
  BY <1>1, <1>2, <1>3, <1>4 DEF BenchNext

\* The inductive invariant of a bench.
THEOREM BenchInvariant == BenchSpec => []BenchInv
  BY FirstIsRight, BenchInvKept, PTL DEF BenchSpec

\* When a round returns, each pair of it has ended, none with a critical
\* error, and what it ended with is among the merged results; in the first round
\* each pair has one result.
THEOREM EveryRoundIsMerged == BenchSpec => []RoundIsMerged
<1>1. BenchInv => RoundIsMerged
  BY DEF BenchInv, BenchTyped, Semaphore, InLine, RoundInv, Returned, RoundIsMerged, BenchTypeOK
<1> QED
  BY <1>1, BenchInvariant, PTL

\* The action of NothingBeginsAfterAbort.
IdleStays == criticalAbort =>
    \A p \in Pairs : pair[p] = "idle" /\ criticalAbort' => pair'[p] = "idle"

\* After a critical error no further task begins.
THEOREM AbortIsFinal == BenchSpec => NothingBeginsAfterAbort
<1>1. ASSUME BenchInv, BenchNext PROVE IdleStays
  <2>1. pair \in [Pairs -> {"idle", "llm", "compile"} \cup Ended]
    BY <1>1 DEF BenchInv, BenchTyped
  <2>2. ASSUME NEW t \in Tasks, Begin(t) PROVE IdleStays
    BY <2>2 DEF Begin, MayBegin, IdleStays
  <2>3. ASSUME NEW p \in Pairs, Answer(p) PROVE IdleStays
    <3>1. Answered(p)
      BY <1>1, <2>3, AnswersMoveOne DEF BenchInv
    <3> QED
      BY <2>1, <3>1 DEF Answered, IdleStays
  <2>4. CASE Retry
    BY <2>4 DEF Retry, RunParallel, IdleStays
  <2>5. CASE pair' = pair
    BY <2>5 DEF IdleStays
  <2> QED
    BY <1>1, <2>2, <2>3, <2>4, <2>5
       DEF BenchNext, TaskStep, Skip, Complete, Abort, Return, Throw, Save, pairVars
<1>2. BenchInv /\ [BenchNext]_benchVars => [IdleStays]_benchVars
  BY <1>1
<1>3. BenchSpec => [][IdleStays]_benchVars
  BY <1>2, BenchInvariant, PTL DEF BenchSpec
<1> QED
  BY <1>3 DEF IdleStays, NothingBeginsAfterAbort

\* The action of ResultsAreKept.
KeysStay == Keys(allResults) \subseteq Keys(allResults')

\* A pair that has a result keeps having one.
THEOREM NoResultIsDropped == BenchSpec => ResultsAreKept
<1>1. ASSUME BenchNext PROVE KeysStay
  <2>1. CASE Return
    BY <2>1 DEF Return, Merged, Keys, KeysStay
  <2>2. CASE allResults' = allResults
    BY <2>2 DEF KeysStay
  <2>3. ASSUME NEW p \in Pairs, Answer(p) PROVE allResults' = allResults
    BY <2>3 DEF Answer, NoCode, Code, Passes, ModelFails, InfraFails, Throws, CriticalError,
                AttemptFails, PairStep, loopVars
  <2> QED
    BY <1>1, <2>1, <2>2, <2>3
       DEF BenchNext, TaskStep, Begin, Skip, Complete, Abort, Throw, Save, Retry, loopVars
<1>2. [BenchNext]_benchVars => [KeysStay]_benchVars
  BY <1>1
<1>3. BenchSpec => [][KeysStay]_benchVars
  BY <1>2, PTL DEF BenchSpec
<1> QED
  BY <1>3 DEF KeysStay, ResultsAreKept

-----------------------------------------------------------------------------
(* FolderLock. *)

LockFiles == [by : Procs, written : BOOLEAN, age : Nat]

\* What the argument needs of the types.
LockTypes ==
    /\ pc \in [Procs -> Places]
    /\ file \in LockFiles \cup {NoFile}
    /\ prompt \in BOOLEAN
    /\ overtaken \in BOOLEAN

\* Whoever is inside has its file in place, and that file is younger than the
\* threshold.  A file that nobody holds any more may be there, of any age, and
\* waiters may be about to remove it.
FileIsHeld ==
    \A p \in Procs :
        /\ pc[p] \in Holding => file # NoFile /\ file.by = p /\ file.age < Stale
        /\ pc[p] \in {"held", "release", "unlink"} => file.written

LockInv ==
    /\ LockTypes
    /\ prompt /\ ~overtaken => FileIsHeld

LEMMA Initially == Init => LockInv
<1> SUFFICES ASSUME Init PROVE LockInv
  OBVIOUS
<1>1. LockTypes
  BY DEF Init, LockTypes, Places
<1>2. FileIsHeld
  BY DEF Init, FileIsHeld, Holding
<1> QED
  BY <1>1, <1>2 DEF LockInv

\* A new or renewed lock file is one.
LEMMA FreshFile ==
    ASSUME NEW p \in Procs, NEW w \in BOOLEAN
    PROVE  /\ [by |-> p, written |-> w, age |-> 0] \in LockFiles
           /\ [by |-> p, written |-> w, age |-> 0] # NoFile
  BY LockAssumption DEF LockFiles

\* Types are kept.
LEMMA TypesKept ==
    ASSUME LockTypes, [Next]_vars
    PROVE  LockTypes'
<1>0. Stale \in Nat /\ Margin \in Nat /\ MaxFaults \in Nat
  BY LockAssumption
<1>1. ASSUME NEW p \in Procs,
             Acquire(p) \/ Create(p) \/ Exists(p) \/ CannotCreate(p) \/ Write(p) \/ WriteFails(p)
      PROVE  LockTypes'
  <2>1. CASE Create(p) \/ Write(p)
    <3>1. file' \in LockFiles \cup {NoFile}
      BY <2>1, FreshFile DEF Create, Write, LockTypes
    <3> QED
      BY <2>1, <3>1 DEF Create, Write, Go, LockTypes, Places, Holding
  <2>2. CASE Acquire(p) \/ Exists(p) \/ CannotCreate(p) \/ WriteFails(p)
    BY <2>2 DEF Acquire, Exists, CannotCreate, WriteFails, Go, LockTypes, Places, Waiting, Holding
  <2> QED
    BY <1>1, <2>1, <2>2
<1>2. ASSUME NEW p \in Procs,
             Stat(p) \/ Break(p) \/ Check(p) \/ Finish(p) \/ ReadToken(p) \/ Unlink(p) \/ Crash(p)
      PROVE  LockTypes'
  BY <1>2 DEF Stat, Break, Check, Finish, ReadToken, Unlink, Crash, Go,
              LockTypes, Places, Waiting, Holding
<1>3. CASE Tick
  BY <1>0, <1>3 DEF Tick, Older, LockTypes, LockFiles, Deadline
<1>4. CASE UNCHANGED vars
  BY <1>4 DEF vars, LockTypes
<1> QED
  BY <1>1, <1>2, <1>3, <1>4 DEF Next, Step

\* Whether a behaviour is prompt does not change, and who was overtaken stays so.
LEMMA OvertakenStays ==
    ASSUME [Next]_vars
    PROVE  prompt' = prompt /\ (overtaken => overtaken')
<1>1. ASSUME NEW p \in Procs,
             Acquire(p) \/ Create(p) \/ Exists(p) \/ CannotCreate(p) \/ Write(p) \/ WriteFails(p)
      PROVE  prompt' = prompt /\ overtaken' = overtaken
  BY <1>1 DEF Acquire, Create, Exists, CannotCreate, Write, WriteFails
<1>2. ASSUME NEW p \in Procs,
             Stat(p) \/ Check(p) \/ Finish(p) \/ ReadToken(p) \/ Unlink(p) \/ Crash(p)
      PROVE  prompt' = prompt /\ overtaken' = overtaken
  BY <1>2 DEF Stat, Check, Finish, ReadToken, Unlink, Crash
<1>3. ASSUME NEW p \in Procs, Break(p)
      PROVE  prompt' = prompt /\ (overtaken => overtaken')
  BY <1>3 DEF Break
<1>4. CASE Tick \/ UNCHANGED vars
  BY <1>4 DEF Tick, vars
<1> QED
  BY <1>1, <1>2, <1>3, <1>4 DEF Next, Step

\* The file of whoever is inside stays in place: it is created where there is
\* none, a waiter removes only one that is old, and its holder is done before
\* it is; a holder that dies or fails leaves it behind and is inside no more.
LEMMA HeldKept ==
    ASSUME LockInv, [Next]_vars, prompt', ~overtaken'
    PROVE  FileIsHeld'
<1>0. LockTypes /\ prompt /\ FileIsHeld /\ Stale \in Nat /\ Stale > 0
  <2>1. prompt /\ ~overtaken
    BY OvertakenStays
  <2> QED
    BY <2>1, LockAssumption DEF LockInv
<1> USE <1>0
<1>1. ASSUME NEW p \in Procs, Acquire(p) PROVE FileIsHeld'
  BY <1>1 DEF Acquire, Go, LockTypes, FileIsHeld, Holding
<1>2. ASSUME NEW p \in Procs, Create(p) PROVE FileIsHeld'
  <2>1. file' = [by |-> p, written |-> FALSE, age |-> 0] /\ file' # NoFile
    BY <1>2, FreshFile DEF Create
  <2>2. file'.by = p /\ file'.age = 0
    BY <2>1
  <2>3. \A q \in Procs : pc[q] \notin Holding
    BY <1>2 DEF Create, CanCreate, FileIsHeld
  <2>4. pc' = [pc EXCEPT ![p] = "write"]
    BY <1>2 DEF Create, Go
  <2> QED
    BY <2>1, <2>2, <2>3, <2>4 DEF LockTypes, FileIsHeld, Holding
<1>3. ASSUME NEW p \in Procs, Exists(p) PROVE FileIsHeld'
  BY <1>3 DEF Exists, Go, LockTypes, FileIsHeld, Holding
<1>4. ASSUME NEW p \in Procs, Write(p) PROVE FileIsHeld'
  <2>1. file # NoFile /\ file.by = p
    BY <1>4 DEF Write, FileIsHeld, Holding
  <2>2. file' = [by |-> p, written |-> TRUE, age |-> 0] /\ file' # NoFile
    BY <1>4, <2>1, FreshFile DEF Write
  <2>3. file'.by = p /\ file'.written /\ file'.age = 0
    BY <2>2
  <2>4. pc' = [pc EXCEPT ![p] = "held"]
    BY <1>4 DEF Write, Go
  <2>5. \A q \in Procs : pc[q] \in Holding => q = p
    BY <2>1 DEF FileIsHeld
  <2> QED
    BY <2>2, <2>3, <2>4, <2>5 DEF LockTypes, FileIsHeld, Holding
<1>5. ASSUME NEW p \in Procs, Stat(p) PROVE FileIsHeld'
  BY <1>5 DEF Stat, Go, LockTypes, FileIsHeld, Holding
<1>6. ASSUME NEW p \in Procs, Break(p) PROVE FileIsHeld'
  <2>1. file = NoFile \/ Old
    BY <1>6 DEF Break
  <2>2. \A q \in Procs : pc[q] \notin Holding
    BY <2>1 DEF Old, FileIsHeld, LockTypes, LockFiles
  <2>3. pc' = [pc EXCEPT ![p] = "check"]
    BY <1>6 DEF Break, Go
  <2> QED
    BY <2>2, <2>3 DEF LockTypes, FileIsHeld, Holding
<1>7. ASSUME NEW p \in Procs, Check(p) PROVE FileIsHeld'
  BY <1>7 DEF Check, Go, LockTypes, FileIsHeld, Holding
<1>8. ASSUME NEW p \in Procs, Finish(p) PROVE FileIsHeld'
  BY <1>8 DEF Finish, Go, LockTypes, FileIsHeld, Holding
<1>9. ASSUME NEW p \in Procs, ReadToken(p) PROVE FileIsHeld'
  BY <1>9 DEF ReadToken, Owns, Go, LockTypes, FileIsHeld, Holding
<1>10. ASSUME NEW p \in Procs, Unlink(p) PROVE FileIsHeld'
  <2>1. \A q \in Procs : pc[q] \in Holding => q = p
    BY <1>10 DEF Unlink, FileIsHeld, Holding
  <2>2. pc' = [pc EXCEPT ![p] = "idle"]
    BY <1>10 DEF Unlink, Go
  <2> QED
    BY <2>1, <2>2 DEF LockTypes, FileIsHeld, Holding
<1>11. ASSUME NEW p \in Procs, CannotCreate(p) \/ WriteFails(p) \/ Crash(p) PROVE FileIsHeld'
  <2>1. file' = file /\ \E place \in {"unlocked", "crashed"} : pc' = [pc EXCEPT ![p] = place]
    BY <1>11 DEF CannotCreate, WriteFails, Crash, Go
  <2> QED
    BY <2>1 DEF LockTypes, FileIsHeld, Holding
<1>12. CASE Tick
  <2> SUFFICES ASSUME NEW p \in Procs, pc[p] \in Holding
               PROVE  /\ file' # NoFile /\ file'.by = p /\ file'.age < Stale
                      /\ file'.written = file.written
    BY <1>12 DEF Tick, FileIsHeld, Holding
  <2>1. file \in LockFiles /\ file # NoFile /\ file.by = p /\ file.age + 1 < Stale
    BY <1>12 DEF Tick, LockTypes, FileIsHeld
  <2>2. file' = [by |-> file.by, written |-> file.written, age |-> file.age + 1]
    BY <1>12, <2>1, LockAssumption DEF Tick, Older, LockFiles, Deadline
  <2>3. file'.by = file.by /\ file'.written = file.written /\ file'.age = file.age + 1
    BY <2>2
  <2>4. file' # NoFile
    BY <2>1, <2>2, LockAssumption DEF LockFiles
  <2> QED
    BY <2>1, <2>3, <2>4
<1>13. CASE UNCHANGED vars
  BY <1>13 DEF vars, FileIsHeld
<1> QED
  BY <1>1, <1>2, <1>3, <1>4, <1>5, <1>6, <1>7, <1>8, <1>9, <1>10, <1>11, <1>12, <1>13
     DEF Next, Step

THEOREM LockInvariant == Spec => []LockInv
<1>1. LockInv /\ [Next]_vars => LockInv'
  BY TypesKept, HeldKept DEF LockInv
<1> QED
  BY <1>1, Initially, PTL DEF Spec

-----------------------------------------------------------------------------

\* Two callers never rebuild a folder under the lock at once, as long as holders
\* are done before their file is old and no waiter has removed a younger one;
\* crashes, failures and the removal of old files are among the steps.
THEOREM NeverTwo == Spec => []MutualExclusion
<1>1. LockInv => MutualExclusion
  BY DEF LockInv, FileIsHeld, MutualExclusion, Holding
<1> QED
  BY <1>1, LockInvariant, PTL

\* A step takes the lock, leaves it, or does neither; who dies inside leaves it.
LEMMA StepIsMutex ==
    ASSUME LockInv, LockInv', [Next]_vars, prompt, ~overtaken'
    PROVE  Lock!Next \/ UNCHANGED Holders
<1>0. LockTypes /\ FileIsHeld
  <2>1. ~overtaken
    BY OvertakenStays
  <2> QED
    BY <2>1 DEF LockInv
<1> USE <1>0
<1>1. ASSUME NEW p \in Procs, Create(p) PROVE Lock!Next
  <2>1. Holders = {}
    BY <1>1 DEF Create, CanCreate, Holders, FileIsHeld
  <2>2. Holders' = {p}
    BY <1>1, <2>1 DEF Create, Go, Holders, Holding, LockTypes
  <2> QED
    BY <2>1, <2>2 DEF Lock!Next, Lock!Enter
<1>2. ASSUME NEW p \in Procs, Unlink(p) \/ ReadToken(p) PROVE Lock!Next \/ UNCHANGED Holders
  <2>1. Holders = {p}
    BY <1>2 DEF Unlink, ReadToken, Holders, Holding, FileIsHeld
  <2>2. CASE Unlink(p)
    <3>1. Holders' = {}
      BY <2>1, <2>2 DEF Unlink, Go, Holders, Holding, LockTypes
    <3> QED
      BY <2>1, <3>1 DEF Lock!Next, Lock!Leave
  <2>3. CASE ReadToken(p)
    <3>1. pc' = [pc EXCEPT ![p] = "unlink"]
      BY <2>3 DEF ReadToken, Owns, Go, FileIsHeld, Holding
    <3> QED
      BY <2>3, <3>1 DEF ReadToken, Holders, Holding, LockTypes
  <2> QED
    BY <1>2, <2>2, <2>3
<1>3. ASSUME NEW p \in Procs,
             Acquire(p) \/ Exists(p) \/ Write(p) \/ Stat(p) \/ Break(p) \/ Check(p)
      PROVE  UNCHANGED Holders
  BY <1>3 DEF Acquire, Exists, Write, Stat, Break, Check, Go, Holders, Holding, LockTypes
<1>4. ASSUME NEW p \in Procs, Finish(p) PROVE UNCHANGED Holders
  BY <1>4 DEF Finish, Go, Holders, Holding, LockTypes
<1>5. ASSUME NEW p \in Procs, CannotCreate(p) \/ WriteFails(p) \/ Crash(p)
      PROVE  Lock!Next \/ UNCHANGED Holders
  <2>1. \E place \in {"unlocked", "crashed"} : pc' = [pc EXCEPT ![p] = place]
    BY <1>5 DEF CannotCreate, WriteFails, Crash, Go
  <2>2. CASE pc[p] \in Holding
    <3>1. Holders = {p}
      BY <2>2 DEF Holders, FileIsHeld
    <3>2. Holders' = {}
      BY <2>1, <3>1 DEF Holders, Holding, LockTypes
    <3> QED
      BY <3>1, <3>2 DEF Lock!Next, Lock!Leave
  <2>3. CASE pc[p] \notin Holding
    BY <2>1, <2>3 DEF Holders, Holding, LockTypes
  <2> QED
    BY <2>2, <2>3
<1>6. CASE Tick \/ UNCHANGED vars
  BY <1>6 DEF Tick, vars, Holders
<1> QED
  BY <1>1, <1>2, <1>3, <1>4, <1>5, <1>6 DEF Next, Step

\* The lock file implements Mutex while holders are done before their file is old
\* and no waiter has removed a younger one: its initial states map to initial
\* states of Mutex, and each such step maps to a step of Mutex or to none, the
\* crash of a holder, a failed write and the removal of an old file included.
THEOREM ImplementsMutex == Spec => RefinesMutex
<1>1. Init => Lock!Init
  BY DEF Init, Lock!Init, Holders, Holding
<1>2. LockInv /\ LockInv' /\ [Next]_vars => [prompt /\ ~overtaken' => Lock!Next]_Holders
  BY StepIsMutex
<1> QED
  BY <1>1, <1>2, LockInvariant, PTL DEF Spec, RefinesMutex
-----------------------------------------------------------------------------

\* A prompt process that has waited for as long as it may does not poll again:
\* one more tick may find it on its way out, and no other.
Punctual ==
    prompt => \A p \in Waiters :
        /\ waited[p] = Deadline /\ pc[p] \in {"open", "stat"} => p \notin polled
        /\ waited[p] > Deadline => pc[p] \in {"remove", "check"} /\ p \notin polled

WaitInv == TypeOK /\ Punctual

LEMMA DeadlineIsPositive == Deadline \in Nat /\ Deadline > 0 /\ Stale \in Nat /\ MaxFaults \in Nat
  BY LockAssumption DEF Deadline

LEMMA FreshFileTyped ==
    ASSUME NEW p \in Procs, NEW w \in BOOLEAN
    PROVE  [by |-> p, written |-> w, age |-> 0] \in Files
  BY DeadlineIsPositive DEF Files

LEMMA WaitKept ==
    ASSUME WaitInv, [Next]_vars
    PROVE  WaitInv'
<1> USE DeadlineIsPositive
<1>0. TypeOK /\ Punctual
  BY DEF WaitInv
<1>1. ASSUME NEW p \in Procs, Acquire(p) PROVE WaitInv'
  BY <1>0, <1>1 DEF Acquire, Go, WaitInv, TypeOK, Punctual, Waiters, Places, Waiting, Holding
<1>2. ASSUME NEW p \in Procs, Create(p) \/ Write(p) PROVE WaitInv'
  <2>1. file' \in Files
    BY <1>0, <1>2, FreshFileTyped DEF Create, Write, TypeOK
  <2>2. CASE Create(p)
    BY <1>0, <2>1, <2>2 DEF Create, Go, WaitInv, TypeOK, Punctual, Waiters, Places, Waiting, Holding
  <2>3. CASE Write(p)
    BY <1>0, <2>1, <2>3 DEF Write, Go, WaitInv, TypeOK, Punctual, Waiters, Places, Waiting, Holding
  <2> QED
    BY <1>2, <2>2, <2>3
<1>3. ASSUME NEW p \in Procs, Exists(p) \/ Stat(p) PROVE WaitInv'
  <2>1. CASE Exists(p)
    BY <1>0, <2>1 DEF Exists, Go, WaitInv, TypeOK, Punctual, Waiters, Places, Waiting, Holding
  <2>2. CASE Stat(p)
    BY <1>0, <2>2 DEF Stat, Go, WaitInv, TypeOK, Punctual, Waiters, Places, Waiting, Holding
  <2> QED
    BY <1>3, <2>1, <2>2
<1>4. ASSUME NEW p \in Procs, Break(p) \/ Check(p) PROVE WaitInv'
  <2>1. CASE Break(p)
    BY <1>0, <2>1 DEF Break, Go, WaitInv, TypeOK, Files, Punctual, Waiters, Places, Waiting, Holding
  <2>2. CASE Check(p)
    BY <1>0, <2>2 DEF Check, Expired, Go, WaitInv, TypeOK, Punctual, Waiters, Places, Waiting, Holding
  <2> QED
    BY <1>4, <2>1, <2>2
<1>5. ASSUME NEW p \in Procs, Finish(p) \/ ReadToken(p) \/ Unlink(p) PROVE WaitInv'
  <2>1. CASE Finish(p)
    BY <1>0, <2>1 DEF Finish, Go, WaitInv, TypeOK, Punctual, Waiters, Places, Waiting, Holding
  <2>2. CASE ReadToken(p)
    BY <1>0, <2>2 DEF ReadToken, Go, WaitInv, TypeOK, Punctual, Waiters, Places, Waiting, Holding
  <2>3. CASE Unlink(p)
    BY <1>0, <2>3 DEF Unlink, Go, WaitInv, TypeOK, Files, Punctual, Waiters, Places, Waiting, Holding
  <2> QED
    BY <1>5, <2>1, <2>2, <2>3
<1>6. ASSUME NEW p \in Procs, CannotCreate(p) \/ WriteFails(p) \/ Crash(p) PROVE WaitInv'
  <2>1. faults' \in 0..MaxFaults
    BY <1>0, <1>6 DEF CannotCreate, WriteFails, Crash, TypeOK
  <2>2. \E place \in {"unlocked", "crashed"} :
            pc' = [pc EXCEPT ![p] = place] /\ UNCHANGED <<file, waited, polled, prompt, overtaken>>
    BY <1>6 DEF CannotCreate, WriteFails, Crash, Go
  <2> QED
    BY <1>0, <2>1, <2>2 DEF WaitInv, TypeOK, Punctual, Waiters, Places, Waiting, Holding
<1>7. CASE Tick
  <2>1. file' \in Files
    BY <1>0, <1>7 DEF Tick, Older, TypeOK, Files
  <2>2. waited' \in [Procs -> 0..Deadline + 1]
    BY <1>0, <1>7 DEF Tick, TypeOK, Punctual, Waiters, Waiting
  <2>3. Punctual'
    BY <1>0, <1>7 DEF Tick, TypeOK, Punctual, Waiters, Waiting
  <2> QED
    BY <1>0, <1>7, <2>1, <2>2, <2>3 DEF Tick, WaitInv, TypeOK
<1>8. CASE UNCHANGED vars
  BY <1>0, <1>8 DEF vars, WaitInv, TypeOK, Punctual, Waiters
<1> QED
  BY <1>1, <1>2, <1>3, <1>4, <1>5, <1>6, <1>7, <1>8 DEF Next, Step

\* Type correctness: in a prompt behaviour no wait goes more than a tick past
\* its deadline.
THEOREM WaitsAreBounded == Spec => []TypeOK
<1>1. ASSUME Init PROVE WaitInv
  <2>1. TypeOK
    <3>1. prompt \in BOOLEAN /\ overtaken \in BOOLEAN
      BY <1>1 DEF Init
    <3>2. /\ pc \in [Procs -> Places] /\ file \in Files /\ polled \in SUBSET Procs
          /\ waited \in [Procs -> 0..Deadline + 1] /\ faults \in 0..MaxFaults
      BY <1>1, DeadlineIsPositive DEF Init, Files, Places
    <3> QED
      BY <3>1, <3>2 DEF TypeOK
  <2>2. Waiters = {}
    BY <1>1 DEF Init, Waiters, Waiting
  <2> QED
    BY <2>1, <2>2 DEF WaitInv, Punctual
<1>2. WaitInv /\ [Next]_vars => WaitInv'
  BY WaitKept
<1>3. WaitInv => TypeOK
  BY DEF WaitInv
<1> QED
  BY <1>1, <1>2, <1>3, PTL DEF Spec
-----------------------------------------------------------------------------

\* At the end of a round the file a process looked at was not old, or has just
\* become so, or has come since.
LookedAt ==
    prompt => \A p \in Procs : pc[p] = "check" /\ file # NoFile =>
        file.age <= Stale /\ (p \in polled => file.age < Stale)

LEMMA LookedAtKept ==
    ASSUME TypeOK, LookedAt, [Next]_vars
    PROVE  LookedAt'
<1> USE DeadlineIsPositive
<1>1. ASSUME NEW p \in Procs, Acquire(p) \/ Exists(p) PROVE LookedAt'
  BY <1>1 DEF Acquire, Exists, Go, TypeOK, LookedAt
<1>2. ASSUME NEW p \in Procs, Create(p) \/ Write(p) PROVE LookedAt'
  <2>1. file' = file \/ \E w \in BOOLEAN : file' = [by |-> p, written |-> w, age |-> 0]
    BY <1>2 DEF Create, Write
  <2>2. file' = file \/ file'.age = 0
    BY <2>1
  <2> QED
    <3>1. \E place \in {"write", "held"} : pc' = [pc EXCEPT ![p] = place]
      BY <1>2 DEF Create, Write, Go
    <3>2. polled' = polled /\ prompt' = prompt /\ (file = NoFile => file' = NoFile \/ file'.age = 0)
      BY <1>2, <2>2 DEF Create, Write
    <3>3. 0 <= Stale /\ 0 < Stale
      BY LockAssumption
    <3> QED
      BY <2>2, <3>1, <3>2, <3>3 DEF TypeOK, LookedAt
<1>3. ASSUME NEW p \in Procs, Stat(p) PROVE LookedAt'
  <2>1. CASE Old
    BY <1>3, <2>1 DEF Stat, Go, TypeOK, LookedAt
  <2>2. CASE ~Old
    <3>1. file # NoFile => file.age < Stale /\ file.age <= Stale
      BY <2>2 DEF Old, TypeOK, Files
    <3>2. /\ pc' = [pc EXCEPT ![p] = "check"] /\ polled' = polled \cup {p}
          /\ file' = file /\ prompt' = prompt
      BY <1>3, <2>2 DEF Stat, Go
    <3> QED
      BY <3>1, <3>2 DEF TypeOK, LookedAt
  <2> QED
    BY <2>1, <2>2
<1>4. ASSUME NEW p \in Procs, Break(p) \/ Unlink(p) PROVE LookedAt'
  BY <1>4 DEF Break, Unlink, LookedAt
<1>5. ASSUME NEW p \in Procs, Check(p) \/ Finish(p) \/ ReadToken(p) PROVE LookedAt'
  BY <1>5 DEF Check, Finish, ReadToken, Go, TypeOK, LookedAt
<1>6. ASSUME NEW p \in Procs, CannotCreate(p) \/ WriteFails(p) \/ Crash(p) PROVE LookedAt'
  BY <1>6 DEF CannotCreate, WriteFails, Crash, Go, TypeOK, LookedAt
<1>7. CASE Tick
  <2>1. file' # NoFile => file # NoFile /\ file.age \in Nat /\ file'.age \in Nat /\ file'.age <= file.age + 1
    <3>1. CASE file = NoFile
      BY <1>7, <3>1 DEF Tick, Older
    <3>2. CASE file # NoFile
      <4>1. file.age \in Nat
        BY <3>2 DEF TypeOK, Files
      <4>2. PICK a \in Nat : a <= file.age + 1 /\ file' = [by |-> file.by, written |-> file.written, age |-> a]
        BY <1>7, <3>2, <4>1 DEF Tick, Older
      <4>3. file'.age = a
        BY <4>2
      <4> QED
        BY <3>2, <4>1, <4>2, <4>3
    <3> QED
      BY <3>1, <3>2
  <2> QED
    BY <1>7, <2>1 DEF Tick, Waiters, Waiting, LookedAt
<1>8. CASE UNCHANGED vars
  BY <1>8 DEF vars, LookedAt
<1> QED
  BY <1>1, <1>2, <1>3, <1>4, <1>5, <1>6, <1>7, <1>8 DEF Next, Step

\* A prompt waiter gives up only on a lock that was taken while it waited, by
\* the margin between the threshold and the deadline.
THEOREM GivesUpRightly == Spec => GivesUpOnYoungOnly
<1>1. Init => LookedAt
  BY DEF Init, LookedAt
<1>2. TypeOK /\ LookedAt /\ [Next]_vars => LookedAt'
  BY LookedAtKept
<1>3. ASSUME TypeOK, LookedAt, [Next]_vars, NEW p \in Procs,
             prompt, pc[p] = "check", pc'[p] = "unlocked", file # NoFile
      PROVE  file.age < waited[p]
  <2>1. PICK q \in Procs : \/ Acquire(q) \/ Step(q) \/ Finish(q)
                         \/ CannotCreate(q) \/ WriteFails(q) \/ Crash(q)
    BY <1>3 DEF Next, vars, Tick
  <2>2. \E place : pc' = [pc EXCEPT ![q] = place]
    BY <2>1 DEF Step, Go, Acquire, Create, Exists, CannotCreate, Write, WriteFails,
           Stat, Break, Check, Finish, ReadToken, Unlink, Crash
  <2>3. pc \in [Procs -> Places] /\ q = p
    BY <1>3, <2>2 DEF TypeOK
  <2>4. Check(p)
    BY <1>3, <2>1, <2>3 DEF Step, Go, Acquire, Create, Exists, CannotCreate, Write, WriteFails,
           Stat, Break, Finish, ReadToken, Unlink, Crash, Holding
  <2>5. waited[p] >= Stale + Margin
    BY <1>3, <2>4 DEF Check, Go, Expired, Deadline, TypeOK
  <2>6. file.age <= Stale
    BY <1>3 DEF LookedAt
  <2> QED
    BY <1>3, <2>5, <2>6, LockAssumption DEF TypeOK, Files, Deadline
<1>4. TypeOK /\ LookedAt /\ [Next]_vars =>
          [\A p \in Procs : prompt /\ pc[p] = "check" /\ pc'[p] = "unlocked" /\ file # NoFile
                                => file.age < waited[p]]_vars
  BY <1>3
<1> QED
  BY <1>1, <1>2, <1>4, WaitsAreBounded, PTL DEF Spec, GivesUpOnYoungOnly

=============================================================================
