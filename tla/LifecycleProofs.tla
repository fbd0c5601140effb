-------------------------- MODULE LifecycleProofs --------------------------
(***************************************************************************)
(* Proofs about Lifecycle, for any steps, requests, limits and bounds and  *)
(* any number of processes.                                                *)
(*                                                                         *)
(* The log only grows, and its oldest events are all that a query sees.    *)
(* So an event a query shows it always shows, and a cycle that was not     *)
(* active once never is again.  The race is decided by these two facts.    *)
(* What a query of all events shows of the time before an event does not   *)
(* change once that event is there, whether or not it shows the event      *)
(* itself: the verdict from which a cycle decided stands to its end.       *)
(***************************************************************************)
EXTENDS Lifecycle, FiniteSetTheorems, WellFoundedInduction, TLAPS

-----------------------------------------------------------------------------
(* Queries. *)

\* Newest(S) is what its name says.
LEMMA NewestIsLast ==
    ASSUME NEW n \in Nat, NEW S \in SUBSET (1..n), S # {}
    PROVE  Newest(S) \in S /\ \A j \in S : j <= Newest(S)
<1> DEFINE Above(i) == {j \in S : i < j}
<1> DEFINE T == {Above(i) : i \in S}
<1>1. IsFiniteSet(S)
  <2>1. IsFiniteSet(1..n)
    BY FS_Interval
  <2> QED
    BY <2>1, FS_Subset
<1>2. IsWellFoundedOn(StrictSubsetOrdering(S), SUBSET S)
  BY <1>1, FS_StrictSubsetOrderingWellFounded, FS_FiniteSubsetsOfFinite
<1>3. T \subseteq SUBSET S /\ T # {}
  OBVIOUS
<1>4. PICK x \in T : \A y \in T : ~(<<y, x>> \in StrictSubsetOrdering(S))
  <2> HIDE DEF T
  <2> QED
    BY <1>2, <1>3, WFMin
<1>5. PICK i \in S : x = Above(i)
  BY <1>4
<1>6. \A j \in S : j <= i
  <2> SUFFICES ASSUME NEW j \in S, i < j
               PROVE  FALSE
    OBVIOUS
  <2>1. ASSUME NEW k \in Above(j) PROVE k \in Above(i)
    OBVIOUS
  <2>2. j \in Above(i) /\ j \notin Above(j)
    OBVIOUS
  <2>3. <<Above(j), Above(i)>> \in StrictSubsetOrdering(S)
    BY <2>1, <2>2 DEF StrictSubsetOrdering
  <2> QED
    BY <2>3, <1>4, <1>5
<1> QED
  BY <1>6 DEF Newest

\* The log of the next state.
Logged == log' = log \/ \E e \in Events : log' = Append(log, e)

\* The cycles that a query shows as active.
Live == Active(CycleEvents)

\* Events are neither taken out of the log nor changed in it.
LEMMA LogGrows ==
    ASSUME log \in Seq(Events), Logged
    PROVE  /\ log' \in Seq(Events)
           /\ Len(log') \in Nat /\ Len(log) \in Nat /\ Len(log) <= Len(log')
           /\ \A i \in 1..Len(log) : log'[i] = log[i]
<1>1. CASE log' = log
  BY <1>1
<1>2. CASE \E e \in Events : log' = Append(log, e)
  BY <1>2
<1> QED
  BY <1>1, <1>2 DEF Logged

\* Which of the events there are are the oldest does not depend on those that
\* come later.
LEMMA ShownStaysShown ==
    ASSUME log \in Seq(Events), Logged, NEW i \in 1..Len(log)
    PROVE  i \in CycleEvents' <=> i \in CycleEvents
<1>1. /\ Len(log') \in Nat /\ Len(log) \in Nat /\ Len(log) <= Len(log')
      /\ \A k \in 1..Len(log) : log'[k] = log[k]
  BY LogGrows
<1> DEFINE A == {j \in Of("cycle") : j <= i}
           B == {j \in Of("cycle")' : j <= i}
<1>2. A = B
  BY <1>1 DEF Of
<1>3. i \in Of("cycle") <=> i \in Of("cycle")'
  BY <1>1 DEF Of
<1> QED
  BY <1>2, <1>3 DEF CycleEvents, Oldest

\* A cycle that is not active never is again.
LEMMA EndedStaysEnded ==
    ASSUME log \in Seq(Events), Logged, NEW i \in 1..Len(log), i \notin Live
    PROVE  i \notin Live'
<1>1. /\ Len(log') \in Nat /\ Len(log) \in Nat /\ Len(log) <= Len(log')
      /\ \A k \in 1..Len(log) : log'[k] = log[k]
  BY LogGrows
<1>2. \A j \in CycleEvents : j \in 1..Len(log)
  BY DEF CycleEvents, Oldest, Of
<1>3. CASE i \notin CycleEvents
  BY <1>3, ShownStaysShown DEF Live, Active, Starts
<1>4. CASE log[i].kind # "started"
  BY <1>4, <1>1 DEF Live, Active, Starts
<1>5. CASE \E j \in CycleEvents : j > i /\ log[j].kind \in Terminals
  <2>1. PICK j \in CycleEvents : j > i /\ log[j].kind \in Terminals
    BY <1>5
  <2>2. j \in 1..Len(log)
    BY <1>2
  <2>3. j \in CycleEvents' /\ log'[j].kind \in Terminals'
    BY <2>1, <2>2, <1>1, ShownStaysShown DEF Terminals
  <2> QED
    BY <2>1, <2>3 DEF Live, Active
<1> QED
  BY <1>3, <1>4, <1>5 DEF Live, Active, Starts

-----------------------------------------------------------------------------
(* Jobs. *)

\* A job that fits a log of n events.
Placed(j, n) ==
    /\ j \in Jobs
    /\ j.at = "readback" => j.mine >= 1
    /\ j.at \in Running =>
          /\ j.step >= 1
          /\ j.mine \in 1..j.won /\ j.won <= n
          /\ j.at \in Running \ {"decide", "finish"} => j.step <= j.req.to

Bounded ==
    /\ hourOld \in 0..Len(log) /\ twoHoursOld \in 0..hourOld
    /\ cycles \in 0..MaxCycles /\ faults \in 0..MaxFaults /\ hours \in 0..MaxHours

Typed ==
    /\ log \in Seq(Events)
    /\ job \in [Workers -> Jobs]
    /\ \A w \in Workers : Placed(job[w], Len(log))
    /\ Bounded

\* What a job may become in a step, as far as the lock goes: it is out of the
\* loop, in the loop as before, or enters it with the lock.
Moved(w, j) ==
    \/ j.at \notin Running
    \/ /\ InLoop(w) /\ j.at \in Running
       /\ j.mine = job[w].mine /\ j.won = job[w].won
    \/ /\ job[w].at = "readback" /\ Wins(w) /\ log' = log
       /\ j.at \in Running
       /\ j.mine = job[w].mine /\ j.won = Len(log)

\* An action of w, as far as log and jobs go.
Acts(w) ==
    /\ Logged
    /\ \E j \in Jobs : Become(w, j) /\ Placed(j, Len(log)) /\ Moved(w, j)

\* Who wins has an active cycle, and no later one is active.
LEMMA WinnerIsNewest ==
    ASSUME log \in Seq(Events), NEW w \in Workers, job[w].mine >= 1, job[w].mine \in Nat, Wins(w)
    PROVE  /\ job[w].mine \in Live /\ job[w].mine \in 1..Len(log)
           /\ \A i \in Live : i <= job[w].mine
<1>1. Live \in SUBSET (1..Len(log)) /\ Len(log) \in Nat
  BY DEF Live, Active, Starts, CycleEvents, Oldest, Of
<1>2. Newest(Live) = job[w].mine
  BY DEF Wins, Winner, Live
<1>3. Live # {}
  BY <1>2 DEF Newest
<1> QED
  BY <1>1, <1>2, <1>3, NewestIsLast

LEMMA EventOfCycle ==
    ASSUME NEW w \in Workers, job[w] \in Jobs, NEW k \in {"started"} \cup Terminals
    PROVE  [of |-> "cycle", kind |-> k, env |-> Env(w)] \in Events
BY LifecycleAssumption DEF Events, Env, Envs, Jobs

LEMMA EventOfStep ==
    ASSUME NEW w \in Workers, job[w] \in Jobs, NEW n \in 1..Len(Steps),
           NEW k \in {"started", "skipped"} \cup Outcomes
    PROVE  [of |-> Steps[n], kind |-> k, env |-> Env(w)] \in Events
BY LifecycleAssumption DEF Events, Env, Envs, Jobs, StepNames

LEMMA IdleIsPlaced ==
    ASSUME NEW n \in Nat
    PROVE  Placed(Idle, n) /\ Idle \in Jobs /\ Idle.at \notin Running
<1>1. (CHOOSE r \in Requests : TRUE) \in Requests
  BY LifecycleAssumption
<1>2. Len(Steps) \in Nat
  BY LifecycleAssumption
<1>3. Idle \in Jobs /\ Idle.at = "idle"
  BY <1>1, <1>2 DEF Idle, NewJob, Jobs, Places
<1> QED
  BY <1>3 DEF Placed, Running

\* A job that only changes its place, to one outside the loop.
LEMMA GoesOut ==
    ASSUME Typed, NEW w \in Workers, NEW place \in Places \ (Running \cup {"readback"}),
           NEW j, j = [job[w] EXCEPT !.at = place]
    PROVE  j \in Jobs /\ Placed(j, Len(log)) /\ Moved(w, j)
<1>1. job[w] \in Jobs
  BY DEF Typed
<1>2. j \in Jobs /\ j.at = place
  BY <1>1 DEF Jobs
<1> QED
  BY <1>2 DEF Placed, Moved

LEMMA BeforeTheLoop ==
    ASSUME Typed, NEW w \in Workers, NEW r \in Requests,
           Begin(w, r) \/ Detect(w) \/ EmitTimeout(w) \/ Start(w) \/ Lose(w)
    PROVE  Acts(w)
<1>0. job[w] \in Jobs /\ Len(log) \in Nat /\ Len(Steps) \in Nat
  BY LifecycleAssumption DEF Typed
<1>1. CASE Begin(w, r)
  <2>1. PICK j : j = NewJob("detect", r)
    OBVIOUS
  <2>2. j \in Jobs /\ j.at = "detect"
    BY <1>0, <2>1 DEF NewJob, Jobs, Places
  <2> QED
    BY <1>1, <2>1, <2>2 DEF Begin, Acts, Logged, Placed, Moved, Running
<1>2. CASE Detect(w)
  <2>1. PICK place \in Places \ (Running \cup {"readback"}) : Go(w, place)
    BY <1>2 DEF Detect, Places, Running
  <2> QED
    BY <1>2, <2>1, GoesOut DEF Detect, Go, Acts, Logged
<1>3. CASE EmitTimeout(w)
  <2>1. Logged
    BY <1>0, <1>3, EventOfCycle DEF EmitTimeout, Append1, Logged, Terminals
  <2>2. PICK place \in Places \ (Running \cup {"readback"}) : Go(w, place)
    BY <1>3 DEF EmitTimeout, Places, Running
  <2> QED
    BY <2>1, <2>2, GoesOut DEF Go, Acts
<1>4. CASE Start(w)
  <2>1. Logged
    BY <1>0, <1>4, EventOfCycle DEF Start, Append1, Logged
  <2>2. PICK j : j = [job[w] EXCEPT !.at = "readback", !.mine = Len(log) + 1]
    OBVIOUS
  <2>3. j \in Jobs /\ j.at = "readback" /\ j.mine = Len(log) + 1
    <3>1. "readback" \in Places /\ Len(log) + 1 \in Nat
      BY <1>0 DEF Places
    <3> QED
      BY <1>0, <2>2, <3>1 DEF Jobs
  <2>4. Become(w, j)
    BY <1>4, <2>2 DEF Start
  <2> QED
    BY <1>0, <2>1, <2>3, <2>4 DEF Acts, Placed, Moved, Running
<1>5. CASE Lose(w)
  <2>1. Logged
    BY <1>0, <1>5, EventOfCycle DEF Lose, Append1, Logged, Terminals
  <2> QED
    BY <1>0, <1>5, <2>1, IdleIsPlaced DEF Lose, End, Acts, Moved
<1> QED
  BY <1>1, <1>2, <1>3, <1>4, <1>5

LEMMA AtTheLock ==
    ASSUME Typed, NEW w \in Workers, ReadBack(w)
    PROVE  Acts(w)
<1>0. job[w] \in Jobs /\ Placed(job[w], Len(log)) /\ Len(log) \in Nat /\ job[w].at = "readback"
  BY DEF Typed, ReadBack
<1>1. CASE Wins(w)
  <2>1. PICK j : j = [job[w] EXCEPT !.at = "decide", !.step = job[w].req.from,
                                    !.won = Len(log), !.aged = hourOld]
    OBVIOUS
  <2>2. job[w].req.from \in 1..Len(Steps) /\ Len(Steps) \in Nat
    BY <1>0, LifecycleAssumption DEF Jobs
  <2>3. /\ j \in Jobs /\ j.at = "decide" /\ j.step = job[w].req.from
        /\ j.mine = job[w].mine /\ j.won = Len(log)
    <3>1. "decide" \in Places /\ job[w].req.from \in 0..(Len(Steps) + 1) /\ hourOld \in Nat
      BY <1>0, <2>2 DEF Places, Running, Typed, Bounded
    <3> QED
      BY <1>0, <2>1, <3>1 DEF Jobs
  <2>4. job[w].mine \in 1..Len(log)
    BY <1>0, <1>1, WinnerIsNewest DEF Typed, Placed, Jobs
  <2>5. Placed(j, Len(log))
    BY <1>0, <2>2, <2>3, <2>4 DEF Placed, Running
  <2> QED
    BY <1>0, <1>1, <2>1, <2>3, <2>5 DEF ReadBack, Acts, Logged, Moved, Running
<1>2. CASE ~Wins(w)
  <2>1. PICK place \in Places \ (Running \cup {"readback"}) : Go(w, place)
    BY <1>2 DEF ReadBack, Places, Running
  <2> QED
    BY <2>1, GoesOut DEF ReadBack, Go, Acts, Logged
<1> QED
  BY <1>1, <1>2

\* The job of a worker that goes on to a place of the loop.
Goes(w, place, n, pub, bad) ==
    [job[w] EXCEPT !.at = place, !.step = n, !.published = pub, !.failed = bad]

\* A job of the loop that changes its place, and may go on to the next step.
LEMMA StaysInLoop ==
    ASSUME Typed, NEW w \in Workers, InLoop(w), NEW place \in Running,
           NEW n, n = job[w].step \/ n = job[w].step + 1,
           NEW pub \in BOOLEAN, NEW bad \in BOOLEAN,
           n <= Len(Steps) + 1,
           place \notin {"decide", "finish"} => n <= job[w].req.to
    PROVE  /\ Goes(w, place, n, pub, bad) \in Jobs
           /\ Placed(Goes(w, place, n, pub, bad), Len(log))
           /\ Moved(w, Goes(w, place, n, pub, bad))
<1> DEFINE j == Goes(w, place, n, pub, bad)
<1>0. job[w] \in Jobs /\ Placed(job[w], Len(log)) /\ Len(Steps) \in Nat
  BY LifecycleAssumption DEF Typed
<1>1. place \in Places /\ n \in 0..(Len(Steps) + 1) /\ n >= 1
  BY <1>0 DEF Places, Placed, InLoop, Jobs
<1>2. /\ j \in Jobs /\ j.at = place /\ j.step = n
      /\ j.mine = job[w].mine /\ j.won = job[w].won /\ j.req = job[w].req
  BY <1>0, <1>1 DEF Jobs, Goes
<1> HIDE DEF j
<1>3. j \in Jobs /\ Placed(j, Len(log)) /\ Moved(w, j)
  BY <1>0, <1>1, <1>2 DEF Placed, Moved, InLoop, Running
<1> QED
  BY <1>3 DEF j

\* In the loop, the step a job is at is one of the steps.
LEMMA StepExists ==
    ASSUME Typed, NEW w \in Workers, job[w].at \in {"skip", "begin", "work"}
    PROVE  job[w].step \in 1..Len(Steps) /\ job[w].step <= job[w].req.to
<1>1. job[w] \in Jobs /\ Placed(job[w], Len(log)) /\ Len(Steps) \in Nat
  BY LifecycleAssumption DEF Typed
<1>2. job[w].req.to \in 1..Len(Steps)
  BY <1>1, LifecycleAssumption DEF Jobs
<1> QED
  BY <1>1, <1>2 DEF Placed, Running, Jobs

LEMMA InTheLoop ==
    ASSUME Typed, NEW w \in Workers, NEW o \in Outcomes,
           Decide(w) \/ Skip(w) \/ BeginStep(w) \/ Record(w, o) \/ Finish(w)
    PROVE  Acts(w)
<1>0. /\ job[w] \in Jobs /\ Placed(job[w], Len(log)) /\ Len(log) \in Nat /\ Len(Steps) \in Nat
      /\ job[w].step \in Nat /\ job[w].step <= Len(Steps) + 1
      /\ job[w].published \in BOOLEAN /\ job[w].failed \in BOOLEAN
      /\ job[w].req.to \in 1..Len(Steps)
  BY LifecycleAssumption DEF Typed, Jobs
<1>1. CASE Decide(w)
  <2>0. InLoop(w)
    BY <1>1 DEF Decide, InLoop, Running
  <2>1. CASE AllConsidered(w)
    <3>1. PICK j : j = Goes(w, "finish", job[w].step, job[w].published, job[w].failed)
      OBVIOUS
    <3>2. j = [job[w] EXCEPT !.at = "finish"]
      BY <1>0, <3>1 DEF Jobs, Goes
    <3>3. j \in Jobs /\ Placed(j, Len(log)) /\ Moved(w, j)
      BY <1>0, <2>0, <3>1, StaysInLoop DEF Running
    <3> QED
      BY <1>1, <2>1, <3>2, <3>3 DEF Decide, Go, Acts, Logged
  <2>2. CASE ~AllConsidered(w)
    <3>1. PICK place : place = Decision(w, AllEvents)
      OBVIOUS
    <3>2. PICK pub \in BOOLEAN : pub = (Latest(AllEvents, TheStep(w), "completed") # 0)
      OBVIOUS
    <3>3. place \in {"skip", "begin"}
      BY <3>1 DEF Decision
    <3>4. PICK j : j = Goes(w, place, job[w].step, pub, job[w].failed)
      OBVIOUS
    <3>5. j = [job[w] EXCEPT !.at = place, !.published = pub]
      BY <1>0, <3>4 DEF Jobs, Goes
    <3>6. job[w].step <= job[w].req.to
      BY <1>0, <2>2 DEF AllConsidered
    <3>7. j \in Jobs /\ Placed(j, Len(log)) /\ Moved(w, j)
      BY <1>0, <2>0, <3>3, <3>4, <3>6, StaysInLoop DEF Running
    <3>8. Become(w, j) /\ log' = log
      BY <1>1, <2>2, <3>1, <3>2, <3>5 DEF Decide
    <3> QED
      BY <3>7, <3>8 DEF Acts, Logged
  <2> QED
    BY <2>1, <2>2
<1>2. CASE Skip(w)
  <2>0. InLoop(w) /\ job[w].step \in 1..Len(Steps)
    BY <1>2, StepExists DEF Skip, InLoop, Running
  <2>1. Logged
    BY <1>0, <1>2, <2>0, EventOfStep DEF Skip, Append1, TheStep, Logged
  <2>2. PICK n : n = job[w].step + 1 /\ n <= Len(Steps) + 1
    BY <2>0
  <2>3. PICK j : j = Goes(w, "decide", n, job[w].published, job[w].failed)
    OBVIOUS
  <2>4. j = [job[w] EXCEPT !.at = "decide", !.step = @ + 1]
    BY <1>0, <2>2, <2>3 DEF Jobs, Goes
  <2>5. j \in Jobs /\ Placed(j, Len(log)) /\ Moved(w, j)
    BY <1>0, <2>0, <2>2, <2>3, StaysInLoop DEF Running
  <2> QED
    BY <1>2, <2>1, <2>4, <2>5 DEF Skip, Acts
<1>3. CASE BeginStep(w)
  <2>0. InLoop(w) /\ job[w].step \in 1..Len(Steps) /\ job[w].step <= job[w].req.to
    BY <1>3, StepExists DEF BeginStep, InLoop, Running
  <2>1. Logged
    BY <1>0, <1>3, <2>0, EventOfStep DEF BeginStep, Append1, TheStep, Logged
  <2>2. PICK j : j = Goes(w, "work", job[w].step, job[w].published, job[w].failed)
    OBVIOUS
  <2>3. j = [job[w] EXCEPT !.at = "work"]
    BY <1>0, <2>2 DEF Jobs, Goes
  <2>4. j \in Jobs /\ Placed(j, Len(log)) /\ Moved(w, j)
    BY <1>0, <2>0, <2>2, StaysInLoop DEF Running
  <2> QED
    BY <1>3, <2>1, <2>3, <2>4 DEF BeginStep, Go, Acts
<1>4. CASE Record(w, o)
  <2>0. InLoop(w) /\ job[w].step \in 1..Len(Steps)
    BY <1>4, StepExists DEF Record, InLoop, Running
  <2>1. Logged
    BY <1>0, <1>4, <2>0, EventOfStep DEF Record, Append1, TheStep, Logged
  <2>2. CASE o = "failed"
    <3>1. PICK j : j = Goes(w, "finish", job[w].step, job[w].published, TRUE)
      OBVIOUS
    <3>2. j = [job[w] EXCEPT !.at = "finish", !.failed = TRUE]
      BY <1>0, <3>1 DEF Jobs, Goes
    <3>3. j \in Jobs /\ Placed(j, Len(log)) /\ Moved(w, j)
      BY <1>0, <2>0, <3>1, StaysInLoop DEF Running
    <3> QED
      BY <1>4, <2>1, <2>2, <3>2, <3>3 DEF Record, Acts
  <2>3. CASE o # "failed"
    <3>1. PICK n : n = job[w].step + 1 /\ n <= Len(Steps) + 1
      BY <2>0
    <3>2. PICK j : j = Goes(w, "decide", n, job[w].published, job[w].failed)
      OBVIOUS
    <3>3. j = [job[w] EXCEPT !.at = "decide", !.step = @ + 1]
      BY <1>0, <3>1, <3>2 DEF Jobs, Goes
    <3>4. j \in Jobs /\ Placed(j, Len(log)) /\ Moved(w, j)
      BY <1>0, <2>0, <3>1, <3>2, StaysInLoop DEF Running
    <3> QED
      BY <1>4, <2>1, <2>3, <3>3, <3>4 DEF Record, Acts
  <2> QED
    BY <2>2, <2>3
<1>5. CASE Finish(w)
  <2>1. Logged
    BY <1>0, <1>5, EventOfCycle DEF Finish, Append1, Logged, Terminals
  <2> QED
    BY <1>0, <1>5, <2>1, IdleIsPlaced DEF Finish, End, Acts, Moved
<1> QED
  BY <1>1, <1>2, <1>3, <1>4, <1>5

LEMMA AfterAFault ==
    ASSUME Typed, NEW w \in Workers, CallFails(w) \/ Crash(w)
    PROVE  Acts(w)
<1>0. /\ job[w] \in Jobs /\ Len(log) \in Nat
      /\ job[w].step \in Nat /\ job[w].step <= Len(Steps) + 1
      /\ job[w].published \in BOOLEAN
  BY LifecycleAssumption DEF Typed, Jobs
<1>1. CASE CallFails(w)
  <2>1. Appended(w) \subseteq Events
    <3>1. ASSUME NEW e \in Appended(w) PROVE e \in Events
      <4>1. CASE e.of = "cycle" /\ e.kind \in {"started"} \cup Terminals
                 /\ e = [of |-> "cycle", kind |-> e.kind, env |-> Env(w)]
        BY <1>0, <4>1, EventOfCycle
      <4>2. CASE \E n \in 1..Len(Steps) : \E k \in {"started", "skipped"} \cup Outcomes :
                    e = [of |-> Steps[n], kind |-> k, env |-> Env(w)]
        BY <1>0, <4>2, EventOfStep
      <4> QED
        BY <3>1, <4>1, <4>2, LifecycleAssumption DEF Appended, Terminals, Outcomes
    <3> QED
      BY <3>1
  <2>2. Logged
    BY <1>1, <2>1 DEF CallFails, Logged
  <2>3. CASE job[w].at \in Running \ {"finish"}
    <3>1. PICK j : j = Goes(w, "finish", job[w].step, job[w].published, TRUE)
      OBVIOUS
    <3>2. j = [job[w] EXCEPT !.at = "finish", !.failed = TRUE]
      BY <1>0, <3>1 DEF Jobs, Goes
    <3>3. j \in Jobs /\ Placed(j, Len(log)) /\ Moved(w, j)
      BY <1>0, <2>3, <3>1, StaysInLoop DEF Running, InLoop
    <3> QED
      BY <1>1, <2>2, <2>3, <3>2, <3>3 DEF CallFails, Thrown, Acts
  <2>4. CASE job[w].at \notin Running \ {"finish"}
    BY <1>0, <1>1, <2>2, <2>4, IdleIsPlaced DEF CallFails, Thrown, End, Acts, Moved
  <2> QED
    BY <2>3, <2>4
<1>2. CASE Crash(w)
  BY <1>0, <1>2, IdleIsPlaced DEF Crash, End, Acts, Moved, Logged
<1> QED
  BY <1>1, <1>2

\* Every step is that of one process, or of none.
LEMMA WhoActs ==
    ASSUME Typed, [Next]_vars
    PROVE  (\E w \in Workers : Acts(w)) \/ (Logged /\ job' = job)
<1>1. ASSUME NEW w \in Workers, NEW r \in Requests,
             Begin(w, r) \/ Detect(w) \/ EmitTimeout(w) \/ Start(w) \/ ReadBack(w) \/ Lose(w)
      PROVE  Acts(w)
  BY <1>1, BeforeTheLoop, AtTheLock
<1>2. ASSUME NEW w \in Workers, NEW o \in Outcomes,
             Decide(w) \/ Skip(w) \/ BeginStep(w) \/ Record(w, o) \/ Finish(w)
      PROVE  Acts(w)
  BY <1>2, InTheLoop
<1>3. ASSUME NEW w \in Workers, CallFails(w) \/ Crash(w)
      PROVE  Acts(w)
  BY <1>3, AfterAFault
<1>4. ASSUME NEW r \in Requests, ForceUnlock(r)
      PROVE  Logged /\ job' = job
  BY <1>4 DEF ForceUnlock, Append1, Logged, Events, Envs, Terminals
<1>5. CASE HourPasses \/ UNCHANGED vars
  BY <1>5 DEF HourPasses, vars, Logged
<1>6. Requests # {} /\ Outcomes # {}
  BY LifecycleAssumption DEF Outcomes
<1> QED
  BY <1>1, <1>2, <1>3, <1>4, <1>5, <1>6 DEF Next

LEMMA BoundsKept ==
    ASSUME Typed, [Next]_vars, Logged
    PROVE  Bounded'
<1>0. /\ Bounded /\ Len(log) \in Nat /\ Len(log') \in Nat /\ Len(log) <= Len(log')
      /\ MaxCycles \in Nat /\ MaxFaults \in Nat /\ MaxHours \in Nat
  BY LogGrows, LifecycleAssumption DEF Typed
<1>1. CASE HourPasses
  BY <1>0, <1>1 DEF HourPasses, Bounded
<1>2. CASE UNCHANGED vars
  BY <1>0, <1>2 DEF vars, Bounded
<1>3. CASE /\ UNCHANGED <<hourOld, twoHoursOld, hours>>
           /\ \/ cycles' = cycles /\ faults' = faults
              \/ cycles < MaxCycles /\ cycles' = cycles + 1 /\ faults' = faults
              \/ faults < MaxFaults /\ faults' = faults + 1 /\ cycles' = cycles
  BY <1>0, <1>3 DEF Bounded
<1>4. ASSUME NEW w \in Workers, NEW r \in Requests, NEW o \in Outcomes,
             \/ Begin(w, r) \/ Detect(w) \/ EmitTimeout(w) \/ Start(w) \/ ReadBack(w) \/ Lose(w)
             \/ Decide(w) \/ Skip(w) \/ BeginStep(w) \/ Record(w, o) \/ Finish(w)
             \/ CallFails(w) \/ Crash(w) \/ ForceUnlock(r)
      PROVE  Bounded'
  BY <1>3, <1>4 DEF Begin, Detect, EmitTimeout, Start, ReadBack, Lose, Decide, Skip, BeginStep,
                    Record, Finish, CallFails, Crash, ForceUnlock, Frame
<1>5. CASE \E r \in Requests : ForceUnlock(r)
  BY <1>3, <1>5 DEF ForceUnlock, Frame
<1>6. Requests # {} /\ Outcomes # {}
  BY LifecycleAssumption DEF Outcomes
<1> QED
  BY <1>1, <1>2, <1>4, <1>5, <1>6 DEF Next

LEMMA TypesKept ==
    ASSUME Typed, [Next]_vars
    PROVE  Typed' /\ Logged
<1>1. Logged
  BY WhoActs DEF Acts
<1>2. log' \in Seq(Events) /\ Len(log) \in Nat /\ Len(log') \in Nat /\ Len(log) <= Len(log')
  BY <1>1, LogGrows DEF Typed
<1>3. ASSUME NEW j, Placed(j, Len(log)) PROVE Placed(j, Len(log'))
  BY <1>2, <1>3 DEF Placed, Jobs
<1>4. Bounded'
  BY <1>1, BoundsKept
<1>5. job' \in [Workers -> Jobs] /\ \A w \in Workers : Placed(job'[w], Len(log'))
  <2>1. CASE job' = job
    BY <1>3, <2>1 DEF Typed
  <2>2. ASSUME NEW w \in Workers, Acts(w)
        PROVE  job' \in [Workers -> Jobs] /\ \A u \in Workers : Placed(job'[u], Len(log'))
    <3>1. PICK j \in Jobs : Become(w, j) /\ Placed(j, Len(log))
      BY <2>2 DEF Acts
    <3> QED
      BY <1>3, <3>1 DEF Typed, Become
  <2> QED
    BY <2>1, <2>2, WhoActs
<1> QED
  BY <1>1, <1>2, <1>4, <1>5 DEF Typed, Placed, Jobs, Places, Running

-----------------------------------------------------------------------------
(* The race. *)

\* A cycle at work has its started event among those that a query shows.
Shown(v) == InLoop(v) => job[v].mine \in Starts(CycleEvents)

\* The events that were there when it got the lock, after its own, are of no
\* active cycle.
Newer(v) == InLoop(v) => \A i \in (job[v].mine + 1)..job[v].won : i \notin Live

\* The second conjunct of RaceHasOneWinner.
Ordered == \A v, w \in Workers :
    InLoop(v) /\ InLoop(w) /\ job[v].mine < job[w].mine => job[v].won < job[w].mine

CycleInv ==
    /\ Typed
    /\ \A v \in Workers : Shown(v) /\ Newer(v)
    /\ Ordered

\* A job as it was before the step, or one that has just won.
LEMMA InLoopBefore ==
    ASSUME Typed, [Next]_vars, NEW v \in Workers, InLoop(v)'
    PROVE  \/ InLoop(v) /\ job'[v].mine = job[v].mine /\ job'[v].won = job[v].won
           \/ /\ job[v].at = "readback" /\ Wins(v) /\ log' = log
              /\ job'[v].mine = job[v].mine /\ job'[v].won = Len(log)
              /\ \A u \in Workers \ {v} : job'[u] = job[u]
<1>1. CASE job' = job
  BY <1>1 DEF InLoop
<1>2. ASSUME NEW w \in Workers, Acts(w)
      PROVE  \/ InLoop(v) /\ job'[v].mine = job[v].mine /\ job'[v].won = job[v].won
             \/ /\ job[v].at = "readback" /\ Wins(v) /\ log' = log
                /\ job'[v].mine = job[v].mine /\ job'[v].won = Len(log)
                /\ \A u \in Workers \ {v} : job'[u] = job[u]
  <2>1. PICK j \in Jobs : Become(w, j) /\ Moved(w, j)
    BY <1>2 DEF Acts
  <2>2. job \in [Workers -> Jobs]
    BY DEF Typed
  <2>3. CASE v = w
    BY <2>1, <2>2, <2>3 DEF Become, Moved, InLoop, Running
  <2>4. CASE v # w
    BY <2>1, <2>2, <2>4 DEF Become, InLoop, Running
  <2> QED
    BY <2>3, <2>4
<1> QED
  BY <1>1, <1>2, WhoActs

LEMMA SameLogSameQuery ==
    ASSUME log' = log
    PROVE  CycleEvents' = CycleEvents /\ Starts(CycleEvents)' = Starts(CycleEvents) /\ Live' = Live
BY DEF CycleEvents, Oldest, Of, Starts, Live, Active, Terminals

LEMMA RaceKept ==
    ASSUME CycleInv, [Next]_vars
    PROVE  CycleInv'
<1>0. Typed /\ Typed' /\ Logged /\ log \in Seq(Events) /\ Len(log) \in Nat
  BY TypesKept DEF CycleInv, Typed
<1>1. ASSUME NEW v \in Workers, InLoop(v)
      PROVE  /\ job[v].mine \in 1..job[v].won /\ job[v].won \in Nat /\ job[v].won <= Len(log)
             /\ job[v].mine \in 1..Len(log)
  BY <1>0, <1>1 DEF Typed, Placed, InLoop, Jobs
<1>2. ASSUME NEW v \in Workers, job[v].at = "readback", Wins(v)
      PROVE  /\ job[v].mine \in Live /\ job[v].mine \in 1..Len(log)
             /\ \A i \in Live : i <= job[v].mine
  <2>1. job[v].mine >= 1 /\ job[v].mine \in Nat
    BY <1>0, <1>2 DEF Typed, Placed, Jobs
  <2> QED
    BY <1>0, <1>2, <2>1, WinnerIsNewest
<1>3. ASSUME NEW v \in Workers
      PROVE  Shown(v)'
  <2>1. CASE InLoop(v) /\ job'[v].mine = job[v].mine
    <3>1. PICK i \in 1..Len(log) : i = job[v].mine
      BY <1>1, <2>1
    <3>2. i \in CycleEvents /\ log[i].kind = "started"
      BY <2>1, <3>1 DEF CycleInv, Shown, Starts
    <3>3. i \in CycleEvents' /\ log'[i] = log[i]
      BY <1>0, <3>1, <3>2, ShownStaysShown, LogGrows
    <3> QED
      BY <2>1, <3>1, <3>2, <3>3 DEF Shown, Starts
  <2>2. CASE /\ job[v].at = "readback" /\ Wins(v) /\ log' = log
             /\ job'[v].mine = job[v].mine
    BY <1>2, <2>2, SameLogSameQuery DEF Shown, Live, Active
  <2> QED
    BY <1>0, <2>1, <2>2, InLoopBefore DEF Shown
<1>4. ASSUME NEW v \in Workers
      PROVE  Newer(v)'
  <2>1. CASE InLoop(v) /\ job'[v].mine = job[v].mine /\ job'[v].won = job[v].won
    <3>1. ASSUME NEW i \in (job[v].mine + 1)..job[v].won
          PROVE  i \notin Live'
      <4>1. i \in 1..Len(log)
        BY <1>1, <2>1
      <4>2. i \notin Live
        BY <2>1 DEF CycleInv, Newer
      <4> QED
        BY <1>0, <4>1, <4>2, EndedStaysEnded
    <3> QED
      BY <2>1, <3>1 DEF Newer
  <2>2. CASE /\ job[v].at = "readback" /\ Wins(v) /\ log' = log
             /\ job'[v].mine = job[v].mine /\ job'[v].won = Len(log)
    <3>1. ASSUME NEW i \in (job[v].mine + 1)..Len(log)
          PROVE  i \notin Live'
      BY <1>0, <1>2, <2>2, SameLogSameQuery
    <3> QED
      BY <2>2, <3>1 DEF Newer
  <2> QED
    BY <1>0, <2>1, <2>2, InLoopBefore DEF Newer
<1>5. ASSUME NEW v \in Workers, NEW w \in Workers, InLoop(v)', InLoop(w)',
             job'[v].mine < job'[w].mine
      PROVE  job'[v].won < job'[w].mine
  <2>1. CASE InLoop(v) /\ InLoop(w) /\ job'[v].mine = job[v].mine /\ job'[v].won = job[v].won
             /\ job'[w].mine = job[w].mine
    BY <1>5, <2>1 DEF CycleInv, Ordered
  <2>2. CASE /\ job[v].at = "readback" /\ Wins(v) /\ job'[v].mine = job[v].mine
             /\ InLoop(w) /\ job'[w].mine = job[w].mine
    <3>1. job[w].mine \in Starts(CycleEvents)
      BY <2>2 DEF CycleInv, Shown
    <3>2. job[v].mine \in Live /\ job[v].mine < job[w].mine
      BY <1>2, <1>5, <2>2
    <3>3. \A j \in CycleEvents : j \in Nat
      BY DEF CycleEvents, Oldest, Of
    <3>4. job[v].mine \in Nat /\ job[w].mine \in Nat
      BY <1>1, <1>2, <2>2
    <3>5. job[w].mine \in Live
      BY <3>1, <3>2, <3>3, <3>4 DEF Live, Active
    <3> QED
      BY <1>2, <2>2, <3>2, <3>4, <3>5
  <2>3. CASE /\ job[w].at = "readback" /\ Wins(w) /\ job'[w].mine = job[w].mine
             /\ InLoop(v) /\ job'[v].mine = job[v].mine /\ job'[v].won = job[v].won
    <3>1. job[w].mine \in Live /\ job[w].mine \in 1..Len(log)
      BY <1>2, <2>3
    <3>2. job[w].mine \notin (job[v].mine + 1)..job[v].won
      BY <2>3, <3>1 DEF CycleInv, Newer
    <3> QED
      BY <1>1, <1>5, <2>3, <3>1, <3>2
  <2>4. v # w
    BY <1>0, <1>1, <1>2, <1>5, InLoopBefore
  <2>5. CASE job[v].at = "readback"
    BY <1>0, <1>5, <2>2, <2>4, <2>5, InLoopBefore DEF InLoop, Running
  <2>6. CASE job[v].at # "readback" /\ job[w].at = "readback"
    BY <1>0, <1>5, <2>3, <2>6, InLoopBefore DEF InLoop, Running
  <2>7. CASE job[v].at # "readback" /\ job[w].at # "readback"
    BY <1>0, <1>5, <2>1, <2>7, InLoopBefore
  <2> QED
    BY <2>5, <2>6, <2>7
<1>6. Ordered'
  BY <1>5 DEF Ordered
<1> QED
  BY <1>0, <1>3, <1>4, <1>6 DEF CycleInv

LEMMA Initially == Init => CycleInv
<1> SUFFICES ASSUME Init PROVE CycleInv
  OBVIOUS
<1>1. log \in Seq(Events) /\ cycles \in 0..MaxCycles /\ Len(log) \in Nat
  BY LifecycleAssumption DEF Init
<1>2. Placed(Idle, Len(log)) /\ Idle \in Jobs /\ Idle.at \notin Running
  BY <1>1, IdleIsPlaced
<1>3. \A w \in Workers : job[w] = Idle
  BY DEF Init
<1>4. Bounded
  BY <1>1, LifecycleAssumption DEF Init, Bounded
<1>5. job \in [Workers -> Jobs]
  BY <1>2 DEF Init
<1> QED
  BY <1>1, <1>2, <1>3, <1>4, <1>5 DEF CycleInv, Typed, Shown, Newer, Ordered, InLoop

\* The inductive invariant of the cycles.
THEOREM CycleInvariant == Spec => []CycleInv
  BY Initially, RaceKept, PTL DEF Spec

\* Two cycles that are begun before either has read the lock back are never
\* both run, however many processes, crashes and lost answers there are.
THEOREM OneWinner == Spec => []RaceHasOneWinner
<1>1. ASSUME CycleInv PROVE RaceHasOneWinner
  <2>1. ASSUME NEW w \in Workers, job[w].at \in Running
        PROVE  /\ job[w].mine \in 1..job[w].won /\ job[w].won <= Len(log)
               /\ log[job[w].mine].of = "cycle" /\ log[job[w].mine].kind = "started"
               /\ job[w].at \in Running \ {"decide", "finish"} => job[w].step <= job[w].req.to
    <3>1. job[w].mine \in Starts(CycleEvents)
      BY <1>1, <2>1 DEF CycleInv, Shown, InLoop
    <3> QED
      BY <1>1, <2>1, <3>1 DEF CycleInv, Typed, Placed, Starts, CycleEvents, Oldest, Of
  <2>2. TypeOK
    BY <1>1, <2>1 DEF TypeOK, CycleInv, Typed, Bounded
  <2> QED
    BY <1>1, <2>2 DEF RaceHasOneWinner, CycleInv, Ordered
<1> QED
  BY <1>1, CycleInvariant, PTL

-----------------------------------------------------------------------------
(* What the loop makes of the log. *)

\* How many events a query of all events shows.
Seen == IF Len(log) < StepLimit THEN Len(log) ELSE StepLimit

\* Step n is one that the cycle of w need not stop at.
Covered(w, n) ==
    LET v == Verdict(AllEvents, Steps[n], job[w].mine)
    IN  CameOutWell(Steps[n], v, job[w].mine) \/ BegunLately(Steps[n], v, job[w].aged)

Progress(w) ==
    /\ InLoop(w) => job[w].aged <= hourOld
    /\ InLoop(w) => \A n \in job[w].req.from..(job[w].step - 1) : Covered(w, n)
    /\ job[w].at = "skip" => Covered(w, job[w].step)
    /\ job[w].at = "finish" /\ ~job[w].failed => AllConsidered(w)

\* A verdict that would have made the step unnecessary is news to w.
News(w) ==
    LET v == Verdict(AllEvents, TheStep(w), Len(log) + 1)
    IN  v # 0 /\ log[v].kind = "completed" /\ log[v].env = Env(w) => v > job[w].mine

Needed(w) == job[w].at = "begin" /\ TheStep(w) \notin job[w].req.force => News(w)

\* The actions of the two action properties.
CoveredAtTheEnd ==
    \A w \in Workers : CycleCompletes(w) => \A n \in job[w].req.from..job[w].req.to : Covered(w, n)

BegunForNews ==
    \A w \in Workers :
        job[w].at = "begin" /\ job'[w].at = "work" /\ TheStep(w) \notin job[w].req.force
        => News(w)

LoopInv == CycleInv /\ \A w \in Workers : Progress(w) /\ Needed(w)

LEMMA NewestOrNone ==
    ASSUME NEW n \in Nat, NEW S \in SUBSET (1..n)
    PROVE  /\ Newest(S) \in 0..n
           /\ Newest(S) # 0 => Newest(S) \in S
           /\ \A j \in S : j <= Newest(S)
<1>1. CASE S = {}
  <2>1. Newest(S) = 0
    BY <1>1 DEF Newest
  <2> QED
    BY <1>1, <2>1
<1>2. CASE S # {}
  <2>1. Newest(S) \in S /\ \A j \in S : j <= Newest(S)
    BY <1>2, NewestIsLast
  <2>2. Newest(S) \in 1..n
    BY <2>1
  <2> QED
    BY <2>1, <2>2
<1> QED
  BY <1>1, <1>2

LEMMA OldestOfAll ==
    ASSUME NEW n \in Nat, NEW k \in Nat
    PROVE  Oldest(k, 1..n) = 1..(IF n < k THEN n ELSE k)
<1>1. PICK m \in 0..n : m = IF n < k THEN n ELSE k
  OBVIOUS
<1>2. ASSUME NEW i \in 1..n
      PROVE  i \in Oldest(k, 1..n) <=> i <= k
  <2>1. {j \in 1..n : j <= i} = 1..i
    OBVIOUS
  <2>2. Cardinality(1..i) = i
    BY FS_Interval
  <2>3. Cardinality({j \in 1..n : j <= i}) = i
    BY <2>1, <2>2
  <2> QED
    BY <2>3 DEF Oldest
<1>3. Oldest(k, 1..n) \subseteq 1..n
  BY DEF Oldest
<1>4. ASSUME NEW i PROVE i \in Oldest(k, 1..n) <=> i \in 1..m
  <2>1. i \in 1..m <=> i \in 1..n /\ i <= k
    BY <1>1
  <2> QED
    BY <1>2, <1>3, <2>1, Zenon
<1> QED
  BY <1>1, <1>4

LEMMA TheOldestAreShown ==
    ASSUME log \in Seq(Events)
    PROVE  AllEvents = 1..Seen /\ Seen \in 0..Len(log)
<1>1. Len(log) \in Nat /\ StepLimit \in Nat
  BY LifecycleAssumption
<1> QED
  BY <1>1, OldestOfAll DEF AllEvents, Seen

\* Only events that come later join those a query shows.
LEMMA MoreIsShown ==
    ASSUME log \in Seq(Events), Logged
    PROVE  /\ Seen \in 0..Len(log) /\ Seen' \in 0..Len(log') /\ Seen <= Seen'
           /\ AllEvents = 1..Seen /\ AllEvents' = 1..Seen'
           /\ \A i \in 1..Len(log) : i <= Seen' => i <= Seen
<1>1. Len(log) \in Nat /\ Len(log') \in Nat /\ Len(log) <= Len(log')
  BY LogGrows
<1>2. AllEvents' = 1..Seen' /\ Seen' \in 0..Len(log')
  BY <1>1, LifecycleAssumption, OldestOfAll DEF AllEvents, Seen
<1>3. AllEvents = 1..Seen /\ Seen \in 0..Len(log)
  BY TheOldestAreShown
<1>4. Seen <= Seen' /\ \A i \in 1..Len(log) : i <= Seen' => i <= Seen
  BY <1>1, LifecycleAssumption DEF Seen
<1> QED
  BY <1>2, <1>3, <1>4

\* Verdict(S, s, i) in the log l.
VerdictOf(l, S, s, i) ==
    Newest({j \in S : j < i /\ l[j].of = s /\ l[j].kind \in {"completed", "failed"}})

LEMMA VerdictOfIsLast ==
    ASSUME NEW l, NEW n \in Nat, NEW s, NEW i \in Nat
    PROVE  LET v == VerdictOf(l, 1..n, s, i)
           IN  /\ v \in 0..n
               /\ v # 0 => v < i /\ l[v].of = s /\ l[v].kind \in {"completed", "failed"}
               /\ \A j \in 1..n :
                     j < i /\ l[j].of = s /\ l[j].kind \in {"completed", "failed"} => j <= v
<1> DEFINE S == {j \in 1..n : j < i /\ l[j].of = s /\ l[j].kind \in {"completed", "failed"}}
<1>1. S \in SUBSET (1..n)
  OBVIOUS
<1>2. VerdictOf(l, 1..n, s, i) = Newest(S)
  BY DEF VerdictOf
<1>3. /\ Newest(S) \in 0..n
      /\ Newest(S) # 0 => Newest(S) \in S
      /\ \A j \in S : j <= Newest(S)
  <2> HIDE DEF S
  <2> QED
    BY <1>1, NewestOrNone
<1> QED
  BY <1>2, <1>3

\* The verdict is the last one that a query shows before i.
LEMMA VerdictIsLast ==
    ASSUME log \in Seq(Events), NEW s, NEW i \in Nat
    PROVE  LET v == Verdict(AllEvents, s, i)
           IN  /\ v \in 0..Seen
               /\ v # 0 => v < i /\ log[v].of = s /\ log[v].kind \in {"completed", "failed"}
               /\ \A j \in 1..Seen :
                     j < i /\ log[j].of = s /\ log[j].kind \in {"completed", "failed"} => j <= v
<1>1. AllEvents = 1..Seen /\ Seen \in Nat
  BY TheOldestAreShown
<1>2. Verdict(AllEvents, s, i) = VerdictOf(log, 1..Seen, s, i)
  BY <1>1 DEF Verdict, VerdictOf
<1> QED
  BY <1>1, <1>2, VerdictOfIsLast

\* The last event of a kind that a query shows.
LEMMA LatestIsLast ==
    ASSUME log \in Seq(Events), NEW s, NEW kind
    PROVE  LET i == Latest(AllEvents, s, kind)
           IN  /\ i \in 0..Seen
               /\ i # 0 => log[i].of = s /\ log[i].kind = kind
               /\ \A j \in 1..Seen : log[j].of = s /\ log[j].kind = kind => j <= i
<1> DEFINE S == {j \in 1..Seen : log[j].of = s /\ log[j].kind = kind}
<1>1. AllEvents = 1..Seen /\ Seen \in Nat
  BY TheOldestAreShown
<1>2. Latest(AllEvents, s, kind) = Newest(S)
  BY <1>1 DEF Latest
<1>3. /\ Newest(S) \in 0..Seen
      /\ Newest(S) # 0 => Newest(S) \in S
      /\ \A j \in S : j <= Newest(S)
  <2>1. S \in SUBSET (1..Seen)
    OBVIOUS
  <2> HIDE DEF S
  <2> QED
    BY <1>1, <2>1, NewestOrNone
<1> QED
  BY <1>2, <1>3

\* Verdicts on the past are final, as far as queries show them.
LEMMA VerdictStands ==
    ASSUME log \in Seq(Events), Logged, NEW s, NEW i \in 1..(Len(log) + 1)
    PROVE  Verdict(AllEvents, s, i)' = Verdict(AllEvents, s, i)
<1>1. \A j \in 1..Len(log) : log'[j] = log[j]
  BY LogGrows
<1>2. /\ Len(log) \in Nat /\ Seen \in 0..Len(log) /\ Seen' \in Nat /\ Seen <= Seen'
      /\ AllEvents = 1..Seen /\ AllEvents' = 1..Seen'
      /\ \A j \in 1..Len(log) : j <= Seen' => j <= Seen
  BY MoreIsShown, LogGrows
<1> DEFINE S == {j \in 1..Seen : j < i /\ log[j].of = s /\ log[j].kind \in {"completed", "failed"}}
           T == {j \in 1..Seen' : j < i /\ log'[j].of = s
                                  /\ log'[j].kind \in {"completed", "failed"}}
<1>3. T = S
  BY <1>1, <1>2
<1>4. Verdict(AllEvents, s, i) = Newest(S)
  BY <1>2 DEF Verdict
<1>5. Verdict(AllEvents, s, i)' = Newest(T)
  BY <1>2 DEF Verdict, Newest
<1> QED
  BY <1>3, <1>4, <1>5

\* A cycle passes only those steps over that it need not stop at.
LEMMA SkipsTheCovered ==
    ASSUME CycleInv, NEW w \in Workers, Progress(w), job[w].at = "decide", ~AllConsidered(w),
           Decision(w, AllEvents) = "skip"
    PROVE  Covered(w, job[w].step)
<1> DEFINE s == TheStep(w)
<1> DEFINE v == Verdict(AllEvents, s, job[w].mine)
<1> DEFINE c == Latest(AllEvents, s, "completed")
<1> DEFINE f == Latest(AllEvents, s, "failed")
<1> DEFINE b == Latest(AllEvents, s, "started")
<1>1. /\ log \in Seq(Events) /\ Len(log) \in Nat /\ job[w].mine \in Nat
      /\ Seen \in 0..Len(log) /\ job[w].aged \in Nat /\ hourOld \in Nat
  BY TheOldestAreShown DEF CycleInv, Typed, Bounded, Jobs
<1>2. job[w].aged <= hourOld
  BY DEF Progress, InLoop, Running
<1>3. /\ v \in 0..Seen
      /\ v # 0 => /\ v < job[w].mine /\ log[v].of = s
                  /\ log[v].kind \in {"completed", "failed"}
      /\ \A j \in 1..Seen :
            j < job[w].mine /\ log[j].of = s /\ log[j].kind \in {"completed", "failed"} => j <= v
  <2> HIDE DEF s
  <2> QED
    BY <1>1, VerdictIsLast
<1>4. /\ c \in 0..Seen
      /\ c # 0 => log[c].of = s /\ log[c].kind = "completed"
      /\ \A j \in 1..Seen : log[j].of = s /\ log[j].kind = "completed" => j <= c
  <2> HIDE DEF s
  <2> QED
    BY <1>1, LatestIsLast
<1>5. f \in 0..Seen /\ \A j \in 1..Seen : log[j].of = s /\ log[j].kind = "failed" => j <= f
  <2> HIDE DEF s
  <2> QED
    BY <1>1, LatestIsLast
<1>6. b \in 0..Seen /\ (b # 0 => log[b].of = s /\ log[b].kind = "started")
  <2> HIDE DEF s
  <2> QED
    BY <1>1, LatestIsLast
<1>7. c > f \/ (c = 0 /\ f = 0 /\ b > hourOld)
  BY DEF Decision
<1>8. Covered(w, job[w].step) <=> CameOutWell(s, v, job[w].mine) \/ BegunLately(s, v, job[w].aged)
  BY DEF Covered, TheStep
<1> HIDE DEF s, v, c, f, b
<1>9. CASE c > f
  <2>1. c \in 1..Len(log) /\ log[c].of = s /\ log[c].kind = "completed"
    BY <1>1, <1>4, <1>5, <1>9
  <2>2. ASSUME v # 0, log[v].kind = "failed"
        PROVE  c >= job[w].mine
    <3>1. v <= f
      BY <1>1, <1>3, <1>5, <2>2
    <3> QED
      BY <1>1, <1>3, <1>4, <1>5, <1>9, <2>1, <3>1
  <2>3. CameOutWell(s, v, job[w].mine)
    BY <2>1, <2>2 DEF CameOutWell
  <2> QED
    BY <1>8, <2>3
<1>10. CASE c = 0 /\ f = 0 /\ b > hourOld
  <2>1. v = 0
    BY <1>1, <1>3, <1>4, <1>5, <1>10
  <2>2. b \in (job[w].aged + 1)..Len(log) /\ log[b].of = s /\ log[b].kind = "started"
    BY <1>1, <1>2, <1>6, <1>10
  <2>3. BegunLately(s, v, job[w].aged)
    BY <2>1, <2>2 DEF BegunLately
  <2> QED
    BY <1>8, <2>3
<1> QED
  BY <1>7, <1>9, <1>10

\* A cycle begins no step that it sees is done.
LEMMA BeginsTheNeeded ==
    ASSUME CycleInv, NEW w \in Workers,
           Decision(w, AllEvents) = "begin", TheStep(w) \notin job[w].req.force
    PROVE  News(w)
<1> DEFINE s == TheStep(w)
<1> DEFINE v == Verdict(AllEvents, s, Len(log) + 1)
<1> DEFINE c == Latest(AllEvents, s, "completed")
<1> DEFINE f == Latest(AllEvents, s, "failed")
<1>1. log \in Seq(Events) /\ Len(log) \in Nat /\ Seen \in 0..Len(log)
  BY TheOldestAreShown DEF CycleInv, Typed
<1>2. SUFFICES ASSUME v # 0, log[v].kind = "completed", log[v].env = Env(w)
               PROVE  FALSE
  BY DEF News
<1>3. /\ v \in 1..Seen /\ log[v].of = s
      /\ \A j \in 1..Seen :
            j < Len(log) + 1 /\ log[j].of = s /\ log[j].kind \in {"completed", "failed"} => j <= v
  <2> HIDE DEF s
  <2>1. Len(log) + 1 \in Nat
    BY <1>1
  <2> QED
    BY <1>1, <1>2, <2>1, VerdictIsLast
<1>4. /\ c \in 0..Seen /\ v <= c
      /\ c # 0 => log[c].of = s /\ log[c].kind = "completed"
  <2> HIDE DEF s
  <2> QED
    BY <1>1, <1>2, <1>3, LatestIsLast
<1>5. /\ f \in 0..Seen
      /\ f # 0 => log[f].of = s /\ log[f].kind = "failed"
  <2> HIDE DEF s
  <2> QED
    BY <1>1, LatestIsLast
<1>6. ~(c > f /\ log[c].env = Env(w))
  BY DEF Decision
<1> HIDE DEF s, v, c, f
<1>7. c = v
  BY <1>1, <1>3, <1>4
<1>8. f < v
  BY <1>1, <1>2, <1>3, <1>5
<1> QED
  BY <1>2, <1>4, <1>5, <1>6, <1>7, <1>8

-----------------------------------------------------------------------------
(* The steps of the loop. *)

Keeps(w) ==
    job'[w].req = job[w].req /\ job'[w].mine = job[w].mine /\ job'[w].aged = job[w].aged

\* What the job of w becomes.
Enters(w) ==
    /\ job[w].at = "readback" /\ job'[w].at = "decide"
    /\ job'[w].req = job[w].req /\ job'[w].step = job[w].req.from
    /\ job'[w].aged = hourOld

Considers(w) ==
    /\ job[w].at = "decide" /\ ~AllConsidered(w) /\ job'[w].at = Decision(w, AllEvents)
    /\ Keeps(w) /\ job'[w].step = job[w].step /\ log' = log

Leaves(w) ==
    /\ job[w].at = "decide" /\ AllConsidered(w) /\ job'[w].at = "finish"
    /\ Keeps(w) /\ job'[w].step = job[w].step

Passes(w) ==
    /\ job[w].at = "skip" /\ job'[w].at = "decide"
    /\ Keeps(w) /\ job'[w].step = job[w].step + 1

Works(w) ==
    /\ InLoop(w) /\ job'[w].at = "work"
    /\ Keeps(w) /\ job'[w].step = job[w].step

Succeeds(w) ==
    /\ job[w].at = "work" /\ job'[w].at = "decide"
    /\ Keeps(w) /\ job'[w].step = job[w].step + 1
    /\ \E o \in {"completed", "unchanged"} : Append1(TheStep(w), o, Env(w))

GivesUp(w) ==
    /\ InLoop(w) /\ job'[w].at = "finish" /\ job'[w].failed
    /\ Keeps(w) /\ job'[w].step = job[w].step

LoopStep(w) ==
    \/ job'[w] = job[w] \/ job'[w].at \notin Running
    \/ Enters(w) \/ Considers(w) \/ Leaves(w) \/ Passes(w) \/ Works(w)
    \/ Succeeds(w) \/ GivesUp(w)

LEMMA JobGoes ==
    ASSUME Typed, NEW w \in Workers, NEW place, Go(w, place)
    PROVE  job'[w].at = place /\ job'[w].step = job[w].step /\ Keeps(w)
<1>1. job'[w] = [job[w] EXCEPT !.at = place]
  BY DEF Go, Become, Typed
<1> QED
  BY <1>1 DEF Typed, Jobs, Keeps

LEMMA LoopSteps ==
    ASSUME Typed, [Next]_vars, NEW w \in Workers
    PROVE  LoopStep(w)
<1>0. job[w] \in Jobs /\ job \in [Workers -> Jobs]
  BY DEF Typed
<1>1. CASE job' = job
  BY <1>1 DEF LoopStep
<1>2. ASSUME NEW v \in Workers \ {w}, NEW j, Become(v, j)
      PROVE  LoopStep(w)
  BY <1>0, <1>2 DEF LoopStep, Become
<1>3. ASSUME NEW r \in Requests,
             Begin(w, r) \/ Detect(w) \/ EmitTimeout(w) \/ Start(w) \/ ReadBack(w) \/ Lose(w)
      PROVE  LoopStep(w)
  <2>1. CASE Begin(w, r) \/ Lose(w)
    <3>1. job'[w] = NewJob("detect", r) \/ job'[w] = Idle
      BY <1>0, <2>1 DEF Begin, Lose, End, Become
    <3>2. job'[w].at = "detect" \/ job'[w].at = "idle"
      BY <3>1 DEF Idle, NewJob
    <3> QED
      BY <3>2 DEF LoopStep, Running
  <2>2. CASE Detect(w) \/ EmitTimeout(w) \/ Start(w)
    <3>1. CASE Start(w)
      BY <1>0, <3>1 DEF Start, Become, Jobs, LoopStep, Running
    <3>2. ASSUME NEW place \in {"emit", "start"}, Go(w, place)
          PROVE  LoopStep(w)
      BY <3>2, JobGoes DEF LoopStep, Running
    <3> QED
      BY <2>2, <3>1, <3>2 DEF Detect, EmitTimeout
  <2>3. CASE ReadBack(w) /\ Wins(w)
    <3>1. job'[w] = [job[w] EXCEPT !.at = "decide", !.step = job[w].req.from,
                                   !.won = Len(log), !.aged = hourOld]
      BY <1>0, <2>3 DEF ReadBack, Become
    <3>2. /\ job'[w].at = "decide" /\ job'[w].step = job[w].req.from
          /\ job'[w].req = job[w].req /\ job'[w].aged = hourOld
      BY <1>0, <3>1 DEF Jobs
    <3> QED
      BY <2>3, <3>2 DEF ReadBack, LoopStep, Enters
  <2>4. CASE ReadBack(w) /\ ~Wins(w)
    BY <2>4, JobGoes DEF ReadBack, LoopStep, Running
  <2> QED
    BY <1>3, <2>1, <2>2, <2>3, <2>4
<1>4. ASSUME Decide(w)
      PROVE  LoopStep(w)
  <2>1. CASE AllConsidered(w)
    BY <1>4, <2>1, JobGoes DEF Decide, LoopStep, Leaves
  <2>2. CASE ~AllConsidered(w)
    <3>1. PICK place : place = Decision(w, AllEvents)
      OBVIOUS
    <3>2. PICK pub : pub = (Latest(AllEvents, TheStep(w), "completed") # 0)
      OBVIOUS
    <3>3. Become(w, [job[w] EXCEPT !.at = place, !.published = pub]) /\ log' = log
      BY <1>4, <2>2, <3>1, <3>2 DEF Decide
    <3>4. /\ job'[w].at = place /\ job'[w].step = job[w].step
          /\ Keeps(w)
      BY <1>0, <3>3 DEF Become, Jobs, Keeps
    <3> QED
      BY <1>4, <2>2, <3>1, <3>3, <3>4 DEF Decide, LoopStep, Considers
  <2> QED
    BY <2>1, <2>2
<1>5. ASSUME NEW o \in Outcomes, Skip(w) \/ BeginStep(w) \/ Record(w, o) \/ Finish(w)
      PROVE  LoopStep(w)
  <2>1. CASE Skip(w)
    BY <1>0, <2>1 DEF Skip, Become, Jobs, LoopStep, Passes, Keeps
  <2>2. CASE BeginStep(w)
    BY <2>2, JobGoes DEF BeginStep, LoopStep, Works, InLoop, Running
  <2>3. CASE Record(w, o) /\ o = "failed"
    <3>1. job'[w] = [job[w] EXCEPT !.at = "finish", !.failed = TRUE]
      BY <1>0, <2>3 DEF Record, Become
    <3>2. job'[w].at = "finish" /\ job'[w].failed /\ job'[w].step = job[w].step /\ Keeps(w)
      BY <1>0, <3>1 DEF Jobs, Keeps
    <3>3. InLoop(w)
      BY <2>3 DEF Record, InLoop, Running
    <3> QED
      BY <3>2, <3>3 DEF LoopStep, GivesUp
  <2>4. CASE Record(w, o) /\ o # "failed"
    <3>1. o \in {"completed", "unchanged"}
      BY <2>4 DEF Outcomes
    <3>2. Become(w, [job[w] EXCEPT !.at = "decide", !.step = @ + 1])
      BY <2>4 DEF Record
    <3>3. job'[w].at = "decide" /\ job'[w].step = job[w].step + 1 /\ Keeps(w)
      BY <1>0, <3>2 DEF Become, Jobs, Keeps
    <3> QED
      BY <2>4, <3>1, <3>3 DEF Record, LoopStep, Succeeds
  <2>5. CASE Finish(w)
    BY <1>0, <2>5 DEF Finish, End, Idle, NewJob, Become, LoopStep, Running
  <2> QED
    BY <1>5, <2>1, <2>2, <2>3, <2>4, <2>5
<1>6. ASSUME CallFails(w) \/ Crash(w)
      PROVE  LoopStep(w)
  <2>1. CASE End(w)
    BY <1>0, <2>1 DEF End, Idle, NewJob, Become, LoopStep, Running
  <2>2. CASE /\ job[w].at \in Running \ {"finish"}
             /\ Become(w, [job[w] EXCEPT !.at = "finish", !.failed = TRUE])
    BY <1>0, <2>2 DEF Become, Jobs, LoopStep, GivesUp, Keeps, InLoop
  <2> QED
    BY <1>6, <2>1, <2>2 DEF CallFails, Thrown, Crash
<1>7. ASSUME NEW v \in Workers \ {w}, Acts(v)
      PROVE  LoopStep(w)
  BY <1>2, <1>7 DEF Acts
<1>8. ASSUME NEW v \in Workers \ {w}, NEW r \in Requests, NEW o \in Outcomes,
             \/ Begin(v, r) \/ Detect(v) \/ EmitTimeout(v) \/ Start(v) \/ ReadBack(v) \/ Lose(v)
             \/ Decide(v) \/ Skip(v) \/ BeginStep(v) \/ Record(v, o) \/ Finish(v)
             \/ CallFails(v) \/ Crash(v)
      PROVE  LoopStep(w)
  BY <1>7, <1>8, BeforeTheLoop, AtTheLock, InTheLoop, AfterAFault
<1>9. CASE HourPasses \/ UNCHANGED vars \/ \E r \in Requests : ForceUnlock(r)
  BY <1>1, <1>9 DEF HourPasses, ForceUnlock, vars
<1>10. Requests # {} /\ Outcomes # {}
  BY LifecycleAssumption DEF Outcomes
<1>11. CASE \E v \in Workers : \/ \E r \in Requests : Begin(v, r)
                               \/ Detect(v) \/ EmitTimeout(v) \/ Start(v) \/ ReadBack(v) \/ Lose(v)
                               \/ Decide(v) \/ Skip(v) \/ BeginStep(v) \/ Finish(v)
                               \/ \E o \in Outcomes : Record(v, o)
                               \/ CallFails(v) \/ Crash(v)
  BY <1>3, <1>4, <1>5, <1>6, <1>8, <1>10, <1>11
<1> QED
  BY <1>9, <1>11 DEF Next

\* Time does not run back.
LEMMA TimePasses ==
    ASSUME Typed, [Next]_vars
    PROVE  hourOld \in Nat /\ hourOld <= hourOld'
<1>1. hourOld \in 0..Len(log) /\ Len(log) \in Nat
  BY DEF Typed, Bounded
<1>2. CASE HourPasses
  BY <1>1, <1>2 DEF HourPasses
<1>3. CASE hourOld' = hourOld
  BY <1>1, <1>3
<1> QED
  BY <1>2, <1>3 DEF Next, vars, Begin, Detect, EmitTimeout, Start, ReadBack, Lose, Decide, Skip,
                    BeginStep, Record, Finish, CallFails, Crash, ForceUnlock, Frame

\* Who is past a step stays past it.
LEMMA CoveredStays ==
    ASSUME CycleInv, Logged, NEW w \in Workers, InLoop(w), Keeps(w), NEW n \in Int, Covered(w, n)
    PROVE  Covered(w, n)'
<1> DEFINE s == Steps[n]
<1>1. /\ log \in Seq(Events) /\ Len(log) \in Nat /\ job[w].mine \in 1..Len(log)
      /\ Len(log') \in Nat /\ Len(log) <= Len(log') /\ job[w].aged \in Nat
      /\ \A i \in 1..Len(log) : log'[i] = log[i]
  BY LogGrows DEF CycleInv, Typed, Placed, Jobs, InLoop
<1>2. PICK m \in 1..(Len(log) + 1) : m = job[w].mine
  BY <1>1
<1>3. PICK a \in Nat : a = job[w].aged
  BY <1>1
<1>4. PICK v : v = Verdict(AllEvents, s, job[w].mine)
  OBVIOUS
<1>5. Verdict(AllEvents, s, m) = v /\ v \in 0..Len(log)
  <2>1. Verdict(AllEvents, s, m) = v
    BY <1>2, <1>4
  <2>2. Seen \in 0..Len(log)
    BY <1>1, TheOldestAreShown
  <2>3. Verdict(AllEvents, s, m) \in 0..Seen
    <3> HIDE DEF s
    <3> QED
      BY <1>1, VerdictIsLast
  <2> QED
    BY <1>1, <2>1, <2>2, <2>3
<1>6. Verdict(AllEvents, s, m)' = v
  <2>1. Verdict(AllEvents, s, m)' = Verdict(AllEvents, s, m)
    <3> HIDE DEF s
    <3> QED
      BY <1>1, VerdictStands
  <2> QED
    BY <1>5, <2>1
<1>7. v # 0 => log'[v] = log[v]
  BY <1>1, <1>5
<1>8. CameOutWell(s, v, m) => CameOutWell(s, v, m)'
  BY <1>1, <1>7 DEF CameOutWell
<1>9. BegunLately(s, v, a) => BegunLately(s, v, a)'
  BY <1>1 DEF BegunLately
<1>10. CameOutWell(s, v, m) \/ BegunLately(s, v, a)
  BY <1>2, <1>3, <1>4 DEF Covered
<1>11. Covered(w, n)' <=> CameOutWell(s, v, m)' \/ BegunLately(s, v, a)'
  <2>1. job'[w].mine = m /\ job'[w].aged = a
    BY <1>2, <1>3 DEF Keeps
  <2>2. Covered(w, n)' <=> CameOutWell(s, Verdict(AllEvents, s, m), m)'
                           \/ BegunLately(s, Verdict(AllEvents, s, m), a)'
    BY <2>1 DEF Covered, CameOutWell, BegunLately, Verdict
  <2> QED
    BY <1>6, <2>2 DEF CameOutWell, BegunLately
<1> QED
  BY <1>8, <1>9, <1>10, <1>11

\* The step that succeeds is one it need not stop at.
LEMMA SuccessCovers ==
    ASSUME CycleInv, NEW w \in Workers, Succeeds(w), NEW n, n = job[w].step
    PROVE  Covered(w, n)'
<1>1. /\ log \in Seq(Events) /\ Len(log) \in Nat /\ job[w].mine \in 1..Len(log)
  BY DEF CycleInv, Typed, Placed, Jobs, Running, Succeeds
<1>2. PICK o \in {"completed", "unchanged"} :
          log' = Append(log, [of |-> TheStep(w), kind |-> o, env |-> Env(w)])
  BY DEF Succeeds, Append1
<1>3. PICK e : e = [of |-> TheStep(w), kind |-> o, env |-> Env(w)]
  OBVIOUS
<1>4. Len(log') = Len(log) + 1 /\ log'[Len(log) + 1] = e
  BY <1>1, <1>2, <1>3
<1>5. e.of = Steps[n] /\ e.kind = o
  BY <1>3 DEF TheStep
<1>6. job'[w].mine = job[w].mine
  BY DEF Succeeds, Keeps
<1>7. Len(log) + 1 \in 1..Len(log') /\ Len(log) + 1 >= job[w].mine
  BY <1>1, <1>4
<1> QED
  BY <1>2, <1>4, <1>5, <1>6, <1>7 DEF Covered, CameOutWell

LEMMA ProgressKept ==
    ASSUME CycleInv, [Next]_vars, NEW w \in Workers, Progress(w)
    PROVE  Progress(w)'
<1>1. Logged /\ Typed
  BY TypesKept DEF CycleInv
<1>2. /\ job[w] \in Jobs
      /\ job[w].step \in Int /\ job[w].req.from \in Int /\ job[w].req.to \in Int
      /\ job[w].aged \in Nat
  BY <1>1, LifecycleAssumption DEF Typed, Jobs
<1>3. PICK n \in Int : n = job[w].step
  BY <1>2
<1>4. ASSUME InLoop(w), Keeps(w)
      PROVE  /\ \A k \in job'[w].req.from..(n - 1) : Covered(w, k)'
             /\ Covered(w, n) => Covered(w, n)'
             /\ job'[w].aged <= hourOld'
  <2>1. job'[w].aged <= hourOld'
    <3>1. hourOld \in Nat /\ hourOld <= hourOld' /\ hourOld' \in Nat
      BY <1>1, TimePasses, TypesKept DEF Typed, Bounded
    <3> QED
      BY <1>2, <1>4, <3>1 DEF Progress, Keeps
  <2> QED
    BY <1>1, <1>2, <1>3, <1>4, <2>1, CoveredStays DEF Progress, Keeps
<1>5. CASE job'[w] = job[w]
  <2>1. Keeps(w)
    BY <1>5 DEF Keeps
  <2>2. InLoop(w)' => \A k \in job'[w].req.from..(job'[w].step - 1) : Covered(w, k)'
    BY <1>3, <1>4, <1>5, <2>1 DEF InLoop, Running
  <2>3. job'[w].at = "skip" => Covered(w, n)'
    BY <1>3, <1>4, <1>5, <2>1 DEF Progress, InLoop, Running
  <2>4. job'[w].at = "skip" => Covered(w, job[w].step)'
    BY <1>3, <1>5, <2>3 DEF Covered
  <2>5. InLoop(w)' => job'[w].aged <= hourOld'
    BY <1>4, <1>5, <2>1 DEF InLoop, Running
  <2> QED
    BY <1>5, <2>2, <2>4, <2>5 DEF Progress, AllConsidered
<1>6. CASE job'[w].at \notin Running
  BY <1>6 DEF Progress, InLoop, Running
<1>7. CASE Enters(w)
  <2>1. job'[w].req.from..(job'[w].step - 1) = {}
    BY <1>2, <1>7 DEF Enters
  <2>2. job'[w].aged <= hourOld'
    BY <1>1, <1>7, TimePasses DEF Enters
  <2> QED
    BY <1>7, <2>1, <2>2 DEF Enters, Progress
<1>8. CASE Considers(w)
  <2>1. InLoop(w) /\ Keeps(w) /\ job'[w].step = n
    BY <1>3, <1>8 DEF Considers, InLoop, Running
  <2>2. \A k \in job'[w].req.from..(job'[w].step - 1) : Covered(w, k)'
    BY <1>4, <2>1
  <2>3. ASSUME job'[w].at = "skip" PROVE Covered(w, n)'
    BY <1>3, <1>4, <1>8, <2>1, <2>3, SkipsTheCovered DEF Considers
  <2>4. job'[w].at = "skip" => Covered(w, job[w].step)'
    BY <1>3, <2>1, <2>3 DEF Covered
  <2>5. job'[w].at # "finish"
    BY <1>8 DEF Considers, Decision
  <2> QED
    BY <1>4, <2>1, <2>2, <2>4, <2>5 DEF Progress
<1>9. CASE Leaves(w)
  <2>1. InLoop(w) /\ Keeps(w) /\ job'[w].step = n
    BY <1>3, <1>9 DEF Leaves, InLoop, Running
  <2>2. \A k \in job'[w].req.from..(job'[w].step - 1) : Covered(w, k)'
    BY <1>4, <2>1
  <2> QED
    BY <1>4, <1>9, <2>1, <2>2 DEF Leaves, Keeps, Progress, AllConsidered
<1>10. CASE Passes(w)
  <2>1. InLoop(w) /\ Keeps(w) /\ job'[w].step = n + 1
    BY <1>3, <1>10 DEF Passes, InLoop, Running
  <2>2. Covered(w, n)'
    BY <1>3, <1>4, <1>10, <2>1 DEF Passes, Progress
  <2>3. \A k \in job'[w].req.from..(job'[w].step - 1) : Covered(w, k)'
    BY <1>2, <1>4, <2>1, <2>2 DEF Keeps
  <2> QED
    BY <1>4, <1>10, <2>1, <2>3 DEF Passes, Progress
<1>11. CASE Works(w) \/ GivesUp(w)
  <2>1. \A k \in job'[w].req.from..(job'[w].step - 1) : Covered(w, k)'
    BY <1>3, <1>4, <1>11 DEF Works, GivesUp
  <2> QED
    BY <1>4, <1>11, <2>1 DEF Works, GivesUp, Progress
<1>12. CASE Succeeds(w)
  <2>1. InLoop(w) /\ Keeps(w) /\ job'[w].step = n + 1
    BY <1>3, <1>12 DEF Succeeds, InLoop, Running
  <2>2. Covered(w, n)'
    BY <1>3, <1>12, SuccessCovers
  <2>3. \A k \in job'[w].req.from..(job'[w].step - 1) : Covered(w, k)'
    BY <1>2, <1>4, <2>1, <2>2 DEF Keeps
  <2> QED
    BY <1>4, <1>12, <2>1, <2>3 DEF Succeeds, Progress
<1> QED
  BY <1>1, <1>5, <1>6, <1>7, <1>8, <1>9, <1>10, <1>11, <1>12, LoopSteps DEF LoopStep

LEMMA NeededKept ==
    ASSUME CycleInv, [Next]_vars, NEW w \in Workers, Needed(w)
    PROVE  Needed(w)'
<1>0. /\ Logged /\ Typed /\ log \in Seq(Events) /\ Len(log) \in Nat /\ Len(log') \in Nat
      /\ Len(log) <= Len(log') /\ log' \in Seq(Events)
      /\ \A i \in 1..Len(log) : log'[i] = log[i]
  BY TypesKept, LogGrows DEF CycleInv, Typed
<1>1. SUFFICES ASSUME job'[w].at = "begin", Steps[job'[w].step] \notin job'[w].req.force
               PROVE  News(w)'
  BY DEF Needed, TheStep
<1>2. CASE job'[w] = job[w]
  <2> DEFINE s == TheStep(w)
  <2> DEFINE v == Verdict(AllEvents, s, Len(log) + 1)
  <2>1. News(w)
    BY <1>1, <1>2 DEF Needed, TheStep
  <2>2. job[w].mine \in 1..Len(log)
    BY <1>1, <1>2 DEF CycleInv, Typed, Placed, Jobs, Running
  <2>3. PICK n : n = Len(log') + 1
    OBVIOUS
  <2>4. PICK u : u = VerdictOf(log', 1..Seen', s, n)
    OBVIOUS
  <2>5. /\ Seen \in 0..Len(log) /\ Seen' \in 0..Len(log') /\ Seen <= Seen'
        /\ AllEvents' = 1..Seen'
        /\ \A i \in 1..Len(log) : i <= Seen' => i <= Seen
    BY <1>0, MoreIsShown
  <2>6. News(w)' <=> (u # 0 /\ log'[u].kind = "completed" /\ log'[u].env = Env(w)
                      => u > job[w].mine)
    <3>1. News(w)' <=> LET x == Verdict(AllEvents, s, n)'
                       IN  x # 0 /\ log'[x].kind = "completed" /\ log'[x].env = Env(w)
                           => x > job[w].mine
      BY <1>2, <2>3 DEF News, TheStep, Env, Verdict
    <3>2. Verdict(AllEvents, s, n)' = VerdictOf(log', AllEvents', s, n)
      BY <1>2 DEF Verdict, VerdictOf, Newest, TheStep
    <3> QED
      BY <2>4, <2>5, <3>1, <3>2
  <2>7. SUFFICES ASSUME u # 0, log'[u].kind = "completed", log'[u].env = Env(w)
                 PROVE  u > job[w].mine
    BY <2>6
  <2>8. /\ u \in 1..Seen' /\ log'[u].of = s
        /\ \A j \in 1..Seen' : j < n /\ log'[j].of = s
                               /\ log'[j].kind \in {"completed", "failed"} => j <= u
    <3>1. n \in Nat /\ Seen' \in Nat
      BY <1>0, <2>3, <2>5
    <3> HIDE DEF s
    <3> QED
      BY <2>4, <2>7, <3>1, VerdictOfIsLast
  <2>9. /\ v \in 0..Seen
        /\ v # 0 => log[v].of = s /\ log[v].kind \in {"completed", "failed"}
        /\ \A j \in 1..Seen : j < Len(log) + 1 /\ log[j].of = s
                              /\ log[j].kind \in {"completed", "failed"} => j <= v
    <3> HIDE DEF s
    <3>1. Len(log) + 1 \in Nat
      BY <1>0
    <3> QED
      BY <1>0, <3>1, VerdictIsLast
  <2>10. v # 0 /\ log[v].kind = "completed" /\ log[v].env = Env(w) => v > job[w].mine
    BY <2>1 DEF News
  <2> HIDE DEF s, v
  <2>11. CASE u > Len(log)
    BY <1>0, <2>2, <2>5, <2>8, <2>11
  <2>12. CASE u <= Len(log)
    <3>1. u \in 1..Seen /\ u < Len(log) + 1 /\ log'[u] = log[u]
      BY <1>0, <2>5, <2>8, <2>12
    <3>2. u <= v
      BY <2>7, <2>8, <2>9, <3>1
    <3>3. v \in 1..Seen' /\ v < n /\ log'[v] = log[v]
      BY <1>0, <2>3, <2>5, <2>9, <3>1, <3>2
    <3>4. v <= u
      BY <2>8, <2>9, <3>1, <3>2, <3>3
    <3>5. u = v
      BY <2>5, <2>8, <2>9, <3>2, <3>4
    <3> QED
      BY <2>7, <2>10, <3>1, <3>5
  <2> QED
    BY <1>0, <2>5, <2>8, <2>11, <2>12
<1>3. CASE Considers(w)
  <2>1. News(w)
    <3>1. TheStep(w) \notin job[w].req.force /\ Decision(w, AllEvents) = "begin"
      BY <1>1, <1>3 DEF Considers, Keeps, TheStep
    <3> QED
      BY <3>1, BeginsTheNeeded
  <2>2. /\ job'[w].req = job[w].req /\ job'[w].mine = job[w].mine
        /\ job'[w].step = job[w].step /\ log' = log
    BY <1>3 DEF Considers, Keeps
  <2>3. AllEvents' = AllEvents /\ TheStep(w)' = TheStep(w) /\ Env(w)' = Env(w)
    BY <2>2 DEF AllEvents, Oldest, TheStep, Env
  <2>4. Verdict(AllEvents, TheStep(w), Len(log) + 1)'
            = Verdict(AllEvents, TheStep(w), Len(log) + 1)
    BY <2>2, <2>3 DEF Verdict, Newest
  <2> QED
    BY <2>1, <2>2, <2>3, <2>4 DEF News
<1>4. job'[w].at \in Running
  BY <1>1 DEF Running
<1>5. ~(Enters(w) \/ Leaves(w) \/ Passes(w) \/ Works(w) \/ Succeeds(w) \/ GivesUp(w))
  BY <1>1 DEF Enters, Leaves, Passes, Works, Succeeds, GivesUp
<1> QED
  BY <1>0, <1>2, <1>3, <1>4, <1>5, LoopSteps DEF LoopStep

LEMMA LoopInitially == Init => LoopInv
<1> SUFFICES ASSUME Init PROVE LoopInv
  OBVIOUS
<1>1. Idle.at \notin Running
  BY IdleIsPlaced
<1>2. \A w \in Workers : job[w] = Idle
  BY DEF Init
<1> QED
  BY <1>1, <1>2, Initially DEF LoopInv, Progress, Needed, InLoop, Running

\* The inductive invariant of the loop, however long the log is.
THEOREM LoopInvariant == Spec => []LoopInv
<1>1. LoopInv /\ [Next]_vars => LoopInv'
  BY RaceKept, ProgressKept, NeededKept DEF LoopInv
<1> QED
  BY <1>1, LoopInitially, PTL DEF Spec

\* When a cycle is recorded as completed, each of its steps came out well, again
\* when it had failed before, or was begun lately.
THEOREM FailureIsMadeGood == Spec => CompletedIsEarned
<1>1. ASSUME LoopInv, NEW w \in Workers, CycleCompletes(w),
             NEW n \in job[w].req.from..job[w].req.to
      PROVE  Covered(w, n)
  <2>1. /\ job[w].step \in Int /\ job[w].req.from \in Int /\ job[w].req.to \in Int
        /\ InLoop(w) /\ job[w].at = "finish" /\ ~job[w].failed
    BY <1>1, LifecycleAssumption
       DEF LoopInv, CycleInv, Typed, Jobs, InLoop, Running, CycleCompletes
  <2>2. n \in job[w].req.from..(job[w].step - 1)
    BY <1>1, <2>1 DEF LoopInv, Progress, AllConsidered
  <2> QED
    BY <1>1, <2>1, <2>2 DEF LoopInv, Progress
<1>2. LoopInv => [CoveredAtTheEnd]_vars
  BY <1>1 DEF CoveredAtTheEnd
<1>3. Spec => [][CoveredAtTheEnd]_vars
  BY <1>2, LoopInvariant, PTL
<1> QED
  BY <1>3 DEF CompletedIsEarned, CoveredAtTheEnd, Covered

\* A step whose newest verdict, of those a query shows, is a completed event of the
\* same envelope is begun on request only, or when that event came from another
\* cycle while this one ran.
THEOREM DoneIsNotRepeated == Spec => CompletedIsNotRepeated
<1>1. LoopInv => [BegunForNews]_vars
  BY DEF LoopInv, Needed, BegunForNews
<1>2. Spec => [][BegunForNews]_vars
  BY <1>1, LoopInvariant, PTL
<1> QED
  BY <1>2 DEF CompletedIsNotRepeated, BegunForNews, News
=============================================================================
