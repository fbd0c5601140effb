---------------------------- MODULE SessionSlot ----------------------------
(***************************************************************************)
(* The slot of one persistent PowerShell session of a container            *)
(* (src/container/session-slot.ts) with the session in it                  *)
(* (src/container/pwsh-session.ts).  Processes call runScript(),           *)
(* maybeRecycle() and dispose(), which take turns under the slot's lock;   *)
(* the spawn fallback runs outside it.                                     *)
(*                                                                         *)
(* What happens under the lock without being seen by another process, such *)
(* as killing the session, belongs to the step that leads there.           *)
(***************************************************************************)
EXTENDS Naturals, Sequences, SequencesExt, FiniteSets

CONSTANTS
    Procs,        \* callers
    Nobody,
    Threshold,    \* recycleThreshold
    MaxCalls      \* bound: calls of the slot

ASSUME SlotAssumption ==
    /\ Nobody \notin Procs
    /\ Threshold \in Nat \ {0} /\ MaxCalls \in Nat

VARIABLES
    persistent,   \* persistentEnabled, fixed when the slot is made
    pc,          \* where each process is
    op,          \* what it called
    attempt,     \* runs in the session that its call has begun, at most two
    result,
    holder,      \* who has the lock
    queue,       \* who waits for it, in order
    state,       \* of the session, "none" for no session
    callCount,
    disposing,
    disposed,
    calls,
    live,        \* PowerShell processes of the slot that are alive
    started,     \* times the script of a call was started
    crashes,     \* of these, the ones that ended in a crash
    orphaned     \* calls whose script still runs after a timeout

lockVars == <<holder, queue>>
sessionVars == <<state, callCount, live>>
callVars == <<op, attempt, started, crashes, orphaned>>
flags == <<persistent, disposing, disposed>>
vars == <<persistent, pc, result, lockVars, sessionVars, callVars, flags, calls>>

Ops == {"script", "recycle", "dispose"}
Inside == {"entered", "init", "prepare", "run", "recycling"}
Places == {"idle", "queued", "spawned"} \cup Inside
Results == {"none", "ok", "failed", "timeout", "refused"}

\* Types; who holds the lock is inside, and who waits is in the queue once.
TypeOK ==
    /\ pc \in [Procs -> Places] /\ op \in [Procs -> Ops]
    /\ attempt \in [Procs -> 0..2] /\ result \in [Procs -> Results]
    /\ state \in {"none", "idle", "running", "recycling", "dead"}
    /\ callCount \in Nat /\ live \in Nat /\ calls \in 0..MaxCalls
    /\ started \in [Procs -> Nat] /\ crashes \in [Procs -> Nat]
    /\ orphaned \subseteq Procs
    /\ persistent \in BOOLEAN /\ disposing \in BOOLEAN /\ disposed \in BOOLEAN
    /\ {p \in Procs : pc[p] \in Inside} = {holder} \ {Nobody}
    /\ IsInjective(queue) /\ ToSet(queue) = {p \in Procs : pc[p] = "queued"}

Init ==
    /\ persistent \in BOOLEAN
    /\ pc = [p \in Procs |-> "idle"] /\ op = [p \in Procs |-> "script"]
    /\ attempt = [p \in Procs |-> 0] /\ result = [p \in Procs |-> "none"]
    /\ holder = Nobody /\ queue = <<>>
    /\ state = "none" /\ callCount = 0 /\ live = 0
    /\ disposing = FALSE /\ disposed = FALSE
    /\ calls = 0
    /\ started = [p \in Procs |-> 0] /\ crashes = [p \in Procs |-> 0]
    /\ orphaned = {}

-----------------------------------------------------------------------------
(* The lock (a Mutex), and the end of a call. *)

\* The slot takes no work any more.
Closed == disposing \/ disposed

\* Mutant: the lock is given without waiting for its holder.
EnterAtOnce(p) ==
    /\ queue' = queue
    /\ holder' = p
    /\ pc' = [pc EXCEPT ![p] = "entered"]

Enter(p) ==
    /\ queue' = IF holder = Nobody THEN queue ELSE Append(queue, p)
    /\ holder' = IF holder = Nobody THEN p ELSE holder
    /\ pc' = [pc EXCEPT ![p] = IF holder = Nobody THEN "entered" ELSE "queued"]

\* Mutant: the lock is freed although there are waiters.
LeaveForNobody(p, place) ==
    /\ holder' = Nobody /\ queue' = queue
    /\ pc' = [pc EXCEPT ![p] = place]

\* p leaves the lock for `place`; the first waiter enters.
LeaveFor(p, place) ==
    IF queue = <<>>
    THEN /\ holder' = Nobody /\ queue' = queue
         /\ pc' = [pc EXCEPT ![p] = place]
    ELSE /\ holder' = Head(queue) /\ queue' = Tail(queue)
         /\ pc' = [pc EXCEPT ![p] = place, ![Head(queue)] = "entered"]

Settle(p, r) == result' = [result EXCEPT ![p] = r]

\* The call is over, under the lock.
Return(p, r) == LeaveFor(p, "idle") /\ Settle(p, r)

Starts(p) == started' = [started EXCEPT ![p] = @ + 1]

\* The spawn fallback, outside the lock.
FallBack(p) ==
    /\ LeaveFor(p, "spawned")
    /\ Starts(p)
    /\ UNCHANGED result

-----------------------------------------------------------------------------
(* Calls. *)

\* A call begins: what was known of the last one of this process is dropped.
Call(p, o) ==
    /\ pc[p] = "idle" /\ calls < MaxCalls
    /\ calls' = calls + 1
    /\ op' = [op EXCEPT ![p] = o]
    /\ attempt' = [attempt EXCEPT ![p] = 0]
    /\ crashes' = [crashes EXCEPT ![p] = 0]
    /\ orphaned' = orphaned \ {p}
    /\ UNCHANGED sessionVars

RunScript(p) ==
    /\ Call(p, "script")
    /\ \/ /\ Closed
          /\ Settle(p, "refused")
          /\ started' = [started EXCEPT ![p] = 0]
          /\ UNCHANGED <<pc, lockVars>>
       \/ /\ ~Closed /\ ~persistent
          /\ pc' = [pc EXCEPT ![p] = "spawned"]
          /\ Settle(p, "none")
          /\ started' = [started EXCEPT ![p] = 1]
          /\ UNCHANGED lockVars
       \/ /\ ~Closed /\ persistent
          /\ Enter(p)
          /\ Settle(p, "none")
          /\ started' = [started EXCEPT ![p] = 0]
    /\ UNCHANGED flags

MaybeRecycle(p) ==
    /\ persistent /\ ~Closed
    /\ Call(p, "recycle")
    /\ Enter(p)
    /\ Settle(p, "none")
    /\ started' = [started EXCEPT ![p] = 0]
    /\ UNCHANGED flags

Dispose(p) ==
    /\ ~disposed
    /\ Call(p, "dispose")
    /\ disposing' = TRUE
    /\ Enter(p)
    /\ Settle(p, "none")
    /\ started' = [started EXCEPT ![p] = 0]
    /\ UNCHANGED <<persistent, disposed>>

-----------------------------------------------------------------------------
(* runScript() under the lock. *)

\* dispose() came while the call was queued.
Refuse(p) ==
    /\ pc[p] = "entered" /\ op[p] = "script" /\ Closed
    /\ Return(p, "refused")
    /\ UNCHANGED <<sessionVars, callVars, flags, calls>>

\* session.execute() begins.
Execute(p, count) ==
    /\ state' = "running"
    /\ callCount' = count + 1
    /\ attempt' = [attempt EXCEPT ![p] = @ + 1]
    /\ pc' = [pc EXCEPT ![p] = "prepare"]

UseHealthy(p) ==
    /\ pc[p] = "entered" /\ op[p] = "script" /\ ~Closed
    /\ state = "idle"
    /\ Execute(p, callCount)
    /\ UNCHANGED <<result, lockVars, live, op, started, crashes, orphaned, flags, calls>>

\* A session that was left running is disposed first.
Leftover == IF state = "running" THEN live - 1 ELSE live

\* ensureHealthy() makes a new session.
Create(p) ==
    /\ pc[p] = "entered" /\ op[p] = "script" /\ ~Closed
    /\ state # "idle"
    /\ state' = "none"
    /\ live' = Leftover + 1
    /\ pc' = [pc EXCEPT ![p] = "init"]
    /\ UNCHANGED <<result, lockVars, callCount, callVars, flags, calls>>

InitSucceeds(p) ==
    /\ pc[p] = "init"
    /\ Execute(p, 0)
    /\ UNCHANGED <<result, lockVars, live, op, started, crashes, orphaned, flags, calls>>

InitFails(p) ==
    /\ pc[p] = "init"
    /\ live' = live - 1
    /\ FallBack(p)
    /\ UNCHANGED <<state, callCount, op, attempt, crashes, orphaned, flags, calls>>

\* makeTempFile() throws: the session stays "running", and the error is the
\* caller's.
TempFileFails(p) ==
    /\ pc[p] = "prepare"
    /\ Return(p, "failed")
    /\ UNCHANGED <<sessionVars, callVars, flags, calls>>

\* The script cannot be written to its file.
WriteFails(p) ==
    /\ pc[p] = "prepare"
    /\ state' = "idle"
    /\ FallBack(p)
    /\ UNCHANGED <<callCount, live, op, attempt, crashes, orphaned, flags, calls>>

\* The pipe to the session is broken: it is killed, the error is the caller's.
PipeBroken(p) ==
    /\ pc[p] = "prepare"
    /\ state' = "dead" /\ live' = live - 1
    /\ Return(p, "failed")
    /\ UNCHANGED <<callCount, callVars, flags, calls>>

Send(p) ==
    /\ pc[p] = "prepare"
    /\ pc' = [pc EXCEPT ![p] = "run"]
    /\ Starts(p)
    /\ UNCHANGED <<result, lockVars, sessionVars, op, attempt, crashes, orphaned, flags, calls>>

Marker(p) ==
    /\ pc[p] = "run"
    /\ state' = "idle"
    /\ Return(p, "ok")
    /\ UNCHANGED <<callCount, live, callVars, flags, calls>>

\* Mutant: a timeout falls back like other errors of the session.
AfterTimeoutFallBack(p) == FallBack(p)

\* The error goes to the caller, who taints the container.
AfterTimeout(p) == Return(p, "timeout") /\ UNCHANGED started

\* The script goes on in the container.
Timeout(p) ==
    /\ pc[p] = "run"
    /\ state' = "dead" /\ live' = live - 1
    /\ orphaned' = orphaned \cup {p}
    /\ AfterTimeout(p)
    /\ UNCHANGED <<callCount, op, attempt, crashes, flags, calls>>

\* The first crash is answered by one more attempt in a fresh session.
Retry(p) == attempt[p] = 1

Crash(p) ==
    /\ pc[p] = "run"
    /\ crashes' = [crashes EXCEPT ![p] = @ + 1]
    /\ \/ /\ Retry(p)
          /\ state' = "none"
          /\ pc' = [pc EXCEPT ![p] = "init"]
          /\ UNCHANGED <<live, started, result, lockVars>>
       \/ /\ ~Retry(p)
          /\ state' = "dead" /\ live' = live - 1
          /\ FallBack(p)
    /\ UNCHANGED <<callCount, op, attempt, orphaned, flags, calls>>

\* The process spawned for one script ends.
Spawned(p, r) ==
    /\ pc[p] = "spawned"
    /\ pc' = [pc EXCEPT ![p] = "idle"]
    /\ Settle(p, r)
    /\ UNCHANGED <<lockVars, sessionVars, callVars, flags, calls>>

-----------------------------------------------------------------------------
(* maybeRecycle() and dispose() under the lock. *)

Due == ~Closed /\ state = "idle" /\ callCount >= Threshold

NotDue(p) ==
    /\ pc[p] = "entered" /\ op[p] = "recycle" /\ ~Due
    /\ Return(p, "ok")
    /\ UNCHANGED <<sessionVars, callVars, flags, calls>>

\* recycle() kills the process and starts another.
Recycle(p) ==
    /\ pc[p] = "entered" /\ op[p] = "recycle" /\ Due
    /\ state' = "recycling"
    /\ pc' = [pc EXCEPT ![p] = "recycling"]
    /\ UNCHANGED <<result, lockVars, callCount, live, callVars, flags, calls>>

Recycled(p) ==
    /\ pc[p] = "recycling"
    /\ \/ state' = "idle" /\ callCount' = 0 /\ live' = live
       \/ state' = "dead" /\ callCount' = callCount /\ live' = live - 1
    /\ Return(p, "ok")
    /\ UNCHANGED <<callVars, flags, calls>>

\* Mutant: a session that is not healthy is let go without being disposed.
LiveAfterDisposeHealthyOnly == IF state = "idle" THEN live - 1 ELSE live

LiveAfterDispose == IF state \in {"none", "dead"} THEN live ELSE live - 1

DisposeSession(p) ==
    /\ pc[p] = "entered" /\ op[p] = "dispose"
    /\ live' = LiveAfterDispose
    /\ state' = "none"
    /\ disposed' = TRUE
    /\ Return(p, "ok")
    /\ UNCHANGED <<callCount, callVars, persistent, disposing, calls>>

Step(p) ==
    \/ Refuse(p) \/ UseHealthy(p) \/ Create(p) \/ InitSucceeds(p) \/ InitFails(p)
    \/ TempFileFails(p) \/ WriteFails(p) \/ PipeBroken(p) \/ Send(p)
    \/ Marker(p) \/ Timeout(p) \/ Crash(p)
    \/ \E r \in {"ok", "failed"} : Spawned(p, r)
    \/ NotDue(p) \/ Recycle(p) \/ Recycled(p) \/ DisposeSession(p)

Next == \E p \in Procs : RunScript(p) \/ MaybeRecycle(p) \/ Dispose(p) \/ Step(p)

Spec == Init /\ [][Next]_vars

\* A session answers, ends or runs into its timeout, and a spawned process ends.
FairSpec == Spec /\ \A p \in Procs : WF_vars(Step(p))

-----------------------------------------------------------------------------

\* A script is started again only when its last run ended with the session
\* (a crash), and twice at most: what a call did may be repeated, never run
\* beside itself.  A timeout ends the call, neither the session nor the
\* fallback has the script again (C4).
RerunOnlyAfterCrash ==
    \A p \in Procs :
        /\ started[p] <= crashes[p] + 1 /\ crashes[p] <= 2
        /\ p \in orphaned => pc[p] = "idle" /\ result[p] = "timeout"

\* The processes of the slot: one when a session is up or being made, none
\* otherwise, and so none is left when dispose() is done, nor made afterwards by
\* a call that was queued behind it.
NoProcessLeaks ==
    /\ TypeOK
    /\ live = IF state \in {"idle", "running", "recycling"} \/ \E p \in Procs : pc[p] = "init"
              THEN 1 ELSE 0
    /\ disposed => live = 0

\* A script at work in the session is not cut short by a recycling or a
\* disposal: only its own outcome ends its run.
RunsToItsEnd ==
    [][\A p \in Procs : pc[p] = "run" /\ pc'[p] = "run" => UNCHANGED <<state, live>>]_vars

\* Every call returns, in whatever way the sessions fail, also a dispose()
\* behind a queue of calls.
EveryCallReturns == \A p \in Procs : pc[p] # "idle" ~> pc[p] = "idle"
=============================================================================
