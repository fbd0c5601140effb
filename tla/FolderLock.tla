----------------------------- MODULE FolderLock -----------------------------
(***************************************************************************)
(* The lock of a compiler folder, src/container/folder-lock.ts: a file     *)
(* that processes create, break when it is old, and remove.  Each step is  *)
(* one operation on the file system, since other processes act between     *)
(* any two of them.                                                        *)
(*                                                                         *)
(* A process acquires again only after it released, so its name stands for *)
(* the token of its acquisition.  Time goes in ticks: `Stale` of them make *)
(* a file old.  A behaviour is prompt or not: in a prompt one a waiting    *)
(* process polls in each tick, and a holder is done before its file is     *)
(* old; in another one processes may be as slow as they like.              *)
(***************************************************************************)
EXTENDS Naturals, FiniteSets

CONSTANTS
    Procs,
    NoFile,
    Stale,      \* staleMs
    Margin,     \* TIMEOUT_MARGIN_MS
    MaxFaults   \* crashes, and failures to create or to write the file

ASSUME LockAssumption ==
    /\ IsFiniteSet(Procs)
    /\ Stale \in Nat \ {0}
    /\ Margin \in Nat \ {0}
    /\ MaxFaults \in Nat
    /\ NoFile \notin [by : Procs, written : BOOLEAN, age : Nat]

VARIABLES
    pc,       \* where each process is
    file,     \* the lock file
    waited,   \* ticks since a process called acquireLock()
    polled,   \* processes that have polled in this tick
    faults,
    prompt,   \* whether processes are quick beside a tick
    overtaken \* history: a waiter has removed a file that was not old

vars == <<pc, file, waited, polled, faults, prompt, overtaken>>

Waiting == {"open", "stat", "remove", "check"}
Holding == {"write", "held", "release", "unlink"}
Places == {"idle", "unlocked", "crashed"} \cup Waiting \cup Holding

\* Mutant: the default timeout does not build on the staleness threshold.
DeadlineFlat == Margin

\* The default timeoutMs.
Deadline == Stale + Margin

Files == [by : Procs, written : BOOLEAN, age : 0..Deadline] \cup {NoFile}

\* Types; no wait goes far past its deadline when processes are prompt (others'
\* waits are not counted further).
TypeOK ==
    /\ pc \in [Procs -> Places]
    /\ file \in Files
    /\ waited \in [Procs -> 0..Deadline + 1]
    /\ polled \in SUBSET Procs
    /\ faults \in 0..MaxFaults
    /\ prompt \in BOOLEAN
    /\ overtaken \in BOOLEAN

Init ==
    /\ pc = [p \in Procs |-> "idle"]
    /\ file = NoFile
    /\ waited = [p \in Procs |-> 0]
    /\ polled = {}
    /\ faults = 0
    /\ prompt \in BOOLEAN
    /\ overtaken = FALSE

Go(p, place) == pc' = [pc EXCEPT ![p] = place]

-----------------------------------------------------------------------------

\* acquireLock() is called.
Acquire(p) ==
    /\ pc[p] = "idle"
    /\ Go(p, "open")
    /\ waited' = [waited EXCEPT ![p] = 0]
    /\ polled' = polled \cup {p}
    /\ UNCHANGED <<file, faults, prompt, overtaken>>

\* Deno.open() with createNew succeeds.
CanCreate == file = NoFile

Create(p) ==
    /\ pc[p] = "open"
    /\ CanCreate
    /\ file' = [by |-> p, written |-> FALSE, age |-> 0]
    /\ Go(p, "write")
    /\ UNCHANGED <<waited, polled, faults, prompt, overtaken>>

\* The file exists (AlreadyExists).
Exists(p) ==
    /\ pc[p] = "open"
    /\ file # NoFile
    /\ Go(p, "stat")
    /\ UNCHANGED <<file, waited, polled, faults, prompt, overtaken>>

\* Deno.open() fails otherwise: the caller proceeds unlocked.
CannotCreate(p) ==
    /\ pc[p] = "open"
    /\ faults < MaxFaults
    /\ faults' = faults + 1
    /\ Go(p, "unlocked")
    /\ UNCHANGED <<file, waited, polled, prompt, overtaken>>

\* The token is written, which renews the age of the file if it is still there.
Write(p) ==
    /\ pc[p] = "write"
    /\ file' = IF file # NoFile /\ file.by = p THEN [by |-> p, written |-> TRUE, age |-> 0] ELSE file
    /\ Go(p, "held")
    /\ UNCHANGED <<waited, polled, faults, prompt, overtaken>>

\* Writing fails: the caller proceeds unlocked and leaves the file behind.
WriteFails(p) ==
    /\ pc[p] = "write"
    /\ faults < MaxFaults
    /\ faults' = faults + 1
    /\ Go(p, "unlocked")
    /\ UNCHANGED <<file, waited, polled, prompt, overtaken>>

\* Mutant: any file there is counts as old.
OldAtOnce == file # NoFile

\* breakIfStale() finds the file old.
Old == file # NoFile /\ file.age >= Stale

\* breakIfStale() looks at the age of the file.
Stat(p) ==
    /\ pc[p] = "stat"
    /\ Go(p, IF Old THEN "remove" ELSE "check")
    /\ polled' = polled \cup {p}
    /\ UNCHANGED <<file, waited, faults, prompt, overtaken>>

\* breakIfStale() removes the file that is at the path now, which need not be
\* the one it found old: others may have removed that one and created another.
Break(p) ==
    /\ pc[p] = "remove"
    /\ file' = NoFile
    /\ overtaken' = (overtaken \/ (file # NoFile /\ ~Old))
    /\ Go(p, "check")
    /\ UNCHANGED <<waited, polled, faults, prompt>>

\* Mutant: the deadline is not looked at.
ExpiredNever(p) == FALSE

\* The deadline is past.
Expired(p) == waited[p] >= Deadline

\* The end of a round: give up and proceed unlocked, or poll again.
Check(p) ==
    /\ pc[p] = "check"
    /\ Go(p, IF Expired(p) THEN "unlocked" ELSE "open")
    /\ UNCHANGED <<file, waited, polled, faults, prompt, overtaken>>

\* The caller has done its work and calls release().
Finish(p) ==
    /\ pc[p] \in {"held", "unlocked"}
    /\ Go(p, IF pc[p] = "held" THEN "release" ELSE "idle")
    /\ UNCHANGED <<file, waited, polled, faults, prompt, overtaken>>

\* The file at the path has this acquisition's token; an unreadable one has none.
Owns(p) == file # NoFile /\ file.by = p /\ file.written

\* release() reads the token.
ReadToken(p) ==
    /\ pc[p] = "release"
    /\ Go(p, IF Owns(p) THEN "unlink" ELSE "idle")
    /\ UNCHANGED <<file, waited, polled, faults, prompt, overtaken>>

\* release() removes the file that is at the path now.
Unlink(p) ==
    /\ pc[p] = "unlink"
    /\ file' = NoFile
    /\ Go(p, "idle")
    /\ UNCHANGED <<waited, polled, faults, prompt, overtaken>>

Crash(p) ==
    /\ pc[p] \in Holding \cup Waiting
    /\ faults < MaxFaults
    /\ faults' = faults + 1
    /\ Go(p, "crashed")
    /\ UNCHANGED <<file, waited, polled, prompt, overtaken>>

Waiters == {p \in Procs : pc[p] \in Waiting}

Older(f) == IF f = NoFile THEN NoFile
            ELSE [by |-> f.by, written |-> f.written,
                  age |-> IF f.age < Deadline THEN f.age + 1 ELSE f.age]

\* A tick goes by.
Tick ==
    /\ prompt => /\ Waiters \subseteq polled
                 /\ file # NoFile /\ pc[file.by] \in Holding => file.age + 1 < Stale
    /\ file' = Older(file)
    /\ waited' = [p \in Procs |-> IF p \in Waiters /\ (prompt \/ waited[p] < Deadline)
                                  THEN waited[p] + 1 ELSE waited[p]]
    /\ polled' = {}
    /\ UNCHANGED <<pc, faults, prompt, overtaken>>

Step(p) ==
    \/ Create(p) \/ Exists(p) \/ Write(p) \/ Stat(p) \/ Break(p) \/ Check(p)
    \/ ReadToken(p) \/ Unlink(p)

Next ==
    \/ \E p \in Procs :
          \/ Acquire(p) \/ Step(p) \/ Finish(p)
          \/ CannotCreate(p) \/ WriteFails(p) \/ Crash(p)
    \/ Tick

Spec == Init /\ [][Next]_vars

\* The caller of a prompt behaviour finishes.
FinishesSoon(p) == prompt /\ Finish(p)

\* A process that has not crashed goes on, and time passes.  Nothing says that
\* a slow holder finishes, nor that any process asks for the lock.
FairSpec ==
    /\ Spec
    /\ WF_vars(Tick)
    /\ \A p \in Procs : WF_vars(Step(p)) /\ WF_vars(FinishesSoon(p))

-----------------------------------------------------------------------------

\* Holders crash, writes fail and old files are broken, and the file still is a
\* lock: the one who created it, from then until its release() is over or it
\* dies, is its only holder.  This needs holders that are done before their file
\* is old, and is over once a waiter was overtaken between its look at the file
\* and its removal (BreaksOnlyStale, below).
Holders == {p \in Procs : pc[p] \in Holding}
Lock == INSTANCE Mutex WITH holders <- Holders
RefinesMutex == Lock!Init /\ [][prompt /\ ~overtaken' => Lock!Next]_Holders

\* Under the same conditions two callers never rebuild the folder under the lock
\* at once.
MutualExclusion ==
    prompt /\ ~overtaken =>
        \A p, q \in Procs : pc[p] = "held" /\ pc[q] = "held" => p = q

\* A waiter of a prompt behaviour gives up only on a lock that was taken while
\* it waited: one that was there when it began has been old, and was broken,
\* before its deadline, which is what the margin of the timeout is for.
GivesUpOnYoungOnly ==
    [][\A p \in Procs :
          prompt /\ pc[p] = "check" /\ pc'[p] = "unlocked" /\ file # NoFile
              => file.age < waited[p]]_vars

\* acquireLock() always returns, although holders hang or die and others
\* take the lock again and again: it never blocks a bench.
EveryAcquireReturns ==
    \A p \in Procs : pc[p] \in Waiting ~> pc[p] \notin Waiting

\* "Break the lock file if it is older than staleMs" (folder-lock.ts:69): a
\* waiter removes no younger file.  This does not hold: see README, section 3.
BreaksOnlyStale ==
    [][\A p \in Procs : pc[p] = "remove" /\ pc'[p] = "check" => file = NoFile \/ Old]_vars
=============================================================================
