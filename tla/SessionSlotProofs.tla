------------------------- MODULE SessionSlotProofs -------------------------
(***************************************************************************)
(* Theorems about SessionSlot, for any callers, threshold and number of    *)
(* calls: the lock keeps its callers apart, the slot has no more processes *)
(* than its session, and a script is repeated only after a crash.          *)
(***************************************************************************)
EXTENDS SessionSlot, SequenceTheorems, TLAPS

\* What is in the lock: one is inside, the others wait in turn, and nobody
\* waits for a lock that is free.
LockOK ==
    /\ pc \in [Procs -> Places] /\ holder \in Procs \cup {Nobody} /\ queue \in Seq(Procs)
    /\ {p \in Procs : pc[p] \in Inside} = {holder} \ {Nobody}
    /\ IsInjective(queue) /\ ToSet(queue) = {p \in Procs : pc[p] = "queued"}
    /\ holder = Nobody => queue = <<>>

\* Places at which a caller has to do with the session.
Inner == {"init", "prepare", "run", "recycling"}

\* The session goes with the place of the one inside.
Fits(place) ==
    /\ state \in {"none", "idle", "running", "recycling", "dead"}
    /\ place = "init" => state = "none"
    /\ place \in {"prepare", "run"} => state = "running"
    /\ state = "recycling" <=> place = "recycling"
    /\ live = IF state \in {"idle", "running", "recycling"} \/ place = "init" THEN 1 ELSE 0
    /\ disposed => state = "none" /\ place \notin Inner

SessionOK ==
    /\ \A p \in Procs : pc[p] \in Inner => Fits(pc[p])
    /\ (\A p \in Procs : pc[p] \notin Inner) => Fits("entered")

\* How often the script of a call was begun and ended in a crash, by its place.
CountsFit(place, a, s, c) ==
    /\ a \in 0..2 /\ s \in Nat /\ c \in Nat
    /\ place \in {"queued", "entered", "recycling"} => a = 0 /\ s = 0 /\ c = 0
    /\ place = "init" => a = c /\ s = c /\ c <= 1
    /\ place = "prepare" => a = c + 1 /\ s = c /\ c <= 1
    /\ place = "run" => a = c + 1 /\ s = c + 1 /\ c <= 1
    /\ s <= c + 1 /\ c <= 2

Counted ==
    /\ attempt \in [Procs -> 0..2] /\ started \in [Procs -> Nat] /\ crashes \in [Procs -> Nat]
    /\ result \in [Procs -> Results] /\ orphaned \subseteq Procs
    /\ \A p \in Procs : /\ CountsFit(pc[p], attempt[p], started[p], crashes[p])
                        /\ p \in orphaned => pc[p] = "idle" /\ result[p] = "timeout"

RestOK ==
    /\ op \in [Procs -> Ops] /\ callCount \in Nat /\ calls \in 0..MaxCalls
    /\ persistent \in BOOLEAN /\ disposing \in BOOLEAN /\ disposed \in BOOLEAN

SlotInv == LockOK /\ SessionOK /\ Counted /\ RestOK

-----------------------------------------------------------------------------
(* Queues. *)

LEMMA TailFacts ==
    ASSUME NEW q \in Seq(Procs), q # <<>>, IsInjective(q)
    PROVE  /\ Head(q) \in Procs /\ Head(q) \in ToSet(q)
           /\ Tail(q) \in Seq(Procs) /\ IsInjective(Tail(q))
           /\ ToSet(Tail(q)) = ToSet(q) \ {Head(q)}
<1>1. Len(q) \in Nat /\ Len(q) > 0 /\ DOMAIN q = 1..Len(q) /\ Head(q) = q[1] /\ Head(q) \in Procs
  OBVIOUS
<1>2. /\ Tail(q) \in Seq(Procs) /\ DOMAIN Tail(q) = 1..(Len(q) - 1)
      /\ \A i \in 1..(Len(q) - 1) : Tail(q)[i] = q[i + 1]
  BY <1>1
<1>3. IsInjective(Tail(q))
  BY <1>1, <1>2 DEF IsInjective
<1>4. ToSet(Tail(q)) \subseteq ToSet(q) \ {Head(q)}
  BY <1>1, <1>2 DEF ToSet, IsInjective
<1>5. ASSUME NEW x \in ToSet(q) \ {Head(q)} PROVE x \in ToSet(Tail(q))
  <2>1. PICK i \in 1..Len(q) : x = q[i] /\ i # 1
    BY <1>1 DEF ToSet
  <2>2. i - 1 \in 1..(Len(q) - 1) /\ Tail(q)[i - 1] = x
    BY <1>1, <1>2, <2>1
  <2> QED
    BY <1>2, <2>2 DEF ToSet
<1> QED
  BY SMTT(30), <1>1, <1>2, <1>3, <1>4, <1>5 DEF ToSet

LEMMA AppendFacts ==
    ASSUME NEW q \in Seq(Procs), IsInjective(q), NEW p \in Procs, p \notin ToSet(q)
    PROVE  /\ Append(q, p) \in Seq(Procs) /\ IsInjective(Append(q, p))
           /\ ToSet(Append(q, p)) = ToSet(q) \cup {p}
<1>1. Len(q) \in Nat /\ DOMAIN q = 1..Len(q)
  OBVIOUS
<1>2. /\ Append(q, p) \in Seq(Procs) /\ DOMAIN Append(q, p) = 1..(Len(q) + 1)
      /\ \A i \in 1..Len(q) : Append(q, p)[i] = q[i]
      /\ Append(q, p)[Len(q) + 1] = p
  BY <1>1
<1>3. IsInjective(Append(q, p))
  BY <1>1, <1>2 DEF IsInjective, ToSet
<1>4. ToSet(Append(q, p)) = ToSet(q) \cup {p}
  BY <1>1, <1>2 DEF ToSet
<1> QED
  BY <1>2, <1>3, <1>4

-----------------------------------------------------------------------------
(* The lock. *)

\* p is at `place` now, and another one may have been let in.
Moved(p, place) ==
    /\ pc' \in [Procs -> Places] /\ pc'[p] = place
    /\ \A q \in Procs \ {p} : pc'[q] = pc[q] \/ (pc[q] = "queued" /\ pc'[q] = "entered")

Alone(p) == \A q \in Procs \ {p} : pc[q] \notin Inside

LEMMA InsideAlone ==
    ASSUME LockOK, NEW p \in Procs, pc[p] \in Inside
    PROVE  Alone(p) /\ holder = p
  BY DEF LockOK, Alone

LEMMA EnterEffect ==
    ASSUME LockOK, NEW p \in Procs, pc[p] = "idle", Enter(p)
    PROVE  LockOK' /\ \E place \in {"entered", "queued"} : Moved(p, place)
<1>1. p \notin ToSet(queue) /\ p # Nobody /\ holder # p
  BY SlotAssumption DEF LockOK, Inside
<1>2. CASE holder = Nobody
  <2>1. holder' = p /\ queue' = queue /\ pc' = [pc EXCEPT ![p] = "entered"] /\ queue = <<>>
    BY <1>2 DEF Enter, LockOK
  <2>2. {q \in Procs : pc'[q] \in Inside} = {p}
    BY <1>2, <2>1 DEF LockOK, Inside
  <2>3. {q \in Procs : pc'[q] = "queued"} = {q \in Procs : pc[q] = "queued"}
    BY <2>1 DEF LockOK
  <2> QED
    BY <1>1, <2>1, <2>2, <2>3 DEF LockOK, Moved, Places, Inside
<1>3. CASE holder # Nobody
  <2>1. holder' = holder /\ queue' = Append(queue, p) /\ pc' = [pc EXCEPT ![p] = "queued"]
    BY <1>3 DEF Enter
  <2>2. {q \in Procs : pc'[q] \in Inside} = {q \in Procs : pc[q] \in Inside}
    BY <2>1 DEF LockOK, Inside
  <2>3. {q \in Procs : pc'[q] = "queued"} = {q \in Procs : pc[q] = "queued"} \cup {p}
    BY <2>1 DEF LockOK
  <2>4. queue' \in Seq(Procs) /\ IsInjective(queue') /\ ToSet(queue') = ToSet(queue) \cup {p}
    BY <1>1, <2>1, AppendFacts DEF LockOK
  <2> QED
    BY <1>3, <2>1, <2>2, <2>3, <2>4 DEF LockOK, Moved, Places
<1> QED
  BY <1>2, <1>3

LEMMA LeaveEffect ==
    ASSUME LockOK, NEW p \in Procs, pc[p] \in Inside, NEW place \in {"idle", "spawned"},
           LeaveFor(p, place)
    PROVE  LockOK' /\ Moved(p, place)
<1>0. holder = p /\ Alone(p) /\ p # Nobody
  BY InsideAlone, SlotAssumption
<1>1. CASE queue = <<>>
  <2>1. holder' = Nobody /\ queue' = queue /\ pc' = [pc EXCEPT ![p] = place]
    BY <1>1 DEF LeaveFor
  <2>2. {q \in Procs : pc'[q] \in Inside} = {}
    BY <1>0, <2>1 DEF LockOK, Alone, Inside
  <2>3. {q \in Procs : pc'[q] = "queued"} = {q \in Procs : pc[q] = "queued"}
    BY <2>1 DEF LockOK, Inside
  <2> QED
    BY <1>1, <2>1, <2>2, <2>3 DEF LockOK, Moved, Places
<1>2. CASE queue # <<>>
  <2>1. PICK h : h = Head(queue)
    OBVIOUS
  <2>2. /\ h \in Procs /\ h \in ToSet(queue)
        /\ Tail(queue) \in Seq(Procs) /\ IsInjective(Tail(queue))
        /\ ToSet(Tail(queue)) = ToSet(queue) \ {h}
    BY <1>2, <2>1, TailFacts DEF LockOK
  <2>3. pc[h] = "queued" /\ h # p /\ h # Nobody
    BY <2>2, SlotAssumption DEF LockOK, Inside
  <2>4. holder' = h /\ queue' = Tail(queue) /\ pc' = [pc EXCEPT ![p] = place, ![h] = "entered"]
    BY <1>2, <2>1 DEF LeaveFor
  <2>5. {q \in Procs : pc'[q] \in Inside} = {h}
    BY <1>0, <2>2, <2>3, <2>4 DEF LockOK, Alone, Inside
  <2>6. {q \in Procs : pc'[q] = "queued"} = {q \in Procs : pc[q] = "queued"} \ {h}
    BY <2>2, <2>3, <2>4 DEF LockOK, Inside
  <2>7. pc' \in [Procs -> Places]
    BY <2>4 DEF LockOK, Places, Inside
  <2>8. Moved(p, place)
    BY <2>2, <2>3, <2>4, <2>7 DEF LockOK, Moved
  <2> QED
    BY <2>2, <2>3, <2>4, <2>5, <2>6, <2>7, <2>8 DEF LockOK
<1> QED
  BY <1>1, <1>2

LEMMA MoveEffect ==
    ASSUME LockOK, NEW p \in Procs, NEW place \in Places, pc' = [pc EXCEPT ![p] = place],
           UNCHANGED lockVars,
           \/ pc[p] \in Inside /\ place \in Inside
           \/ pc[p] \in {"idle", "spawned"} /\ place \in {"idle", "spawned"}
    PROVE  LockOK' /\ Moved(p, place)
<1>1. {q \in Procs : pc'[q] \in Inside} = {q \in Procs : pc[q] \in Inside}
  BY DEF LockOK, Inside
<1>2. {q \in Procs : pc'[q] = "queued"} = {q \in Procs : pc[q] = "queued"}
  BY DEF LockOK, Inside
<1> QED
  BY <1>1, <1>2 DEF LockOK, Moved, lockVars

-----------------------------------------------------------------------------
(* The session and the counts. *)

LEMMA FitsNow ==
    ASSUME LockOK, SessionOK, NEW p \in Procs, pc[p] \in Inside
    PROVE  Fits(pc[p])
<1>1. CASE pc[p] \in Inner
  BY <1>1 DEF SessionOK
<1>2. CASE pc[p] = "entered"
  <2>1. \A q \in Procs : pc[q] \notin Inner
    BY <1>2, InsideAlone DEF Alone, Inner, Inside
  <2> QED
    BY <1>2, <2>1 DEF SessionOK
<1> QED
  BY <1>1, <1>2 DEF Inside, Inner

LEMMA FitsNext ==
    ASSUME NEW p \in Procs, NEW place, Moved(p, place), Alone(p), Fits(place)'
    PROVE  SessionOK'
<1>1. \A q \in Procs \ {p} : pc'[q] \notin Inner
  BY DEF Moved, Alone, Inner, Inside
<1>2. pc'[p] = place
  BY DEF Moved
<1>3. ASSUME NEW q \in Procs, pc'[q] \in Inner PROVE Fits(pc[q])'
  <2>1. q = p
    BY <1>1, <1>3
  <2> QED
    BY <1>2, <2>1 DEF Fits
<1>4. ASSUME place \notin Inner PROVE Fits("entered")'
  BY <1>4 DEF Fits, Inner
<1> QED
  BY <1>2, <1>3, <1>4 DEF SessionOK

LEMMA FitsFrame ==
    ASSUME SessionOK, UNCHANGED <<state, live, disposed>>,
           \A q \in Procs : pc'[q] = pc[q] \/ (pc[q] \notin Inner /\ pc'[q] \notin Inner)
    PROVE  SessionOK'
<1>1. ASSUME NEW q \in Procs, pc'[q] \in Inner PROVE Fits(pc[q])'
  BY <1>1 DEF SessionOK, Fits
<1>2. ASSUME \A q \in Procs : pc'[q] \notin Inner PROVE Fits("entered")'
  BY <1>2 DEF SessionOK, Fits
<1> QED
  BY <1>1, <1>2 DEF SessionOK

\* A step of p changes the counts of its own call only.
LEMMA CountedNext ==
    ASSUME Counted, NEW p \in Procs, NEW place, Moved(p, place),
           NEW a, NEW s, NEW c, NEW r \in Results, CountsFit(place, a, s, c),
           attempt' = [attempt EXCEPT ![p] = a], started' = [started EXCEPT ![p] = s],
           crashes' = [crashes EXCEPT ![p] = c], result' = [result EXCEPT ![p] = r],
           orphaned' \subseteq orphaned \cup {p},
           p \in orphaned' => place = "idle" /\ r = "timeout"
    PROVE  Counted'
<1>1. /\ attempt' \in [Procs -> 0..2] /\ started' \in [Procs -> Nat] /\ crashes' \in [Procs -> Nat]
      /\ result' \in [Procs -> Results] /\ orphaned' \subseteq Procs
  BY DEF Counted, CountsFit
<1>2. /\ CountsFit(pc'[p], attempt'[p], started'[p], crashes'[p])
      /\ p \in orphaned' => pc'[p] = "idle" /\ result'[p] = "timeout"
  BY DEF Counted, Moved
<1>3. ASSUME NEW q \in Procs \ {p}
      PROVE  /\ CountsFit(pc'[q], attempt'[q], started'[q], crashes'[q])
             /\ q \in orphaned' => pc'[q] = "idle" /\ result'[q] = "timeout"
  <2>1. /\ attempt'[q] = attempt[q] /\ started'[q] = started[q] /\ crashes'[q] = crashes[q]
        /\ result'[q] = result[q] /\ (q \in orphaned' => q \in orphaned)
    BY DEF Counted
  <2>2. CountsFit(pc[q], attempt[q], started[q], crashes[q])
    BY DEF Counted
  <2>3. q \in orphaned => pc[q] = "idle" /\ result[q] = "timeout"
    BY DEF Counted
  <2>4. pc'[q] = pc[q] \/ (pc[q] = "queued" /\ pc'[q] = "entered")
    BY DEF Moved
  <2>5. CountsFit(pc'[q], attempt[q], started[q], crashes[q])
    BY <2>2, <2>4 DEF CountsFit
  <2> QED
    BY <2>1, <2>3, <2>4, <2>5
<1>4. \A q \in Procs :
          /\ CountsFit(pc[q], attempt[q], started[q], crashes[q])'
          /\ q \in orphaned' => pc'[q] = "idle" /\ result'[q] = "timeout"
  BY <1>2, <1>3
<1> QED
  BY <1>1, <1>4 DEF Counted

\* The counts stand for themselves when p leaves them alone.
LEMMA CountsStay ==
    ASSUME Counted, NEW p \in Procs
    PROVE  /\ attempt = [attempt EXCEPT ![p] = attempt[p]]
           /\ started = [started EXCEPT ![p] = started[p]]
           /\ crashes = [crashes EXCEPT ![p] = crashes[p]]
           /\ result = [result EXCEPT ![p] = result[p]] /\ result[p] \in Results
           /\ CountsFit(pc[p], attempt[p], started[p], crashes[p])
           /\ p \in orphaned => pc[p] = "idle" /\ result[p] = "timeout"
  BY DEF Counted

-----------------------------------------------------------------------------
(* Calls. *)

LEMMA CallKeepsRest ==
    ASSUME RestOK, NEW p \in Procs, NEW o \in Ops, Call(p, o)
    PROVE  /\ op' \in [Procs -> Ops] /\ callCount' \in Nat /\ calls' \in 0..MaxCalls
           /\ UNCHANGED <<state, live>>
  BY SlotAssumption DEF Call, RestOK, sessionVars

LEMMA CallCounted ==
    ASSUME Counted, NEW p \in Procs, NEW o \in Ops, Call(p, o),
           NEW place \in {"idle", "entered", "queued", "spawned"}, Moved(p, place),
           NEW s \in {0, 1}, started' = [started EXCEPT ![p] = s], s = 1 => place = "spawned",
           NEW r \in Results, Settle(p, r)
    PROVE  Counted'
<1>1. CountsFit(place, 0, s, 0)
  BY DEF CountsFit
<1>2. /\ attempt' = [attempt EXCEPT ![p] = 0] /\ crashes' = [crashes EXCEPT ![p] = 0]
      /\ result' = [result EXCEPT ![p] = r] /\ orphaned' = orphaned \ {p}
  BY DEF Call, Settle
<1> QED
  BY <1>1, <1>2, CountedNext

LEMMA CallsKeep ==
    ASSUME SlotInv, NEW p \in Procs, RunScript(p) \/ MaybeRecycle(p) \/ Dispose(p)
    PROVE  SlotInv'
<1>0. LockOK /\ SessionOK /\ Counted /\ RestOK
  BY DEF SlotInv
<1>1. PICK o \in Ops : Call(p, o)
  BY DEF RunScript, MaybeRecycle, Dispose, Ops
<1>2. pc[p] = "idle"
  BY <1>1 DEF Call
<1>3. PICK r \in Results : Settle(p, r)
  BY DEF RunScript, MaybeRecycle, Dispose, Results
<1>4. CASE Enter(p) /\ started' = [started EXCEPT ![p] = 0]
  <2>1. LockOK' /\ \E place \in {"entered", "queued"} : Moved(p, place)
    BY <1>0, <1>2, <1>4, EnterEffect
  <2>2. PICK place \in {"entered", "queued"} : Moved(p, place)
    BY <2>1
  <2>3. Counted'
    <3>1. PICK s \in {0, 1} : s = 0 /\ started' = [started EXCEPT ![p] = s]
      BY <1>4
    <3>2. s = 1 => place = "spawned"
      BY <3>1
    <3> QED
      BY <1>0, <1>1, <1>3, <2>2, <3>1, <3>2, CallCounted
  <2>4. \A q \in Procs : pc'[q] = pc[q] \/ (pc[q] \notin Inner /\ pc'[q] \notin Inner)
    BY <1>2, <2>2 DEF Moved, Inner
  <2>5. UNCHANGED disposed /\ disposing' \in BOOLEAN /\ persistent' = persistent
    BY <1>0 DEF RunScript, MaybeRecycle, Dispose, flags, RestOK
  <2>6. SessionOK' /\ RestOK'
    BY <1>0, <1>1, <2>4, <2>5, CallKeepsRest, FitsFrame DEF RestOK
  <2> QED
    BY <2>1, <2>3, <2>6 DEF SlotInv
<1>5. CASE UNCHANGED <<pc, lockVars, flags>> /\ started' = [started EXCEPT ![p] = 0]
  <2>1. pc' = [pc EXCEPT ![p] = "idle"]
    BY <1>0, <1>2, <1>5 DEF LockOK
  <2>2. LockOK' /\ Moved(p, "idle")
    BY <1>0, <1>2, <1>5, <2>1, MoveEffect DEF Places
  <2>3. Counted'
    <3>1. PICK s \in {0, 1} : s = 0 /\ started' = [started EXCEPT ![p] = s]
      BY <1>5
    <3>2. PICK place \in {"idle", "entered", "queued", "spawned"} :
              place = "idle" /\ Moved(p, place) /\ (s = 1 => place = "spawned")
      BY <2>2, <3>1
    <3> QED
      BY <1>0, <1>1, <1>3, <3>1, <3>2, CallCounted
  <2>4. SessionOK' /\ RestOK'
    BY <1>0, <1>1, <1>5, CallKeepsRest, FitsFrame DEF RestOK, flags
  <2> QED
    BY <2>2, <2>3, <2>4 DEF SlotInv
<1>6. CASE /\ pc' = [pc EXCEPT ![p] = "spawned"] /\ UNCHANGED <<lockVars, flags>>
           /\ started' = [started EXCEPT ![p] = 1]
  <2>1. LockOK' /\ Moved(p, "spawned")
    BY <1>0, <1>2, <1>6, MoveEffect DEF Places
  <2>2. Counted'
    BY <1>0, <1>1, <1>3, <1>6, <2>1, CallCounted
  <2>3. \A q \in Procs : pc'[q] = pc[q] \/ (pc[q] \notin Inner /\ pc'[q] \notin Inner)
    BY <1>0, <1>2, <1>6 DEF LockOK, Inner
  <2>4. SessionOK' /\ RestOK'
    BY <1>0, <1>1, <1>6, <2>3, CallKeepsRest, FitsFrame DEF RestOK, flags
  <2> QED
    BY <2>1, <2>2, <2>4 DEF SlotInv
<1> QED
  BY <1>4, <1>5, <1>6 DEF RunScript, MaybeRecycle, Dispose, flags

-----------------------------------------------------------------------------
(* Steps under the lock, and of the spawn fallback. *)

\* What the steps of a call have in common: p goes from inside to `place`, and
\* changes what concerns it.
LEMMA InnerStep ==
    ASSUME SlotInv, NEW p \in Procs, pc[p] \in Inside, NEW place, LockOK', Moved(p, place),
           Fits(place)',
           NEW a, NEW s, NEW c, NEW r \in Results, CountsFit(place, a, s, c),
           attempt' = [attempt EXCEPT ![p] = a], started' = [started EXCEPT ![p] = s],
           crashes' = [crashes EXCEPT ![p] = c], result' = [result EXCEPT ![p] = r],
           orphaned' \subseteq orphaned \cup {p},
           p \in orphaned' => place = "idle" /\ r = "timeout",
           UNCHANGED <<op, calls, persistent, disposing>>,
           disposed' \in BOOLEAN, callCount' \in Nat
    PROVE  SlotInv'
<1>1. Alone(p)
  BY InsideAlone DEF SlotInv
<1>2. SessionOK'
  BY <1>1, FitsNext
<1>3. Counted'
  BY CountedNext DEF SlotInv
<1>4. RestOK'
  BY DEF SlotInv, RestOK
<1> QED
  BY <1>2, <1>3, <1>4 DEF SlotInv

\* The same for a step that stays inside.
LEMMA InnerMove ==
    ASSUME SlotInv, NEW p \in Procs, pc[p] \in Inside, NEW place \in Inner, LockOK', Moved(p, place),
           Fits(place)', UNCHANGED <<result, orphaned>>,
           NEW a, NEW s, NEW c, CountsFit(place, a, s, c),
           attempt' = [attempt EXCEPT ![p] = a], started' = [started EXCEPT ![p] = s],
           crashes' = [crashes EXCEPT ![p] = c],
           UNCHANGED <<op, calls, persistent, disposing, disposed>>, callCount' \in Nat
    PROVE  SlotInv'
<1>1. result' = [result EXCEPT ![p] = result[p]] /\ result[p] \in Results /\ p \notin orphaned
  BY CountsStay DEF SlotInv, Inside
<1>2. disposed' \in BOOLEAN
  BY DEF SlotInv, RestOK
<1> QED
  BY <1>1, <1>2, InnerStep

LEMMA ScriptBeginsKeeps ==
    ASSUME SlotInv, NEW p \in Procs,
           UseHealthy(p) \/ Create(p) \/ InitSucceeds(p) \/ Send(p) \/ Recycle(p)
    PROVE  SlotInv'
<1>0. LockOK /\ SessionOK /\ Counted /\ RestOK
  BY DEF SlotInv
<1>1. pc[p] \in Inside
  BY DEF UseHealthy, Create, InitSucceeds, Send, Recycle, Inside
<1>2. Fits(pc[p])
  BY <1>0, <1>1, FitsNow
<1>3. /\ started = [started EXCEPT ![p] = started[p]] /\ crashes = [crashes EXCEPT ![p] = crashes[p]]
      /\ attempt = [attempt EXCEPT ![p] = attempt[p]]
      /\ result = [result EXCEPT ![p] = result[p]] /\ result[p] \in Results
      /\ CountsFit(pc[p], attempt[p], started[p], crashes[p])
      /\ p \notin orphaned
  BY <1>0, <1>1, CountsStay DEF Inside
<1>4. CASE UseHealthy(p) \/ InitSucceeds(p)
  <2>1. /\ pc' = [pc EXCEPT ![p] = "prepare"] /\ state' = "running" /\ callCount' \in Nat
        /\ attempt' = [attempt EXCEPT ![p] = attempt[p] + 1]
        /\ UNCHANGED <<result, lockVars, live, op, started, crashes, orphaned, flags, calls>>
    BY <1>0, <1>4 DEF UseHealthy, InitSucceeds, Execute, RestOK
  <2>2. LockOK' /\ Moved(p, "prepare")
    BY <1>0, <1>1, <2>1, MoveEffect DEF Places, Inside
  <2>3. Fits("prepare")'
    BY <1>2, <1>4, <2>1 DEF Fits, UseHealthy, InitSucceeds, Closed, flags, Inner
  <2>4. PICK a : /\ a = attempt[p] + 1 /\ attempt' = [attempt EXCEPT ![p] = a]
                 /\ CountsFit("prepare", a, started[p], crashes[p])
    <3>1. CountsFit("prepare", attempt[p] + 1, started[p], crashes[p])
      BY <1>3, <1>4 DEF CountsFit, UseHealthy, InitSucceeds
    <3> QED
      BY <2>1, <3>1
  <2>5. started' = [started EXCEPT ![p] = started[p]] /\ crashes' = [crashes EXCEPT ![p] = crashes[p]]
    BY <1>3, <2>1
  <2>6. UNCHANGED <<op, calls, persistent, disposing, disposed, result, orphaned>> /\ callCount' \in Nat
    BY <2>1 DEF flags
  <2>7. PICK place \in Inner : /\ LockOK' /\ Moved(p, place) /\ Fits(place)'
                               /\ CountsFit(place, a, started[p], crashes[p])
    BY <2>2, <2>3, <2>4 DEF Inner
  <2>8. PICK s, c : /\ started' = [started EXCEPT ![p] = s] /\ crashes' = [crashes EXCEPT ![p] = c]
                    /\ CountsFit(place, a, s, c)
    BY <2>5, <2>7
  <2> QED
    BY <1>1, <2>4, <2>6, <2>7, <2>8, InnerMove
<1>5. CASE Create(p)
  <2>1. /\ pc' = [pc EXCEPT ![p] = "init"] /\ state' = "none" /\ live' = Leftover + 1
        /\ UNCHANGED <<result, lockVars, callCount, callVars, flags, calls>>
    BY <1>5 DEF Create
  <2>2. LockOK' /\ Moved(p, "init")
    BY <1>0, <1>1, <2>1, MoveEffect DEF Places, Inside
  <2>3. Fits("init")'
    BY <1>2, <1>5, <2>1 DEF Fits, Create, Leftover, Closed, flags, Inner
  <2>4. CountsFit("init", attempt[p], started[p], crashes[p])
    BY <1>3, <1>5 DEF CountsFit, Create
  <2> QED
    BY <1>0, <1>1, <1>3, <2>1, <2>2, <2>3, <2>4, InnerStep DEF flags, callVars, RestOK
<1>6. CASE Send(p)
  <2>1. /\ pc' = [pc EXCEPT ![p] = "run"] /\ started' = [started EXCEPT ![p] = started[p] + 1]
        /\ UNCHANGED <<result, lockVars, sessionVars, op, attempt, crashes, orphaned, flags, calls>>
    BY <1>6 DEF Send, Starts
  <2>2. LockOK' /\ Moved(p, "run")
    BY <1>0, <1>1, <2>1, MoveEffect DEF Places, Inside
  <2>3. Fits("run")'
    BY <1>2, <1>6, <2>1 DEF Fits, Send, sessionVars, flags, Inner
  <2>4. PICK s : /\ s = started[p] + 1 /\ started' = [started EXCEPT ![p] = s]
                 /\ CountsFit("run", attempt[p], s, crashes[p])
    <3>1. CountsFit("run", attempt[p], started[p] + 1, crashes[p])
      BY <1>3, <1>6 DEF CountsFit, Send
    <3> QED
      BY <2>1, <3>1
  <2>5. attempt' = [attempt EXCEPT ![p] = attempt[p]] /\ crashes' = [crashes EXCEPT ![p] = crashes[p]]
    BY <1>3, <2>1
  <2>6. callCount' \in Nat
    BY <1>0, <2>1 DEF sessionVars, RestOK
  <2>7. UNCHANGED <<op, calls, persistent, disposing, disposed, result, orphaned>>
    BY <2>1 DEF flags
  <2>8. PICK place \in Inner : /\ LockOK' /\ Moved(p, place) /\ Fits(place)'
                               /\ CountsFit(place, attempt[p], s, crashes[p])
    BY <2>2, <2>3, <2>4 DEF Inner
  <2>9. PICK a, c : /\ attempt' = [attempt EXCEPT ![p] = a] /\ crashes' = [crashes EXCEPT ![p] = c]
                    /\ CountsFit(place, a, s, c)
    BY <2>5, <2>8
  <2> QED
    BY <1>1, <2>4, <2>6, <2>7, <2>8, <2>9, InnerMove
<1>7. CASE Recycle(p)
  <2>1. /\ pc' = [pc EXCEPT ![p] = "recycling"] /\ state' = "recycling"
        /\ UNCHANGED <<result, lockVars, callCount, live, callVars, flags, calls>>
    BY <1>7 DEF Recycle
  <2>2. LockOK' /\ Moved(p, "recycling")
    BY <1>0, <1>1, <2>1, MoveEffect DEF Places, Inside
  <2>3. Fits("recycling")'
    BY <1>2, <1>7, <2>1 DEF Fits, Recycle, Due, Closed, flags, Inner
  <2>4. CountsFit("recycling", attempt[p], started[p], crashes[p])
    BY <1>3, <1>7 DEF CountsFit, Recycle
  <2> QED
    BY <1>0, <1>1, <1>3, <2>1, <2>2, <2>3, <2>4, InnerStep DEF flags, callVars, RestOK
<1> QED
  BY <1>4, <1>5, <1>6, <1>7

\* Steps that end the call, or hand it to the spawn fallback.
LEMMA CallEndsKeeps ==
    ASSUME SlotInv, NEW p \in Procs, pc[p] \in Inside, NEW place \in {"idle", "spawned"},
           LeaveFor(p, place), NEW r \in Results, result' = [result EXCEPT ![p] = r],
           NEW s, NEW c, started' = [started EXCEPT ![p] = s], crashes' = [crashes EXCEPT ![p] = c],
           UNCHANGED <<attempt, op, calls, persistent, disposing>>,
           CountsFit(place, attempt[p], s, c), Fits(place)',
           orphaned' = orphaned \/ (orphaned' = orphaned \cup {p} /\ place = "idle" /\ r = "timeout"),
           disposed' \in BOOLEAN, callCount' \in Nat
    PROVE  SlotInv'
<1>0. LockOK /\ Counted
  BY DEF SlotInv
<1>1. LockOK' /\ Moved(p, place)
  BY <1>0, LeaveEffect
<1>2. attempt = [attempt EXCEPT ![p] = attempt[p]] /\ p \notin orphaned
  BY <1>0, CountsStay DEF Inside
<1> QED
  BY <1>1, <1>2, InnerStep

LEMMA ScriptEndsKeeps ==
    ASSUME SlotInv, NEW p \in Procs,
           Refuse(p) \/ TempFileFails(p) \/ PipeBroken(p) \/ Marker(p) \/ Timeout(p)
    PROVE  SlotInv'
<1>0. LockOK /\ SessionOK /\ Counted /\ RestOK
  BY DEF SlotInv
<1>1. pc[p] \in Inside
  BY DEF Refuse, TempFileFails, PipeBroken, Marker, Timeout, Inside
<1>2. Fits(pc[p]) /\ pc[p] \in {"entered", "prepare", "run"}
  BY <1>0, <1>1, FitsNow DEF Refuse, TempFileFails, PipeBroken, Marker, Timeout
<1>3. /\ started = [started EXCEPT ![p] = started[p]] /\ crashes = [crashes EXCEPT ![p] = crashes[p]]
      /\ CountsFit("idle", attempt[p], started[p], crashes[p])
  BY <1>0, CountsStay DEF CountsFit
<1>4. PICK r \in Results : /\ LeaveFor(p, "idle") /\ result' = [result EXCEPT ![p] = r]
                           /\ r # "timeout" => orphaned' = orphaned
                           /\ orphaned' = orphaned \/ orphaned' = orphaned \cup {p}
  BY DEF Refuse, TempFileFails, PipeBroken, Marker, Timeout, AfterTimeout, Return, Settle, Results,
         callVars
<1>5. UNCHANGED <<started, crashes, attempt, op, calls, persistent, disposing, disposed, callCount>>
  BY DEF Refuse, TempFileFails, PipeBroken, Marker, Timeout, AfterTimeout, flags, callVars, sessionVars
<1>6. Fits("idle")'
  BY <1>2, <1>5 DEF Refuse, TempFileFails, PipeBroken, Marker, Timeout, Fits, sessionVars, Inner
<1> QED
  BY <1>0, <1>1, <1>3, <1>4, <1>5, <1>6, CallEndsKeeps DEF RestOK

LEMMA FallBackKeeps ==
    ASSUME SlotInv, NEW p \in Procs, InitFails(p) \/ WriteFails(p)
    PROVE  SlotInv'
<1>0. LockOK /\ SessionOK /\ Counted /\ RestOK
  BY DEF SlotInv
<1>1. pc[p] \in Inside
  BY DEF InitFails, WriteFails, Inside
<1>2. Fits(pc[p]) /\ pc[p] \in {"init", "prepare"}
  BY <1>0, <1>1, FitsNow DEF InitFails, WriteFails
<1>3. /\ crashes = [crashes EXCEPT ![p] = crashes[p]]
      /\ result = [result EXCEPT ![p] = result[p]] /\ result[p] \in Results
  BY <1>0, CountsStay
<1>4. PICK s : s = started[p] + 1 /\ started' = [started EXCEPT ![p] = s] /\ LeaveFor(p, "spawned")
  BY DEF InitFails, WriteFails, FallBack, Starts
<1>5. UNCHANGED <<result, crashes, attempt, orphaned, op, calls, persistent, disposing, disposed, callCount>>
  BY DEF InitFails, WriteFails, FallBack, flags
<1>6. CountsFit("spawned", attempt[p], s, crashes[p])
  BY <1>0, <1>2, <1>4, CountsStay DEF CountsFit
<1>7. Fits("spawned")'
  BY <1>2, <1>5 DEF InitFails, WriteFails, Fits, Inner
<1> QED
  BY <1>0, <1>1, <1>3, <1>4, <1>5, <1>6, <1>7, CallEndsKeeps DEF RestOK

LEMMA CrashKeeps ==
    ASSUME SlotInv, NEW p \in Procs, Crash(p)
    PROVE  SlotInv'
<1>0. LockOK /\ SessionOK /\ Counted /\ RestOK
  BY DEF SlotInv
<1>1. pc[p] = "run" /\ pc[p] \in Inside
  BY DEF Crash, Inside
<1>2. Fits("run") /\ CountsFit("run", attempt[p], started[p], crashes[p])
  BY <1>0, <1>1, FitsNow, CountsStay
<1>3. /\ started = [started EXCEPT ![p] = started[p]] /\ attempt = [attempt EXCEPT ![p] = attempt[p]]
      /\ result = [result EXCEPT ![p] = result[p]] /\ result[p] \in Results
      /\ p \notin orphaned
  BY <1>0, <1>1, CountsStay
<1>4. PICK c : c = crashes[p] + 1 /\ crashes' = [crashes EXCEPT ![p] = c]
  BY DEF Crash
<1>5. UNCHANGED <<callCount, op, attempt, orphaned, persistent, disposing, disposed, calls>>
  BY DEF Crash, flags
<1>6. CASE /\ attempt[p] = 1 /\ state' = "none" /\ pc' = [pc EXCEPT ![p] = "init"]
           /\ UNCHANGED <<live, started, result, lockVars>>
  <2>1. LockOK' /\ Moved(p, "init")
    BY <1>0, <1>1, <1>6, MoveEffect DEF Places, Inside
  <2>2. Fits("init")'
    BY <1>2, <1>5, <1>6 DEF Fits, Inner
  <2>3. CountsFit("init", attempt[p], started[p], c)
    BY <1>2, <1>4, <1>6 DEF CountsFit
  <2>4. started' = [started EXCEPT ![p] = started[p]] /\ attempt' = [attempt EXCEPT ![p] = attempt[p]]
    BY <1>3, <1>5, <1>6
  <2>5. callCount' \in Nat
    BY <1>0, <1>5 DEF RestOK
  <2> QED
    BY <1>1, <1>4, <1>5, <1>6, <2>1, <2>2, <2>3, <2>4, <2>5, InnerMove DEF Inner
<1>7. CASE attempt[p] # 1 /\ state' = "dead" /\ live' = live - 1 /\ FallBack(p)
  <2>1. PICK s : s = started[p] + 1 /\ started' = [started EXCEPT ![p] = s] /\ LeaveFor(p, "spawned")
    BY <1>7 DEF FallBack, Starts
  <2>2. Fits("spawned")'
    BY <1>2, <1>5, <1>7 DEF Fits, Inner
  <2>3. CountsFit("spawned", attempt[p], s, c)
    BY <1>2, <1>4, <1>7, <2>1 DEF CountsFit
  <2>4. result' = [result EXCEPT ![p] = result[p]]
    BY <1>3, <1>7 DEF FallBack
  <2> QED
    BY <1>0, <1>1, <1>3, <1>4, <1>5, <2>1, <2>2, <2>3, <2>4, CallEndsKeeps DEF RestOK
<1> QED
  BY <1>6, <1>7 DEF Crash, Retry

LEMMA OthersKeep ==
    ASSUME SlotInv, NEW p \in Procs, NotDue(p) \/ Recycled(p) \/ DisposeSession(p)
    PROVE  SlotInv'
<1>0. LockOK /\ SessionOK /\ Counted /\ RestOK
  BY DEF SlotInv
<1>1. pc[p] \in Inside
  BY DEF NotDue, Recycled, DisposeSession, Inside
<1>2. Fits(pc[p])
  BY <1>0, <1>1, FitsNow
<1>3. /\ started = [started EXCEPT ![p] = started[p]] /\ crashes = [crashes EXCEPT ![p] = crashes[p]]
      /\ CountsFit("idle", attempt[p], started[p], crashes[p])
  BY <1>0, CountsStay DEF CountsFit
<1>4. LeaveFor(p, "idle") /\ result' = [result EXCEPT ![p] = "ok"] /\ "ok" \in Results
  BY DEF NotDue, Recycled, DisposeSession, Return, Settle, Results
<1>5. /\ UNCHANGED <<started, crashes, attempt, orphaned, op, calls, persistent, disposing>>
      /\ disposed' \in BOOLEAN /\ callCount' \in Nat
  <2>1. CASE NotDue(p)
    BY <1>0, <2>1 DEF NotDue, flags, callVars, sessionVars, RestOK
  <2>2. CASE Recycled(p)
    BY <1>0, <2>2 DEF Recycled, flags, callVars, RestOK
  <2>3. CASE DisposeSession(p)
    BY <1>0, <2>3 DEF DisposeSession, callVars, RestOK
  <2> QED
    BY <2>1, <2>2, <2>3
<1>6. Fits("idle")'
  <2>1. CASE NotDue(p)
    BY <1>2, <2>1 DEF NotDue, Fits, sessionVars, flags, Inner
  <2>2. CASE Recycled(p)
    BY <1>2, <2>2 DEF Recycled, Fits, flags, Inner
  <2>3. CASE DisposeSession(p)
    BY <1>2, <2>3 DEF DisposeSession, LiveAfterDispose, Fits, Inner
  <2> QED
    BY <2>1, <2>2, <2>3
<1> QED
  BY <1>1, <1>3, <1>4, <1>5, <1>6, CallEndsKeeps

LEMMA SpawnedKeeps ==
    ASSUME SlotInv, NEW p \in Procs, NEW r \in {"ok", "failed"}, Spawned(p, r)
    PROVE  SlotInv'
<1>0. LockOK /\ SessionOK /\ Counted /\ RestOK
  BY DEF SlotInv
<1>1. /\ pc[p] = "spawned" /\ pc' = [pc EXCEPT ![p] = "idle"] /\ result' = [result EXCEPT ![p] = r]
      /\ UNCHANGED <<lockVars, sessionVars, callVars, flags, calls>>
  BY DEF Spawned, Settle
<1>2. LockOK' /\ Moved(p, "idle")
  BY <1>0, <1>1, MoveEffect DEF Places
<1>3. /\ attempt' = [attempt EXCEPT ![p] = attempt[p]]
      /\ started' = [started EXCEPT ![p] = started[p]]
      /\ crashes' = [crashes EXCEPT ![p] = crashes[p]]
      /\ CountsFit("idle", attempt[p], started[p], crashes[p]) /\ p \notin orphaned
      /\ orphaned' = orphaned /\ r \in Results
  BY <1>0, <1>1, CountsStay DEF CountsFit, callVars, Results
<1>4. Counted'
  BY <1>0, <1>1, <1>2, <1>3, CountedNext
<1>5. \A q \in Procs : pc'[q] = pc[q] \/ (pc[q] \notin Inner /\ pc'[q] \notin Inner)
  BY <1>0, <1>1 DEF LockOK, Inner
<1>6. SessionOK' /\ RestOK'
  BY <1>0, <1>1, <1>5, FitsFrame DEF RestOK, sessionVars, callVars, flags
<1> QED
  BY <1>2, <1>4, <1>6 DEF SlotInv

LEMMA NextKeeps ==
    ASSUME SlotInv, [Next]_vars
    PROVE  SlotInv'
<1>1. ASSUME NEW p \in Procs, Step(p) PROVE SlotInv'
  BY <1>1, ScriptBeginsKeeps, ScriptEndsKeeps, FallBackKeeps, CrashKeeps, OthersKeep, SpawnedKeeps
     DEF Step
<1>2. CASE UNCHANGED vars
  <2>1. /\ UNCHANGED <<pc, holder, queue, state, callCount, live, op, attempt, started, crashes>>
        /\ UNCHANGED <<orphaned, result, persistent, disposing, disposed, calls>>
    BY <1>2 DEF vars, lockVars, sessionVars, callVars, flags
  <2> QED
    BY <2>1 DEF SlotInv, LockOK, SessionOK, Fits, Counted, CountsFit, RestOK
<1> QED
  BY <1>1, <1>2, CallsKeep DEF Next

LEMMA Initially == Init => SlotInv
<1> SUFFICES ASSUME Init PROVE SlotInv
  OBVIOUS
<1>1. LockOK
  <2>1. queue = <<>> /\ <<>> \in Seq(Procs) /\ ToSet(<<>>) = {} /\ IsInjective(<<>>)
    BY DEF Init, ToSet, IsInjective
  <2>2. pc \in [Procs -> Places] /\ \A p \in Procs : pc[p] \notin Inside \cup {"queued"}
    BY DEF Init, Places, Inside
  <2> QED
    BY <2>1, <2>2 DEF Init, LockOK
<1>2. SessionOK
  BY DEF Init, SessionOK, Fits, Inner
<1>3. Counted
  BY DEF Init, Counted, CountsFit, Results
<1>4. RestOK
  <2>1. op \in [Procs -> Ops] /\ persistent \in BOOLEAN /\ disposing \in BOOLEAN /\ disposed \in BOOLEAN
    BY DEF Init, Ops
  <2>2. callCount \in Nat /\ calls \in 0..MaxCalls
    BY SlotAssumption DEF Init
  <2> QED
    BY <2>1, <2>2 DEF RestOK
<1> QED
  BY <1>1, <1>2, <1>3, <1>4 DEF SlotInv

-----------------------------------------------------------------------------

\* The inductive invariant of the slot.
THEOREM SlotInvariant == Spec => []SlotInv
  BY NextKeeps, Initially, PTL DEF Spec

\* The slot has one process when a session is up or being made and none
\* otherwise; none outlives its disposal.
THEOREM NoneLeaks == Spec => []NoProcessLeaks
<1>1. ASSUME SlotInv PROVE NoProcessLeaks
  <2>0. LockOK /\ SessionOK /\ Counted /\ RestOK
    BY <1>1 DEF SlotInv
  <2>1. PICK place : /\ Fits(place)
                     /\ place = "init" <=> \E p \in Procs : pc[p] = "init"
    <3>1. CASE \E p \in Procs : pc[p] \in Inner
      <4>1. PICK p \in Procs : pc[p] \in Inner
        BY <3>1
      <4>2. Fits(pc[p]) /\ \A q \in Procs \ {p} : pc[q] # "init"
        BY <2>0, <4>1, InsideAlone DEF SessionOK, Alone, Inner, Inside
      <4> QED
        BY <4>2
    <3>2. CASE \A p \in Procs : pc[p] \notin Inner
      BY <2>0, <3>2 DEF SessionOK, Inner
    <3> QED
      BY <3>1, <3>2
  <2>2. live = IF state \in {"idle", "running", "recycling"} \/ \E p \in Procs : pc[p] = "init"
               THEN 1 ELSE 0
    BY <2>1 DEF Fits
  <2>3. disposed => live = 0
    BY <2>1 DEF Fits, Inner
  <2>4. TypeOK
    BY <2>0, <2>1, <2>2 DEF LockOK, Counted, RestOK, Fits, TypeOK
  <2> QED
    BY <2>2, <2>3, <2>4 DEF NoProcessLeaks
<1> QED
  BY <1>1, SlotInvariant, PTL

\* A script is started again only after a crash, twice at most (in a fresh session,
\* then by the spawn fallback), and never after a timeout.
THEOREM RerunsRightly == Spec => []RerunOnlyAfterCrash
<1>1. SlotInv => RerunOnlyAfterCrash
  BY DEF SlotInv, Counted, CountsFit, RerunOnlyAfterCrash
<1> QED
  BY <1>1, SlotInvariant, PTL

\* No recycling and no disposal cuts a script short.
THEOREM RunsUndisturbed == Spec => RunsToItsEnd
<1>1. ASSUME SlotInv, [Next]_vars, NEW p \in Procs, pc[p] = "run", pc'[p] = "run"
      PROVE  UNCHANGED <<state, live>>
  <2>1. \A q \in Procs \ {p} : pc[q] \notin Inside
    BY <1>1, InsideAlone DEF SlotInv, Alone, Inside
  <2>2. pc \in [Procs -> Places]
    BY <1>1 DEF SlotInv, LockOK
  <2>3. ASSUME NEW q \in Procs, RunScript(q) \/ MaybeRecycle(q) \/ Dispose(q)
        PROVE  UNCHANGED <<state, live>>
    BY <2>3 DEF RunScript, MaybeRecycle, Dispose, Call, sessionVars
  <2>4. ASSUME NEW q \in Procs, NEW r \in {"ok", "failed"}, Spawned(q, r)
        PROVE  UNCHANGED <<state, live>>
    BY <2>4 DEF Spawned, sessionVars
  <2>5. ASSUME NEW q \in Procs,
               \/ Refuse(q) \/ UseHealthy(q) \/ Create(q) \/ InitSucceeds(q) \/ InitFails(q)
               \/ TempFileFails(q) \/ WriteFails(q) \/ PipeBroken(q) \/ Send(q)
               \/ NotDue(q) \/ Recycle(q) \/ Recycled(q) \/ DisposeSession(q)
        PROVE  FALSE
    <3>1. pc[q] \in Inside /\ pc[q] # "run"
      BY <2>5 DEF Refuse, UseHealthy, Create, InitSucceeds, InitFails, TempFileFails, WriteFails,
             PipeBroken, Send, NotDue, Recycle, Recycled, DisposeSession, Inside
    <3> QED
      BY <1>1, <2>1, <3>1
  <2>6. ASSUME NEW q \in Procs, Marker(q) \/ Timeout(q) \/ Crash(q) PROVE FALSE
    <3>1. q = p
      BY <2>1, <2>6 DEF Marker, Timeout, Crash, Inside
    <3>2. \E place \in {"idle", "spawned", "init"} :
              LeaveFor(p, place) \/ pc' = [pc EXCEPT ![p] = "init"]
      BY <2>6, <3>1 DEF Marker, Timeout, AfterTimeout, Crash, Return, FallBack
    <3>3. CASE pc' = [pc EXCEPT ![p] = "init"]
      BY <1>1, <2>2, <3>3
    <3>4. CASE \E place \in {"idle", "spawned"} : LeaveFor(p, place)
      BY <1>1, <3>4, LeaveEffect DEF SlotInv, Moved, Inside
    <3> QED
      BY <2>6, <3>1, <3>3, <3>4 DEF Marker, Timeout, AfterTimeout, Crash, Return, FallBack
  <2>7. CASE UNCHANGED vars
    BY <2>7 DEF vars, sessionVars
  <2> QED
    BY <1>1, <2>3, <2>4, <2>5, <2>6, <2>7 DEF Next, Step
<1>2. SlotInv /\ [Next]_vars =>
          [\A p \in Procs : pc[p] = "run" /\ pc'[p] = "run" => UNCHANGED <<state, live>>]_vars
  BY <1>1
<1> QED
  BY <1>2, SlotInvariant, PTL DEF Spec, RunsToItsEnd
=============================================================================
