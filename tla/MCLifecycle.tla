---------------------------- MODULE MCLifecycle ----------------------------
(* Instances of Lifecycle for TLC: two steps stand for the four. *)
EXTENDS Lifecycle, TLC

TwoSteps == <<"bench", "publish">>

\* A plain cycle, and one of another envelope that forces the bench.
SomeRequests ==
    {[from |-> 1, to |-> 2, force |-> {}, env |-> "e1"],
     [from |-> 1, to |-> 2, force |-> {"bench"}, env |-> "e2"]}

\* Two cycles that died, the first while it published, the last after its
\* started event, with one that failed between them.
E(of, kind, env) == [of |-> of, kind |-> kind, env |-> env]
Past ==
    <<E("cycle", "started", "e1"), E("bench", "started", "e1"), E("bench", "completed", "e1"),
      E("publish", "started", "e1"),
      E("cycle", "started", "e2"), E("bench", "started", "e2"), E("bench", "failed", "e2"),
      E("cycle", "failed", "e2"),
      E("cycle", "started", "e1")>>

NoPast == {[log |-> <<>>, cycles |-> 0]}
SomePast == NoPast \cup {[log |-> Past, cycles |-> 1]}

Symmetric == Permutations(Workers)

\* Events of different steps are never compared with each other, only with the
\* position of a worker's own started event and with the clock; skipped events
\* are read by nobody.
Kinds == {"cycle"} \cup StepNames
Told(k) == SelectSeq(log, LAMBDA e : e.of = k /\ e.kind # "skipped")
NoRank == [k \in Kinds |-> 0]
Rank(i) ==
    IF i = 0 THEN NoRank
    ELSE LET told == SelectSeq(SubSeq(log, 1, i), LAMBDA e : e.kind # "skipped")
         IN  [k \in Kinds |-> Len(SelectSeq(told, LAMBDA e : e.of = k))]

\* Of the whole log it matters which events a query of all events shows, and how
\* many it still would, skipped ones included.
Shown == IF Len(log) < StepLimit THEN Len(log) ELSE StepLimit

View == <<[k \in Kinds |-> Told(k)], Rank(Shown), Shown,
          [w \in Workers |-> [job[w] EXCEPT !.mine = Rank(@), !.won = Rank(@)["cycle"],
                                            !.aged = Rank(@)]],
          Rank(hourOld), Rank(twoHoursOld), cycles, faults, hours>>
=============================================================================
