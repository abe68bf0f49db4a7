------------------------------- MODULE Guard --------------------------------
(***************************************************************************)
(* The cardinality guard, internal/aggregate/guard.go: the count-min       *)
(* sketch that estimates how often a label value has been seen lately, and *)
(* the guards that decide with it which values get a series of their own.  *)
(*                                                                         *)
(* One counter serves the guards of the sequence Guards.  The path of an   *)
(* observation goes through two (purePath, then crossPath, in              *)
(* Registry.Record); every other dimension has one guard and one counter.  *)
(*                                                                         *)
(* Counter and guard have a lock each and Admit takes them one after the   *)
(* other, so the estimate may be stale when the guard decides.  Decay      *)
(* likewise drops values under the guard's lock and resets the counter     *)
(* afterwards.  The empty value never reaches the counter and is left out. *)
(***************************************************************************)
EXTENDS Integers, Sequences, FiniteSets, FiniteSetsExt

CONSTANTS
    Values,         \* non-empty label values
    Workers,        \* ingest workers
    Guards,         \* the guards an observation passes, in order
    Cap,            \* cap of each guard
    MinCount,       \* admit_min_count
    Depth,          \* rows of the sketch, at most 8
    Width,          \* columns of the sketch
    Hash,           \* the column of a value in each row
    MaxCell,        \* the largest uint32
    DecayAfter,     \* decay_after
    MaxLag,         \* how late an event may be when a worker picks it up
    MaxClock,       \* bound: the clock stops here
    MaxSeen         \* bound: observations of one value

Rows == 1 .. Depth
Columns == 0 .. (Width - 1)
GuardIds == DOMAIN Guards

ASSUME SketchAssumption ==
    /\ Depth \in 1 .. 8
    /\ Width \in Nat \ {0}
    /\ Hash \in [Values -> [Rows -> Columns]]
    /\ MaxCell \in Nat
    /\ 2 * Width <= MaxCell

ASSUME GuardAssumption ==
    /\ IsFiniteSet(Values)
    /\ IsFiniteSet(Workers)
    /\ Guards \in Seq({"pure", "cross"}) \ {<<>>}
    /\ Cap \in [GuardIds -> Nat \ {0}]
    /\ MinCount \in Nat \ {0}
    /\ DecayAfter \in Nat
    /\ MaxLag \in Nat
    /\ MaxClock \in Nat
    /\ MaxSeen \in Nat

VARIABLES
    clock,          \* the time of day
    cells,          \* c.cells, row by row
    adds,           \* c.adds
    admitted,       \* per guard: value -> last seen, a partial function
    capped,         \* g.capped
    job,            \* per worker: the observation in hand, value and time
    turn,           \* per worker: the guard it is at, 0 when idle
    est,            \* per worker: Admit's est, 0 before the counter's answer
    resetting,      \* the maintenance goroutine has still to reset the counter
    aged,           \* history: exact count of a value, aged like the sketch
    seen,           \* history: observations of a value
    hits            \* history: observations of the values of a cell

counter == <<cells, adds, aged>>
vars == <<clock, cells, adds, admitted, capped, job, turn, est, resetting, aged, seen, hits>>

\* newCounter halves once every width additions.
Epoch == Width

Times == (clock - MaxLag) .. clock

Init ==
    /\ clock = 0
    /\ cells = [i \in Rows |-> [c \in Columns |-> 0]]
    /\ adds = 0
    /\ admitted = [g \in GuardIds |-> [v \in {} |-> 0]]
    /\ capped = [g \in GuardIds |-> 0]
    /\ job \in [Workers -> [value : Values, now : {0}]]
    /\ turn = [w \in Workers |-> 0]
    /\ est = [w \in Workers |-> 0]
    /\ resetting = FALSE
    /\ aged = [v \in Values |-> 0]
    /\ seen = [v \in Values |-> 0]
    /\ hits = [i \in Rows |-> [c \in Columns |-> 0]]

Tick ==
    /\ clock < MaxClock
    /\ clock' = clock + 1
    /\ UNCHANGED <<counter, admitted, capped, job, turn, est, resetting, seen, hits>>

-----------------------------------------------------------------------------

\* The smallest of the value's cells.
Estimate(cs, v) == Min({cs[i][Hash[v][i]] : i \in Rows})

halve(cs) == [i \in Rows |-> [c \in Columns |-> cs[i][c] \div 2]]

\* Mutant: only the first of the cells at the minimum grows.
BumpedOnce(cs, v) ==
    LET min == Estimate(cs, v)
        row == Min({i \in Rows : cs[i][Hash[v][i]] = min})
    IN  [cs EXCEPT ![row][Hash[v][row]] = min + 1]

\* Conservative update: only the value's cells at the minimum grow, and a
\* saturated value does not wrap.
Bumped(cs, v) ==
    LET min == Estimate(cs, v)
    IN  IF min = MaxCell THEN cs
        ELSE [i \in Rows |-> [c \in Columns |->
                IF c = Hash[v][i] /\ cs[i][c] = min THEN min + 1 ELSE cs[i][c]]]

\* Mutant: the epoch is tested before the addition is counted.
AgesLate == adds >= Epoch

\* counter.add: every Epoch-th addition ages the whole sketch first.
Ages == adds + 1 >= Epoch

CellsBefore == IF Ages THEN halve(cells) ELSE cells

AgedBefore == IF Ages THEN [v \in Values |-> aged[v] \div 2] ELSE aged

add(v) ==
    /\ cells' = Bumped(CellsBefore, v)
    /\ adds' = IF Ages THEN 0 ELSE adds + 1
    /\ aged' = [AgedBefore EXCEPT ![v] = @ + 1]

\* A worker takes up an observation.
Observe(w, v, now) ==
    /\ turn[w] = 0
    /\ seen[v] < MaxSeen
    /\ job' = [job EXCEPT ![w] = [value |-> v, now |-> now]]
    /\ turn' = [turn EXCEPT ![w] = 1]
    /\ seen' = [seen EXCEPT ![v] = @ + 1]
    /\ hits' = [i \in Rows |-> [c \in Columns |->
                    IF c = Hash[v][i] THEN hits[i][c] + 1 ELSE hits[i][c]]]
    /\ UNCHANGED <<clock, counter, admitted, capped, est, resetting>>

\* Admit, under the counter's lock.
AdmitCount(w) ==
    /\ turn[w] # 0
    /\ est[w] = 0
    /\ add(job[w].value)
    /\ est' = [est EXCEPT ![w] = Estimate(cells', job[w].value)]
    /\ UNCHANGED <<clock, admitted, capped, job, turn, resetting, seen, hits>>

\* Mutants: off by one in the cap, and in the count.
EarnsPastCap(w, g) ==
    \/ job[w].value \in DOMAIN admitted[g]
    \/ est[w] >= MinCount /\ Cardinality(DOMAIN admitted[g]) <= Cap[g]

EarnsEarly(w, g) ==
    \/ job[w].value \in DOMAIN admitted[g]
    \/ est[w] >= MinCount - 1 /\ Cardinality(DOMAIN admitted[g]) < Cap[g]

\* Admit, under the guard's lock: a value that is in stays in, one that has
\* earned a series and finds room comes in, any other is folded.
Earns(w, g) ==
    \/ job[w].value \in DOMAIN admitted[g]
    \/ est[w] >= MinCount /\ Cardinality(DOMAIN admitted[g]) < Cap[g]

Put(f, v, t) == [x \in DOMAIN f \cup {v} |-> IF x = v THEN t ELSE f[x]]

AdmitDecide(w) ==
    LET g == turn[w]  v == job[w].value IN
    /\ turn[w] # 0
    /\ est[w] # 0
    /\ IF Earns(w, g)
       THEN /\ admitted' = [admitted EXCEPT ![g] = Put(@, v, job[w].now)]
            /\ UNCHANGED capped
       ELSE /\ capped' = [capped EXCEPT ![g] = @ + 1]
            /\ UNCHANGED admitted
    /\ est' = [est EXCEPT ![w] = 0]
    /\ turn' = [turn EXCEPT ![w] = IF g = Len(Guards) THEN 0 ELSE g + 1]
    /\ UNCHANGED <<clock, counter, job, resetting, seen, hits>>

-----------------------------------------------------------------------------

\* Decay, under the guard's lock.
Quiet(g, now) == {v \in DOMAIN admitted[g] : now - admitted[g][v] > DecayAfter}

Decay(g) ==
    /\ ~resetting
    /\ admitted' = [admitted EXCEPT ![g] = Restrict(@, DOMAIN @ \ Quiet(g, clock))]
    /\ resetting' = (Quiet(g, clock) # {})
    /\ UNCHANGED <<clock, counter, capped, job, turn, est, seen, hits>>

\* counter.reset, which leaves c.adds alone.
reset ==
    /\ resetting
    /\ cells' = [i \in Rows |-> [c \in Columns |-> 0]]
    /\ aged' = [v \in Values |-> 0]
    /\ resetting' = FALSE
    /\ UNCHANGED <<clock, adds, admitted, capped, job, turn, est, seen, hits>>

-----------------------------------------------------------------------------

Next ==
    \/ Tick
    \/ \E w \in Workers, v \in Values, now \in Times : Observe(w, v, now)
    \/ \E w \in Workers : AdmitCount(w) \/ AdmitDecide(w)
    \/ \E g \in GuardIds : Decay(g)
    \/ reset

Spec == Init /\ [][Next]_vars

-----------------------------------------------------------------------------

\* Every variable holds a value of its type.
TypeOK ==
    /\ clock \in Nat
    /\ cells \in [Rows -> [Columns -> Nat]]
    /\ adds \in Nat
    /\ DOMAIN admitted = GuardIds
    /\ \A g \in GuardIds :
        /\ DOMAIN admitted[g] \subseteq Values
        /\ admitted[g] \in [DOMAIN admitted[g] -> Int]
    /\ capped \in [GuardIds -> Nat]
    /\ job \in [Workers -> [value : Values, now : Int]]
    /\ turn \in [Workers -> GuardIds \cup {0}]
    /\ est \in [Workers -> Nat]
    /\ resetting \in BOOLEAN
    /\ aged \in [Values -> Nat]
    /\ seen \in [Values -> Nat]
    /\ hits \in [Rows -> [Columns -> Nat]]

(***************************************************************************)
(* The estimate is an upper bound: halving, conservative update and reset  *)
(* never leave one of a value's cells below its exact count, aged at the   *)
(* same moments.  The sketch can admit a value early, never hold a         *)
(* frequent one back.                                                      *)
(***************************************************************************)
UpperBound == \A v \in Values, i \in Rows : aged[v] <= cells[i][Hash[v][i]]

(***************************************************************************)
(* Ageing keeps every cell within one epoch of the additions since the     *)
(* last halving, hence below 2 * Width: the saturation branch of add is    *)
(* out of reach.                                                           *)
(***************************************************************************)
NeverSaturates ==
    /\ adds < Epoch
    /\ \A i \in Rows, c \in Columns : cells[i][c] <= Epoch + adds

(***************************************************************************)
(* A guard never holds more values than its cap, though the frequency was  *)
(* checked under another lock.                                             *)
(***************************************************************************)
WithinCap == \A g \in GuardIds : Cardinality(DOMAIN admitted[g]) <= Cap[g]

(***************************************************************************)
(* What holds whatever collides and however many guards share the counter: *)
(* in every row the values in the admitted value's cell were seen often    *)
(* enough that the guards together counted MinCount of them, also when the *)
(* sketch was aged or reset between a count and its decision.              *)
(***************************************************************************)
EarnedTogether ==
    \A g \in GuardIds : \A v \in DOMAIN admitted[g], i \in Rows :
        Len(Guards) * hits[i][Hash[v][i]] >= MinCount
=============================================================================
