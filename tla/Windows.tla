------------------------------ MODULE Windows -------------------------------
(***************************************************************************)
(* The unique-visitor windows of a site, internal/sketch/hll.go: a ring of *)
(* sub-sketches over a sliding window (Rolling) and the sketch of the      *)
(* current calendar day (Daily).                                           *)
(*                                                                         *)
(* A HyperLogLog is modelled by the set of ids inserted in it, so that an  *)
(* estimate is a set of visitors.  Windows.Insert feeds five rings and the *)
(* day one after the other, each under a lock of its own: the rings share  *)
(* no state and differ in Res and N only, so one of them stands for all,   *)
(* and an id reaches ring and day in two steps that need not meet.         *)
(*                                                                         *)
(* Workers insert events late and out of order: an event's time lies up to *)
(* MaxLag behind the clock.                                                *)
(***************************************************************************)
EXTENDS Integers

CONSTANTS
    Visitors,       \* visitor ids
    Res,            \* width of a slot of the ring
    N,              \* slots of the ring
    DayLength,      \* length of a calendar day
    MaxLag,         \* how late an event may be inserted
    MaxClock        \* bound: the clock stops here

ASSUME WindowAssumption ==
    /\ Res \in Nat \ {0}
    /\ N \in Nat \ {0}
    /\ DayLength \in Nat \ {0}
    /\ MaxLag \in Nat
    /\ MaxClock \in Nat

VARIABLES
    clock,          \* the time of day
    stamps,         \* r.stamps: the slot each ring position holds, or -1
    buckets,        \* r.buckets
    day,            \* d.day, -1 before the first insert
    sk,             \* d.sk
    log,            \* history: <<id, time>> of every event put in the ring
    daylog,         \* history: <<id, time>> of every event put in the day
    crossed         \* history: days during which an earlier day's event came in

ringvars == <<stamps, buckets, log>>
dayvars == <<day, sk, daylog, crossed>>
vars == <<clock, ringvars, dayvars>>

Ring == 0 .. (N - 1)

slot(t) == t \div Res

dayKey(t) == t \div DayLength

Init ==
    /\ clock = MaxLag
    /\ stamps = [i \in Ring |-> -1]
    /\ buckets = [i \in Ring |-> {}]
    /\ day = -1
    /\ sk = {}
    /\ log = {}
    /\ daylog = {}
    /\ crossed = {}

Tick ==
    /\ clock < MaxClock
    /\ clock' = clock + 1
    /\ UNCHANGED <<ringvars, dayvars>>

-----------------------------------------------------------------------------

\* Mutant: a recycled position keeps its old sketch.
RecyclesNever(i, s) == FALSE

\* A position whose stamp is not the event's slot is recycled.
Recycles(i, s) == stamps[i] # s

RollingInsert(id, t) ==
    LET s == slot(t)
        i == s % N
    IN  /\ stamps' = [stamps EXCEPT ![i] = s]
        /\ buckets' = [buckets EXCEPT ![i] = IF Recycles(i, s) THEN {id} ELSE @ \cup {id}]

\* Mutant: the sketch is not renewed.
DailyInsertKeeps(id, t) ==
    /\ day' = dayKey(t)
    /\ sk' = sk \cup {id}

\* A different day starts a fresh sketch.
DailyInsert(id, t) ==
    /\ day' = dayKey(t)
    /\ sk' = IF dayKey(t) # day THEN {id} ELSE sk \cup {id}

\* Windows.Insert, as far as the ring goes ...
InsertRing(id, t) ==
    /\ RollingInsert(id, t)
    /\ log' = log \cup {<<id, t>>}
    /\ UNCHANGED <<clock, dayvars>>

\* ... and as far as the day goes.
InsertDay(id, t) ==
    /\ DailyInsert(id, t)
    /\ daylog' = daylog \cup {<<id, t>>}
    /\ crossed' = IF dayKey(t) < day THEN crossed \cup {day} ELSE crossed
    /\ UNCHANGED <<clock, ringvars>>

\* The positions Rolling.Estimate merges, and what it and Daily.Estimate see.
InWindow(i, t) == slot(t) - N + 1 <= stamps[i] /\ stamps[i] <= slot(t)

RollingEstimate(t) == UNION {buckets[i] : i \in {j \in Ring : InWindow(j, t)}}

DailyEstimate(t) == IF dayKey(t) # day THEN {} ELSE sk

-----------------------------------------------------------------------------

Next ==
    \/ Tick
    \/ \E id \in Visitors, t \in (clock - MaxLag) .. clock :
        InsertRing(id, t) \/ InsertDay(id, t)

Spec == Init /\ [][Next]_vars

-----------------------------------------------------------------------------

\* Every variable holds a value of its type.
TypeOK ==
    /\ clock \in Nat
    /\ clock >= MaxLag
    /\ stamps \in [Ring -> Nat \cup {-1}]
    /\ buckets \in [Ring -> SUBSET Visitors]
    /\ day \in Nat \cup {-1}
    /\ sk \subseteq Visitors
    /\ log \subseteq Visitors \X Nat
    /\ daylog \subseteq Visitors \X Nat
    /\ crossed \subseteq Nat

(***************************************************************************)
(* The sliding window is exact: a scrape sees precisely the visitors with  *)
(* an event in the last N slots, however late (up to MaxLag) and in        *)
(* whatever order the events came in, as long as MaxLag is shorter than    *)
(* the ring: (N - 1) * Res at most.                                        *)
(***************************************************************************)
RollingExact ==
    RollingEstimate(clock) =
        {id \in Visitors : \E e \in log :
            e[1] = id /\ slot(clock) - N + 1 <= slot(e[2])}

\* The visitors of a day, by a log.
VisitorsOf(l, d) == {id \in Visitors : \E e \in l : e[1] = id /\ dayKey(e[2]) = d}

(***************************************************************************)
(* The count of the day never includes a visitor of another day, and it is *)
(* exact unless an event of an earlier day was inserted after one of       *)
(* today: Daily.Insert then throws today's sketch away.                    *)
(***************************************************************************)
TodayExact ==
    /\ DailyEstimate(clock) \subseteq VisitorsOf(daylog, dayKey(clock))
    /\ dayKey(clock) \notin crossed =>
        DailyEstimate(clock) = VisitorsOf(daylog, dayKey(clock))

(***************************************************************************)
(* The inductive strengthening of RollingExact: a bucket holds the         *)
(* visitors of the slot it is stamped with, and every slot still inside    *)
(* the window has kept its position.                                       *)
(***************************************************************************)
RingMatchesLog ==
    /\ \A e \in log : slot(e[2]) <= slot(clock)
    /\ \A i \in Ring : stamps[i] # -1 => stamps[i] % N = i
    /\ \A i \in Ring : stamps[i] # -1 =>
        buckets[i] = {id \in Visitors : \E e \in log : e[1] = id /\ slot(e[2]) = stamps[i]}
    /\ \A i \in Ring : stamps[i] = -1 => buckets[i] = {}
    /\ \A e \in log : slot(clock) - N + 1 <= slot(e[2]) => stamps[slot(e[2]) % N] = slot(e[2])

(***************************************************************************)
(* The inductive strengthening of TodayExact: neither the log nor the      *)
(* sketch is ahead of the clock.                                           *)
(***************************************************************************)
DayMatchesLog ==
    /\ \A e \in daylog : dayKey(e[2]) <= dayKey(clock)
    /\ day <= dayKey(clock)
    /\ TodayExact
=============================================================================
