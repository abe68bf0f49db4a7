------------------------------ MODULE Visitors ------------------------------
(***************************************************************************)
(* Who is counted as one visitor: the rotating salt of                     *)
(* internal/ingest/identity.go, the workers that derive visitor ids with   *)
(* it and feed the windows, and the collector that reads the windows at    *)
(* scrape time (internal/aggregate/collector.go).                          *)
(*                                                                         *)
(* It extends Windows, whose ring and day stand for the longer windows of  *)
(* a site, with the ring of the last minutes (Active), which Insert feeds  *)
(* first and a scrape reads first; the day is fed and read last.  A person is what the HMAC is taken of, *)
(* address, user agent and domain; an id is the person and the number of   *)
(* the salt, for HMACs of different inputs are taken to differ.            *)
(*                                                                         *)
(* An event is through within MaxLag of its acceptance, a scrape and a     *)
(* round of maintenance within MaxPause.  Salt.Rotate cannot fail: the     *)
(* system's random source does not return errors.                          *)
(***************************************************************************)
EXTENDS Windows, Sequences, FiniteSets

CONSTANTS
    People,         \* combinations of address, user agent and domain
    Workers,        \* ingest workers
    ARes, AN,       \* resolution and slots of Active
    Interval,       \* cfg.Server.SaltRotate
    MaxPause,       \* how long a scrape or a round of maintenance takes
    MaxEvents       \* bound: events

ASSUME VisitorAssumption ==
    /\ ARes \in Nat \ {0}
    /\ AN \in Nat \ {0}
    /\ Interval \in Nat \ {0}
    /\ MaxPause \in Nat
    /\ MaxEvents \in Nat
    /\ People \X (0 .. MaxClock) \subseteq Visitors

VARIABLES
    astamps, abuckets,  \* Windows.Active
    cur, rotated,       \* Salt: the salt in use, by its number, and its time
    tickAt,             \* maintain: the time of the tick in hand, -1 if none
    job,                \* per worker: the event in hand
    scrape,             \* Collect: its now and what it has read
    events,             \* events taken, for the bound
    started             \* history: when each salt came into use

ids == <<cur, rotated, tickAt, started>>
vvars == <<vars, astamps, abuckets, ids, job, scrape, events>>

Active == INSTANCE Windows WITH Res <- ARes, N <- AN,
                                stamps <- astamps, buckets <- abuckets

NoJob == [pc |-> "idle"]
NoScrape == [now |-> -1, active |-> {}]

VInit ==
    /\ Init
    /\ astamps = [i \in 0 .. (AN - 1) |-> -1]
    /\ abuckets = [i \in 0 .. (AN - 1) |-> {}]
    /\ cur = 0
    /\ rotated = clock
    /\ tickAt = -1
    /\ job = [w \in Workers |-> NoJob]
    /\ scrape = NoScrape
    /\ events = 0
    /\ started = <<clock>>

VTick ==
    /\ Tick
    /\ \A w \in Workers : job[w] # NoJob => clock - job[w].at < MaxLag
    /\ scrape # NoScrape => clock - scrape.now < MaxPause
    /\ tickAt # -1 => clock - tickAt < MaxPause
    /\ UNCHANGED <<astamps, abuckets, ids, job, scrape, events>>

-----------------------------------------------------------------------------

\* maintain takes a tick; by the time it comes to the salt its now is old.
MaintainTick ==
    /\ tickAt = -1
    /\ tickAt' = clock
    /\ UNCHANGED <<vars, astamps, abuckets, cur, rotated, started, job, scrape, events>>

\* Mutants: the difference is taken the wrong way round; the salt is renewed
\* and its time is not.
DueBackwards(now) == rotated - now >= Interval

RotateStale ==
    /\ cur' = cur + 1
    /\ started' = Append(started, clock)
    /\ UNCHANGED rotated

Due(now) == now - rotated >= Interval

Rotate ==
    /\ cur' = cur + 1
    /\ rotated' = clock
    /\ started' = Append(started, clock)

RotateIfDue ==
    /\ tickAt # -1
    /\ IF Due(tickAt) THEN Rotate ELSE UNCHANGED <<cur, rotated, started>>
    /\ tickAt' = -1
    /\ UNCHANGED <<vars, astamps, abuckets, job, scrape, events>>

-----------------------------------------------------------------------------

\* Mutant: a worker keeps the first salt it saw.
VisitorIDCached(p) == <<p, 0>>

VisitorID(p) == <<p, cur>>

\* A worker takes an event off the queue and derives the id, with the salt of
\* this moment and not of the event's.
Enrich(w, p, t) ==
    /\ job[w] = NoJob
    /\ events < MaxEvents
    /\ events' = events + 1
    /\ job' = [job EXCEPT ![w] = [pc |-> "active", id |-> VisitorID(p), at |-> t]]
    /\ UNCHANGED <<vars, astamps, abuckets, ids, scrape>>

\* Windows.Insert, the first ring ...
InsertActive(w) ==
    /\ job[w].pc = "active"
    /\ Active!RollingInsert(job[w].id, job[w].at)
    /\ job' = [job EXCEPT ![w].pc = "ring"]
    /\ UNCHANGED <<vars, ids, scrape, events>>

\* Mutant: a visitor already counted today is not put in the longer ring again.
InsertLongerOnce(w) ==
    /\ job[w].pc = "ring"
    /\ IF job[w].id \in sk THEN UNCHANGED vars ELSE InsertRing(job[w].id, job[w].at)
    /\ job' = [job EXCEPT ![w].pc = "day"]
    /\ UNCHANGED <<astamps, abuckets, ids, scrape, events>>

\* ... the longer ones ...
InsertLonger(w) ==
    /\ job[w].pc = "ring"
    /\ InsertRing(job[w].id, job[w].at)
    /\ job' = [job EXCEPT ![w].pc = "day"]
    /\ UNCHANGED <<astamps, abuckets, ids, scrape, events>>

\* ... and the day, each under its own lock.
InsertToday(w) ==
    /\ job[w].pc = "day"
    /\ InsertDay(job[w].id, job[w].at)
    /\ job' = [job EXCEPT ![w] = NoJob]
    /\ UNCHANGED <<astamps, abuckets, ids, scrape, events>>

\* Collect fixes its now and reads Active ...
CollectActive ==
    /\ scrape = NoScrape
    /\ scrape' = [now |-> clock, active |-> Active!RollingEstimate(clock)]
    /\ UNCHANGED <<vars, astamps, abuckets, ids, job, events>>

\* ... and then the longer windows, for the same now.
CollectRest ==
    /\ scrape # NoScrape
    /\ scrape' = NoScrape
    /\ UNCHANGED <<vars, astamps, abuckets, ids, job, events>>

-----------------------------------------------------------------------------

VNext ==
    \/ VTick
    \/ MaintainTick
    \/ RotateIfDue
    \/ \E w \in Workers :
        \/ \E p \in People, t \in (clock - MaxLag) .. clock : Enrich(w, p, t)
        \/ InsertActive(w)
        \/ InsertLonger(w)
        \/ InsertToday(w)
    \/ CollectActive
    \/ CollectRest

(***************************************************************************)
(* Fairness: the ticker fires again and again, and maintain comes to the   *)
(* salt each time.  Events and scrapes need not come.                      *)
(***************************************************************************)
VSpec == VInit /\ [][VNext]_vvars /\ WF_vvars(MaintainTick \/ RotateIfDue)

-----------------------------------------------------------------------------

\* The ids whose workers have the named window still to fill.
BeforeOf(window) == {job[w].id : w \in {v \in Workers : job[v].pc = window}}

(***************************************************************************)
(* The salt of an id was in use at some moment between the event and       *)
(* MaxLag later: a retired salt signs nothing new, and a new one no old    *)
(* event, except for what was on its way at the rotation.                  *)
(***************************************************************************)
SaltOfItsTime ==
    \A e \in log :
        LET s == e[1][2] IN
        /\ started[s + 1] <= e[2] + MaxLag
        /\ s < cur => e[2] <= started[s + 2]

(***************************************************************************)
(* How often rotation counts a person in a window: once for each salt that *)
(* can have been in use since the window began, salts being Interval       *)
(* apart.  That is twice at most for a window of up to one Interval, and   *)
(* once more for each further Interval the window spans.                   *)
(***************************************************************************)
CountedPerSalt ==
    \A p \in People :
        Cardinality({id \in RollingEstimate(clock) : id[1] = p})
            <= 2 + (N * Res - 1) \div Interval

(***************************************************************************)
(* The windows of one scrape are nested, although Windows.Insert fills     *)
(* them one by one and the scrape reads them one by one.  Whoever is       *)
(* active is also in the longer window read later, except an id that a     *)
(* worker has put in the first ring and not yet in the others.  Whoever    *)
(* came today and is in the longer window is in the day read last, except  *)
(* an id a worker is about to put there, on a day that no earlier event    *)
(* has cut across and while the scrape does not run over midnight.         *)
(***************************************************************************)
ScrapeNested ==
    /\ scrape.active \subseteq RollingEstimate(scrape.now) \cup BeforeOf("ring")
    /\ scrape # NoScrape /\ dayKey(scrape.now) = dayKey(clock) /\ dayKey(clock) \notin crossed =>
        VisitorsOf(log, dayKey(clock)) \subseteq DailyEstimate(scrape.now) \cup BeforeOf("day")

(***************************************************************************)
(* No salt outlives its interval for long: once due it is replaced.        *)
(***************************************************************************)
SaltRetires ==
    \A s \in 0 .. MaxClock :
        (cur = s /\ clock - rotated >= Interval) ~> (cur > s)
=============================================================================
