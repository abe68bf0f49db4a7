------------------------------ MODULE Sessions ------------------------------
(***************************************************************************)
(* The TTL-bounded session map of one site, internal/sketch/session.go,    *)
(* together with the sink that turns its events into metrics               *)
(* (sessionSink, internal/aggregate/registry.go).                          *)
(*                                                                         *)
(* Ingest workers call Touch and Extend, the maintenance goroutine calls   *)
(* Sweep.  A step is one critical section of s.mu or one call of the sink, *)
(* which the code makes only after it has released s.mu; between two steps *)
(* of one actor the other actors run.                                      *)
(*                                                                         *)
(* Time is an integer.  A worker processes an event with the time the      *)
(* event was accepted, which lies up to MaxLag behind the clock when the   *)
(* worker picks it up: the queue holds events back and workers overtake    *)
(* one another.                                                            *)
(***************************************************************************)
EXTENDS Integers, FiniteSets, Functions

CONSTANTS
    Visitors,       \* visitor ids
    Workers,        \* ingest workers
    Sweeper,        \* the maintenance goroutine
    TTL,            \* s.ttl
    Cap,            \* s.cap
    MaxLag,         \* how late an event may be when a worker picks it up
    MaxClock,       \* bound: the clock stops here
    MaxSessions     \* bound: number of sessions opened

ASSUME ActorAssumption ==
    /\ IsFiniteSet(Visitors)
    /\ IsFiniteSet(Workers)
    /\ Sweeper \notin Workers

ASSUME BoundAssumption ==
    /\ TTL \in Nat \ {0}
    /\ Cap \in Nat
    /\ MaxLag \in Nat
    /\ MaxClock \in Nat
    /\ MaxSessions \in Nat

VARIABLES
    clock,          \* the time of day
    m,              \* s.m: visitor -> open session, a partial function
    evicted,        \* s.evicted
    pc,             \* where each actor stands
    arg,            \* id and now of a Touch that left the lock to report
    over,           \* the local variable over of each worker's Touch
    done,           \* finished sessions not handed to the sink yet
    started,        \* sessions_total
    ended,          \* observations of session_duration_seconds
    bounces         \* bounces_total

vars == <<clock, m, evicted, pc, arg, over, done, started, ended, bounces>>

Actors == Workers \cup {Sweeper}

\* A session.  Only "one page" or "more" matters of the page count.
Session == [start : Int, last : Int, pages : {1, 2}]

\* What finish makes of a session.
Ended == [duration : Int, bounced : BOOLEAN]

\* Mutant: the duration of the wrong sign.
finishBackwards(s) == [duration |-> s.start - s.last, bounced |-> s.pages = 1]

finish(s) == [duration |-> s.last - s.start, bounced |-> s.pages = 1]

\* A session its actor has taken out of the map and has still to report.
Finished(a, id) == [by |-> a, id |-> id, end |-> finish(m[id])]

\* The times an event being picked up now may carry.
Times == (clock - MaxLag) .. clock

-----------------------------------------------------------------------------

Init ==
    /\ clock = 0
    /\ m = [id \in {} |-> 0]
    /\ evicted = 0
    /\ pc = [a \in Actors |-> "idle"]
    /\ arg \in [Workers -> [id : Visitors, now : {0}]]
    /\ over = [w \in Workers |-> FALSE]
    /\ done = {}
    /\ started = 0
    /\ ended = 0
    /\ bounces = 0

Tick ==
    /\ clock < MaxClock
    /\ clock' = clock + 1
    /\ UNCHANGED <<m, evicted, pc, arg, over, done, started, ended, bounces>>

-----------------------------------------------------------------------------

\* Mutant: a session idle for exactly the TTL still counts as live.
LiveInclusive(id, now) == id \in DOMAIN m /\ now - m[id].last <= TTL

\* now.Sub(cur.LastSeen) < s.ttl
Live(id, now) == id \in DOMAIN m /\ now - m[id].last < TTL

Fresh(now) == [start |-> now, last |-> now, pages |-> 1]

\* m with a new session for id, and m without the sessions of S.
Opened(id, now) ==
    [x \in DOMAIN m \cup {id} |-> IF x = id THEN Fresh(now) ELSE m[x]]

Without(S) == Restrict(m, DOMAIN m \ S)

\* The sessions opened so far, or being opened.  Bounded by MaxSessions.
Opens ==
    started + Cardinality({w \in Workers : pc[w] \in {"close", "insert", "opened"}})

\* Mutant: off by one in the test against the cap.
InsertOffByOne(w, id, now) ==
    /\ m' = Opened(id, now)
    /\ over' = [over EXCEPT ![w] = Cardinality(DOMAIN m') > Cap + 1]
    /\ pc' = [pc EXCEPT ![w] = "opened"]

\* s.m[id] = &Session{...}; over := len(s.m) > s.cap
Insert(w, id, now) ==
    /\ m' = Opened(id, now)
    /\ over' = [over EXCEPT ![w] = Cardinality(DOMAIN m') > Cap]
    /\ pc' = [pc EXCEPT ![w] = "opened"]

\* Touch, first critical section, session live: count the page and return.
TouchLive(w, id, now) ==
    /\ pc[w] = "idle"
    /\ Live(id, now)
    /\ m' = [m EXCEPT ![id] = [@ EXCEPT !.pages = 2, !.last = now]]
    /\ UNCHANGED <<clock, evicted, pc, arg, over, done, started, ended, bounces>>

\* Touch, first critical section, no session: open one before unlocking.
TouchNew(w, id, now) ==
    /\ pc[w] = "idle"
    /\ id \notin DOMAIN m
    /\ Opens < MaxSessions
    /\ Insert(w, id, now)
    /\ UNCHANGED <<clock, evicted, arg, done, started, ended, bounces>>

\* Mutant: the expired session is not deleted before the lock is released.
TouchExpiredKeeps(w, id, now) ==
    /\ pc[w] = "idle"
    /\ id \in DOMAIN m /\ ~Live(id, now)
    /\ Opens < MaxSessions
    /\ arg' = [arg EXCEPT ![w] = [id |-> id, now |-> now]]
    /\ done' = done \cup {Finished(w, id)}
    /\ pc' = [pc EXCEPT ![w] = "close"]
    /\ UNCHANGED <<clock, m, evicted, over, started, ended, bounces>>

\* Touch, first critical section, session idle past the TTL: take it out and
\* unlock, to report it.
TouchExpired(w, id, now) ==
    /\ pc[w] = "idle"
    /\ id \in DOMAIN m /\ ~Live(id, now)
    /\ Opens < MaxSessions
    /\ arg' = [arg EXCEPT ![w] = [id |-> id, now |-> now]]
    /\ done' = done \cup {Finished(w, id)}
    /\ m' = Without({id})
    /\ pc' = [pc EXCEPT ![w] = "close"]
    /\ UNCHANGED <<clock, evicted, over, started, ended, bounces>>

\* Touch, second critical section: open the new session whatever the map
\* holds for the id by now.
TouchReopen(w) ==
    /\ pc[w] = "insert"
    /\ Insert(w, arg[w].id, arg[w].now)
    /\ UNCHANGED <<clock, evicted, arg, done, started, ended, bounces>>

\* sink.SessionStarted, and on to evictOldest if the map was over its cap.
SessionStarted(w) ==
    /\ pc[w] = "opened"
    /\ started' = started + 1
    /\ pc' = [pc EXCEPT ![w] = IF over[w] THEN "evict" ELSE "idle"]
    /\ UNCHANGED <<clock, m, evicted, arg, over, done, ended, bounces>>

\* The sets of sessions evictOldest may drop: as many as the map is over its
\* cap, none of them seen later than one that stays.
Victims ==
    {E \in SUBSET DOMAIN m :
        /\ Cardinality(DOMAIN m \ E) <= Cap
        /\ E # {} => Cardinality(DOMAIN m \ E) = Cap
        /\ \A x \in E, y \in DOMAIN m \ E : m[x].last <= m[y].last}

\* Mutant: what is evicted is not reported.
EvictSilently(w) ==
    /\ pc[w] = "evict"
    /\ \E E \in Victims :
        /\ m' = Without(E)
        /\ evicted' = evicted + Cardinality(E)
    /\ pc' = [pc EXCEPT ![w] = "idle"]
    /\ UNCHANGED <<clock, arg, over, done, started, ended, bounces>>

EvictOldest(w) ==
    /\ pc[w] = "evict"
    /\ \E E \in Victims :
        /\ done' = done \cup {Finished(w, id) : id \in E}
        /\ m' = Without(E)
        /\ evicted' = evicted + Cardinality(E)
        /\ pc' = [pc EXCEPT ![w] = IF E = {} THEN "idle" ELSE "report"]
    /\ UNCHANGED <<clock, arg, over, started, ended, bounces>>

Extend(w, id, now) ==
    /\ pc[w] = "idle"
    /\ Live(id, now)
    /\ m' = [m EXCEPT ![id].last = now]
    /\ UNCHANGED <<clock, evicted, pc, arg, over, done, started, ended, bounces>>

\* Sweep's critical section.  The ticker hands over the current time.
Idle(now) == {id \in DOMAIN m : now - m[id].last >= TTL}

\* Mutant: the operands of the subtraction are swapped, nothing is ever idle.
SweepSwapped ==
    LET gone == {id \in DOMAIN m : m[id].last - clock >= TTL} IN
    /\ pc[Sweeper] = "idle"
    /\ done' = done \cup {Finished(Sweeper, id) : id \in gone}
    /\ m' = Without(gone)
    /\ pc' = [pc EXCEPT ![Sweeper] = IF gone = {} THEN "idle" ELSE "report"]
    /\ UNCHANGED <<clock, evicted, arg, over, started, ended, bounces>>

Sweep ==
    /\ pc[Sweeper] = "idle"
    /\ done' = done \cup {Finished(Sweeper, id) : id \in Idle(clock)}
    /\ m' = Without(Idle(clock))
    /\ pc' = [pc EXCEPT ![Sweeper] = IF Idle(clock) = {} THEN "idle" ELSE "report"]
    /\ UNCHANGED <<clock, evicted, arg, over, started, ended, bounces>>

\* sink.SessionEnded for one finished session of the actor.  After its last
\* one a Touch goes on to insert, evictOldest and Sweep return.
Pending(a) == {d \in done : d.by = a}

AfterReport(a, d) ==
    IF Pending(a) # {d} THEN pc[a]
    ELSE IF pc[a] = "close" THEN "insert" ELSE "idle"

SessionEnded(a) ==
    /\ pc[a] \in {"close", "report"}
    /\ \E d \in Pending(a) :
        /\ done' = done \ {d}
        /\ ended' = ended + 1
        /\ bounces' = bounces + (IF d.end.bounced THEN 1 ELSE 0)
        /\ pc' = [pc EXCEPT ![a] = AfterReport(a, d)]
    /\ UNCHANGED <<clock, m, evicted, arg, over, started>>

-----------------------------------------------------------------------------

\* A worker picks up a pageview or an engagement ping.
Event(w, id, now) ==
    \/ TouchLive(w, id, now)
    \/ TouchNew(w, id, now)
    \/ TouchExpired(w, id, now)
    \/ Extend(w, id, now)

Next ==
    \/ Tick
    \/ Sweep
    \/ \E w \in Workers, id \in Visitors, now \in Times : Event(w, id, now)
    \/ \E w \in Workers : TouchReopen(w) \/ SessionStarted(w) \/ EvictOldest(w)
    \/ \E a \in Actors : SessionEnded(a)

Spec == Init /\ [][Next]_vars

(***************************************************************************)
(* Fairness: a goroutine that is in the middle of a call finishes it, and  *)
(* the ticker of main.maintain fires again and again.  Nothing obliges a   *)
(* client to send events.                                                  *)
(***************************************************************************)
Fairness ==
    /\ WF_vars(Tick)
    /\ WF_vars(Sweep)
    /\ \A a \in Actors : WF_vars(SessionEnded(a))
    /\ \A w \in Workers :
        WF_vars(TouchReopen(w) \/ SessionStarted(w) \/ EvictOldest(w))

FairSpec == Spec /\ Fairness

-----------------------------------------------------------------------------

\* Every variable holds a value of its type.
TypeOK ==
    /\ clock \in Nat
    /\ DOMAIN m \subseteq Visitors
    /\ m \in [DOMAIN m -> Session]
    /\ evicted \in Nat
    /\ pc \in [Actors -> {"idle", "close", "insert", "opened", "evict", "report"}]
    /\ arg \in [Workers -> [id : Visitors, now : Int]]
    /\ over \in [Workers -> BOOLEAN]
    /\ done \subseteq [by : Actors, id : Visitors, end : Ended]
    /\ started \in Nat
    /\ ended \in Nat
    /\ bounces \in Nat

\* Workers that found the map over its cap and have not evicted yet.
Owing == {w \in Workers : over[w] /\ pc[w] \in {"opened", "evict"}}

(***************************************************************************)
(* The map outgrows s.cap only by sessions whose worker is still on its    *)
(* way to evictOldest: Touch unlocks between inserting and evicting, but   *)
(* no interleaving leaves the map over its cap with nobody to shrink it.   *)
(***************************************************************************)
CapBound == Cardinality(DOMAIN m) <= Cap + Cardinality(Owing)

\* Workers that have inserted a session and not told the sink.
Announcing == {w \in Workers : pc[w] = "opened"}

Tracked == Cardinality(DOMAIN m) + Cardinality(done) + ended

\* Only an actor in the middle of reporting has sessions left to report.
Reporting == \A d \in done : pc[d.by] \in {"close", "report"}

\* Nobody has opened a session for the visitor whose session is being reopened.
ReopensAbsent ==
    \A w \in Workers : pc[w] \in {"close", "insert"} => arg[w].id \notin DOMAIN m

(***************************************************************************)
(* No session is reported twice: whatever the interleaving of Touch, Sweep *)
(* and evictOldest, the sessions that are live, waiting to be reported or  *)
(* reported never outnumber those that were opened.                        *)
(***************************************************************************)
NoPhantom == Tracked <= started + Cardinality(Announcing)

(***************************************************************************)
(* Every session is accounted for: still live, or reported as ended.  True *)
(* of a single worker.  While one worker reports a session that it found   *)
(* idle past the TTL and took out, a second one finds none and inserts;    *)
(* then the first inserts over it.                                         *)
(***************************************************************************)
Accounted == Tracked = started + Cardinality(Announcing)

(***************************************************************************)
(* An evicted session is still reported (evictOldest): as many sessions    *)
(* have ended, or wait to be reported, as s.evicted counts.                *)
(***************************************************************************)
EvictedAreReported == evicted <= ended + Cardinality(done)

(***************************************************************************)
(* Touch and Extend assign LastSeen = now without looking which of the two *)
(* is later, so an event applied late can end a session before it began,   *)
(* but by no more than the lag of one event, and no duration is longer     *)
(* than the time that has passed.                                          *)
(***************************************************************************)
DurationsBounded ==
    LET durations == {m[id].last - m[id].start : id \in DOMAIN m}
                        \cup {d.end.duration : d \in done}
    IN  durations \subseteq (-MaxLag) .. (clock + MaxLag)

(***************************************************************************)
(* A session idle for the TTL comes to its end: it does not stay, because  *)
(* the sweep ends it unless a late event refreshes it first, and whoever   *)
(* takes a session out of the map reports it.                              *)
(***************************************************************************)
IdleSessionsEnd ==
    /\ \A id \in Visitors : (id \in Idle(clock)) ~> (id \notin Idle(clock))
    /\ \A a \in Actors : (Pending(a) # {}) ~> (Pending(a) = {})
=============================================================================
