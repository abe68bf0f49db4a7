------------------------------ MODULE Limiter -------------------------------
(***************************************************************************)
(* The rate limiter, internal/ingest/ratelimit.go: one lazily refilled     *)
(* token bucket per tracked key, a cap on the keys tracked, and a sweep    *)
(* that forgets idle keys.                                                 *)
(*                                                                         *)
(* Token counts are floats in the code; here they are counted in units of  *)
(* which one refills per tick and Cost make a token, so that a full bucket *)
(* takes Full ticks to refill, as burst / rate seconds do in the code.     *)
(* Allow and Sweep hold the lock throughout.  A handler reads the clock    *)
(* before it takes the lock, so its now may lie up to MaxLag behind.       *)
(***************************************************************************)
EXTENDS Integers, FiniteSets, Functions

CONSTANTS
    Keys,           \* client keys
    Cost,           \* units of one token
    Full,           \* units of a full bucket: l.burst
    Max,            \* l.max, keys tracked at most
    MaxLag,         \* how late a request may reach the lock
    MaxClock,       \* bound: the clock stops here
    MaxUsed         \* bound: requests passed per key and observation

ASSUME LimiterAssumption ==
    /\ IsFiniteSet(Keys)
    /\ Cost \in Nat \ {0}
    /\ Full \in Nat
    /\ Cost <= Full
    /\ Max \in Nat
    /\ MaxLag \in Nat
    /\ MaxClock \in Nat
    /\ MaxUsed \in Nat

VARIABLES
    clock,          \* the time of day
    buckets,        \* l.buckets: key -> tokens and last, a partial function
    answer,         \* the last request's key and what Allow returned
    mark,           \* history: when the observation began
    used,           \* history: requests passed since mark, per key
    forgotten       \* history: how often Sweep dropped the key since mark

vars == <<clock, buckets, answer, mark, used, forgotten>>

Decision == [key : Keys, ok : BOOLEAN]

Init ==
    /\ clock = 0
    /\ buckets = [k \in {} |-> 0]
    /\ answer \in Decision
    /\ mark = 0
    /\ used = [k \in Keys |-> 0]
    /\ forgotten = [k \in Keys |-> 0]

Tick ==
    /\ clock < MaxClock
    /\ clock' = clock + 1
    /\ UNCHANGED <<buckets, answer, mark, used, forgotten>>

-----------------------------------------------------------------------------

Track(k, b) ==
    buckets' = [x \in DOMAIN buckets \cup {k} |-> IF x = k THEN b ELSE buckets[x]]

Pass(k) ==
    /\ used[k] < MaxUsed
    /\ answer' = [key |-> k, ok |-> TRUE]
    /\ used' = [used EXCEPT ![k] = @ + 1]

Refuse(k) ==
    /\ answer' = [key |-> k, ok |-> FALSE]
    /\ UNCHANGED used

\* Mutant: an unknown key is tracked without asking for room.
AllowNewAnyway(k, now) ==
    /\ k \notin DOMAIN buckets
    /\ Track(k, [tokens |-> Full - Cost, last |-> now])
    /\ Pass(k)
    /\ UNCHANGED <<clock, mark, forgotten>>

\* An unknown key gets a full bucket, less the token it takes, if there is room.
AllowNew(k, now) ==
    /\ k \notin DOMAIN buckets
    /\ Cardinality(DOMAIN buckets) < Max
    /\ Track(k, [tokens |-> Full - Cost, last |-> now])
    /\ Pass(k)
    /\ UNCHANGED <<clock, mark, forgotten>>

AllowNoRoom(k) ==
    /\ k \notin DOMAIN buckets
    /\ Cardinality(DOMAIN buckets) >= Max
    /\ Refuse(k)
    /\ UNCHANGED <<clock, buckets, mark, forgotten>>

\* Mutant: a late request sets last back, so that the time is refilled again.
RefilledBack(b, now) ==
    LET sum == b.tokens + (now - b.last) IN
    [tokens |-> IF sum > Full THEN Full ELSE IF now > b.last THEN sum ELSE b.tokens,
     last |-> now]

\* The bucket refilled for the time since last, up to the burst; a now that
\* is not later than last changes nothing.
Refilled(b, now) ==
    LET sum == b.tokens + (now - b.last) IN
    IF now > b.last
    THEN [tokens |-> IF sum > Full THEN Full ELSE sum, last |-> now]
    ELSE b

AllowKnown(k, now) ==
    /\ k \in DOMAIN buckets
    /\ LET b == Refilled(buckets[k], now) IN
       \/ /\ b.tokens < Cost
          /\ Track(k, b)
          /\ Refuse(k)
       \/ /\ b.tokens >= Cost
          /\ Track(k, [b EXCEPT !.tokens = @ - Cost])
          /\ Pass(k)
    /\ UNCHANGED <<clock, mark, forgotten>>

\* Mutant: idle for the refill of a single token.
StaleEarly(now) == {k \in DOMAIN buckets : now - buckets[k].last > Cost}

\* Forget the keys idle for longer than a full refill takes.
Stale(now) == {k \in DOMAIN buckets : now - buckets[k].last > Full}

Sweep(now) ==
    /\ buckets' = Restrict(buckets, DOMAIN buckets \ Stale(now))
    /\ forgotten' = [k \in Keys |-> forgotten[k] + (IF k \in Stale(now) THEN 1 ELSE 0)]
    /\ UNCHANGED <<clock, answer, mark, used>>

\* An observer starts counting afresh.
Watch ==
    /\ mark' = clock
    /\ used' = [k \in Keys |-> 0]
    /\ forgotten' = [k \in Keys |-> 0]
    /\ UNCHANGED <<clock, buckets, answer>>

Next ==
    \/ Tick
    \/ Watch
    \/ Sweep(clock)
    \/ \E k \in Keys : AllowNoRoom(k)
    \/ \E k \in Keys, now \in (clock - MaxLag) .. clock :
        AllowNew(k, now) \/ AllowKnown(k, now)

Spec == Init /\ [][Next]_vars

-----------------------------------------------------------------------------

Bucket == [tokens : 0 .. Full, last : Int]

\* Every variable holds a value of its type, and the key cap holds.
TypeOK ==
    /\ clock \in Nat
    /\ DOMAIN buckets \subseteq Keys
    /\ buckets \in [DOMAIN buckets -> Bucket]
    /\ \A k \in DOMAIN buckets : buckets[k].last <= clock
    /\ answer \in Decision
    /\ mark \in 0 .. clock
    /\ used \in [Keys -> Nat]
    /\ forgotten \in [Keys -> Nat]

(***************************************************************************)
(* The limiter tracks no more than l.max keys, whatever order new keys,    *)
(* known ones and the sweep come in: its memory is bounded.                *)
(***************************************************************************)
KeysBounded == Cardinality(DOMAIN buckets) <= Max

(***************************************************************************)
(* The level of a key's ideal bucket: what is stored and has refilled      *)
(* since, up to what a late request can still find; a key that is not      *)
(* tracked has a full one.                                                 *)
(***************************************************************************)
Level(k) ==
    IF k \notin DOMAIN buckets THEN Full + MaxLag
    ELSE LET sum == buckets[k].tokens + (clock - buckets[k].last)
         IN  IF sum > Full + MaxLag THEN Full + MaxLag ELSE sum

TB == INSTANCE TokenBucket WITH Slack <- MaxLag, level <- [k \in Keys |-> Level(k)]

(***************************************************************************)
(* The limiter is a bank of ideal token buckets, one per key, with a slack *)
(* for the requests that reach the lock late: refilling lazily, up to the  *)
(* burst and never backwards, refusing to track more keys and sweeping     *)
(* idle ones show in no answer beyond what the slack explains.             *)
(***************************************************************************)
IdealBuckets == TB!Spec

(***************************************************************************)
(* Requests that reach the lock late gain a key MaxLag units at most, and  *)
(* again each time Sweep forgets it: from any moment on, what passes is no *)
(* more than a burst, the refill of the time gone by and that gain.        *)
(***************************************************************************)
RateBound ==
    \A k \in Keys :
        Cost * used[k] <= Full + (clock - mark) + MaxLag * (1 + forgotten[k])
=============================================================================
