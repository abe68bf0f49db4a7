------------------------------ MODULE Registry ------------------------------
(***************************************************************************)
(* The life of a metric series, internal/aggregate/registry.go: ingest     *)
(* workers run Record, which creates series on first use, while the        *)
(* maintenance goroutine runs Maintain, which deletes the series of values *)
(* that have gone quiet.                                                   *)
(*                                                                         *)
(* One site.  Guard, Sessions and Windows are modules of their own.  Here  *)
(* a guard is the values it has admitted: whether a new value has earned a *)
(* series is left open, its cap and its decay are kept.  A session is its  *)
(* exit path and the time it was last seen; none is evicted.  A series is  *)
(* present or absent, its value does not matter.  The region and city      *)
(* families are left out: they are opt-in and have neither guard nor       *)
(* decay.  Labels are UTF-8; module Ingest has the panic of one that is    *)
(* not.  One step is one call that takes a lock or touches a metric        *)
(* vector.                                                                 *)
(*                                                                         *)
(* MaxDelay bounds the time from an event's acceptance to the end of its   *)
(* Record, the wait in the queue included.                                 *)
(***************************************************************************)
EXTENDS Integers, Sequences, FiniteSets, Functions

CONSTANTS
    Paths, Values, Visitors,
    Workers,        \* ingest workers
    Maintainer,     \* the maintenance goroutine
    DimOrder,       \* the dimensions, in the order of the table of that name
    Configs,        \* configs: dimensions with a path label, per-path visitors
    Boot,           \* the one at the start
    MaxReloads,     \* bound: reloads
    Cap,            \* cap of each guard
    TTL,            \* session TTL
    DecayAfter,     \* cfg.DecayAfter
    MaxDelay,       \* how long an event may take
    MaxClock,       \* bound: the clock stops here
    MaxTaken,       \* bound: observations taken up
    Other, All, NoValue     \* "__other__" (and "__none__"), "__all__", no label

Sentinels == {Other, All, NoValue}
Dims == {DimOrder[i] : i \in DOMAIN DimOrder}
GuardOrder == <<"pure", "cross">> \o DimOrder
GuardIds == {"pure", "cross"} \cup Dims
Actors == Workers \cup {Maintainer}

ASSUME RegistryAssumption ==
    /\ DimOrder \in Seq({"country", "event"})
    /\ Configs \subseteq [labels : SUBSET Dims, uniques : BOOLEAN]
    /\ Boot \in Configs
    /\ MaxReloads \in Nat
    /\ Cap \in [GuardIds -> Nat]
    /\ TTL \in Nat
    /\ DecayAfter \in Nat
    /\ MaxDelay \in Nat
    /\ MaxClock \in Nat
    /\ MaxTaken \in Nat
    /\ Sentinels \cap (Paths \cup Values) = {}
    /\ Maintainer \notin Workers

VARIABLES
    clock,          \* the time of day
    cfg, reloads,   \* st.cfg, and how often it was replaced
    admitted,       \* per guard: value -> last seen, a partial function
    seen,           \* history, per guard: value -> its latest sighting
    sess,           \* visitor -> its open session, a partial function
    series,         \* the series present in the metric families
    pc,             \* where each worker stands in Record
    job,            \* per worker: the observation in hand
    pure, cross,    \* per worker: the path labels the guards answered
    left,           \* per worker: dimensions still to count
    val,            \* per worker: dimension at hand, path label, guard's answer
    taken,          \* observations taken up, for the bound
    ending,         \* per actor: exit paths of sessions still to be reported
    stage,          \* Maintain: the guard it is at, 0 when idle
    mnow,           \* Maintain's now
    doomed          \* Maintain: deletions still to be made

wvars == <<taken, pc, job, pure, cross, left, val>>
mvars == <<stage, mnow, doomed>>
conf == <<cfg, reloads>>
vars == <<clock, conf, admitted, seen, sess, series, wvars, ending, mvars>>

Observations ==
    [kind : {"view", "custom", "ping"}, path : Paths, value : Values,
     visitor : Visitors, at : Int]

PathFamilies == {"views", "entries", "exits", "spent", "uniques"}

NoJob == [at |-> 0]
NoCell == <<>>

Series(f, p, v) == [fam |-> f, path |-> p, value |-> v]

Init ==
    /\ clock = 0
    /\ cfg = Boot
    /\ reloads = 0
    /\ admitted = [g \in GuardIds |-> [v \in {} |-> 0]]
    /\ seen = [g \in GuardIds |-> [v \in {} |-> 0]]
    /\ sess = [v \in {} |-> 0]
    /\ series = {}
    /\ taken = 0
    /\ pc = [w \in Workers |-> "idle"]
    /\ job = [w \in Workers |-> NoJob]
    /\ pure = [w \in Workers |-> Other]
    /\ cross = [w \in Workers |-> Other]
    /\ left = [w \in Workers |-> {}]
    /\ val = [w \in Workers |-> NoCell]
    /\ ending = [a \in Actors |-> {}]
    /\ stage = 0
    /\ mnow = 0
    /\ doomed = {}

Tick ==
    /\ clock < MaxClock
    /\ \A w \in Workers : pc[w] # "idle" => clock - job[w].at < MaxDelay
    /\ clock' = clock + 1
    /\ UNCHANGED <<conf, admitted, seen, sess, series, wvars, ending, mvars>>

\* A reload: Configure replaces the config of a site that is in use.
Configure(c) ==
    /\ reloads < MaxReloads
    /\ reloads' = reloads + 1
    /\ cfg' = c
    /\ UNCHANGED <<clock, admitted, seen, sess, series, wvars, ending, mvars>>

-----------------------------------------------------------------------------

Put(f, x, y) == [z \in DOMAIN f \cup {x} |-> IF z = x THEN y ELSE f[z]]

Goto(w, l) == pc' = [pc EXCEPT ![w] = l]

\* Record returns: its locals are gone.
Return(w) ==
    /\ pc' = [pc EXCEPT ![w] = "idle"]
    /\ job' = [job EXCEPT ![w] = NoJob]
    /\ pure' = [pure EXCEPT ![w] = Other]
    /\ cross' = [cross EXCEPT ![w] = Other]
    /\ val' = [val EXCEPT ![w] = NoCell]
    /\ UNCHANGED left

\* CounterVec.WithLabelValues creates the series if it is not there.  The
\* series that bear no value but sentinels are always there.
Count(s) ==
    series' = IF s.path \in Sentinels /\ s.value \in Sentinels THEN series
              ELSE series \cup {s}

Latest(f, v, at) == IF v \in DOMAIN f /\ f[v] > at THEN f[v] ELSE at

\* Guard.Admit answers label: the value, which is then in and seen at at, or
\* Other.  An event that comes late puts the time back to its own.
Admit(g, v, at, label) ==
    \/ /\ label = v
       /\ v \in DOMAIN admitted[g] \/ Cardinality(DOMAIN admitted[g]) < Cap[g]
       /\ admitted' = [admitted EXCEPT ![g] = Put(@, v, at)]
       /\ seen' = [seen EXCEPT ![g] = Put(@, v, Latest(@, v, at))]
    \/ /\ label = Other
       /\ v \notin DOMAIN admitted[g]
       /\ UNCHANGED <<admitted, seen>>

\* Record takes up an observation, of the site the registry knows.
Record(w, o) ==
    /\ pc[w] = "idle"
    /\ taken < MaxTaken
    /\ taken' = taken + 1
    /\ job' = [job EXCEPT ![w] = o]
    /\ Goto(w, IF o.kind = "ping" THEN "extend" ELSE "pure")
    /\ UNCHANGED <<clock, conf, admitted, seen, sess, series, pure, cross, left, val, ending, mvars>>

AdmitPure(w) ==
    /\ pc[w] = "pure"
    /\ \E l \in {job[w].path, Other} :
        /\ Admit("pure", job[w].path, job[w].at, l)
        /\ pure' = [pure EXCEPT ![w] = l]
    /\ Goto(w, "cross")
    /\ UNCHANGED <<clock, conf, sess, series, job, cross, left, val, taken, ending, mvars>>

\* A custom event goes on to the dimensions at once, and counts in the event
\* family only; a pageview counts in all the others.
DimsOf(kind) == IF kind = "custom" THEN Dims \cap {"event"} ELSE Dims \ {"event"}

AdmitCross(w) ==
    /\ pc[w] = "cross"
    /\ \E l \in {job[w].path, Other} :
        /\ Admit("cross", job[w].path, job[w].at, l)
        /\ cross' = [cross EXCEPT ![w] = l]
    /\ left' = [left EXCEPT ![w] = DimsOf(job[w].kind)]
    /\ Goto(w, IF job[w].kind = "view" THEN "view" ELSE "dims")
    /\ UNCHANGED <<clock, conf, sess, series, job, pure, val, taken, ending, mvars>>

CountView(w) ==
    /\ pc[w] = "view"
    /\ Count(Series("views", pure[w], NoValue))
    /\ Goto(w, "touch")
    /\ UNCHANGED <<clock, conf, admitted, seen, sess, job, pure, cross, left, val, taken, ending, mvars>>

\* Sessions.Touch: prolong a live session, put in a new one, or take out an
\* expired one, to be reported.  Reopen puts in the new session after that,
\* over one that another worker may have opened meanwhile.
Live(id, now) == id \in DOMAIN sess /\ now - sess[id].last < TTL

Opened(w) == Put(sess, job[w].visitor, [exit |-> pure[w], last |-> job[w].at])

Touch(w) ==
    LET id == job[w].visitor
    IN  /\ pc[w] = "touch"
        /\ IF id \in DOMAIN sess /\ ~Live(id, job[w].at)
           THEN /\ ending' = [ending EXCEPT ![w] = {sess[id].exit}]
                /\ sess' = Restrict(sess, DOMAIN sess \ {id})
                /\ Goto(w, "reopen")
           ELSE /\ sess' = Opened(w)
                /\ Goto(w, IF id \in DOMAIN sess THEN "unique" ELSE "entry")
                /\ UNCHANGED ending
        /\ UNCHANGED <<clock, conf, admitted, seen, series, job, pure, cross, left, val, taken, mvars>>

Reopen(w) ==
    /\ pc[w] = "reopen"
    /\ ending[w] = {}
    /\ sess' = Opened(w)
    /\ Goto(w, "entry")
    /\ UNCHANGED <<clock, conf, admitted, seen, series, job, pure, cross, left, val, taken, ending, mvars>>

\* sessionSink.SessionEnded, called by Touch and by Sweep.
SessionEnded(a) ==
    /\ \E p \in ending[a] :
        /\ Count(Series("exits", p, NoValue))
        /\ ending' = [ending EXCEPT ![a] = @ \ {p}]
    /\ UNCHANGED <<clock, conf, admitted, seen, sess, wvars, mvars>>

CountEntry(w) ==
    /\ pc[w] = "entry"
    /\ Count(Series("entries", pure[w], NoValue))
    /\ Goto(w, "unique")
    /\ UNCHANGED <<clock, conf, admitted, seen, sess, job, pure, cross, left, val, taken, ending, mvars>>

\* recordPathUnique: only an admitted path gets a sketch, if the site is
\* configured for it when it asks.
AskUnique(w) ==
    /\ pc[w] = "unique"
    /\ Goto(w, IF cfg.uniques /\ cross[w] # Other THEN "sketch" ELSE "dims")
    /\ UNCHANGED <<clock, conf, admitted, seen, sess, series, job, pure, cross, left, val, taken, ending, mvars>>

CountUnique(w) ==
    /\ pc[w] = "sketch"
    /\ Count(Series("uniques", cross[w], NoValue))
    /\ Goto(w, "dims")
    /\ UNCHANGED <<clock, conf, admitted, seen, sess, job, pure, cross, left, val, taken, ending, mvars>>

\* For each dimension the config is read again, then its guard is asked, then
\* the cell is counted.
PathLabel(w, d) ==
    /\ pc[w] = "dims"
    /\ d \in left[w]
    /\ val' = [val EXCEPT ![w] = <<d, IF d \in cfg.labels THEN cross[w] ELSE All, NoValue>>]
    /\ left' = [left EXCEPT ![w] = @ \ {d}]
    /\ Goto(w, "value")
    /\ UNCHANGED <<clock, conf, admitted, seen, sess, series, job, pure, cross, taken, ending, mvars>>

AdmitValue(w) ==
    /\ pc[w] = "value"
    /\ \E l \in {job[w].value, Other} :
        /\ Admit(val[w][1], job[w].value, job[w].at, l)
        /\ val' = [val EXCEPT ![w] = <<@[1], @[2], l>>]
    /\ Goto(w, "cell")
    /\ UNCHANGED <<clock, conf, sess, series, job, pure, cross, left, taken, ending, mvars>>

CountCell(w) ==
    /\ pc[w] = "cell"
    /\ Count(Series(val[w][1], val[w][2], val[w][3]))
    /\ Goto(w, "dims")
    /\ UNCHANGED <<clock, conf, admitted, seen, sess, job, pure, cross, left, val, taken, ending, mvars>>

DimsDone(w) ==
    /\ pc[w] = "dims"
    /\ left[w] = {}
    /\ Return(w)
    /\ UNCHANGED <<clock, conf, admitted, seen, sess, series, taken, ending, mvars>>

\* recordEngagement: prolong the session; unless the ping carries no time on
\* the page, look the path up without admitting it, then observe.
Extend(w) ==
    LET id == job[w].visitor IN
    /\ pc[w] = "extend"
    /\ sess' = IF Live(id, job[w].at) THEN [sess EXCEPT ![id].last = job[w].at] ELSE sess
    /\ \/ Goto(w, "peek") /\ UNCHANGED <<job, pure, cross, left, val>>
       \/ Return(w)
    /\ UNCHANGED <<clock, conf, admitted, seen, series, taken, ending, mvars>>

Peek(w) ==
    /\ pc[w] = "peek"
    /\ cross' = [cross EXCEPT ![w] =
                    IF job[w].path \in DOMAIN admitted["cross"] THEN job[w].path ELSE Other]
    /\ Goto(w, "spent")
    /\ UNCHANGED <<clock, conf, admitted, seen, sess, series, job, pure, left, val, taken, ending, mvars>>

CountSpent(w) ==
    /\ pc[w] = "spent"
    /\ Count(Series("spent", cross[w], NoValue))
    /\ Return(w)
    /\ UNCHANGED <<clock, conf, admitted, seen, sess, taken, ending, mvars>>

-----------------------------------------------------------------------------

\* Maintain begins with Sessions.Sweep.
Sweep ==
    LET idle == {id \in DOMAIN sess : clock - sess[id].last >= TTL} IN
    /\ stage = 0
    /\ doomed = {}
    /\ mnow' = clock
    /\ ending' = [ending EXCEPT ![Maintainer] = {sess[id].exit : id \in idle}]
    /\ sess' = Restrict(sess, DOMAIN sess \ idle)
    /\ stage' = 1
    /\ UNCHANGED <<clock, conf, admitted, seen, series, wvars, doomed>>

\* Mutant: a decayed path keeps the series of dimensions that are not
\* configured to have a path label now.
LabelledNow(g) ==
    CASE g = "pure" -> {"views", "entries", "exits"} \X {"path"}
      [] g = "cross" -> (cfg.labels \cup {"spent", "uniques"}) \X {"path"}
      [] OTHER -> {<<g, "value">>}

\* The families a guard's values label, and as what, under any config.
Labelled(g) ==
    CASE g = "pure" -> {"views", "entries", "exits"} \X {"path"}
      [] g = "cross" -> (Dims \cup {"spent", "uniques"}) \X {"path"}
      [] OTHER -> {<<g, "value">>}

Deletion(at, v) == [fam |-> at[1], label |-> at[2], of |-> v]

\* Mutant: a value goes one unit of time too early.
QuietEarly(g) == {v \in DOMAIN admitted[g] : mnow - admitted[g][v] >= DecayAfter}

\* Unseen for longer than DecayAfter, by the time of the last event to come.
Quiet(g) == {v \in DOMAIN admitted[g] : mnow - admitted[g][v] > DecayAfter}

\* Guard.Decay of the next guard, once the deletions of the one before are
\* made.
Decay ==
    LET g == GuardOrder[stage] IN
    /\ stage # 0
    /\ ending[Maintainer] = {}
    /\ doomed = {}
    /\ admitted' = [admitted EXCEPT ![g] = Restrict(@, DOMAIN @ \ Quiet(g))]
    /\ doomed' = {Deletion(at, v) : at \in Labelled(g), v \in Quiet(g)}
    /\ seen' = [seen EXCEPT ![g] = Restrict(@, DOMAIN @ \ Quiet(g))]
    /\ stage' = IF stage = Len(GuardOrder) THEN 0 ELSE stage + 1
    /\ UNCHANGED <<clock, conf, sess, series, wvars, ending, mnow>>

\* DeleteLabelValues or DeletePartialMatch in one family.
Delete(x) ==
    /\ x \in doomed
    /\ series' = {s \in series : ~(s.fam = x.fam /\ s[x.label] = x.of)}
    /\ doomed' = doomed \ {x}
    /\ UNCHANGED <<clock, conf, admitted, seen, sess, wvars, ending, stage, mnow>>

-----------------------------------------------------------------------------

Times == (clock - MaxDelay) .. clock

Pickup(w) ==
    \E k \in {"view", "custom", "ping"}, p \in Paths, v \in Values, id \in Visitors, t \in Times :
        Record(w, [kind |-> k, path |-> p, value |-> v, visitor |-> id, at |-> t])

RecordStep(w) ==
    \/ AdmitPure(w) \/ AdmitCross(w) \/ CountView(w)
    \/ Touch(w) \/ Reopen(w) \/ CountEntry(w) \/ AskUnique(w) \/ CountUnique(w)
    \/ \E d \in Dims : PathLabel(w, d)
    \/ AdmitValue(w) \/ CountCell(w) \/ DimsDone(w)
    \/ Extend(w) \/ Peek(w) \/ CountSpent(w)

Next ==
    \/ Tick
    \/ \E c \in Configs \ {cfg} : Configure(c)
    \/ \E w \in Workers : Pickup(w) \/ RecordStep(w)
    \/ \E a \in Actors : SessionEnded(a)
    \/ Sweep
    \/ Decay
    \/ \E x \in doomed : Delete(x)

Spec == Init /\ [][Next]_vars

-----------------------------------------------------------------------------

\* Every variable holds a value of its type.
TypeOK ==
    /\ clock \in Nat
    /\ \A g \in GuardIds : \A v \in DOMAIN admitted[g] :
        v \in Paths \cup Values /\ admitted[g][v] \in Int
    /\ DOMAIN sess \subseteq Visitors
    /\ \A s \in series :
        /\ s.fam \in PathFamilies \cup Dims
        /\ s.path \in Paths \cup {Other, All}
        /\ s.value \in Values \cup {Other, NoValue}
    /\ job \in [Workers -> Observations \cup {NoJob}]
    /\ pure \in [Workers -> Paths \cup {Other}]
    /\ cross \in [Workers -> Paths \cup {Other}]
    /\ left \in [Workers -> SUBSET Dims]
    /\ ending \in [Actors -> SUBSET (Paths \cup {Other})]
    /\ stage \in 0 .. Len(GuardOrder)
    /\ mnow \in 0 .. clock
    /\ doomed \in SUBSET [fam : PathFamilies \cup Dims, label : {"path", "value"},
                          of : Paths \cup Values]

\* A label of a series is a sentinel, or a value its guard has in, or one that
\* Maintain is about to delete the series of.
Backed(s, l, g) ==
    \/ s[l] \in Sentinels
    \/ s[l] \in DOMAIN admitted[g]
    \/ [fam |-> s.fam, label |-> l, of |-> s[l]] \in doomed

\* The pageview and entry series follow the path guard.
ViewsBacked ==
    \A s \in series : s.fam \in {"views", "entries"} => Backed(s, "path", "pure")

\* The dimension families follow both their guards, the cross guard for the
\* path and their own for the value.
CellsBacked ==
    \A s \in series : s.fam \in Dims => Backed(s, "path", "cross") /\ Backed(s, "value", s.fam)

\* A path has a sketch of its visitors only while the cross guard has it.
UniquesBacked ==
    \A s \in series : s.fam = "uniques" => Backed(s, "path", "cross")

(***************************************************************************)
(* Series are bounded by the guards: as long as an event is through within *)
(* half of DecayAfter, no series of these families and no sketch outlives  *)
(* the admission of its labels, whatever Record and Maintain do at the     *)
(* same time and although a reload changes which families carry a path     *)
(* while Record goes through them.                                         *)
(***************************************************************************)
SeriesBacked == ViewsBacked /\ CellsBacked /\ UniquesBacked

(***************************************************************************)
(* What is in use stays: Maintain drops a value only when it has not been  *)
(* seen for DecayAfter less the delay of an event, in any of the guards.   *)
(* The last event to reach a guard sets the time its Decay goes by, and    *)
(* with several workers that is not the latest event; MaxDelay is all this *)
(* costs a value that is still being visited.                              *)
(***************************************************************************)
InUseKept ==
    [][\A g \in GuardIds : \A v \in DOMAIN admitted[g] \ DOMAIN admitted'[g] :
         clock - seen[g][v] > DecayAfter - MaxDelay]_vars
=============================================================================
