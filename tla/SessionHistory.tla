--------------------------- MODULE SessionHistory ---------------------------
(***************************************************************************)
(* What the session map is for: cutting a visitor's activity into sessions *)
(* wherever it pauses for the TTL.  The module adds two history variables  *)
(* to Sessions, the activity of every visitor and the sessions taken out   *)
(* of the map, and compares them with a reference that knows neither map,  *)
(* nor lock, nor sweep.                                                    *)
(***************************************************************************)
EXTENDS Sessions, SequencesExt

CONSTANT MaxLog     \* bound: activities recorded per visitor

\* Nothing is evicted here: every visitor has room for a session.
RoomForAll == Cardinality(Visitors) <= Cap

VARIABLES
    log,            \* visitor -> its pageviews and pings, as they were applied
    closed          \* visitor -> its sessions taken out of the map, in order

hvars == <<vars, log, closed>>

HInit ==
    /\ Init
    /\ log = [v \in Visitors |-> <<>>]
    /\ closed = [v \in Visitors |-> <<>>]

Logged(v, kind, at) ==
    /\ Len(log[v]) < MaxLog
    /\ log' = [log EXCEPT ![v] = Append(@, [kind |-> kind, at |-> at])]

\* Whatever leaves the map without being replaced has been closed.
ClosedNow ==
    closed' = [v \in Visitors |->
        IF v \in DOMAIN m \ DOMAIN m' THEN Append(closed[v], m[v]) ELSE closed[v]]

HEvent(w, id, now) ==
    /\ \/ TouchLive(w, id, now) /\ Logged(id, "view", now)
       \/ TouchNew(w, id, now) /\ Logged(id, "view", now)
       \/ TouchExpired(w, id, now) /\ Len(log[id]) < MaxLog /\ UNCHANGED log
       \/ Extend(w, id, now) /\ Logged(id, "ping", now)
    /\ ClosedNow

HReopen(w) ==
    /\ TouchReopen(w)
    /\ Logged(arg[w].id, "view", arg[w].now)
    /\ ClosedNow

HNext ==
    \/ \E w \in Workers, id \in Visitors, now \in Times : HEvent(w, id, now)
    \/ \E w \in Workers : HReopen(w)
    \/ /\ \/ Tick
          \/ Sweep
          \/ \E w \in Workers : SessionStarted(w)
          \/ \E a \in Actors : SessionEnded(a)
       /\ ClosedNow
       /\ UNCHANGED log

\* The history variables take nothing away from the fairness of Sessions.
HSpec == HInit /\ [][HNext]_hvars /\ Fairness

-----------------------------------------------------------------------------

\* The reference: one activity applied to the sessions so far.
Apply(sessions, e) ==
    LET joins == sessions # <<>> /\ e.at - Last(sessions).last < TTL
        cur == Last(sessions)
        next == [cur EXCEPT !.last = e.at, !.pages = IF e.kind = "view" THEN 2 ELSE @]
    IN  IF joins THEN Append(Front(sessions), next)
        ELSE IF e.kind = "view" THEN Append(sessions, Fresh(e.at))
        ELSE sessions

\* The sessions of the first n activities, for each n.
SessionsOf(activity) ==
    LET cut[n \in 0 .. Len(activity)] ==
            IF n = 0 THEN <<>> ELSE Apply(cut[n - 1], activity[n])
    IN  cut[Len(activity)]

(***************************************************************************)
(* With one worker, events applied in the order of their times and room    *)
(* for every visitor, the sessions closed and the session still open are   *)
(* exactly the reference's cut of the visitor's activity, with the same    *)
(* starts, ends and bounces: it makes no difference when Sweep runs, or    *)
(* whether Sweep or the next Touch closes an idle session.                 *)
(***************************************************************************)
CutAtPauses ==
    \A v \in Visitors :
        closed[v] \o (IF v \in DOMAIN m THEN <<m[v]>> ELSE <<>>) = SessionsOf(log[v])
=============================================================================
