------------------------------- MODULE Tracker ------------------------------
(***************************************************************************)
(* The script in the visitor's page, web/counter.js: page views of a       *)
(* single-page application, time on page, custom events, and the breaker   *)
(* that silences it after a few failures in a row.                         *)
(*                                                                         *)
(* Each action is one callback of the browser's event loop.  What beacon   *)
(* and fetch do with a request is left open; answers to fetches come in    *)
(* any order.  A page stands for location.pathname + location.search.      *)
(* Time goes by in half seconds, since Math.round rounds halves up.        *)
(*                                                                         *)
(* A script without data-host, or on a local host, returns before any of   *)
(* this and is left out.                                                   *)
(***************************************************************************)
EXTENDS Naturals, Sequences, SequencesExt, FiniteSetsExt

CONSTANTS
    Pages,
    FAILURE_LIMIT,
    MaxEngaged,     \* longest time on page reported, in seconds (3600)
    MaxClock,       \* bound: half seconds
    MaxMoves,       \* bound: history calls
    MaxCalls        \* bound: custom events

NoPage == "none"

ASSUME TrackerAssumption ==
    /\ FAILURE_LIMIT \in Nat \ {0}
    /\ {MaxEngaged, MaxClock, MaxMoves, MaxCalls} \subseteq Nat
    /\ NoPage \notin Pages

VARIABLES
    spa, api,       \* data-spa; which of beacon and fetch the browser has
    loaded,         \* the script has run
    queue,          \* calls made before it had, window.ridiculytics.q
    page,           \* location
    display,        \* document.visibilityState, or "gone" after pagehide
    lastPath, enteredAt,
    net,            \* the breaker, requests in flight, and histories
    clock, moves, calls,
    views,          \* history: pages of the page views
    reports         \* history: engagements: page named, page left, seconds, their sum

vars == <<spa, api, loaded, queue, page, display, lastPath, enteredAt, net,
          clock, moves, calls, views, reports>>
fixed == <<spa, api>>

Init ==
    /\ spa \in BOOLEAN
    /\ api \in SUBSET {"beacon", "fetch"}
    /\ loaded = FALSE
    /\ queue = 0
    /\ page \in Pages
    /\ display \in {"visible", "prerender"}
    /\ lastPath = NoPage
    /\ enteredAt = 0
    /\ net = [failures |-> 0, disabled |-> FALSE, flying |-> 0,
              sent |-> 0,       \* attempts
              tries |-> 0,      \* attempts since the last success
              peak |-> 0]       \* most attempts under way at once
    /\ clock = 1
    /\ moves = 0
    /\ calls = 0
    /\ views = <<>>
    /\ reports = <<>>

-----------------------------------------------------------------------------

(***************************************************************************)
(* The breaker.                                                            *)
(***************************************************************************)

\* Mutant: one failure too many.
onFailureLate(n) == [n EXCEPT !.failures = @ + 1, !.disabled = @ \/ n.failures >= FAILURE_LIMIT]

onFailure(n) == [n EXCEPT !.failures = @ + 1, !.disabled = @ \/ n.failures + 1 >= FAILURE_LIMIT]

onSuccess(n) == [n EXCEPT !.failures = 0, !.tries = 0]

\* What one post may leave behind: the beacon is queued, which is a success
\* at once, or fetch is tried, which may throw, or there is no way to send.
post(n) ==
    IF n.disabled THEN {n}
    ELSE LET m == [n EXCEPT !.sent = @ + 1, !.tries = @ + 1, !.peak = Max({@, n.flying + 1})] IN
         (IF "beacon" \in api THEN {onSuccess(m)} ELSE {})
         \cup (IF "fetch" \in api THEN {[m EXCEPT !.flying = @ + 1]} ELSE {})
         \cup {onFailure(m)}

\* Several posts in one callback.
Posts(n, k) ==
    LET after[i \in 0 .. k] == IF i = 0 THEN {n} ELSE UNION {post(m) : m \in after[i - 1]}
    IN  after[k]

\* The answer to some request in flight, whichever.
Answer(ok) ==
    /\ display # "gone"
    /\ net.flying > 0
    /\ LET n == [net EXCEPT !.flying = @ - 1] IN
       net' = IF ok THEN onSuccess(n) ELSE onFailure(n)
    /\ UNCHANGED <<fixed, loaded, queue, page, display, lastPath, enteredAt,
                   clock, moves, calls, views, reports>>

-----------------------------------------------------------------------------

Seconds == (clock - enteredAt + 1) \div 2

\* flush: the time on the page, once, if it is at least one second and not
\* more than MaxEngaged.  It names the page that is in the location bar.
Flushes == lastPath # NoPage /\ enteredAt # 0 /\ Seconds \in 1 .. MaxEngaged

\* The seconds reported so far.
Total == IF reports = <<>> THEN 0 ELSE Last(reports).total

Reported(at) ==
    IF Flushes THEN Append(reports, [page |-> at, left |-> lastPath, secs |-> Seconds,
                                     total |-> Total + Seconds])
               ELSE reports

\* Mutant: replaceState on the same page is a page view.
EntersAlways(p) == TRUE

\* pageview goes ahead unless the page is the one it saw last.
Enters(p) == p # lastPath

\* pageview on page p after k other posts: flush, then the view.
pageview(p, k) ==
    IF Enters(p)
    THEN /\ net' \in Posts(net, k + (IF Flushes THEN 1 ELSE 0) + 1)
         /\ reports' = Reported(p)
         /\ lastPath' = p
         /\ enteredAt' = clock
         /\ views' = Append(views, p)
    ELSE /\ net' \in Posts(net, k)
         /\ UNCHANGED <<reports, lastPath, enteredAt, views>>

\* Mutant: the time already reported goes on counting.
flushKeeps ==
    /\ net' \in Posts(net, IF Flushes THEN 1 ELSE 0)
    /\ reports' = Reported(page)
    /\ UNCHANGED <<enteredAt, lastPath, views>>

flush ==
    /\ net' \in Posts(net, IF Flushes THEN 1 ELSE 0)
    /\ reports' = Reported(page)
    /\ enteredAt' = 0
    /\ UNCHANGED <<lastPath, views>>

Quiet == UNCHANGED <<net, reports, lastPath, enteredAt, views>>

-----------------------------------------------------------------------------

Tick ==
    /\ clock < MaxClock
    /\ clock' = clock + 1
    /\ UNCHANGED <<fixed, loaded, queue, page, display, moves, calls>>
    /\ Quiet

\* The page calls ridiculytics(name): queued before the script has run, an
\* event afterwards.  Calls with no name or a reserved one send nothing.
Call ==
    /\ calls < MaxCalls
    /\ display # "gone"
    /\ calls' = calls + 1
    /\ IF loaded THEN net' \in post(net) /\ UNCHANGED queue
                 ELSE queue' = queue + 1 /\ UNCHANGED net
    /\ UNCHANGED <<fixed, loaded, page, display, lastPath, enteredAt, clock, moves, views, reports>>

\* The script runs: it drains the queue and counts the page, unless that is
\* only being prerendered.
Load ==
    /\ ~loaded
    /\ display # "gone"
    /\ loaded' = TRUE
    /\ queue' = 0
    /\ IF display # "prerender" THEN pageview(page, queue)
       ELSE net' \in Posts(net, queue) /\ UNCHANGED <<reports, lastPath, enteredAt, views>>
    /\ UNCHANGED <<fixed, page, display, clock, moves, calls>>

\* pushState, replaceState or popstate, to another page or the same.
Navigate(p) ==
    /\ moves < MaxMoves
    /\ display # "gone"
    /\ moves' = moves + 1
    /\ page' = p
    /\ IF loaded /\ spa THEN pageview(p, 0) ELSE Quiet
    /\ UNCHANGED <<fixed, loaded, queue, display, clock, calls>>

\* visibilitychange to hidden, and pagehide.
Hide(how) ==
    /\ display \in {"visible", "hidden"} \ {how}
    /\ display' = how
    /\ IF loaded THEN flush ELSE Quiet
    /\ UNCHANGED <<fixed, loaded, queue, page, clock, moves, calls>>

\* The page is shown again, from the back-forward cache too.
Show ==
    /\ display \in {"hidden", "gone"}
    /\ display' = "visible"
    /\ UNCHANGED <<fixed, loaded, queue, page, clock, moves, calls>>
    /\ Quiet

\* A prerendered page becomes visible, or hidden: a script that has run counts
\* it now.  On hidden the listener that flushes comes first, and pageview then
\* has nothing more to flush.
Activate(how) ==
    /\ display = "prerender"
    /\ display' = how
    /\ IF ~loaded THEN Quiet
       ELSE IF how = "hidden" /\ ~Enters(page) THEN flush
       ELSE pageview(page, 0)
    /\ UNCHANGED <<fixed, loaded, queue, page, clock, moves, calls>>

Next ==
    \/ Tick
    \/ Call
    \/ Load
    \/ \E p \in Pages : Navigate(p)
    \/ \E how \in {"hidden", "gone"} : Hide(how)
    \/ Show
    \/ \E how \in {"visible", "hidden"} : Activate(how)
    \/ \E ok \in BOOLEAN : Answer(ok)

Spec == Init /\ [][Next]_vars

-----------------------------------------------------------------------------

Displays == {"prerender", "visible", "hidden", "gone"}

ReportSet == [page : Pages, left : Pages, secs : Nat, total : Nat]

\* The state is of its type; the breaker and the queue have an invariant of
\* their own, in TrackerProofs.
TypeOK ==
    /\ loaded \in BOOLEAN
    /\ page \in Pages
    /\ display \in Displays
    /\ lastPath \in Pages \cup {NoPage}
    /\ enteredAt \in Nat
    /\ clock \in Nat \ {0}
    /\ moves \in Nat
    /\ views \in Seq(Pages)
    /\ reports \in Seq(ReportSet)

(***************************************************************************)
(* One view per visit to a page: history calls that stay on the page are   *)
(* not views, every page shown by a single-page application has been       *)
(* counted when the callback is over, and nothing was counted before the   *)
(* page was shown unless the application navigated.                        *)
(***************************************************************************)
OneViewPerVisit ==
    /\ \A i \in DOMAIN views : i > 1 => views[i] # views[i - 1]
    /\ Len(views) <= 1 + moves
    /\ loaded /\ display # "prerender" => views # <<>>
    /\ loaded /\ display # "prerender" /\ spa => Last(views) = page
    /\ display = "prerender" /\ moves = 0 => views = <<>>

(***************************************************************************)
(* No moment is reported twice: all the seconds reported, each rounded up  *)
(* by half a second at most, fit into the time since the script was there, *)
(* no view is reported on more than once, and no report is out of range.   *)
(***************************************************************************)
EngagedOnce ==
    /\ 2 * Total <= clock + Len(reports)
    /\ Len(reports) <= Len(views)
    /\ \A i \in DOMAIN reports : reports[i].secs \in 1 .. MaxEngaged

(***************************************************************************)
(* The breaker stops after FAILURE_LIMIT failures it can see: since the    *)
(* last success there were at most FAILURE_LIMIT - 1 attempts beside those *)
(* that were under way at once, in whatever order their failures come      *)
(* back; and once tripped it stays so, although a request that was under   *)
(* way succeeds after all.  A beacon that the browser has queued is a      *)
(* success to it, whatever becomes of the beacon, so that this says        *)
(* nothing of an unreachable collector where sendBeacon works.             *)
(***************************************************************************)
BreakerStops ==
    /\ [](net.tries <= FAILURE_LIMIT - 1 + net.peak)
    /\ [][net.disabled => net'.disabled /\ net'.sent = net.sent]_vars

(***************************************************************************)
(* The time is reported for the page it was spent on, as flush is said to  *)
(* do: "flush reports time on the page we are leaving".                    *)
(***************************************************************************)
EngagementOfPageLeft == \A i \in DOMAIN reports : reports[i].page = reports[i].left
=============================================================================
