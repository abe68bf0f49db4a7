---------------------------- MODULE TrackerProofs ----------------------------
(***************************************************************************)
(* Page views and time on page, for any pages, any order of the browser's  *)
(* callbacks and whatever becomes of the requests; and the breaker, for    *)
(* any limit and any number of requests under way, whatever is answered    *)
(* and when.                                                               *)
(***************************************************************************)
EXTENDS Tracker, WellFoundedInduction, TLAPS

\* What pageview remembers of the page: lastPath is the last one counted, and
\* a script that has not run has counted nothing.
Remembers ==
    /\ views = <<>> <=> lastPath = NoPage
    /\ views # <<>> => lastPath = views[Len(views)]
    /\ ~loaded => views = <<>>
    /\ display = "prerender" => Len(views) <= moves

\* The moment up to which time may have been reported: the one at which the
\* page in view was entered, or any until now when its time is reported.
Since == IF enteredAt = 0 THEN clock ELSE enteredAt

\* Of the views, the last has not been reported on while its time runs.
Timed ==
    /\ enteredAt <= clock
    /\ enteredAt # 0 => lastPath # NoPage
    /\ 2 * Total <= Since + Len(reports)
    /\ Len(reports) + (IF enteredAt = 0 THEN 0 ELSE 1) <= Len(views)
    /\ \A i \in DOMAIN reports : reports[i].secs \in 1 .. MaxEngaged

IInv == TypeOK /\ OneViewPerVisit /\ Remembers /\ Timed

\* No page is counted twice in a row.
NoRepeat == \A i \in DOMAIN views : i > 1 => views[i] # views[i - 1]

-----------------------------------------------------------------------------

LEMMA TotalType == ASSUME TypeOK PROVE Total \in Nat /\ Len(reports) \in Nat
<1>1. reports \in Seq(ReportSet) /\ Len(reports) \in Nat
    BY DEF TypeOK
<1>2. CASE reports = <<>>
    BY <1>1, <1>2 DEF Total
<1>3. CASE reports # <<>>
    <2>1. Len(reports) \in 1 .. Len(reports)
        BY <1>1, <1>3
    <2>2. reports[Len(reports)] \in ReportSet
        BY <1>1, <2>1
    <2> QED BY <1>1, <1>3, <2>2 DEF Total, Last, ReportSet
<1> QED BY <1>2, <1>3

\* A report more at most, within range and within the time gone by: a flush
\* leaves the books as they are with the page's time counted up to now.
LEMMA ReportedFacts ==
    ASSUME TypeOK, Timed, NEW p \in Pages, reports' = Reported(p)
    PROVE  /\ reports' \in Seq(ReportSet)
           /\ 2 * Total' <= clock + Len(reports')
           /\ Len(reports') <= Len(views)
           /\ \A i \in DOMAIN reports' : reports'[i].secs \in 1 .. MaxEngaged
<1>1. Total \in Nat /\ Len(reports) \in Nat /\ reports \in Seq(ReportSet)
    BY TotalType DEF TypeOK
<1>2. CASE ~Flushes
    <2>1. reports' = reports /\ Total' = Total
        BY <1>2 DEF Reported, Total
    <2> QED BY <1>1, <2>1 DEF TypeOK, Timed, Since
<1>3. CASE Flushes
    <2> DEFINE r == [page |-> p, left |-> lastPath, secs |-> Seconds, total |-> Total + Seconds]
    <2>1. reports' = Append(reports, r)
        BY <1>3 DEF Reported
    <2>2. Seconds \in 1 .. MaxEngaged /\ Seconds \in Nat /\ 2 * Seconds <= clock - enteredAt + 1
        BY <1>3, TrackerAssumption DEF Flushes, Seconds, TypeOK, Timed
    <2>3. r \in ReportSet
        BY <1>1, <1>3, <2>2 DEF Flushes, TypeOK, ReportSet
    <2> HIDE DEF r
    <2>4. /\ reports' \in Seq(ReportSet) /\ Len(reports') = Len(reports) + 1
          /\ reports'[Len(reports')] = r
          /\ \A i \in 1 .. Len(reports) : reports'[i] = reports[i]
        BY <1>1, <2>1, <2>3
    <2>5. Total' = Total + Seconds
        BY <1>1, <2>4 DEF Total, Last, r
    <2>6. 2 * Total' <= clock + Len(reports') /\ Len(reports') <= Len(views)
        BY <1>1, <1>3, <2>2, <2>4, <2>5 DEF Timed, Since, Flushes, TypeOK
    <2>7. ASSUME NEW i \in DOMAIN reports' PROVE reports'[i].secs \in 1 .. MaxEngaged
        <3>1. i \in 1 .. Len(reports) \/ reports'[i] = r
            BY <1>1, <2>4
        <3>2. i \in 1 .. Len(reports) => reports'[i].secs \in 1 .. MaxEngaged
            BY <1>1, <2>4 DEF Timed
        <3> QED BY <2>2, <3>1, <3>2 DEF r
    <2> QED BY <2>4, <2>6, <2>7
<1> QED BY <1>2, <1>3

\* After pageview the page is the last one counted, by a new view if it was
\* not so before, and the books are in order.
LEMMA PageviewFacts ==
    ASSUME IInv, NEW p \in Pages, NEW k, pageview(p, k), UNCHANGED clock
    PROVE  /\ lastPath' = p /\ lastPath' \in Pages
           /\ enteredAt' \in Nat /\ reports' \in Seq(ReportSet) /\ views' \in Seq(Pages)
           /\ views' # <<>> /\ views'[Len(views')] = p
           /\ Len(views') <= Len(views) + 1
           /\ NoRepeat' /\ Timed'
<1> USE DEF IInv
<1>1. CASE ~Enters(p)
    <2>1. p = lastPath /\ UNCHANGED <<reports, lastPath, enteredAt, views>>
        BY <1>1 DEF pageview, Enters
    <2>2. views # <<>> /\ views[Len(views)] = p
        BY <2>1, TrackerAssumption DEF Remembers
    <2>3. Timed' /\ NoRepeat'
        BY <2>1 DEF Timed, Since, Total, NoRepeat, OneViewPerVisit
    <2> QED BY <2>1, <2>2, <2>3 DEF TypeOK
<1>2. CASE Enters(p)
    <2>1. /\ reports' = Reported(p) /\ lastPath' = p /\ enteredAt' = clock
          /\ views' = Append(views, p) /\ p # lastPath
        BY <1>2 DEF pageview, Enters
    <2>2. /\ views' \in Seq(Pages) /\ views' # <<>> /\ views'[Len(views')] = p
          /\ Len(views') = Len(views) + 1 /\ Len(views) \in Nat
          /\ \A i \in 1 .. Len(views) : views'[i] = views[i]
        BY <2>1 DEF TypeOK
    <2>3. /\ reports' \in Seq(ReportSet)
          /\ 2 * Total' <= clock + Len(reports')
          /\ Len(reports') <= Len(views)
          /\ \A i \in DOMAIN reports' : reports'[i].secs \in 1 .. MaxEngaged
        BY <2>1, ReportedFacts
    <2>4. Timed'
        BY <2>1, <2>2, <2>3, TrackerAssumption DEF Timed, Since, TypeOK
    <2>5. NoRepeat'
        <3> SUFFICES ASSUME NEW i \in 1 .. Len(views'), i > 1
                     PROVE  views'[i] # views'[i - 1]
            BY <2>2 DEF NoRepeat
        <3>1. CASE i <= Len(views)
            <4>1. i \in DOMAIN views /\ i \in 1 .. Len(views) /\ i - 1 \in 1 .. Len(views)
                BY <2>2, <3>1 DEF TypeOK
            <4>2. views[i] # views[i - 1]
                BY <4>1 DEF OneViewPerVisit
            <4> QED BY <2>2, <4>1, <4>2
        <3>2. CASE i = Len(views) + 1
            <4>1. views'[i - 1] = lastPath
                BY <2>2, <3>2 DEF Remembers, TypeOK
            <4> QED BY <2>1, <2>2, <3>2, <4>1
        <3> QED BY <2>2, <3>1, <3>2
    <2> QED BY <2>1, <2>2, <2>3, <2>4, <2>5 DEF TypeOK
<1> QED BY <1>1, <1>2

\* A step that neither counts nor reports.
LEMMA QuietFacts ==
    ASSUME IInv, UNCHANGED <<reports, lastPath, enteredAt, views>>, clock' \in {clock, clock + 1}
    PROVE  /\ lastPath' \in Pages \cup {NoPage} /\ enteredAt' \in Nat
           /\ reports' \in Seq(ReportSet) /\ views' \in Seq(Pages)
           /\ NoRepeat' /\ Timed'
<1>1. Total' = Total /\ Total \in Nat
    BY TotalType DEF IInv, Total
<1>2. Timed'
    BY <1>1 DEF IInv, Timed, Since, TypeOK
<1> QED BY <1>2 DEF IInv, TypeOK, NoRepeat, OneViewPerVisit

LEMMA FlushFacts ==
    ASSUME IInv, flush, UNCHANGED clock
    PROVE  /\ enteredAt' \in Nat /\ reports' \in Seq(ReportSet) /\ Timed'
           /\ UNCHANGED <<lastPath, views>>
<1>1. reports' = Reported(page) /\ enteredAt' = 0 /\ UNCHANGED <<lastPath, views>>
    BY DEF flush
<1>2. /\ reports' \in Seq(ReportSet)
      /\ 2 * Total' <= clock + Len(reports')
      /\ Len(reports') <= Len(views)
      /\ \A i \in DOMAIN reports' : reports'[i].secs \in 1 .. MaxEngaged
    BY <1>1, ReportedFacts DEF IInv, TypeOK
<1>3. Timed'
    BY <1>1, <1>2 DEF Timed, Since, IInv, TypeOK
<1> QED BY <1>1, <1>2, <1>3

-----------------------------------------------------------------------------

LEMMA InitIInv == Init => IInv
<1> SUFFICES ASSUME Init PROVE IInv
    OBVIOUS
<1>1. TypeOK
    <2>1. views \in Seq(Pages) /\ reports \in Seq(ReportSet)
        BY DEF Init
    <2>2. clock \in Nat \ {0} /\ moves \in Nat /\ enteredAt \in Nat
        BY DEF Init
    <2> QED BY <2>1, <2>2 DEF Init, TypeOK, Displays
<1>2. OneViewPerVisit /\ Remembers
    BY DEF Init, OneViewPerVisit, Remembers
<1>3. Timed
    BY DEF Init, Timed, Since, Total
<1> QED BY <1>1, <1>2, <1>3 DEF IInv

LEMMA NextIInv == IInv /\ [Next]_vars => IInv'
<1> SUFFICES ASSUME IInv, [Next]_vars PROVE IInv'
    OBVIOUS
<1> USE DEF IInv
<1>1. CASE Tick
    <2>1. /\ clock' = clock + 1
          /\ UNCHANGED <<spa, loaded, page, display, moves, lastPath, enteredAt, views, reports>>
        BY <1>1 DEF Tick, Quiet, fixed
    <2>2. Timed'
        BY <2>1, QuietFacts
    <2> QED BY <2>1, <2>2 DEF TypeOK, OneViewPerVisit, Remembers
<1>2. CASE Call \/ (\E ok \in BOOLEAN : Answer(ok)) \/ UNCHANGED vars
    <2>1. UNCHANGED <<spa, loaded, page, display, moves, clock, lastPath, enteredAt, views, reports>>
        BY <1>2 DEF Call, Answer, fixed, vars
    <2>2. Timed'
        BY <2>1, QuietFacts
    <2> QED BY <2>1, <2>2 DEF TypeOK, OneViewPerVisit, Remembers
<1>3. CASE Load
    <2>1. ~loaded /\ loaded' = TRUE /\ UNCHANGED <<spa, page, display, clock, moves>> /\ views = <<>>
        BY <1>3 DEF Load, fixed, Remembers
    <2>2. CASE display # "prerender"
        <3>1. pageview(page, queue)
            BY <1>3, <2>2 DEF Load
        <3>2. /\ lastPath' = page /\ enteredAt' \in Nat
              /\ reports' \in Seq(ReportSet) /\ views' \in Seq(Pages)
              /\ views' # <<>> /\ views'[Len(views')] = page
              /\ Len(views') <= 1
              /\ NoRepeat' /\ Timed'
            BY <2>1, <3>1, PageviewFacts DEF TypeOK
        <3>3. TypeOK'
            BY <2>1, <3>2 DEF TypeOK
        <3>4. Remembers' /\ OneViewPerVisit'
            BY <2>1, <2>2, <3>2, TrackerAssumption DEF Remembers, OneViewPerVisit, NoRepeat, TypeOK, Last
        <3> QED BY <3>2, <3>3, <3>4
    <2>3. CASE display = "prerender"
        <3>1. UNCHANGED <<reports, lastPath, enteredAt, views>>
            BY <1>3, <2>3 DEF Load
        <3>2. Timed'
            BY <2>1, <3>1, QuietFacts
        <3> QED BY <2>1, <2>3, <3>1, <3>2 DEF TypeOK, OneViewPerVisit, Remembers
    <2> QED BY <2>2, <2>3
<1>4. ASSUME NEW p \in Pages, Navigate(p) PROVE IInv'
    <2>1. /\ moves' = moves + 1 /\ page' = p /\ display # "gone"
          /\ UNCHANGED <<spa, loaded, display, clock>>
        BY <1>4 DEF Navigate, fixed
    <2>2. CASE loaded /\ spa
        <3>1. pageview(p, 0)
            BY <1>4, <2>2 DEF Navigate
        <3>2. /\ lastPath' = p /\ enteredAt' \in Nat
              /\ reports' \in Seq(ReportSet) /\ views' \in Seq(Pages)
              /\ views' # <<>> /\ views'[Len(views')] = p
              /\ Len(views') <= Len(views) + 1
              /\ NoRepeat' /\ Timed'
            BY <2>1, <3>1, PageviewFacts
        <3>3. TypeOK'
            BY <2>1, <3>2 DEF TypeOK
        <3>4. Remembers' /\ OneViewPerVisit'
            BY <2>1, <2>2, <3>2, TrackerAssumption DEF Remembers, OneViewPerVisit, NoRepeat, TypeOK, Last
        <3> QED BY <3>2, <3>3, <3>4
    <2>3. CASE ~(loaded /\ spa)
        <3>1. UNCHANGED <<reports, lastPath, enteredAt, views>>
            BY <1>4, <2>3 DEF Navigate, Quiet
        <3>2. Timed'
            BY <2>1, <3>1, QuietFacts
        <3> QED BY <2>1, <2>3, <3>1, <3>2 DEF TypeOK, OneViewPerVisit, Remembers
    <2> QED BY <2>2, <2>3
<1>5. ASSUME NEW how \in {"hidden", "gone"}, Hide(how) PROVE IInv'
    <2>1. /\ display \in {"visible", "hidden"} /\ display' = how
          /\ UNCHANGED <<spa, loaded, page, clock, moves>>
        BY <1>5 DEF Hide, fixed
    <2>2. enteredAt' \in Nat /\ reports' \in Seq(ReportSet) /\ Timed' /\ UNCHANGED <<lastPath, views>>
        <3>1. CASE loaded
            BY <1>5, <2>1, <3>1, FlushFacts DEF Hide
        <3>2. CASE ~loaded
            BY <1>5, <2>1, <3>2, QuietFacts DEF Hide, Quiet
        <3> QED BY <3>1, <3>2
    <2> QED BY <2>1, <2>2 DEF TypeOK, OneViewPerVisit, Remembers, Displays
<1>6. CASE Show
    <2>1. /\ display \in {"hidden", "gone"} /\ display' = "visible"
          /\ UNCHANGED <<spa, loaded, page, clock, moves, lastPath, enteredAt, views, reports>>
        BY <1>6 DEF Show, Quiet, fixed
    <2>2. Timed'
        BY <2>1, QuietFacts
    <2> QED BY <2>1, <2>2 DEF TypeOK, OneViewPerVisit, Remembers, Displays
<1>7. ASSUME NEW how \in {"visible", "hidden"}, Activate(how) PROVE IInv'
    <2>1. /\ display = "prerender" /\ display' = how
          /\ UNCHANGED <<spa, loaded, page, clock, moves>>
        BY <1>7 DEF Activate, fixed
    <2>2. CASE loaded /\ ~(how = "hidden" /\ ~Enters(page))
        <3>1. pageview(page, 0)
            BY <1>7, <2>2 DEF Activate
        <3>2. /\ lastPath' = page /\ enteredAt' \in Nat
              /\ reports' \in Seq(ReportSet) /\ views' \in Seq(Pages)
              /\ views' # <<>> /\ views'[Len(views')] = page
              /\ Len(views') <= Len(views) + 1
              /\ NoRepeat' /\ Timed'
            BY <2>1, <3>1, PageviewFacts DEF TypeOK
        <3>3. TypeOK'
            BY <2>1, <3>2 DEF TypeOK, Displays
        <3>4. Remembers' /\ OneViewPerVisit'
            BY <2>1, <2>2, <3>2, TrackerAssumption DEF Remembers, OneViewPerVisit, NoRepeat, TypeOK, Last
        <3> QED BY <3>2, <3>3, <3>4
    <2>3. CASE ~loaded
        <3>1. UNCHANGED <<reports, lastPath, enteredAt, views>>
            BY <1>7, <2>3 DEF Activate, Quiet
        <3>2. Timed'
            BY <2>1, <3>1, QuietFacts
        <3> QED BY <2>1, <2>3, <3>1, <3>2 DEF TypeOK, OneViewPerVisit, Remembers, Displays
    <2>4. CASE loaded /\ how = "hidden" /\ ~Enters(page)
        <3>1. flush
            BY <1>7, <2>4 DEF Activate
        <3>2. enteredAt' \in Nat /\ reports' \in Seq(ReportSet) /\ Timed' /\ UNCHANGED <<lastPath, views>>
            BY <2>1, <3>1, FlushFacts
        <3>3. page = lastPath /\ views # <<>> /\ views[Len(views)] = page
            BY <2>4, TrackerAssumption DEF Enters, Remembers, TypeOK
        <3> QED BY <2>1, <2>4, <3>2, <3>3 DEF TypeOK, OneViewPerVisit, Remembers, Displays, Last
    <2> QED BY <2>2, <2>3, <2>4
<1> QED
    BY <1>1, <1>2, <1>3, <1>4, <1>5, <1>6, <1>7 DEF Next

(***************************************************************************)
(* The inductive invariant holds in every reachable state.                 *)
(***************************************************************************)
THEOREM Invariance == Spec => []IInv
BY InitIInv, NextIInv, PTL DEF Spec

(***************************************************************************)
(* The script counts a page once per visit (pageview in counter.js): for   *)
(* any pages, any order of navigations, hiding, prerendering and returns   *)
(* from the cache, whether requests get through or not.                    *)
(***************************************************************************)
THEOREM ViewsCorrect == Spec => []OneViewPerVisit
<1>1. IInv => OneViewPerVisit
    BY DEF IInv
<1> QED BY <1>1, Invariance, PTL

(***************************************************************************)
(* No moment of a visit is reported twice (flush in counter.js), for every *)
(* order of callbacks, every limit and every length of the visit.          *)
(***************************************************************************)
THEOREM EngagedCorrect == Spec => []EngagedOnce
<1>1. IInv => EngagedOnce
    <2> SUFFICES ASSUME IInv PROVE EngagedOnce
        OBVIOUS
    <2>1. Total \in Nat /\ Len(reports) \in Nat
        BY TotalType DEF IInv
    <2> QED BY <2>1 DEF IInv, Timed, Since, EngagedOnce, TypeOK
<1> QED BY <1>1, Invariance, PTL

-----------------------------------------------------------------------------

(***************************************************************************)
(* The breaker.  Each attempt since the last success has failed or is      *)
(* still under way, and the failures stay below the limit until it trips.  *)
(***************************************************************************)

Net == [failures : Nat, disabled : BOOLEAN, flying : Nat, sent : Nat, tries : Nat, peak : Nat]

Breaker(n) ==
    /\ n \in Net
    /\ n.flying <= n.peak
    /\ ~n.disabled => n.failures < FAILURE_LIMIT /\ n.tries <= n.failures + n.flying
    /\ n.tries <= FAILURE_LIMIT - 1 + n.peak

LEMMA LargerOf ==
    ASSUME NEW a \in Nat, NEW b \in Nat
    PROVE  Max({a, b}) \in Nat /\ Max({a, b}) >= a /\ Max({a, b}) >= b
<1>1. \E x \in {a, b} : \A y \in {a, b} : x >= y
    OBVIOUS
<1>2. Max({a, b}) \in {a, b} /\ \A y \in {a, b} : Max({a, b}) >= y
    BY <1>1 DEF Max
<1> QED BY <1>2

\* The record, updated.
LEMMA NetUpdated ==
    ASSUME NEW n \in Net, NEW a \in Nat, NEW b \in Nat, NEW c \in Nat, NEW t \in BOOLEAN
    PROVE  /\ [n EXCEPT !.failures = a, !.disabled = t] \in Net
           /\ [n EXCEPT !.sent = a, !.tries = b, !.peak = c] \in Net
    BY DEF Net

\* onFailure trips the breaker at the limit and never resets it.
LEMMA FailureIs ==
    ASSUME NEW n \in Net
    PROVE  LET r == onFailure(n) IN
           /\ r \in Net /\ r.failures = n.failures + 1
           /\ r.flying = n.flying /\ r.sent = n.sent /\ r.tries = n.tries /\ r.peak = n.peak
           /\ n.disabled => r.disabled
           /\ ~r.disabled => ~n.disabled /\ n.failures + 1 < FAILURE_LIMIT
<1> DEFINE trips == n.disabled \/ n.failures + 1 >= FAILURE_LIMIT
           r == onFailure(n)
<1>1. r = [n EXCEPT !.failures = n.failures + 1, !.disabled = trips]
    BY DEF onFailure
<1>2. n.failures \in Nat /\ FAILURE_LIMIT \in Nat
    BY TrackerAssumption DEF Net
<1>3. /\ trips \in BOOLEAN
      /\ n.disabled => trips
      /\ ~trips => ~n.disabled /\ n.failures + 1 < FAILURE_LIMIT
    <2>1. trips \in BOOLEAN
        OBVIOUS
    <2>2. n.disabled => trips
        OBVIOUS
    <2>3. ~trips => ~n.disabled
        OBVIOUS
    <2>4. ~trips => ~(n.failures + 1 >= FAILURE_LIMIT)
        OBVIOUS
    <2>5. ~(n.failures + 1 >= FAILURE_LIMIT) => n.failures + 1 < FAILURE_LIMIT
        BY <1>2
    <2> QED BY <2>1, <2>2, <2>3, <2>4, <2>5, Zenon
<1> HIDE DEF trips, r
<1>4. /\ r \in Net /\ r.failures = n.failures + 1 /\ r.disabled = trips
      /\ r.flying = n.flying /\ r.sent = n.sent /\ r.tries = n.tries /\ r.peak = n.peak
    <2>1. n.failures + 1 \in Nat
        BY <1>2
    <2>2. r \in Net
        BY <1>1, <1>3, <2>1, NetUpdated, Zenon
    <2>3. {"failures", "disabled", "flying", "sent", "tries", "peak"} \subseteq DOMAIN n
        BY DEF Net
    <2> HIDE DEF Net
    <2>4. r.failures = n.failures + 1 /\ r.flying = n.flying /\ r.sent = n.sent
          /\ r.tries = n.tries /\ r.peak = n.peak
        BY <1>1, <2>3
    <2>5. r.disabled = trips
        BY <1>1, <2>3, Zenon
    <2> QED BY <2>2, <2>4, <2>5
<1> QED BY <1>3, <1>4, Zenon DEF r

\* One post, whichever way it goes.
LEMMA PostKeeps ==
    ASSUME NEW n, Breaker(n), NEW r \in post(n)
    PROVE  Breaker(r) /\ (n.disabled => r = n)
<1>1. CASE n.disabled
    BY <1>1 DEF post
<1>2. CASE ~n.disabled
    <2> DEFINE peak == Max({n.peak, n.flying + 1})
               m == [n EXCEPT !.sent = @ + 1, !.tries = @ + 1, !.peak = peak]
    <2>1. /\ n \in Net
          /\ n.flying \in Nat /\ n.peak \in Nat /\ n.failures \in Nat /\ n.tries \in Nat /\ n.sent \in Nat
          /\ n.failures < FAILURE_LIMIT /\ n.tries <= n.failures + n.flying /\ FAILURE_LIMIT \in Nat
        BY <1>2, TrackerAssumption DEF Breaker, Net
    <2>2. peak \in Nat /\ peak >= n.flying + 1
        BY <2>1, LargerOf
    <2> HIDE DEF peak
    <2>3. /\ m \in Net /\ m.failures = n.failures /\ m.flying = n.flying
          /\ m.tries = n.tries + 1 /\ m.peak = peak
        <3>1. n.sent + 1 \in Nat /\ n.tries + 1 \in Nat
            BY <2>1
        <3>2. m \in Net
            BY <2>1, <2>2, <3>1, NetUpdated
        <3>3. {"failures", "flying", "sent", "tries", "peak"} \subseteq DOMAIN n
            BY <2>1 DEF Net
        <3> QED BY <3>2, <3>3
    <2>4. r \in {onSuccess(m), [m EXCEPT !.flying = @ + 1], onFailure(m)}
        BY <1>2 DEF post, peak
    <2> HIDE DEF m
    <2>5. CASE r = onSuccess(m)
        <3>1. /\ r \in Net /\ r.failures = 0 /\ r.tries = 0 /\ r.flying = n.flying /\ r.peak = peak
            BY <2>3, <2>5 DEF onSuccess, Net
        <3> QED BY <1>2, <2>1, <2>2, <3>1, TrackerAssumption DEF Breaker
    <2>6. CASE r = [m EXCEPT !.flying = @ + 1]
        <3>1. /\ r \in Net /\ r.failures = n.failures /\ r.tries = n.tries + 1
              /\ r.flying = n.flying + 1 /\ r.peak = peak
            BY <2>1, <2>3, <2>6 DEF Net
        <3> QED BY <1>2, <2>1, <2>2, <3>1 DEF Breaker
    <2>7. CASE r = onFailure(m)
        <3>1. /\ r \in Net /\ r.failures = n.failures + 1 /\ r.tries = n.tries + 1
              /\ r.flying = n.flying /\ r.peak = peak
              /\ ~r.disabled => n.failures + 1 < FAILURE_LIMIT
            BY <2>3, <2>7, FailureIs
        <3> QED BY <1>2, <2>1, <2>2, <3>1 DEF Breaker
    <2> QED BY <2>4, <2>5, <2>6, <2>7
<1> QED BY <1>1, <1>2

\* A late answer.
LEMMA AnswerKeeps ==
    ASSUME Breaker(net), NEW ok \in BOOLEAN, Answer(ok)
    PROVE  Breaker(net') /\ (net.disabled => net'.disabled /\ net'.sent = net.sent)
<1> DEFINE n == [net EXCEPT !.flying = @ - 1]
<1>1. /\ net \in Net /\ net.flying \in Nat /\ net.flying > 0
      /\ net.peak \in Nat /\ net.failures \in Nat /\ net.tries \in Nat /\ net.sent \in Nat
      /\ net.disabled \in BOOLEAN /\ FAILURE_LIMIT \in Nat \ {0}
    BY TrackerAssumption DEF Breaker, Net, Answer
<1>2. /\ n \in Net /\ n.flying = net.flying - 1 /\ n.peak = net.peak /\ n.failures = net.failures
      /\ n.tries = net.tries /\ n.sent = net.sent /\ n.disabled = net.disabled
    BY <1>1 DEF Net
<1>3. net' = IF ok THEN onSuccess(n) ELSE onFailure(n)
    BY DEF Answer
<1> HIDE DEF n
<1>4. CASE ok
    <2>1. /\ net' \in Net /\ net'.flying = net.flying - 1 /\ net'.peak = net.peak
          /\ net'.failures = 0 /\ net'.tries = 0 /\ net'.sent = net.sent /\ net'.disabled = net.disabled
        BY <1>1, <1>2, <1>3, <1>4 DEF onSuccess, Net
    <2> QED BY <1>1, <2>1 DEF Breaker
<1>5. CASE ~ok
    <2>1. /\ net' \in Net /\ net'.flying = net.flying - 1 /\ net'.peak = net.peak
          /\ net'.failures = net.failures + 1 /\ net'.tries = net.tries /\ net'.sent = net.sent
          /\ net.disabled => net'.disabled
          /\ ~net'.disabled => ~net.disabled /\ net.failures + 1 < FAILURE_LIMIT
        BY <1>2, <1>3, <1>5, FailureIs
    <2> QED BY <1>1, <2>1 DEF Breaker
<1> QED BY <1>4, <1>5

-----------------------------------------------------------------------------

\* A set that holds 0 and is closed under successor holds every number.
LEMMA Induction ==
    ASSUME NEW T, 0 \in T, \A n \in Nat : n \in T => n + 1 \in T
    PROVE  Nat \subseteq T
<1> SUFFICES ASSUME Nat \ T # {} PROVE FALSE
    OBVIOUS
<1> DEFINE R == OpToRel(<, Nat)
<1>1. PICK x \in Nat \ T : \A y \in Nat \ T : ~ (<<y, x>> \in R)
    <2>1. Nat \ T \in SUBSET Nat /\ Nat \ T # {}
        OBVIOUS
    <2> QED BY <2>1, WFMin, NatLessThanWellFounded
<1>2. \A y \in Nat \ T : ~(y < x)
    BY <1>1 DEF OpToRel
<1>3. x # 0 /\ x - 1 \in Nat /\ x - 1 + 1 = x /\ x - 1 < x
    OBVIOUS
<1> QED BY <1>2, <1>3

\* What the posts after a set of outcomes leave behind.
After(ns) == UNION {post(m) : m \in ns}

\* f lists the outcomes after each of the first k posts.
Outcomes(f, n, k) == f = [i \in 0 .. k |-> IF i = 0 THEN {n} ELSE After(f[i - 1])]

LEMMA OutcomesAt ==
    ASSUME NEW f, NEW n, NEW k \in Nat, Outcomes(f, n, k)
    PROVE  f[0] = {n} /\ \A i \in 1 .. k : f[i] = After(f[i - 1])
    BY DEF Outcomes

LEMMA OutcomesExist ==
    ASSUME NEW n, NEW k \in Nat
    PROVE  \E f : Outcomes(f, n, k)
<1> DEFINE T == {i \in Nat : \E f : Outcomes(f, n, i)}
<1>1. 0 \in T
    <2>1. Outcomes([i \in 0 .. 0 |-> {n}], n, 0)
        BY DEF Outcomes
    <2> QED BY <2>1
<1>2. ASSUME NEW j \in Nat, j \in T PROVE j + 1 \in T
    <2>1. PICK f : Outcomes(f, n, j)
        BY <1>2
    <2> DEFINE g == [i \in 0 .. j + 1 |-> IF i = j + 1 THEN After(f[j]) ELSE f[i]]
    <2>2. /\ \A i \in 0 .. j : g[i] = f[i]
          /\ f[0] = {n}
          /\ \A i \in 1 .. j : f[i] = After(f[i - 1])
        BY <2>1, OutcomesAt
    <2>3. ASSUME NEW i \in 0 .. j + 1 PROVE g[i] = IF i = 0 THEN {n} ELSE After(g[i - 1])
        <3>1. CASE i = j + 1
            <4>1. g[i] = After(f[j]) /\ g[i - 1] = f[j] /\ i # 0
                BY <2>2, <3>1
            <4> QED BY <4>1
        <3>2. CASE i \in 1 .. j
            <4>1. i - 1 \in 0 .. j /\ i \in 0 .. j /\ i # 0
                BY <3>2
            <4>2. g[i - 1] = f[i - 1] /\ g[i] = f[i]
                BY <2>2, <4>1
            <4>3. f[i] = After(f[i - 1])
                BY <2>2, <3>2
            <4> QED BY <4>1, <4>2, <4>3
        <3>3. CASE i = 0
            <4>1. g[0] = f[0]
                BY <2>2
            <4> QED BY <2>2, <3>3, <4>1
        <3> QED BY <3>1, <3>2, <3>3
    <2>4. Outcomes(g, n, j + 1)
        BY <2>3 DEF Outcomes
    <2> QED BY <2>4
<1>3. Nat \subseteq T
    <2> HIDE DEF T
    <2> QED BY <1>1, <1>2, Induction
<1> QED BY <1>3

\* Any number of posts in one callback.
LEMMA PostsKeep ==
    ASSUME NEW n, Breaker(n), NEW k \in Nat, NEW r \in Posts(n, k)
    PROVE  Breaker(r) /\ (n.disabled => r = n)
<1> DEFINE f == CHOOSE f : Outcomes(f, n, k)
<1>1. Outcomes(f, n, k)
    BY OutcomesExist
<1>2. Posts(n, k) = f[k]
    BY DEF Posts, Outcomes, After
<1> HIDE DEF f
<1>3. f[0] = {n} /\ \A i \in 1 .. k : f[i] = After(f[i - 1])
    BY <1>1, OutcomesAt
<1> DEFINE T == {i \in Nat : i <= k => \A m \in f[i] : Breaker(m) /\ (n.disabled => m = n)}
<1>4. 0 \in T
    BY <1>3
<1>5. ASSUME NEW i \in Nat, i \in T PROVE i + 1 \in T
    <2> SUFFICES ASSUME i + 1 <= k, NEW m \in f[i + 1] PROVE Breaker(m) /\ (n.disabled => m = n)
        OBVIOUS
    <2>1. i + 1 \in 1 .. k /\ i + 1 - 1 = i /\ i <= k
        OBVIOUS
    <2>2. f[i + 1] = After(f[i])
        BY <1>3, <2>1
    <2>3. PICK q \in f[i] : m \in post(q)
        BY <2>2 DEF After
    <2>4. Breaker(q) /\ (n.disabled => q = n)
        BY <1>5, <2>1
    <2>5. Breaker(m) /\ (q.disabled => m = q)
        BY <2>3, <2>4, PostKeeps
    <2> QED BY <2>4, <2>5
<1>6. Nat \subseteq T
    <2> HIDE DEF T
    <2> QED BY <1>4, <1>5, Induction
<1> QED BY <1>2, <1>6

Sending == queue \in Nat /\ Breaker(net)

\* What a callback does to the breaker.
LEMMA SendingStep ==
    ASSUME Sending, [Next]_vars
    PROVE  Sending' /\ (net.disabled => net'.disabled /\ net'.sent = net.sent)
<1> USE DEF Sending
<1>1. ASSUME NEW k \in Nat, net' \in Posts(net, k)
      PROVE  Breaker(net') /\ (net.disabled => net'.disabled /\ net'.sent = net.sent)
    BY <1>1, PostsKeep
<1>2. ASSUME UNCHANGED net
      PROVE  Breaker(net') /\ (net.disabled => net'.disabled /\ net'.sent = net.sent)
    BY <1>2
<1>3. ASSUME NEW p, NEW k \in Nat, pageview(p, k)
      PROVE  \E j \in Nat : net' \in Posts(net, j)
    <2>1. \A x \in {0, 1} : k + x + 1 \in Nat
        OBVIOUS
    <2>2. (IF Flushes THEN 1 ELSE 0) \in {0, 1}
        OBVIOUS
    <2> HIDE DEF Flushes
    <2> QED BY <1>3, <2>1, <2>2 DEF pageview
<1>4. ASSUME flush PROVE \E j \in Nat : net' \in Posts(net, j)
    <2>1. (IF Flushes THEN 1 ELSE 0) \in Nat
        OBVIOUS
    <2> QED BY <1>4, <2>1 DEF flush
<1>5. 0 \in Nat
    OBVIOUS
<1>6. CASE Call
    <2>1. queue' \in Nat
        BY <1>6 DEF Call
    <2>2. CASE loaded
        <3>1. net' \in post(net)
            BY <1>6, <2>2 DEF Call
        <3> QED BY <2>1, <3>1, PostKeeps
    <2>3. CASE ~loaded
        <3>1. net' = net
            BY <1>6, <2>3 DEF Call
        <3> QED BY <1>2, <2>1, <3>1
    <2> QED BY <2>2, <2>3
<1>7. CASE Load
    <2>1. queue' \in Nat
        BY <1>5, <1>7 DEF Load
    <2>2. \E j \in Nat : net' \in Posts(net, j)
        BY <1>3, <1>7 DEF Load
    <2> QED BY <1>1, <2>1, <2>2
<1>8. ASSUME NEW p \in Pages, Navigate(p)
      PROVE  Sending' /\ (net.disabled => net'.disabled /\ net'.sent = net.sent)
    BY <1>1, <1>2, <1>3, <1>5, <1>8 DEF Navigate, Quiet
<1>9. ASSUME NEW how, Hide(how)
      PROVE  Sending' /\ (net.disabled => net'.disabled /\ net'.sent = net.sent)
    BY <1>1, <1>2, <1>4, <1>9 DEF Hide, Quiet
<1>10. ASSUME NEW how, Activate(how)
       PROVE  Sending' /\ (net.disabled => net'.disabled /\ net'.sent = net.sent)
    BY <1>1, <1>2, <1>3, <1>4, <1>5, <1>10 DEF Activate, Quiet
<1>11. ASSUME NEW ok \in BOOLEAN, Answer(ok)
       PROVE  Sending' /\ (net.disabled => net'.disabled /\ net'.sent = net.sent)
    <2>1. queue' = queue
        BY <1>11 DEF Answer
    <2> QED BY <1>11, <2>1, AnswerKeeps
<1>12. CASE Tick \/ Show \/ UNCHANGED vars
    BY <1>2, <1>12 DEF Tick, Show, Quiet, vars
<1> QED BY <1>6, <1>7, <1>8, <1>9, <1>10, <1>11, <1>12 DEF Next

(***************************************************************************)
(* The breaker of counter.js keeps its word for any FAILURE_LIMIT and any  *)
(* number of requests under way, answered in any order: no more than       *)
(* FAILURE_LIMIT - 1 attempts since the last success beside those under    *)
(* way at once, and once tripped it lets nothing through.  A beacon that   *)
(* the browser has queued counts as a success.                             *)
(***************************************************************************)
THEOREM BreakerCorrect == Spec => BreakerStops
<1>1. Init => Sending
    <2> SUFFICES ASSUME Init PROVE Sending
        OBVIOUS
    <2>1. net = [failures |-> 0, disabled |-> FALSE, flying |-> 0, sent |-> 0, tries |-> 0, peak |-> 0]
        BY DEF Init
    <2>2. net \in Net /\ net.failures = 0 /\ net.flying = 0 /\ net.tries = 0 /\ net.peak = 0
        BY <2>1 DEF Net
    <2>3. Breaker(net)
        BY <2>2, TrackerAssumption DEF Breaker
    <2> QED BY <2>3 DEF Init, Sending
<1>2. Sending /\ [Next]_vars => Sending'
    BY SendingStep
<1>3. Sending => net.tries <= FAILURE_LIMIT - 1 + net.peak
    BY DEF Sending, Breaker
<1>4. Sending /\ [Next]_vars => [net.disabled => net'.disabled /\ net'.sent = net.sent]_vars
    BY SendingStep
<1> QED BY <1>1, <1>2, <1>3, <1>4, PTL DEF Spec, BreakerStops
=============================================================================
