--------------------------- MODULE VisitorsProofs ---------------------------
(***************************************************************************)
(* First Windows by itself: the sliding window is exact for every ring     *)
(* whose span covers the lag, and the count of the day for every day no    *)
(* earlier event cut across.                                               *)
(*                                                                         *)
(* Then salt, workers and scrapes together: the windows stay exact, an id  *)
(* is signed with a salt of its time, a person is counted once per salt,   *)
(* and the windows of a scrape are nested.                                 *)
(***************************************************************************)
EXTENDS Visitors, FiniteSetTheorems, TLAPS

\* Division with remainder, and the monotonicity of products.
LEMMA DivMod ==
    ASSUME NEW a \in Nat, NEW r \in Nat \ {0}
    PROVE  /\ a \div r \in Nat /\ a % r \in 0 .. (r - 1)
           /\ a = (a \div r) * r + (a % r)
    OBVIOUS

LEMMA ProductMono ==
    ASSUME NEW a \in Nat, NEW b \in Nat, NEW r \in Nat, a <= b
    PROVE  a * r <= b * r
    OBVIOUS

\* Two slots at the same position of the ring are equal or a ring apart.
LEMMA SamePosition ==
    ASSUME NEW a \in Nat, NEW b \in Nat, NEW n \in Nat \ {0}, a % n = b % n, a < b
    PROVE  a + n <= b
<1> DEFINE p == a \div n  q == b \div n
<1>1. /\ p \in Nat /\ q \in Nat /\ a % n \in Nat
      /\ a = p * n + (a % n) /\ b = q * n + (b % n)
    <2>1. p \in Nat /\ a % n \in 0 .. (n - 1) /\ a = p * n + (a % n)
        BY DivMod
    <2>2. q \in Nat /\ b = q * n + (b % n)
        BY DivMod
    <2> QED BY <2>1, <2>2
<1> HIDE DEF p, q
<1>2. p < q
    <2>1. ASSUME q <= p PROVE FALSE
        BY <1>1, <2>1, ProductMono
    <2> QED BY <1>1, <2>1
<1>3. (p + 1) * n <= q * n
    BY <1>1, <1>2, ProductMono
<1>4. (p + 1) * n = p * n + n
    BY <1>1
<1> QED
    BY <1>1, <1>3, <1>4

\* Slots follow the clock, and an event within the lag lies within the ring.
LEMMA SlotMono ==
    ASSUME NEW t \in Nat, NEW u \in Nat, t <= u
    PROVE  slot(t) \in Nat /\ slot(u) \in Nat /\ slot(t) <= slot(u)
<1> DEFINE p == t \div Res  q == u \div Res
<1>1. /\ p \in Nat /\ q \in Nat /\ Res \in Nat \ {0}
      /\ p * Res <= t /\ u < (q + 1) * Res
    <2>1. /\ p \in Nat /\ q \in Nat /\ Res \in Nat \ {0}
          /\ t = p * Res + (t % Res) /\ u = q * Res + (u % Res)
          /\ t % Res \in 0 .. (Res - 1) /\ u % Res \in 0 .. (Res - 1)
        BY WindowAssumption, DivMod
    <2> QED BY <2>1
<1> HIDE DEF p, q
<1>2. ~(q + 1 <= p)
    BY <1>1, ProductMono
<1> QED
    BY <1>1, <1>2 DEF slot, p, q

LEMMA WithinSpan ==
    ASSUME NEW d \in Nat, d <= (N - 1) * Res,
           NEW t \in Nat, NEW u \in Nat, t <= u, u - t <= d
    PROVE  slot(u) - N + 1 <= slot(t)
<1> DEFINE p == t \div Res  q == u \div Res
<1>1. /\ p \in Nat /\ q \in Nat /\ Res \in Nat \ {0} /\ N \in Nat \ {0}
      /\ t < (p + 1) * Res /\ q * Res <= u
    <2>1. /\ p \in Nat /\ q \in Nat /\ Res \in Nat \ {0}
          /\ t = p * Res + (t % Res) /\ u = q * Res + (u % Res)
          /\ t % Res \in 0 .. (Res - 1) /\ u % Res \in 0 .. (Res - 1)
        BY WindowAssumption, DivMod
    <2> QED BY <2>1, WindowAssumption
<1> HIDE DEF p, q
<1>2. (p + 1) * Res + (N - 1) * Res = (p + N) * Res
    BY <1>1
<1>3. (N - 1) * Res \in Nat /\ (p + 1) * Res \in Nat /\ q * Res \in Nat
    BY <1>1
<1>4. q * Res < (p + N) * Res
    BY <1>1, <1>2, <1>3
<1>5. ~(p + N <= q)
    BY <1>1, <1>4, ProductMono
<1> QED
    BY <1>1, <1>5 DEF slot, p, q

LEMMA WithinRing ==
    ASSUME MaxLag <= (N - 1) * Res,
           NEW t \in Nat, NEW u \in Nat, t <= u, u - t <= MaxLag
    PROVE  slot(u) - N + 1 <= slot(t)
    BY WindowAssumption, WithinSpan

-----------------------------------------------------------------------------

\* What an insert does to a ring position, in terms of slots.
LEMMA InsertTypes ==
    ASSUME TypeOK, NEW t \in (clock - MaxLag) .. clock
    PROVE  /\ t \in Nat /\ slot(t) \in Nat /\ dayKey(t) \in Nat
           /\ slot(t) % N \in Ring
<1>1. t \in Nat
    BY WindowAssumption DEF TypeOK
<1>2. slot(t) \in Nat /\ dayKey(t) \in Nat
    BY <1>1, WindowAssumption, DivMod DEF slot, dayKey
<1>3. slot(t) % N \in Ring
    BY <1>2, WindowAssumption, DivMod DEF Ring
<1> QED
    BY <1>1, <1>2, <1>3

LEMMA TypeStep == TypeOK /\ [Next]_vars => TypeOK'
<1> SUFFICES ASSUME TypeOK, [Next]_vars PROVE TypeOK'
    OBVIOUS
<1>1. CASE Tick
    BY <1>1, WindowAssumption DEF TypeOK, Tick, ringvars, dayvars
<1>2. ASSUME NEW id \in Visitors, NEW t \in (clock - MaxLag) .. clock,
             InsertRing(id, t) \/ InsertDay(id, t)
      PROVE  TypeOK'
    <2>1. /\ t \in Nat /\ slot(t) \in Nat /\ dayKey(t) \in Nat
          /\ slot(t) % N \in Ring
        BY InsertTypes
    <2>2. CASE InsertRing(id, t)
        <3>1. stamps' \in [Ring -> Nat \cup {-1}] /\ buckets' \in [Ring -> SUBSET Visitors]
            BY <2>1, <2>2 DEF TypeOK, InsertRing, RollingInsert
        <3> QED BY <2>1, <2>2, <3>1 DEF TypeOK, InsertRing, dayvars
    <2>3. CASE InsertDay(id, t)
        BY <2>1, <2>3 DEF TypeOK, InsertDay, DailyInsert, ringvars
    <2> QED BY <1>2, <2>2, <2>3
<1>3. CASE UNCHANGED vars
    BY <1>3 DEF TypeOK, vars, ringvars, dayvars
<1> QED
    BY <1>1, <1>2, <1>3 DEF Next

\* Every reachable state is well typed.
THEOREM TypeCorrect == Spec => []TypeOK
<1>1. Init => TypeOK
    BY WindowAssumption DEF Init, TypeOK
<1> QED
    BY <1>1, TypeStep, PTL DEF Spec

LEMMA RingStep ==
    ASSUME MaxLag <= (N - 1) * Res, TypeOK, RingMatchesLog, [Next]_vars
    PROVE  RingMatchesLog'
<1>0. /\ N \in Nat \ {0} /\ clock \in Nat
      /\ \A e \in log : e[2] \in Nat /\ slot(e[2]) \in Nat
      /\ slot(clock) \in Nat
    BY WindowAssumption, SlotMono DEF TypeOK
<1>1. CASE Tick
    <2>1. slot(clock') \in Nat /\ slot(clock) <= slot(clock')
        BY <1>0, <1>1, SlotMono DEF Tick
    <2> QED BY <1>0, <1>1, <2>1 DEF Tick, RingMatchesLog, ringvars
<1>2. ASSUME NEW id \in Visitors, NEW t \in (clock - MaxLag) .. clock, InsertRing(id, t)
      PROVE  RingMatchesLog'
    <2> DEFINE s == slot(t)  p == s % N
    <2>1. t \in Nat /\ s \in Nat /\ p \in Ring
        BY InsertTypes
    <2>2. s <= slot(clock) /\ slot(clock) - N + 1 <= s
        BY <1>0, <2>1, SlotMono, WithinRing, WindowAssumption
    <2>3. /\ stamps' = [stamps EXCEPT ![p] = s]
          /\ buckets' = [buckets EXCEPT ![p] = IF Recycles(p, s) THEN {id} ELSE @ \cup {id}]
          /\ log' = log \cup {<<id, t>>} /\ clock' = clock
        BY <1>2 DEF InsertRing, RollingInsert
    <2>a. <<id, t>>[1] = id /\ slot(<<id, t>>[2]) = s
        OBVIOUS
    <2> HIDE DEF s, p
    <2>4. \A i \in Ring : stamps'[i] = IF i = p THEN s ELSE stamps[i]
        BY <2>1, <2>3 DEF TypeOK
    <2>5. \A e \in log' : slot(e[2]) <= slot(clock')
        BY <2>2, <2>3 DEF RingMatchesLog, s
    <2>6. \A i \in Ring : stamps'[i] # -1 => stamps'[i] % N = i
        BY <2>4 DEF RingMatchesLog, p
    <2>7. \A e \in log : slot(e[2]) = s => stamps[p] = s
        BY <2>2, <2>3 DEF RingMatchesLog, p
    <2>8. ASSUME NEW i \in Ring, stamps'[i] # -1
          PROVE  buckets'[i] = {x \in Visitors : \E e \in log' : e[1] = x /\ slot(e[2]) = stamps'[i]}
        <3>1. CASE i = p /\ Recycles(p, s)
            <4>1. buckets'[i] = {id} /\ stamps'[i] = s
                BY <2>1, <2>3, <2>4, <3>1 DEF TypeOK
            <4>2. \A e \in log : slot(e[2]) # s
                BY <2>7, <3>1 DEF Recycles
            <4>3. \A x \in Visitors : (\E e \in log' : e[1] = x /\ slot(e[2]) = s) <=> x = id
                BY <2>3, <2>a, <4>2
            <4> QED BY <4>1, <4>3
        <3>2. CASE i = p /\ ~Recycles(p, s)
            <4>1. buckets'[i] = buckets[i] \cup {id} /\ stamps'[i] = s /\ stamps[i] = s
                BY <2>1, <2>3, <2>4, <3>2 DEF TypeOK, Recycles
            <4>2. buckets[i] = {x \in Visitors : \E e \in log : e[1] = x /\ slot(e[2]) = s}
                BY <2>1, <4>1 DEF RingMatchesLog
            <4>3. \A x \in Visitors : (\E e \in log' : e[1] = x /\ slot(e[2]) = s) <=>
                                    x = id \/ (\E e \in log : e[1] = x /\ slot(e[2]) = s)
                BY <2>3, <2>a
            <4> QED BY <4>1, <4>2, <4>3
        <3>3. CASE i # p
            <4>1. buckets'[i] = buckets[i] /\ stamps'[i] = stamps[i] /\ stamps[i] # -1
                BY <2>1, <2>3, <2>4, <2>8, <3>3 DEF TypeOK
            <4>2. stamps[i] # s
                BY <3>3, <4>1 DEF RingMatchesLog, p
            <4>3. buckets[i] = {x \in Visitors : \E e \in log : e[1] = x /\ slot(e[2]) = stamps[i]}
                BY <4>1 DEF RingMatchesLog
            <4>4. \A x \in Visitors : (\E e \in log' : e[1] = x /\ slot(e[2]) = stamps[i]) <=>
                                    (\E e \in log : e[1] = x /\ slot(e[2]) = stamps[i])
                BY <2>3, <2>a, <4>2
            <4> QED BY <4>1, <4>3, <4>4
        <3> QED BY <3>1, <3>2, <3>3
    <2>9. \A i \in Ring : stamps'[i] = -1 => buckets'[i] = {}
        BY <2>1, <2>3, <2>4 DEF RingMatchesLog, TypeOK
    <2>10. ASSUME NEW e \in log', slot(clock') - N + 1 <= slot(e[2])
           PROVE  stamps'[slot(e[2]) % N] = slot(e[2])
        <3> DEFINE r == slot(e[2])
        <3>1. CASE r = s
            BY <2>1, <2>4, <3>1 DEF p
        <3>2. CASE r # s
            <4>1. e \in log
                BY <2>3, <3>2 DEF s
            <4>2. r \in Nat /\ r <= slot(clock) /\ slot(clock) - N + 1 <= r /\ stamps[r % N] = r
                BY <1>0, <2>3, <2>10, <4>1 DEF RingMatchesLog
            <4>3. r % N \in Ring
                BY <1>0, <4>2, DivMod DEF Ring
            <4>4. r % N # p
                <5> HIDE DEF r
                <5> SUFFICES ASSUME r % N = s % N PROVE FALSE
                    BY DEF p
                <5>1. CASE r < s
                    <6>1. r + N <= s
                        BY <1>0, <2>1, <4>2, <5>1, SamePosition
                    <6> QED BY <1>0, <2>1, <2>2, <4>2, <6>1
                <5>2. CASE s < r
                    <6>1. s + N <= r
                        BY <1>0, <2>1, <4>2, <5>2, SamePosition
                    <6> QED BY <1>0, <2>1, <2>2, <4>2, <6>1
                <5> QED BY <2>1, <3>2, <4>2, <5>1, <5>2
            <4> QED BY <2>4, <4>2, <4>3, <4>4
        <3> QED BY <3>1, <3>2
    <2> QED BY <2>5, <2>6, <2>8, <2>9, <2>10 DEF RingMatchesLog
<1>3. CASE UNCHANGED <<clock, ringvars>>
    BY <1>3 DEF RingMatchesLog, ringvars
<1> QED
    BY <1>1, <1>2, <1>3 DEF Next, InsertDay, vars

LEMMA RingGivesExact ==
    ASSUME TypeOK, RingMatchesLog
    PROVE  RollingExact
<1> DEFINE Recent == {id \in Visitors : \E e \in log :
                        e[1] = id /\ slot(clock) - N + 1 <= slot(e[2])}
<1>0. /\ N \in Nat \ {0} /\ slot(clock) \in Nat
      /\ \A e \in log : e[1] \in Visitors /\ slot(e[2]) \in Nat /\ slot(e[2]) % N \in Ring
    <2>1. clock \in Nat /\ N \in Nat \ {0} /\ \A e \in log : e[1] \in Visitors /\ e[2] \in Nat
        BY WindowAssumption DEF TypeOK
    <2>2. slot(clock) \in Nat /\ \A e \in log : slot(e[2]) \in Nat
        BY <2>1, SlotMono
    <2>3. \A e \in log : slot(e[2]) % N \in Ring
        BY <2>1, <2>2, DivMod DEF Ring
    <2> QED BY <2>1, <2>2, <2>3
<1>1. ASSUME NEW i \in Ring, InWindow(i, clock), NEW id \in buckets[i]
      PROVE  id \in Recent
    <2>1. stamps[i] # -1
        BY <1>1 DEF RingMatchesLog
    <2>2. id \in Visitors /\ \E e \in log : e[1] = id /\ slot(e[2]) = stamps[i]
        BY <1>1, <2>1 DEF RingMatchesLog
    <2> QED BY <1>1, <2>2 DEF InWindow
<1>2. ASSUME NEW id \in Recent
      PROVE  \E i \in Ring : InWindow(i, clock) /\ id \in buckets[i]
    <2>1. PICK e \in log : e[1] = id /\ slot(clock) - N + 1 <= slot(e[2])
        BY <1>2
    <2> DEFINE i == slot(e[2]) % N
    <2>2. i \in Ring /\ stamps[i] = slot(e[2]) /\ slot(e[2]) <= slot(clock)
        BY <1>0, <2>1 DEF RingMatchesLog
    <2>3. stamps[i] # -1
        BY <1>0, <2>2
    <2>4. id \in buckets[i]
        BY <1>0, <2>1, <2>2, <2>3 DEF RingMatchesLog
    <2> HIDE DEF i
    <2> QED BY <2>1, <2>2, <2>4 DEF InWindow
<1> QED
    BY <1>1, <1>2 DEF RollingExact, RollingEstimate

(***************************************************************************)
(* A ring that spans the lag counts exactly the visitors of its window,    *)
(* whatever the order in which late events reach it.                       *)
(***************************************************************************)
THEOREM RollingCorrect ==
    ASSUME MaxLag <= (N - 1) * Res
    PROVE  Spec => []RollingExact
<1>1. Init => RingMatchesLog
    BY DEF Init, RingMatchesLog
<1>2. TypeOK /\ RingMatchesLog /\ [Next]_vars => RingMatchesLog'
    BY RingStep
<1>3. TypeOK /\ RingMatchesLog => RollingExact
    BY RingGivesExact
<1> QED
    BY <1>1, <1>2, <1>3, TypeCorrect, PTL DEF Spec

-----------------------------------------------------------------------------

LEMMA DayMono ==
    ASSUME NEW t \in Nat, NEW u \in Nat, t <= u
    PROVE  dayKey(t) \in Nat /\ dayKey(u) \in Nat /\ dayKey(t) <= dayKey(u)
<1> DEFINE p == t \div DayLength  q == u \div DayLength
<1>1. /\ p \in Nat /\ q \in Nat /\ DayLength \in Nat \ {0}
      /\ p * DayLength <= t /\ u < (q + 1) * DayLength
    <2>1. /\ p \in Nat /\ q \in Nat /\ DayLength \in Nat \ {0}
          /\ t = p * DayLength + (t % DayLength) /\ u = q * DayLength + (u % DayLength)
          /\ t % DayLength \in 0 .. (DayLength - 1)
          /\ u % DayLength \in 0 .. (DayLength - 1)
        BY WindowAssumption, DivMod
    <2> QED BY <2>1
<1> HIDE DEF p, q
<1>2. ~(q + 1 <= p)
    BY <1>1, ProductMono
<1> QED
    BY <1>1, <1>2 DEF dayKey, p, q

LEMMA DayStep ==
    ASSUME TypeOK, DayMatchesLog, [Next]_vars
    PROVE  DayMatchesLog'
<1> DEFINE T == dayKey(clock)
<1>0. /\ clock \in Nat /\ T \in Nat /\ day \in Int
      /\ \A e \in daylog : e[2] \in Nat /\ dayKey(e[2]) \in Nat
    BY DayMono DEF TypeOK
<1>1. CASE Tick
    <2>1. dayKey(clock') \in Nat /\ T <= dayKey(clock')
        BY <1>0, <1>1, DayMono DEF Tick
    <2>2. CASE dayKey(clock') = T
        BY <1>1, <2>2 DEF Tick, dayvars, DayMatchesLog, TodayExact, DailyEstimate, VisitorsOf
    <2>3. CASE dayKey(clock') # T
        <3>1. /\ day' = day /\ daylog' = daylog /\ day # dayKey(clock')
              /\ day' <= dayKey(clock')
              /\ \A e \in daylog' : dayKey(e[2]) <= dayKey(clock') /\ dayKey(e[2]) # dayKey(clock')
            BY <1>0, <1>1, <2>1, <2>3 DEF Tick, dayvars, DayMatchesLog
        <3>2. VisitorsOf(daylog, dayKey(clock))' = {} /\ DailyEstimate(clock)' = {}
            BY <3>1 DEF VisitorsOf, DailyEstimate
        <3> QED BY <3>1, <3>2 DEF DayMatchesLog, TodayExact
    <2> QED BY <2>2, <2>3
<1>2. ASSUME NEW id \in Visitors, NEW t \in (clock - MaxLag) .. clock, InsertDay(id, t)
      PROVE  DayMatchesLog'
    <2> DEFINE k == dayKey(t)
    <2>1. t \in Nat /\ k \in Nat
        BY InsertTypes
    <2>2. k <= T
        BY <1>0, <2>1, DayMono
    <2>3. /\ clock' = clock /\ day' = k /\ daylog' = daylog \cup {<<id, t>>}
          /\ sk' = IF k # day THEN {id} ELSE sk \cup {id}
          /\ crossed' = IF k < day THEN crossed \cup {day} ELSE crossed
        BY <1>2 DEF InsertDay, DailyInsert
    <2>a. <<id, t>>[1] = id /\ dayKey(<<id, t>>[2]) = k
        OBVIOUS
    <2> HIDE DEF k
    <2>4. \A e \in daylog' : dayKey(e[2]) <= dayKey(clock')
        BY <2>2, <2>3, <2>a DEF DayMatchesLog
    <2>5. VisitorsOf(daylog, T)' = IF k = T THEN VisitorsOf(daylog, T) \cup {id} ELSE VisitorsOf(daylog, T)
        BY <2>3, <2>a DEF VisitorsOf
    <2>6. CASE k = T
        <3>1. DailyEstimate(clock)' = sk'
            BY <2>3, <2>6 DEF DailyEstimate
        <3>2. crossed' = crossed
            BY <1>0, <2>3, <2>6 DEF DayMatchesLog
        <3>3. CASE day = T
            <4>1. DailyEstimate(clock) = sk /\ sk' = sk \cup {id}
                BY <2>3, <2>6, <3>3 DEF DailyEstimate
            <4> QED BY <2>2, <2>3, <2>4, <2>5, <2>6, <3>1, <3>2, <4>1 DEF DayMatchesLog, TodayExact
        <3>4. CASE day # T
            <4>1. DailyEstimate(clock) = {} /\ sk' = {id}
                BY <2>3, <2>6, <3>4 DEF DailyEstimate
            <4>2. T \notin crossed => VisitorsOf(daylog, T) = {}
                BY <4>1 DEF DayMatchesLog, TodayExact
            <4>3. VisitorsOf(daylog, T)' = VisitorsOf(daylog, T) \cup {id} /\ T' = T
                BY <2>3, <2>5, <2>6
            <4>4. TodayExact'
                BY <3>1, <3>2, <4>1, <4>2, <4>3 DEF TodayExact
            <4> QED BY <2>2, <2>3, <2>4, <4>4 DEF DayMatchesLog
        <3> QED BY <3>3, <3>4
    <2>7. CASE k # T
        <3>1. DailyEstimate(clock)' = {} /\ VisitorsOf(daylog, T)' = VisitorsOf(daylog, T)
            BY <2>3, <2>5, <2>7 DEF DailyEstimate
        <3>2. CASE day = T
            <4>1. T \in crossed'
                BY <1>0, <2>1, <2>2, <2>3, <2>7, <3>2
            <4> QED BY <2>2, <2>3, <2>4, <3>1, <4>1 DEF DayMatchesLog, TodayExact
        <3>3. CASE day # T
            <4>1. DailyEstimate(clock) = {} /\ crossed \subseteq crossed'
                BY <2>3, <3>3 DEF DailyEstimate
            <4> QED BY <2>2, <2>3, <2>4, <3>1, <4>1 DEF DayMatchesLog, TodayExact
        <3> QED BY <3>2, <3>3
    <2> QED BY <2>6, <2>7
<1>3. CASE UNCHANGED <<clock, dayvars>>
    BY <1>3 DEF DayMatchesLog, TodayExact, DailyEstimate, VisitorsOf, dayvars
<1> QED
    BY <1>1, <1>2, <1>3 DEF Next, InsertRing, vars

LEMMA DayInit == Init => DayMatchesLog
<1> SUFFICES ASSUME Init PROVE DayMatchesLog
    OBVIOUS
<1>1. dayKey(clock) \in Nat /\ daylog = {} /\ day = -1
    BY WindowAssumption, DayMono DEF Init
<1>2. VisitorsOf(daylog, dayKey(clock)) = {} /\ DailyEstimate(clock) = {}
    BY <1>1 DEF VisitorsOf, DailyEstimate
<1> QED
    BY <1>1, <1>2 DEF DayMatchesLog, TodayExact

(***************************************************************************)
(* For every length of the day and every lag, the count of the day holds   *)
(* no visitor of another day, and misses one only on a day that an earlier *)
(* day's event cut across.                                                 *)
(***************************************************************************)
THEOREM TodayCorrect == Spec => []TodayExact
<1>1. TypeOK /\ DayMatchesLog /\ [Next]_vars => DayMatchesLog'
    BY DayStep
<1>2. DayMatchesLog => TodayExact
    BY DEF DayMatchesLog
<1> QED
    BY <1>1, <1>2, DayInit, TypeCorrect, PTL DEF Spec

-----------------------------------------------------------------------------

(***************************************************************************)
(* Salt, workers and scrapes.                                              *)
(***************************************************************************)

\* The hypothesis on the lag: the ring spans it.
LagFits == MaxLag <= (N - 1) * Res

\* The hypothesis on the rings: the longer one spans the shorter and the time
\* a scrape takes.  (Active has 5 slots of a minute, the next ring 12 of five.)
RingsFit == AN * ARes + MaxPause - 1 <= (N - 1) * Res

\* The salts came into use one after the other, Interval apart.
Salts ==
    /\ clock <= MaxClock \/ clock = MaxLag
    /\ cur \in Nat
    /\ rotated \in Nat /\ rotated <= clock
    /\ cur + MaxLag <= rotated
    /\ tickAt \in Nat \cup {-1} /\ tickAt <= clock
    /\ started \in Seq(Nat) /\ Len(started) = cur + 1 /\ started[cur + 1] = rotated
    /\ \A i, j \in 1 .. (cur + 1) : i <= j => started[i] + (j - i) * Interval <= started[j]

\* An id made of an event of time t: its salt was not yet retired at t and in
\* use by t + MaxLag.
Signed(id, t) ==
    /\ id \in People \X (0 .. cur)
    /\ t <= clock
    /\ started[id[2] + 1] <= t + MaxLag
    /\ id[2] < cur => t <= started[id[2] + 2]

JobSet == [pc : {"active", "ring", "day"}, id : People \X Nat, at : Nat]

Jobs ==
    /\ job \in [Workers -> {NoJob} \cup JobSet]
    /\ \A w \in Workers : job[w] # NoJob =>
        Signed(job[w].id, job[w].at) /\ clock - job[w].at <= MaxLag

LogSigned == \A e \in log : Signed(e[1], e[2])

VInv == TypeOK /\ Salts /\ Jobs /\ LogSigned

\* A worker has the id of an event of time t in hand, and a window to fill.
Carried(window, id, t) ==
    \E w \in Workers : job[w].pc = window /\ job[w].id = id /\ job[w].at = t

\* An id that has come into Active with an event of time t is in the log, or
\* a worker is about to put it there.
Seen(id, t) == <<id, t>> \in log \/ Carried("ring", id, t)

\* ... and likewise for the longer ring and the day.
DaySeen == \A e \in log : e \in daylog \/ Carried("day", e[1], e[2])

ActiveSeen ==
    /\ astamps \in [0 .. (AN - 1) -> Nat \cup {-1}]
    /\ abuckets \in [0 .. (AN - 1) -> SUBSET Visitors]
    /\ \A i \in 0 .. (AN - 1) : \A id \in abuckets[i] :
        \E t \in 0 .. clock : Seen(id, t) /\ Active!slot(t) = astamps[i]

\* What a scrape has read in Active is not older than that ring.
ScrapeSeen ==
    scrape # NoScrape =>
        /\ scrape.now \in 0 .. clock /\ clock - scrape.now <= MaxPause
        /\ \A id \in scrape.active :
            \E t \in 0 .. scrape.now : Seen(id, t) /\ scrape.now - t <= AN * ARes - 1

NestInv == ActiveSeen /\ ScrapeSeen /\ DaySeen /\ DayMatchesLog

-----------------------------------------------------------------------------

\* A worker with an event in hand: what is known of it.
LEMMA InHand ==
    ASSUME VInv, NEW w \in Workers, job[w] # NoJob
    PROVE  /\ job[w] \in JobSet
           /\ Signed(job[w].id, job[w].at)
           /\ job[w].at \in (clock - MaxLag) .. clock
           /\ job[w].id \in Visitors
<1>1. job[w] \in JobSet /\ Signed(job[w].id, job[w].at) /\ clock - job[w].at <= MaxLag
    BY DEF VInv, Jobs
<1>2. job[w].at \in (clock - MaxLag) .. clock
    BY <1>1, WindowAssumption DEF VInv, TypeOK, JobSet, Signed
<1>3. cur <= MaxClock /\ cur \in Nat
    BY WindowAssumption DEF VInv, TypeOK, Salts
<1>4. job[w].id \in People \X (0 .. MaxClock)
    BY <1>1, <1>3, WindowAssumption DEF Signed
<1> QED
    BY <1>1, <1>2, <1>4, VisitorAssumption

\* Every step of the composition is a step of Windows or leaves it alone.
LEMMA WindowsStep == VInv /\ [VNext]_vvars => [Next]_vars
<1> SUFFICES ASSUME VInv, [VNext]_vvars PROVE [Next]_vars
    OBVIOUS
<1>1. CASE VTick
    BY <1>1 DEF VTick, Next
<1>2. CASE MaintainTick \/ RotateIfDue \/ CollectActive \/ CollectRest
    BY <1>2 DEF MaintainTick, RotateIfDue, CollectActive, CollectRest
<1>3. ASSUME NEW w \in Workers, NEW p \in People, NEW t \in (clock - MaxLag) .. clock, Enrich(w, p, t)
      PROVE  [Next]_vars
    BY <1>3 DEF Enrich
<1>4. ASSUME NEW w \in Workers, InsertActive(w)
      PROVE  [Next]_vars
    BY <1>4 DEF InsertActive
<1>5. ASSUME NEW w \in Workers, InsertLonger(w) \/ InsertToday(w)
      PROVE  [Next]_vars
    <2>1. job[w] # NoJob /\ (InsertRing(job[w].id, job[w].at) \/ InsertDay(job[w].id, job[w].at))
        BY <1>5 DEF InsertLonger, InsertToday, NoJob
    <2>2. job[w].at \in (clock - MaxLag) .. clock /\ job[w].id \in Visitors
        BY <2>1, InHand
    <2> QED BY <2>1, <2>2 DEF Next
<1>6. CASE UNCHANGED vvars
    BY <1>6 DEF vvars
<1> QED
    BY <1>1, <1>2, <1>3, <1>4, <1>5, <1>6 DEF VNext

-----------------------------------------------------------------------------

\* An id stays signed while the salts stay and the clock goes on.
LEMMA SignedStays ==
    ASSUME VInv, UNCHANGED <<cur, started>>, clock' \in Nat, clock <= clock',
           NEW id, NEW t \in Nat, Signed(id, t)
    PROVE  Signed(id, t)'
    BY DEF VInv, TypeOK, Signed

\* ... and when a new salt comes into use.
LEMMA SignedRotates ==
    ASSUME VInv, Rotate, clock' = clock,
           NEW id, NEW t \in Nat, Signed(id, t)
    PROVE  Signed(id, t)'
<1>1. /\ cur \in Nat /\ cur' = cur + 1 /\ clock \in Nat
      /\ started \in Seq(Nat) /\ Len(started) = cur + 1
      /\ started' = Append(started, clock)
    BY DEF VInv, Salts, Rotate, TypeOK
<1>2. \A i \in 1 .. (cur + 1) : started'[i] = started[i]
    BY <1>1
<1>3. started'[cur + 2] = clock
    BY <1>1
<1>4. /\ id \in People \X (0 .. cur) /\ id[2] \in 0 .. cur /\ t <= clock
      /\ started[id[2] + 1] <= t + MaxLag
      /\ id[2] < cur => t <= started[id[2] + 2]
    BY DEF Signed
<1>5. id \in People \X (0 .. cur')
    BY <1>1, <1>4
<1>6. started'[id[2] + 1] = started[id[2] + 1]
    BY <1>1, <1>2, <1>4
<1>7. id[2] < cur => started'[id[2] + 2] = started[id[2] + 2]
    BY <1>1, <1>2, <1>4
<1>8. id[2] < cur' => t <= started'[id[2] + 2]
    <2>1. CASE id[2] < cur
        BY <1>4, <1>7, <2>1
    <2>2. CASE id[2] = cur
        BY <1>3, <1>4, <2>2
    <2> QED BY <1>1, <1>4, <2>1, <2>2
<1> QED
    BY <1>4, <1>5, <1>6, <1>8 DEF Signed

\* A due rotation keeps the salts Interval apart.
LEMMA SaltsRotate ==
    ASSUME VInv, tickAt # -1, Due(tickAt), Rotate, tickAt' = -1, clock' = clock
    PROVE  Salts'
<1>1. /\ cur \in Nat /\ cur' = cur + 1 /\ clock \in Nat /\ rotated' = clock
      /\ started \in Seq(Nat) /\ Len(started) = cur + 1 /\ started[cur + 1] = rotated
      /\ started' = Append(started, clock)
      /\ Interval \in Nat \ {0} /\ MaxLag \in Nat /\ MaxClock \in Nat
      /\ rotated \in Nat /\ rotated + Interval <= clock
      /\ cur + MaxLag <= rotated
      /\ clock <= MaxClock \/ clock = MaxLag
    BY WindowAssumption, VisitorAssumption DEF VInv, Salts, Rotate, TypeOK, Due
<1>2. /\ started' \in Seq(Nat) /\ Len(started') = cur' + 1 /\ started'[cur' + 1] = clock
      /\ \A i \in 1 .. (cur + 1) : started'[i] = started[i]
    BY <1>1
<1>3. \A i \in 1 .. (cur + 1) : started[i] \in Nat
    BY <1>1
<1>4. ASSUME NEW i \in 1 .. (cur' + 1), NEW j \in 1 .. (cur' + 1), i <= j
      PROVE  started'[i] + (j - i) * Interval <= started'[j]
    <2>1. CASE j <= cur + 1
        <3>1. i \in 1 .. (cur + 1) /\ j \in 1 .. (cur + 1)
            BY <1>1, <1>4, <2>1
        <3>2. started[i] + (j - i) * Interval <= started[j]
            BY <1>4, <3>1 DEF VInv, Salts
        <3> QED BY <1>2, <3>1, <3>2
    <2>2. CASE j = cur + 2 /\ i <= cur + 1
        <3>1. i \in 1 .. (cur + 1) /\ cur + 1 \in 1 .. (cur + 1)
            BY <1>1, <2>2
        <3>2. started[i] + (cur + 1 - i) * Interval <= rotated
            BY <1>1, <3>1 DEF VInv, Salts
        <3>3. (cur + 2 - i) * Interval = (cur + 1 - i) * Interval + Interval
            BY <1>1, <3>1
        <3>4. (cur + 1 - i) * Interval \in Int
            BY <1>1, <3>1
        <3>5. started[i] + (cur + 2 - i) * Interval <= clock
            BY <1>1, <1>3, <3>1, <3>2, <3>3, <3>4
        <3> QED BY <1>1, <1>2, <2>2, <3>1, <3>5
    <2>3. CASE i = cur + 2 /\ j = cur + 2
        <3>1. (j - i) * Interval = 0
            BY <1>1, <2>3
        <3> QED BY <1>1, <1>2, <2>3, <3>1
    <2> QED BY <1>1, <1>4, <2>1, <2>2, <2>3
<1>5. /\ clock' <= MaxClock \/ clock' = MaxLag
      /\ cur' \in Nat
      /\ rotated' \in Nat /\ rotated' <= clock'
      /\ cur' + MaxLag <= rotated'
      /\ tickAt' \in Nat \cup {-1} /\ tickAt' <= clock'
    BY <1>1
<1>6. started' \in Seq(Nat) /\ Len(started') = cur' + 1 /\ started'[cur' + 1] = rotated'
    BY <1>1, <1>2
<1>7. \A i, j \in 1 .. (cur' + 1) : i <= j => started'[i] + (j - i) * Interval <= started'[j]
    BY <1>4
<1> QED
    BY <1>5, <1>6, <1>7, Zenon DEF Salts

\* The salts are Interval apart, and every id in hand or in the log is signed
\* with one of its time, after every step.
LEMMA VInvStep == VInv /\ [VNext]_vvars => VInv'
<1> SUFFICES ASSUME VInv, [VNext]_vvars PROVE VInv'
    OBVIOUS
<1>0. TypeOK' /\ TypeOK
    BY WindowsStep, TypeStep DEF VInv
<1>a. \A e \in log : e \in Visitors \X Nat /\ e[2] \in Nat /\ Signed(e[1], e[2])
    BY DEF VInv, TypeOK, LogSigned
<1>b. \A w \in Workers : job[w] # NoJob =>
        /\ job[w] \in JobSet /\ job[w].at \in Nat
        /\ Signed(job[w].id, job[w].at) /\ clock - job[w].at <= MaxLag
    BY DEF VInv, Jobs, JobSet
<1>1. CASE VTick
    <2>1. /\ clock' = clock + 1 /\ clock' <= MaxClock /\ log' = log /\ job' = job
          /\ UNCHANGED <<cur, started, rotated, tickAt>>
          /\ clock \in Nat /\ clock' \in Nat
          /\ \A w \in Workers : job[w] # NoJob => clock - job[w].at < MaxLag
        BY <1>0, <1>1, WindowAssumption DEF VTick, Tick, ringvars, ids, TypeOK
    <2>2. Salts'
        BY <2>1 DEF VInv, Salts
    <2>3. Jobs'
        <3>1. ASSUME NEW w \in Workers, job[w] # NoJob
              PROVE  Signed(job[w].id, job[w].at)' /\ clock' - job[w].at <= MaxLag
            <4>1. Signed(job[w].id, job[w].at)'
                BY <1>b, <2>1, <3>1, SignedStays
            <4>2. clock' - job[w].at <= MaxLag
                BY <1>b, <2>1, <3>1, WindowAssumption
            <4> QED BY <4>1, <4>2
        <3> QED BY <2>1, <3>1 DEF VInv, Jobs
    <2>4. LogSigned'
        BY <1>a, <2>1, SignedStays DEF LogSigned
    <2> QED BY <1>0, <2>2, <2>3, <2>4 DEF VInv
<1>2. CASE MaintainTick \/ CollectActive \/ CollectRest \/ UNCHANGED vvars
    <2>1. /\ UNCHANGED <<clock, log, job, cur, started, rotated>>
          /\ tickAt' = tickAt \/ tickAt' = clock
          /\ clock \in Nat
        BY <1>0, <1>2 DEF MaintainTick, CollectActive, CollectRest, vvars, vars, ringvars, ids, TypeOK
    <2>2. Salts'
        BY <2>1 DEF VInv, Salts
    <2>3. Jobs' /\ LogSigned'
        BY <2>1 DEF VInv, Jobs, LogSigned, Signed
    <2> QED BY <1>0, <2>2, <2>3 DEF VInv
<1>3. CASE RotateIfDue /\ Due(tickAt)
    <2>1. /\ UNCHANGED <<clock, log, job>> /\ Rotate /\ tickAt' = -1 /\ tickAt # -1
        BY <1>3 DEF RotateIfDue, vars, ringvars
    <2>2. Salts'
        BY <1>3, <2>1, SaltsRotate
    <2>3. Jobs'
        <3>1. \A w \in Workers : job[w] # NoJob => Signed(job[w].id, job[w].at)'
            BY <1>b, <2>1, SignedRotates
        <3> QED BY <2>1, <3>1 DEF VInv, Jobs
    <2>4. LogSigned'
        BY <1>a, <2>1, SignedRotates DEF LogSigned
    <2> QED BY <1>0, <2>2, <2>3, <2>4 DEF VInv
<1>4. CASE RotateIfDue /\ ~Due(tickAt)
    <2>1. UNCHANGED <<clock, log, job, cur, started, rotated>> /\ tickAt' = -1 /\ clock \in Nat
        BY <1>0, <1>4 DEF RotateIfDue, vars, ringvars, TypeOK
    <2>2. Salts'
        BY <2>1 DEF VInv, Salts
    <2>3. Jobs' /\ LogSigned'
        BY <2>1 DEF VInv, Jobs, LogSigned, Signed
    <2> QED BY <1>0, <2>2, <2>3 DEF VInv
<1>5. ASSUME NEW w \in Workers, NEW p \in People, NEW t \in (clock - MaxLag) .. clock, Enrich(w, p, t)
      PROVE  VInv'
    <2> DEFINE J == [pc |-> "active", id |-> VisitorID(p), at |-> t]
    <2>1. /\ UNCHANGED <<clock, log, cur, started, rotated, tickAt>>
          /\ job' = [job EXCEPT ![w] = J]
        BY <1>5 DEF Enrich, vars, ringvars, ids
    <2>2. t \in Nat /\ cur \in Nat /\ clock \in Nat
        BY InsertTypes DEF VInv, Salts, TypeOK
    <2>3. Signed(VisitorID(p), t)
        <3>1. VisitorID(p) \in People \X (0 .. cur) /\ VisitorID(p)[2] = cur
            BY <2>2 DEF VisitorID
        <3>2. started[cur + 1] <= t + MaxLag /\ t <= clock
            BY <2>2, WindowAssumption DEF VInv, Salts
        <3> QED BY <2>2, <3>1, <3>2 DEF Signed
    <2>4. J \in JobSet /\ clock - t <= MaxLag
        BY <2>2, WindowAssumption DEF JobSet, VisitorID
    <2>5. J.id = VisitorID(p) /\ J.at = t
        OBVIOUS
    <2> HIDE DEF J
    <2>6. job' \in [Workers -> {NoJob} \cup JobSet]
        BY <2>1, <2>4 DEF VInv, Jobs
    <2>7. ASSUME NEW v \in Workers, job'[v] # NoJob
          PROVE  Signed(job'[v].id, job'[v].at) /\ clock - job'[v].at <= MaxLag
        <3>1. CASE v = w
            <4>1. job'[v] = J
                BY <2>1, <3>1 DEF VInv, Jobs
            <4> QED BY <2>3, <2>4, <2>5, <4>1
        <3>2. CASE v # w
            <4>1. job'[v] = job[v]
                BY <2>1, <3>2 DEF VInv, Jobs
            <4> QED BY <1>b, <2>7, <4>1
        <3> QED BY <3>1, <3>2
    <2>8. Jobs'
        BY <2>1, <2>6, <2>7 DEF Jobs, Signed
    <2>9. Salts' /\ LogSigned'
        BY <2>1 DEF VInv, Salts, LogSigned, Signed
    <2> QED BY <1>0, <2>8, <2>9 DEF VInv
<1>6. ASSUME NEW w \in Workers, InsertActive(w) \/ InsertLonger(w)
      PROVE  VInv'
    <2> DEFINE id == job[w].id  t == job[w].at
    <2>1. /\ UNCHANGED <<clock, cur, started, rotated, tickAt>>
          /\ log' = log \/ log' = log \cup {<<id, t>>}
          /\ \/ job' = [job EXCEPT ![w].pc = "ring"]
             \/ job' = [job EXCEPT ![w].pc = "day"]
          /\ job[w] # NoJob
        BY <1>6 DEF InsertActive, InsertLonger, InsertRing, vars, ringvars, ids, NoJob
    <2>2. /\ job[w] \in JobSet /\ job'[w] \in JobSet
          /\ job'[w].id = job[w].id /\ job'[w].at = job[w].at
        BY <1>b, <2>1 DEF VInv, Jobs, JobSet
    <2>3. \A v \in Workers : v # w => job'[v] = job[v]
        BY <2>1 DEF VInv, Jobs
    <2>4. job' \in [Workers -> {NoJob} \cup JobSet]
        BY <2>1, <2>2, <2>3 DEF VInv, Jobs
    <2>5. \A v \in Workers : job'[v] # NoJob =>
            Signed(job'[v].id, job'[v].at) /\ clock - job'[v].at <= MaxLag
        BY <1>b, <2>1, <2>2, <2>3
    <2>6. Jobs'
        BY <2>1, <2>4, <2>5 DEF Jobs, Signed
    <2>7. Salts'
        BY <2>1 DEF VInv, Salts
    <2>8. LogSigned'
        <3>1. Signed(id, t)
            BY <1>b, <2>1
        <3> HIDE DEF id, t
        <3>2. \A e \in log' : Signed(e[1], e[2])
            BY <1>a, <2>1, <3>1
        <3> QED BY <2>1, <3>2 DEF LogSigned, Signed
    <2> QED BY <1>0, <2>6, <2>7, <2>8 DEF VInv
<1>7. ASSUME NEW w \in Workers, InsertToday(w)
      PROVE  VInv'
    <2>1. /\ UNCHANGED <<clock, log, cur, started, rotated, tickAt>>
          /\ job' = [job EXCEPT ![w] = NoJob]
        BY <1>7 DEF InsertToday, InsertDay, ringvars, ids
    <2>2. Jobs'
        <3>1. job' \in [Workers -> {NoJob} \cup JobSet]
            BY <2>1 DEF VInv, Jobs
        <3>2. \A v \in Workers : job'[v] # NoJob => job'[v] = job[v]
            BY <2>1 DEF VInv, Jobs
        <3>3. \A v \in Workers : job'[v] # NoJob =>
                Signed(job'[v].id, job'[v].at) /\ clock - job'[v].at <= MaxLag
            BY <1>b, <3>2
        <3> QED BY <2>1, <3>1, <3>3 DEF Jobs, Signed
    <2>3. Salts' /\ LogSigned'
        BY <2>1 DEF VInv, Salts, LogSigned, Signed
    <2> QED BY <1>0, <2>2, <2>3 DEF VInv
<1> QED
    BY <1>1, <1>2, <1>3, <1>4, <1>5, <1>6, <1>7 DEF VNext

LEMMA VInvInit == VInit => VInv
<1> SUFFICES ASSUME VInit PROVE VInv
    OBVIOUS
<1>1. TypeOK
    BY WindowAssumption DEF VInit, Init, TypeOK
<1>2. Salts
    BY WindowAssumption, VisitorAssumption DEF VInit, Init, Salts
<1>3. Jobs /\ LogSigned
    BY DEF VInit, Init, Jobs, LogSigned
<1> QED
    BY <1>1, <1>2, <1>3 DEF VInv

(***************************************************************************)
(* The windows a scrape reads stay exact whatever salt, workers and        *)
(* maintenance do: the ring when it spans the lag, and the day unless an   *)
(* earlier day's event cut across it.                                      *)
(***************************************************************************)
THEOREM WindowsCorrect ==
    ASSUME LagFits
    PROVE  VSpec => [](RollingExact /\ TodayExact)
<1>1. Spec => []RollingExact
    BY RollingCorrect DEF LagFits
<1>2. VSpec => Spec
    <2>1. VInit => Init
        BY DEF VInit
    <2> QED BY <2>1, VInvInit, VInvStep, WindowsStep, PTL DEF VSpec, Spec
<1> QED
    BY <1>1, <1>2, TodayCorrect, PTL

(***************************************************************************)
(* A retired salt signs nothing new and a new one no old event, except for *)
(* what was on its way at the rotation: for every lag, every interval and  *)
(* any number of workers.                                                  *)
(***************************************************************************)
THEOREM SaltCorrect == VSpec => []SaltOfItsTime
<1>1. VInv => SaltOfItsTime
    BY DEF VInv, LogSigned, Signed, SaltOfItsTime
<1> QED
    BY <1>1, VInvInit, VInvStep, PTL DEF VSpec

-----------------------------------------------------------------------------

\* Times whose slots are within n of each other lie within n slots' width.
LEMMA WithinSlots ==
    ASSUME NEW r \in Nat \ {0}, NEW n \in Nat \ {0}, NEW t \in Nat, NEW u \in Nat,
           (u \div r) - n + 1 <= t \div r
    PROVE  u - t <= n * r - 1
<1> DEFINE p == t \div r  q == u \div r
<1>1. /\ p \in Nat /\ q \in Nat /\ q + 1 <= p + n
      /\ p * r <= t /\ u < (q + 1) * r
    <2>1. /\ p \in Nat /\ q \in Nat
          /\ t = p * r + (t % r) /\ u = q * r + (u % r)
          /\ t % r \in 0 .. (r - 1) /\ u % r \in 0 .. (r - 1)
        BY DivMod
    <2> QED BY <2>1
<1> HIDE DEF p, q
<1>2. (q + 1) * r <= (p + n) * r
    BY <1>1, ProductMono
<1>3. (p + n) * r = p * r + n * r
    BY <1>1
<1>4. p * r \in Nat /\ n * r \in Nat /\ (q + 1) * r \in Nat
    BY <1>1
<1> QED
    BY <1>1, <1>2, <1>3, <1>4

\* The salts of the ids that a person can have in the window.
LEMMA SaltsInWindow ==
    ASSUME VInv, RollingExact, NEW id \in RollingEstimate(clock)
    PROVE  /\ id \in People \X (0 .. cur)
           /\ cur - 1 - (N * Res - 1) \div Interval <= id[2]
<1> DEFINE L == N * Res - 1  K == L \div Interval  s == id[2]
<1>1. PICK e \in log : e[1] = id /\ slot(clock) - N + 1 <= slot(e[2])
    BY DEF RollingExact
<1> DEFINE t == e[2]
<1>2. /\ id \in People \X (0 .. cur) /\ s \in 0 .. cur
      /\ s < cur => t <= started[s + 2]
    BY <1>1 DEF VInv, LogSigned, Signed
<1>3. t \in Nat /\ clock \in Nat /\ cur \in Nat
    BY DEF VInv, TypeOK, Salts
<1>4. /\ Res \in Nat \ {0} /\ N \in Nat \ {0} /\ Interval \in Nat \ {0}
    BY WindowAssumption, VisitorAssumption
<1>5. L \in Nat
    BY <1>4
<1>6. K \in Nat /\ L < (K + 1) * Interval
    <2>1. K \in Nat /\ L = K * Interval + (L % Interval) /\ L % Interval \in 0 .. (Interval - 1)
        BY <1>4, <1>5, DivMod
    <2> HIDE DEF K, L
    <2> QED BY <1>4, <2>1
<1>7. clock - t <= L
    BY <1>1, <1>3, <1>4, WithinSlots DEF slot
<1> HIDE DEF L, K, s, t
<1>8. CASE s < cur
    <2>1. s + 2 \in 1 .. (cur + 1) /\ cur + 1 \in 1 .. (cur + 1) /\ s + 2 <= cur + 1
        BY <1>2, <1>3, <1>8
    <2>2. started[s + 2] + ((cur + 1) - (s + 2)) * Interval <= started[cur + 1]
        BY <2>1 DEF VInv, Salts
    <2>3. started[cur + 1] <= clock /\ started[cur + 1] \in Nat /\ started[s + 2] \in Nat
        BY <1>3, <2>1 DEF VInv, Salts
    <2> DEFINE g == cur - 1 - s
    <2>4. g \in Nat /\ (cur + 1) - (s + 2) = g
        BY <1>2, <1>3, <1>8
    <2> HIDE DEF g
    <2>5. g * Interval \in Nat
        BY <1>4, <2>4
    <2>6. g * Interval <= L
        BY <1>2, <1>3, <1>5, <1>7, <1>8, <2>2, <2>3, <2>4, <2>5
    <2>7. ~(K + 1 <= g)
        <3> SUFFICES ASSUME K + 1 <= g PROVE FALSE
            OBVIOUS
        <3>1. (K + 1) * Interval <= g * Interval
            BY <1>4, <1>6, <2>4, ProductMono
        <3>2. (K + 1) * Interval \in Nat
            BY <1>4, <1>6
        <3> QED BY <1>5, <1>6, <2>5, <2>6, <3>1, <3>2
    <2>8. g <= K
        BY <1>6, <2>4, <2>7
    <2> QED BY <1>2, <1>3, <1>6, <2>8 DEF g, K, L, s
<1>9. CASE s = cur
    BY <1>2, <1>3, <1>6, <1>9 DEF K, L, s
<1> QED
    BY <1>2, <1>3, <1>8, <1>9

LEMMA FewSalts ==
    ASSUME VInv, RollingExact
    PROVE  CountedPerSalt
<1> DEFINE K == (N * Res - 1) \div Interval
<1>1. K \in Nat /\ cur \in Nat
    <2>1. N * Res - 1 \in Nat /\ Interval \in Nat \ {0}
        BY WindowAssumption, VisitorAssumption
    <2> QED BY <2>1, DivMod DEF VInv, Salts
<1> SUFFICES ASSUME NEW p \in People
             PROVE  Cardinality({id \in RollingEstimate(clock) : id[1] = p}) <= 2 + K
    BY DEF CountedPerSalt
<1> DEFINE X == {id \in RollingEstimate(clock) : id[1] = p}
           I == (cur - 1 - K) .. cur
           Y == {p} \X I
<1>2. X \subseteq Y
    <2> SUFFICES ASSUME NEW id \in RollingEstimate(clock), id[1] = p PROVE id \in Y
        OBVIOUS
    <2>1. id \in People \X (0 .. cur) /\ cur - 1 - K <= id[2]
        BY SaltsInWindow
    <2> HIDE DEF K
    <2>2. id[2] \in I
        BY <1>1, <2>1
    <2> QED BY <2>1, <2>2
<1> HIDE DEF K
<1>3. IsFiniteSet(I) /\ Cardinality(I) = K + 2
    <2>1. cur - 1 - K \in Int /\ cur \in Int /\ cur - 1 - K <= cur
        BY <1>1
    <2>2. IsFiniteSet(I) /\ Cardinality(I) = cur - (cur - 1 - K) + 1
        BY <2>1, FS_Interval
    <2> QED BY <1>1, <2>2
<1>4. IsFiniteSet({p}) /\ Cardinality({p}) = 1
    BY FS_Singleton
<1> HIDE DEF I
<1>5. IsFiniteSet(Y) /\ Cardinality(Y) = 1 * (K + 2)
    BY <1>3, <1>4, FS_Product
<1> HIDE DEF X, Y
<1>6. Cardinality(X) <= Cardinality(Y)
    BY <1>2, <1>5, FS_Subset
<1> QED
    BY <1>1, <1>5, <1>6 DEF X

\* The ring of the composition, as Windows' own.
LEMMA RingOfWindows ==
    ASSUME LagFits
    PROVE  VSpec => [](VInv /\ RingMatchesLog)
<1>1. VInit => RingMatchesLog
    BY DEF VInit, Init, RingMatchesLog
<1>2. VInv /\ RingMatchesLog /\ [VNext]_vvars => RingMatchesLog'
    BY WindowsStep, RingStep DEF VInv, LagFits
<1> QED
    BY <1>1, <1>2, VInvInit, VInvStep, PTL DEF VSpec

(***************************************************************************)
(* A rotating salt counts a person at most once for each salt that can     *)
(* have been in use since the window began, and once more for an event on  *)
(* its way at a rotation: two for any window shorter than the interval.    *)
(***************************************************************************)
THEOREM CountedCorrect ==
    ASSUME LagFits
    PROVE  VSpec => []CountedPerSalt
<1>1. VInv /\ RingMatchesLog => CountedPerSalt
    BY RingGivesExact, FewSalts DEF VInv
<1> QED
    BY <1>1, RingOfWindows, PTL

-----------------------------------------------------------------------------

\* What a worker has in hand for a window it keeps until it fills that window.
LEMMA CarriedStays ==
    ASSUME VInv, [VNext]_vvars, NEW w \in Workers,
           \/ job[w].pc = "ring" /\ ~InsertLonger(w)
           \/ job[w].pc = "day" /\ ~InsertToday(w)
    PROVE  job'[w] = job[w]
<1>0. job \in [Workers -> {NoJob} \cup JobSet]
    BY DEF VInv, Jobs
<1>1. ASSUME NEW v \in Workers, NEW p \in People, NEW u, Enrich(v, p, u)
      PROVE  job'[w] = job[w]
    <2>1. v # w
        BY <1>1 DEF Enrich, NoJob
    <2> QED BY <1>0, <1>1, <2>1 DEF Enrich
<1>2. ASSUME NEW v \in Workers, InsertActive(v) \/ InsertLonger(v) \/ InsertToday(v)
      PROVE  job'[w] = job[w]
    <2>1. v # w
        BY <1>2 DEF InsertActive, InsertLonger, InsertToday
    <2> QED BY <1>0, <1>2, <2>1 DEF InsertActive, InsertLonger, InsertToday
<1>3. CASE VTick \/ MaintainTick \/ RotateIfDue \/ CollectActive \/ CollectRest
           \/ UNCHANGED vvars
    BY <1>3 DEF VTick, MaintainTick, RotateIfDue, CollectActive, CollectRest, vvars
<1> QED
    BY <1>1, <1>2, <1>3 DEF VNext

\* Nothing leaves a log.
LEMMA LogsGrow ==
    ASSUME VInv, [VNext]_vvars
    PROVE  log \subseteq log' /\ daylog \subseteq daylog'
    BY WindowsStep DEF Next, Tick, InsertRing, InsertDay, vars, ringvars, dayvars

\* What a worker has put in Active is in the log or still in its hand.
LEMMA SeenStays ==
    ASSUME VInv, [VNext]_vvars, NEW id, NEW t, Seen(id, t)
    PROVE  Seen(id, t)'
<1>1. CASE <<id, t>> \in log
    BY <1>1, LogsGrow DEF Seen
<1>2. ASSUME NEW w \in Workers, job[w].pc = "ring", job[w].id = id, job[w].at = t
      PROVE  Seen(id, t)'
    <2>1. CASE InsertLonger(w)
        BY <1>2, <2>1 DEF InsertLonger, InsertRing, Seen
    <2>2. CASE ~InsertLonger(w)
        <3>1. job'[w] = job[w]
            BY <1>2, <2>2, CarriedStays
        <3> QED BY <1>2, <3>1 DEF Seen, Carried
    <2> QED BY <2>1, <2>2
<1> QED
    BY <1>1, <1>2 DEF Seen, Carried

\* What is in the longer ring is in the day or still in a worker's hand.
LEMMA DaySeenStep ==
    ASSUME VInv, DaySeen, [VNext]_vvars
    PROVE  DaySeen'
<1>0. job \in [Workers -> {NoJob} \cup JobSet]
    BY DEF VInv, Jobs
<1> SUFFICES ASSUME NEW e \in log' PROVE e \in daylog' \/ Carried("day", e[1], e[2])'
    BY DEF DaySeen, Carried
<1>1. CASE e \in log /\ e \in daylog
    BY <1>1, LogsGrow
<1>2. ASSUME NEW w \in Workers, e \in log, job[w].pc = "day", job[w].id = e[1], job[w].at = e[2]
      PROVE  e \in daylog' \/ Carried("day", e[1], e[2])'
    <2>1. CASE InsertToday(w)
        <3>1. <<e[1], e[2]>> \in daylog'
            BY <1>2, <2>1 DEF InsertToday, InsertDay
        <3>2. e = <<e[1], e[2]>>
            BY <1>2 DEF VInv, TypeOK
        <3> QED BY <3>1, <3>2
    <2>2. CASE ~InsertToday(w)
        <3>1. job'[w] = job[w]
            BY <1>2, <2>2, CarriedStays
        <3> QED BY <1>2, <3>1 DEF Carried
    <2> QED BY <2>1, <2>2
<1>3. CASE e \notin log
    <2>1. PICK w \in Workers : InsertLonger(w)
        BY <1>3 DEF VNext, VTick, Tick, MaintainTick, RotateIfDue, Enrich, InsertActive, InsertToday,
               InsertDay, CollectActive, CollectRest, vvars, vars, ringvars
    <2>2. job[w].pc = "ring" /\ job[w] # NoJob
        BY <2>1 DEF InsertLonger, NoJob
    <2>3. job[w] \in JobSet
        BY <2>2, InHand
    <2>4. e = <<job[w].id, job[w].at>> /\ job' = [job EXCEPT ![w].pc = "day"]
        BY <1>3, <2>1 DEF InsertLonger, InsertRing
    <2>5. job'[w].pc = "day" /\ job'[w].id = job[w].id /\ job'[w].at = job[w].at
        BY <1>0, <2>3, <2>4 DEF JobSet
    <2> QED BY <2>4, <2>5 DEF Carried
<1> QED
    BY <1>1, <1>2, <1>3 DEF DaySeen, Carried

\* Slots of Active, and the position an event takes there.
LEMMA ActiveTypes ==
    ASSUME NEW t \in Nat
    PROVE  Active!slot(t) \in Nat /\ Active!slot(t) % AN \in 0 .. (AN - 1)
    BY VisitorAssumption, DivMod DEF Active!slot

\* The clock never goes back.
LEMMA ClockMono ==
    ASSUME VInv, [VNext]_vvars
    PROVE  clock \in Nat /\ clock' \in Nat /\ clock <= clock'
<1>1. clock \in Nat
    BY DEF VInv, TypeOK
<1> QED
    BY <1>1, WindowsStep DEF Next, Tick, InsertRing, InsertDay, vars

LEMMA ActiveStep ==
    ASSUME VInv, ActiveSeen, [VNext]_vvars
    PROVE  ActiveSeen'
<1>0. clock \in Nat /\ clock' \in Nat /\ clock <= clock'
    BY ClockMono
<1>1. ASSUME NEW i \in 0 .. (AN - 1), NEW id \in abuckets[i]
      PROVE  \E t \in 0 .. clock' : Seen(id, t)' /\ Active!slot(t) = astamps[i]
    <2>1. PICK t \in 0 .. clock : Seen(id, t) /\ Active!slot(t) = astamps[i]
        BY DEF ActiveSeen
    <2>2. t \in 0 .. clock' /\ Seen(id, t)'
        BY <1>0, <2>1, SeenStays
    <2> QED BY <2>1, <2>2
<1>2. CASE UNCHANGED <<astamps, abuckets>>
    BY <1>1, <1>2 DEF ActiveSeen
<1>3. ASSUME NEW w \in Workers, InsertActive(w)
      PROVE  ActiveSeen'
    <2>1. job[w].pc = "active" /\ job[w] # NoJob
        BY <1>3 DEF InsertActive, NoJob
    <2>2. job[w] \in JobSet /\ job[w].at \in (clock - MaxLag) .. clock /\ job[w].id \in Visitors
        BY <2>1, InHand
    <2>b. job[w].at \in 0 .. clock
        BY <2>2, <1>0 DEF JobSet
    <2>3. PICK x \in Visitors, u \in 0 .. clock : job[w].id = x /\ job[w].at = u
        BY <2>2, <2>b
    <2> DEFINE s == Active!slot(u)  k == s % AN
    <2>4. s \in Nat /\ k \in 0 .. (AN - 1)
        BY <1>0, ActiveTypes
    <2>5. /\ astamps' = [astamps EXCEPT ![k] = s]
          /\ abuckets' = [abuckets EXCEPT ![k] = IF astamps[k] # s THEN {x} ELSE @ \cup {x}]
          /\ clock' = clock
          /\ job' = [job EXCEPT ![w].pc = "ring"]
        BY <1>3, <2>3 DEF InsertActive, Active!RollingInsert, Active!Recycles, vars
    <2>6. Seen(x, u)'
        <3>1. job'[w].pc = "ring" /\ job'[w].id = x /\ job'[w].at = u
            BY <2>2, <2>3, <2>5 DEF VInv, Jobs, JobSet
        <3> QED BY <3>1 DEF Seen, Carried
    <2>a. Active!slot(u) = s
        OBVIOUS
    <2> HIDE DEF s, k
    <2>7. /\ astamps' \in [0 .. (AN - 1) -> Nat \cup {-1}]
          /\ abuckets' \in [0 .. (AN - 1) -> SUBSET Visitors]
        BY <2>2, <2>4, <2>5 DEF ActiveSeen
    <2>8. ASSUME NEW i \in 0 .. (AN - 1), NEW id \in abuckets'[i]
          PROVE  \E t \in 0 .. clock' : Seen(id, t)' /\ Active!slot(t) = astamps'[i]
        <3>1. CASE i # k
            <4>1. astamps'[i] = astamps[i] /\ abuckets'[i] = abuckets[i]
                BY <2>5, <3>1 DEF ActiveSeen
            <4> QED BY <1>1, <2>8, <4>1
        <3>2. CASE i = k
            <4>1. /\ astamps'[i] = s
                  /\ id = x \/ (id \in abuckets[i] /\ astamps[i] = s)
                BY <2>4, <2>5, <2>8, <3>2 DEF ActiveSeen
            <4>2. CASE id = x
                <5>1. u \in 0 .. clock'
                    BY <2>5
                <5>2. Seen(id, u)'
                    BY <2>6, <4>2 DEF Seen
                <5>3. Active!slot(u) = astamps'[i]
                    BY <2>a, <4>1
                <5> QED BY <5>1, <5>2, <5>3
            <4>3. CASE id \in abuckets[i] /\ astamps[i] = s
                BY <1>1, <4>1, <4>3
            <4> QED BY <4>1, <4>2, <4>3
        <3> QED BY <3>1, <3>2
    <2> QED BY <2>7, <2>8 DEF ActiveSeen
<1>4. UNCHANGED <<astamps, abuckets>> \/ \E w \in Workers : InsertActive(w)
    BY DEF VNext, VTick, MaintainTick, RotateIfDue, Enrich, InsertLonger, InsertToday,
           CollectActive, CollectRest, vvars
<1> QED
    BY <1>2, <1>3, <1>4

LEMMA ScrapeStep ==
    ASSUME VInv, ActiveSeen, ScrapeSeen, [VNext]_vvars
    PROVE  ScrapeSeen'
<1>0. clock \in Nat /\ clock' \in Nat /\ clock <= clock' /\ MaxPause \in Nat
    BY ClockMono, VisitorAssumption
<1>1. ASSUME scrape' = scrape, scrape # NoScrape, clock' - scrape.now <= MaxPause
      PROVE  ScrapeSeen'
    <2>1. scrape.now \in 0 .. clock
        BY <1>1 DEF ScrapeSeen
    <2>2. scrape.now \in 0 .. clock'
        BY <1>0, <2>1
    <2>3. ASSUME NEW id \in scrape.active
          PROVE  \E t \in 0 .. scrape.now : Seen(id, t)' /\ scrape.now - t <= AN * ARes - 1
        <3>1. PICK t \in 0 .. scrape.now : Seen(id, t) /\ scrape.now - t <= AN * ARes - 1
            BY <1>1 DEF ScrapeSeen
        <3>2. Seen(id, t)'
            BY <3>1, SeenStays
        <3> QED BY <3>1, <3>2
    <2> QED BY <1>1, <2>2, <2>3 DEF ScrapeSeen
<1>2. CASE scrape' = NoScrape
    BY <1>2 DEF ScrapeSeen, NoScrape
<1>3. CASE CollectActive
    <2>1. /\ scrape' = [now |-> clock, active |-> Active!RollingEstimate(clock)]
          /\ clock' = clock
        BY <1>3 DEF CollectActive, vars
    <2>2. scrape'.now = clock /\ scrape'.active = Active!RollingEstimate(clock)
        BY <2>1
    <2>3. ASSUME NEW id \in Active!RollingEstimate(clock)
          PROVE  \E t \in 0 .. clock : Seen(id, t)' /\ clock - t <= AN * ARes - 1
        <3>1. PICK i \in 0 .. (AN - 1) :
                id \in abuckets[i] /\ Active!slot(clock) - AN + 1 <= astamps[i]
            BY DEF Active!RollingEstimate, Active!Ring, Active!InWindow
        <3>2. PICK t \in 0 .. clock : Seen(id, t) /\ Active!slot(t) = astamps[i]
            BY <3>1 DEF ActiveSeen
        <3>3. (clock \div ARes) - AN + 1 <= t \div ARes
            BY <3>1, <3>2 DEF Active!slot
        <3>4. clock - t <= AN * ARes - 1
            <4>1. t \in Nat /\ AN \in Nat \ {0} /\ ARes \in Nat \ {0}
                BY <1>0, <3>2, VisitorAssumption
            <4> QED BY ONLY <1>0, <3>3, <4>1, WithinSlots
        <3>5. Seen(id, t)'
            BY <3>2, SeenStays
        <3> QED BY <3>2, <3>4, <3>5
    <2> QED BY <1>0, <2>1, <2>2, <2>3 DEF ScrapeSeen
<1>4. CASE scrape' = scrape /\ clock' = clock
    BY <1>1, <1>2, <1>4 DEF ScrapeSeen
<1>5. CASE VTick
    <2>1. scrape' = scrape /\ clock' = clock + 1 /\ (scrape # NoScrape => clock - scrape.now < MaxPause)
        BY <1>5 DEF VTick, Tick
    <2>2. CASE scrape = NoScrape
        BY <1>2, <2>1, <2>2
    <2>3. CASE scrape # NoScrape
        <3>1. scrape.now \in 0 .. clock
            BY <2>3 DEF ScrapeSeen
        <3>2. clock' - scrape.now <= MaxPause
            BY <1>0, <2>1, <2>3, <3>1
        <3> QED BY <1>1, <2>1, <2>3, <3>2
    <2> QED BY <2>2, <2>3
<1>6. \/ scrape' = NoScrape \/ CollectActive \/ VTick
      \/ scrape' = scrape /\ clock' = clock
    BY DEF VNext, MaintainTick, RotateIfDue, Enrich, InsertActive, InsertLonger, InsertToday,
           InsertRing, InsertDay, CollectRest, vvars, vars
<1> QED
    BY <1>2, <1>3, <1>4, <1>5, <1>6

\* What a scrape has read is in the longer window, or in a worker's hand.
LEMMA ReadIsCounted ==
    ASSUME RingsFit, TypeOK, RingMatchesLog, ScrapeSeen
    PROVE  scrape.active \subseteq RollingEstimate(scrape.now) \cup BeforeOf("ring")
<1> SUFFICES ASSUME NEW id \in scrape.active
             PROVE  \/ id \in RollingEstimate(scrape.now)
                    \/ \E w \in Workers : job[w].pc = "ring" /\ job[w].id = id
    BY DEF BeforeOf
<1> DEFINE now == scrape.now
<1>1. scrape # NoScrape
    BY DEF NoScrape
<1>2. now \in 0 .. clock /\ clock - now <= MaxPause /\ clock \in Nat
    BY <1>1 DEF ScrapeSeen, TypeOK
<1>3. PICK t \in 0 .. now : Seen(id, t) /\ now - t <= AN * ARes - 1
    BY <1>1 DEF ScrapeSeen
<1>4. CASE \E w \in Workers : job[w].pc = "ring" /\ job[w].id = id
    BY <1>4
<1>5. CASE <<id, t>> \in log
    <2> DEFINE d == AN * ARes + MaxPause - 1  s == slot(t)  i == s % N
    <2>1. d \in Nat /\ AN * ARes \in Nat /\ MaxPause \in Nat /\ N \in Nat \ {0}
        BY VisitorAssumption, WindowAssumption
    <2>2. t \in Nat /\ t <= clock /\ clock - t <= d /\ now \in Nat /\ t <= now /\ now <= clock
        BY <1>2, <1>3, <2>1
    <2>3. slot(clock) - N + 1 <= s
        <3> HIDE DEF d, s
        <3>1. d <= (N - 1) * Res
            BY DEF RingsFit, d
        <3> QED BY <1>2, <2>1, <2>2, <3>1, WithinSpan DEF s
    <2>4. s \in Nat /\ slot(now) \in Nat /\ slot(clock) \in Nat /\ s <= slot(now) /\ slot(now) <= slot(clock)
        BY <1>2, <2>2, SlotMono
    <2>5. i \in Ring
        BY <2>1, <2>4, DivMod DEF Ring
    <2>6. <<id, t>>[1] = id /\ <<id, t>>[2] = t /\ id \in Visitors
        BY <1>5 DEF TypeOK
    <2>7. stamps[i] = s
        BY <1>5, <2>3, <2>6 DEF RingMatchesLog
    <2>8. id \in buckets[i]
        <3>1. stamps[i] # -1
            BY <2>4, <2>7
        <3> QED BY <1>5, <2>5, <2>6, <2>7, <3>1 DEF RingMatchesLog
    <2> HIDE DEF i, s
    <2>9. InWindow(i, now)
        BY <2>1, <2>3, <2>4, <2>7 DEF InWindow
    <2> QED BY <2>5, <2>8, <2>9 DEF RollingEstimate
<1> QED
    BY <1>3, <1>4, <1>5 DEF Seen, Carried

\* Whoever the longer ring got today is in the day, or in a worker's hand.
LEMMA TodayIsCounted ==
    ASSUME DayMatchesLog, DaySeen,
           dayKey(scrape.now) = dayKey(clock), dayKey(clock) \notin crossed
    PROVE  VisitorsOf(log, dayKey(clock)) \subseteq DailyEstimate(scrape.now) \cup BeforeOf("day")
<1> SUFFICES ASSUME NEW id \in VisitorsOf(log, dayKey(clock))
             PROVE  id \in DailyEstimate(scrape.now) \cup BeforeOf("day")
    OBVIOUS
<1>1. PICK e \in log : e[1] = id /\ dayKey(e[2]) = dayKey(clock)
    BY DEF VisitorsOf
<1>2. CASE e \in daylog
    <2>1. id \in VisitorsOf(daylog, dayKey(clock))
        BY <1>1, <1>2 DEF VisitorsOf
    <2>2. DailyEstimate(scrape.now) = DailyEstimate(clock)
        BY DEF DailyEstimate
    <2> QED BY <2>1, <2>2 DEF DayMatchesLog, TodayExact
<1>3. CASE Carried("day", e[1], e[2])
    BY <1>1, <1>3 DEF Carried, BeforeOf
<1> QED
    BY <1>2, <1>3 DEF DaySeen

(***************************************************************************)
(* Whoever a scrape reports as active it also reports in the longer window *)
(* it reads next, and whoever came today in the day it reads last, or a    *)
(* worker is between the inserts: for any number of workers and however    *)
(* insertions and ticks fall between the reads, when the longer ring spans *)
(* the shorter, the lag and the scrape.                                    *)
(***************************************************************************)
THEOREM NestedCorrect ==
    ASSUME LagFits, RingsFit
    PROVE  VSpec => []ScrapeNested
<1>1. VInit => NestInv
    <2> SUFFICES ASSUME VInit PROVE NestInv
        OBVIOUS
    <2>1. ActiveSeen
        BY VisitorAssumption DEF VInit, ActiveSeen
    <2>2. ScrapeSeen
        BY DEF VInit, ScrapeSeen
    <2>3. DaySeen
        BY DEF VInit, Init, DaySeen
    <2>4. DayMatchesLog
        BY DayInit DEF VInit
    <2> QED BY <2>1, <2>2, <2>3, <2>4 DEF NestInv
<1>2. VInv /\ NestInv /\ [VNext]_vvars => NestInv'
    <2> SUFFICES ASSUME VInv, NestInv, [VNext]_vvars PROVE NestInv'
        OBVIOUS
    <2>1. ActiveSeen' /\ ScrapeSeen' /\ DaySeen'
        BY ActiveStep, ScrapeStep, DaySeenStep DEF NestInv
    <2>2. DayMatchesLog'
        BY WindowsStep, DayStep DEF NestInv, VInv
    <2> QED BY <2>1, <2>2 DEF NestInv
<1>3. VInv /\ RingMatchesLog /\ NestInv => ScrapeNested
    BY ReadIsCounted, TodayIsCounted DEF VInv, NestInv, ScrapeNested
<1> QED
    BY <1>1, <1>2, <1>3, RingOfWindows, PTL DEF VSpec
=============================================================================
