--------------------------- MODULE LimiterProofs ----------------------------
(***************************************************************************)
(* The rate limiter, for all keys, bursts, costs, caps and lags: its key   *)
(* cap, the rate it lets through however late requests reach the lock, and *)
(* its refinement of ideal token buckets with that slack.                  *)
(***************************************************************************)
EXTENDS Limiter, FiniteSetTheorems, TLAPS

LEMMA RefilledType ==
    ASSUME NEW b \in Bucket, NEW now \in Int
    PROVE  Refilled(b, now) \in Bucket
BY LimiterAssumption DEF Bucket, Refilled

\* Refilling adds no more than the time gone by, and never sets last back.
LEMMA RefilledBound ==
    ASSUME NEW b \in Bucket, NEW now \in Int
    PROVE  /\ Refilled(b, now).last >= b.last
           /\ Refilled(b, now).last >= now
           /\ Refilled(b, now).last = b.last \/ Refilled(b, now).last = now
           /\ Refilled(b, now).tokens - b.tokens <= Refilled(b, now).last - b.last
BY LimiterAssumption DEF Bucket, Refilled

-----------------------------------------------------------------------------

LEMMA TrackType ==
    ASSUME TypeOK, NEW k \in Keys, NEW b \in Bucket, b.last <= clock,
           Track(k, b), clock' = clock
    PROVE  /\ DOMAIN buckets' = DOMAIN buckets \cup {k}
           /\ DOMAIN buckets' \subseteq Keys
           /\ buckets' \in [DOMAIN buckets' -> Bucket]
           /\ \A x \in DOMAIN buckets' : buckets'[x].last <= clock'
           /\ buckets'[k] = b
           /\ \A x \in DOMAIN buckets \ {k} : buckets'[x] = buckets[x]
<1>1. DOMAIN buckets' = DOMAIN buckets \cup {k}
  BY DEF Track
<1>2. \A x \in DOMAIN buckets' : buckets'[x] = IF x = k THEN b ELSE buckets[x]
  BY DEF Track
<1>3. \A x \in DOMAIN buckets' : buckets'[x] \in Bucket
  BY <1>1, <1>2 DEF TypeOK
<1>4. buckets' = [x \in DOMAIN buckets' |-> buckets'[x]]
  BY DEF Track
<1>5. buckets' \in [DOMAIN buckets' -> Bucket]
  BY <1>3, <1>4
<1>6. \A x \in DOMAIN buckets' : buckets'[x].last <= clock'
  BY <1>1, <1>2 DEF TypeOK
<1> QED
  BY <1>1, <1>2, <1>5, <1>6 DEF TypeOK

LEMMA AnswerType ==
    ASSUME TypeOK, NEW k \in Keys, Pass(k) \/ Refuse(k)
    PROVE  answer' \in Decision /\ used' \in [Keys -> Nat]
<1>1. CASE Pass(k)
  <2>1. answer' \in Decision
    BY <1>1 DEF Pass, Decision
  <2>2. used' \in [Keys -> Nat]
    BY <1>1 DEF Pass, TypeOK
  <2> QED
    BY <2>1, <2>2
<1>2. CASE Refuse(k)
  <2>1. answer' \in Decision
    BY <1>2 DEF Refuse, Decision
  <2>2. used' \in [Keys -> Nat]
    BY <1>2 DEF Refuse, TypeOK
  <2> QED
    BY <2>1, <2>2
<1> QED
  BY <1>1, <1>2

LEMMA StepType == TypeOK /\ [Next]_vars => TypeOK'
<1> SUFFICES ASSUME TypeOK, [Next]_vars PROVE TypeOK'
  OBVIOUS
<1> USE LimiterAssumption
<1>1. CASE Tick
  BY <1>1 DEF Tick, TypeOK, Bucket
<1>2. CASE Watch
  BY <1>2 DEF Watch, TypeOK
<1>3. CASE Sweep(clock)
  <2>1. DOMAIN buckets' = DOMAIN buckets \ Stale(clock)
    BY <1>3 DEF Sweep, Restrict
  <2>2. \A x \in DOMAIN buckets' : x \in DOMAIN buckets /\ buckets'[x] = buckets[x]
    BY <1>3, <2>1 DEF Sweep, Restrict
  <2>3. buckets' \in [DOMAIN buckets' -> Bucket]
    <3>1. buckets' = [x \in DOMAIN buckets' |-> buckets[x]]
      BY <1>3, <2>1 DEF Sweep, Restrict
    <3>2. \A x \in DOMAIN buckets' : buckets[x] \in Bucket
      BY <2>2 DEF TypeOK
    <3> QED
      BY <3>1, <3>2
  <2>4. forgotten' \in [Keys -> Nat]
    BY <1>3 DEF Sweep, TypeOK
  <2>5. UNCHANGED <<clock, answer, mark, used>>
    BY <1>3 DEF Sweep
  <2>6. \A x \in DOMAIN buckets' : buckets'[x].last <= clock'
    BY <2>2, <2>5 DEF TypeOK
  <2> QED
    BY <2>2, <2>3, <2>4, <2>5, <2>6 DEF TypeOK
<1>4. CASE \E k \in Keys : AllowNoRoom(k)
  <2>1. PICK k \in Keys : AllowNoRoom(k)
    BY <1>4
  <2>2. answer' \in Decision /\ used' \in [Keys -> Nat]
    BY <2>1, AnswerType DEF AllowNoRoom
  <2>3. UNCHANGED <<clock, buckets, mark, forgotten>>
    BY <2>1 DEF AllowNoRoom
  <2> QED
    BY <2>2, <2>3 DEF TypeOK
<1>5. CASE \E k \in Keys, now \in (clock - MaxLag) .. clock :
              AllowNew(k, now) \/ AllowKnown(k, now)
  <2>1. PICK k \in Keys, now \in (clock - MaxLag) .. clock :
            AllowNew(k, now) \/ AllowKnown(k, now)
    BY <1>5
  <2>2. now \in Int /\ now <= clock
    BY DEF TypeOK
  <2>3. UNCHANGED <<clock, mark, forgotten>>
    BY <2>1 DEF AllowNew, AllowKnown
  <2>4. answer' \in Decision /\ used' \in [Keys -> Nat]
    BY <2>1, AnswerType DEF AllowNew, AllowKnown
  <2>5. \E b \in Bucket : b.last <= clock /\ Track(k, b)
    <3>1. CASE AllowNew(k, now)
      <4> DEFINE b == [tokens |-> Full - Cost, last |-> now]
      <4>1. b \in Bucket /\ b.last <= clock
        BY <2>2 DEF Bucket
      <4>2. Track(k, b)
        BY <3>1 DEF AllowNew
      <4> QED
        BY <4>1, <4>2
    <3>2. CASE AllowKnown(k, now)
      <4> DEFINE r == Refilled(buckets[k], now)
      <4>0. buckets[k] \in Bucket /\ buckets[k].last <= clock
        BY <3>2 DEF AllowKnown, TypeOK
      <4>1. r \in Bucket
        BY <4>0, <2>2, RefilledType
      <4>2. r.last <= clock
        BY <4>0, <2>2, RefilledBound
      <4>3. CASE Track(k, r)
        BY <4>1, <4>2, <4>3
      <4>4. CASE r.tokens >= Cost /\ Track(k, [r EXCEPT !.tokens = @ - Cost])
        <5>1. [r EXCEPT !.tokens = @ - Cost] \in Bucket
          BY <4>1, <4>4 DEF Bucket
        <5>2. [r EXCEPT !.tokens = @ - Cost].last <= clock
          BY <4>1, <4>2 DEF Bucket
        <5> QED
          BY <4>4, <5>1, <5>2
      <4> QED
        BY <3>2, <4>3, <4>4 DEF AllowKnown
    <3> QED
      BY <2>1, <3>1, <3>2
  <2>6. /\ DOMAIN buckets' \subseteq Keys
        /\ buckets' \in [DOMAIN buckets' -> Bucket]
        /\ \A x \in DOMAIN buckets' : buckets'[x].last <= clock'
    BY <2>3, <2>5, TrackType
  <2> QED
    BY <2>3, <2>4, <2>6 DEF TypeOK
<1>6. CASE UNCHANGED vars
  BY <1>6 DEF vars, TypeOK
<1> QED
  BY <1>1, <1>2, <1>3, <1>4, <1>5, <1>6 DEF Next

LEMMA InitType == Init => TypeOK
BY LimiterAssumption DEF Init, TypeOK

(***************************************************************************)
(* Every variable of the limiter keeps its type: the tokens of a bucket    *)
(* stay between 0 and the burst whatever the times of the requests.        *)
(***************************************************************************)
THEOREM TypeCorrect == Spec => []TypeOK
BY InitType, StepType, PTL DEF Spec

-----------------------------------------------------------------------------

LEMMA StepKeys == TypeOK /\ KeysBounded /\ [Next]_vars => KeysBounded'
<1> SUFFICES ASSUME TypeOK, KeysBounded, [Next]_vars PROVE KeysBounded'
  OBVIOUS
<1> USE LimiterAssumption
<1>0. IsFiniteSet(DOMAIN buckets)
  BY FS_Subset DEF TypeOK
<1>1. CASE DOMAIN buckets' \subseteq DOMAIN buckets
  <2>1. Cardinality(DOMAIN buckets') <= Cardinality(DOMAIN buckets)
    BY <1>0, <1>1, FS_Subset
  <2>2. Cardinality(DOMAIN buckets') \in Nat /\ Cardinality(DOMAIN buckets) \in Nat
    BY <1>0, <1>1, FS_Subset, FS_CardinalityType
  <2> QED
    BY <2>1, <2>2 DEF KeysBounded
<1>2. ASSUME NEW k \in Keys, NEW now, AllowNew(k, now)
      PROVE  KeysBounded'
  <2>1. DOMAIN buckets' = DOMAIN buckets \cup {k}
    BY <1>2 DEF AllowNew, Track
  <2>2. Cardinality(DOMAIN buckets') = Cardinality(DOMAIN buckets) + 1
    BY <1>0, <1>2, <2>1, FS_AddElement DEF AllowNew
  <2>3. Cardinality(DOMAIN buckets) \in Nat /\ Cardinality(DOMAIN buckets) < Max
    BY <1>0, <1>2, FS_CardinalityType DEF AllowNew
  <2> QED
    BY <2>2, <2>3 DEF KeysBounded
<1>3. ASSUME NEW k \in Keys, NEW now, AllowKnown(k, now)
      PROVE  DOMAIN buckets' \subseteq DOMAIN buckets
  <2>1. DOMAIN buckets' = DOMAIN buckets \cup {k}
    BY <1>3 DEF AllowKnown, Track
  <2> QED
    BY <1>3, <2>1 DEF AllowKnown
<1>4. CASE Sweep(clock)
  BY <1>1, <1>4 DEF Sweep, Restrict
<1>5. CASE UNCHANGED buckets
  BY <1>1, <1>5
<1> QED
  BY <1>1, <1>2, <1>3, <1>4, <1>5 DEF Next, Tick, Watch, AllowNoRoom, vars

(***************************************************************************)
(* Allow never tracks more than l.max keys: a flood of addresses cannot    *)
(* grow the map.                                                           *)
(***************************************************************************)
THEOREM KeysCorrect == Spec => []KeysBounded
<1>1. Init => KeysBounded
  <2> SUFFICES ASSUME Init PROVE KeysBounded
    OBVIOUS
  <2>1. DOMAIN buckets = {}
    BY DEF Init
  <2> QED
    BY <2>1, FS_EmptySet, LimiterAssumption DEF KeysBounded
<1> QED
  BY <1>1, StepKeys, TypeCorrect, PTL DEF Spec

-----------------------------------------------------------------------------

(***************************************************************************)
(* What a key has spent, against what it holds.  A key that passed         *)
(* requests since mark has a last that lies at most MaxLag before it; one  *)
(* that Sweep forgot was idle for a full refill, which pays for the fresh  *)
(* bucket it will get.                                                     *)
(***************************************************************************)
Spent(k) ==
    IF k \in DOMAIN buckets
    THEN \/ used[k] = 0
         \/ /\ mark - MaxLag <= buckets[k].last
            /\ Cost * used[k] + buckets[k].tokens
                 <= Full + (buckets[k].last - mark) + MaxLag + MaxLag * forgotten[k]
    ELSE Cost * used[k] <= (clock - mark) + MaxLag * forgotten[k]

RateInv == \A k \in Keys : Spent(k)

LEMMA Product ==
    ASSUME NEW a \in Nat, NEW n \in Nat
    PROVE  a * n \in Nat /\ a * (n + 1) = a * n + a /\ a * (1 + n) = a + a * n /\ a * 0 = 0
OBVIOUS

LEMMA InitRate == Init => RateInv
<1> SUFFICES ASSUME Init, NEW k \in Keys PROVE Spent(k)
  BY DEF RateInv
<1>1. Cost * used[k] = 0 /\ MaxLag * forgotten[k] = 0
  BY LimiterAssumption, Product DEF Init
<1> QED
  BY <1>1 DEF Init, Spent

LEMMA NewRate ==
    ASSUME TypeOK, NEW k \in Keys, NEW now \in (clock - MaxLag) .. clock,
           AllowNew(k, now), Spent(k)
    PROVE  Spent(k)'
<1> USE LimiterAssumption
<1> DEFINE b == [tokens |-> Full - Cost, last |-> now]
<1>1. b \in Bucket /\ b.last <= clock /\ now \in Int
  BY DEF TypeOK, Bucket
<1>2. k \in DOMAIN buckets' /\ buckets'[k] = b
  BY DEF AllowNew, Track
<1>3. Cost * used[k] <= (clock - mark) + MaxLag * forgotten[k]
  BY DEF AllowNew, Spent
<1>4. used'[k] = used[k] + 1 /\ UNCHANGED <<clock, mark, forgotten>>
  BY DEF AllowNew, Pass, TypeOK
<1>5. Cost * used'[k] = Cost * used[k] + Cost /\ Cost * used[k] \in Nat
  BY <1>4, Product DEF TypeOK
<1>6. MaxLag * forgotten[k] \in Nat
  BY Product DEF TypeOK
<1>7. now >= clock - MaxLag /\ clock >= mark /\ clock \in Int /\ mark \in Int
  BY DEF TypeOK
<1>8. mark' - MaxLag <= buckets'[k].last
  BY <1>1, <1>2, <1>4, <1>7
<1>9. Cost * used'[k] + buckets'[k].tokens
        <= Full + (buckets'[k].last - mark') + MaxLag + MaxLag * forgotten'[k]
  <2>1. buckets'[k].tokens = Full - Cost /\ buckets'[k].last = now
    BY <1>2
  <2>2. Cost * used[k] <= (now - mark) + MaxLag + MaxLag * forgotten[k]
    BY <1>3, <1>5, <1>6, <1>7, <1>1
  <2> HIDE DEF b
  <2> QED
    BY <2>1, <2>2, <1>1, <1>4, <1>5, <1>6, <1>7
<1> QED
  BY <1>2, <1>8, <1>9 DEF Spent

LEMMA KnownRate ==
    ASSUME TypeOK, NEW k \in Keys, NEW now \in (clock - MaxLag) .. clock,
           AllowKnown(k, now), Spent(k)
    PROVE  Spent(k)'
<1> USE LimiterAssumption
<1> DEFINE b == buckets[k]
           r == Refilled(b, now)
           u == Cost * used[k]
           f == MaxLag * forgotten[k]
<1>1. k \in DOMAIN buckets /\ k \in DOMAIN buckets'
  BY DEF AllowKnown, Track
<1>2. b \in Bucket /\ now \in Int
  BY <1>1 DEF TypeOK
<1>3. r \in Bucket
  BY <1>2, RefilledType
<1>4. /\ r.last >= b.last
      /\ r.last >= now
      /\ r.tokens - b.tokens <= r.last - b.last
  BY <1>2, RefilledBound
<1>5. UNCHANGED <<clock, mark, forgotten>>
  BY DEF AllowKnown
<1>6. u \in Nat /\ f \in Nat
  BY Product DEF TypeOK
<1>7. now >= clock - MaxLag /\ clock >= mark /\ clock \in Int /\ mark \in Int
  BY DEF TypeOK
<1>8. /\ r.last \in Int /\ b.last \in Int /\ b.tokens \in Int
      /\ r.tokens \in Int /\ r.tokens <= Full
  BY <1>2, <1>3 DEF Bucket
<1>9. mark - MaxLag <= r.last
  BY <1>4, <1>7, <1>8
<1>10. u + r.tokens <= Full + (r.last - mark) + MaxLag + f
  <2>1. CASE used[k] = 0
    <3>1. u = 0
      BY <2>1, Product
    <3> HIDE DEF r, b, u, f
    <3> QED
      BY <3>1, <1>6, <1>7, <1>8, <1>9
  <2>2. CASE used[k] # 0
    <3>1. u + b.tokens <= Full + (b.last - mark) + MaxLag + f
      BY <1>1, <2>2 DEF Spent
    <3> HIDE DEF r, b, u, f
    <3> QED
      BY <3>1, <1>4, <1>6, <1>7, <1>8
  <2> QED
    BY <2>1, <2>2
<1>11. CASE Track(k, r) /\ Refuse(k)
  <2>1. buckets'[k] = r /\ used' = used
    BY <1>11 DEF Track, Refuse
  <2> QED
    BY <1>1, <1>5, <1>9, <1>10, <2>1 DEF Spent
<1>12. CASE Track(k, [r EXCEPT !.tokens = @ - Cost]) /\ Pass(k)
  <2>1. buckets'[k] = [r EXCEPT !.tokens = @ - Cost]
    BY <1>12 DEF Track
  <2>2. buckets'[k].tokens = r.tokens - Cost /\ buckets'[k].last = r.last
    BY <2>1, <1>3 DEF Bucket
  <2>3. used'[k] = used[k] + 1
    BY <1>12 DEF Pass, TypeOK
  <2>4. Cost * used'[k] = u + Cost
    BY <2>3, Product DEF TypeOK
  <2>5. Cost * used'[k] + buckets'[k].tokens = u + r.tokens
    <3> HIDE DEF r, b, u, f
    <3> QED
      BY <2>2, <2>4, <1>6, <1>8
  <2> QED
    BY <1>1, <1>5, <1>9, <1>10, <2>2, <2>5 DEF Spent
<1> QED
  BY <1>11, <1>12 DEF AllowKnown

LEMMA SweepRate ==
    ASSUME TypeOK, NEW k \in Keys, Sweep(clock), Spent(k)
    PROVE  Spent(k)'
<1> USE LimiterAssumption
<1>0. UNCHANGED <<clock, mark, used>>
  BY DEF Sweep
<1>1. CASE k \in Stale(clock)
  <2>1. k \in DOMAIN buckets /\ k \notin DOMAIN buckets' /\ clock - buckets[k].last > Full
    BY <1>1 DEF Sweep, Stale, Restrict
  <2>2. forgotten'[k] = forgotten[k] + 1
    BY <1>1 DEF Sweep
  <2>3. MaxLag * forgotten'[k] = MaxLag * forgotten[k] + MaxLag
    BY <2>2, Product DEF TypeOK
  <2>4. Cost * used[k] \in Nat /\ MaxLag * forgotten[k] \in Nat
    BY Product DEF TypeOK
  <2>5. buckets[k].last \in Int /\ buckets[k].tokens \in Nat
    BY <2>1 DEF TypeOK, Bucket
  <2>6. clock \in Int /\ mark \in Int /\ mark <= clock
    BY DEF TypeOK
  <2>7. Cost * used[k] <= (clock - mark) + MaxLag * forgotten'[k]
    <3>1. CASE used[k] = 0
      <4>1. Cost * used[k] = 0
        BY <3>1, Product
      <4> QED
        BY <4>1, <2>3, <2>4, <2>6
    <3>2. CASE used[k] # 0
      <4>1. Cost * used[k] + buckets[k].tokens
              <= Full + (buckets[k].last - mark) + MaxLag + MaxLag * forgotten[k]
        BY <2>1, <3>2 DEF Spent
      <4> QED
        BY <4>1, <2>1, <2>3, <2>4, <2>5, <2>6
    <3> QED
      BY <3>1, <3>2
  <2> QED
    BY <1>0, <2>1, <2>7 DEF Spent
<1>2. CASE k \notin Stale(clock)
  <2>1. forgotten'[k] = forgotten[k]
    BY <1>2 DEF Sweep, TypeOK
  <2>2. (k \in DOMAIN buckets') <=> (k \in DOMAIN buckets)
    BY <1>2 DEF Sweep, Restrict
  <2>3. k \in DOMAIN buckets => buckets'[k] = buckets[k]
    BY <1>2 DEF Sweep, Restrict
  <2> QED
    BY <1>0, <2>1, <2>2, <2>3 DEF Spent
<1> QED
  BY <1>1, <1>2

LEMMA OtherRate ==
    ASSUME NEW k \in Keys, NEW x \in Keys, x # k, TypeOK, Spent(x),
           NEW now, AllowNew(k, now) \/ AllowKnown(k, now) \/ AllowNoRoom(k)
    PROVE  Spent(x)'
<1>1. UNCHANGED <<clock, mark, forgotten>>
  BY DEF AllowNew, AllowKnown, AllowNoRoom
<1>2. used'[x] = used[x]
  BY DEF AllowNew, AllowKnown, AllowNoRoom, Pass, Refuse, TypeOK
<1>3. (x \in DOMAIN buckets') <=> (x \in DOMAIN buckets)
  BY DEF AllowNew, AllowKnown, AllowNoRoom, Track
<1>4. x \in DOMAIN buckets => buckets'[x] = buckets[x]
  BY DEF AllowNew, AllowKnown, AllowNoRoom, Track
<1> QED
  BY <1>1, <1>2, <1>3, <1>4 DEF Spent

LEMMA StepRate == TypeOK /\ RateInv /\ [Next]_vars => RateInv'
<1> SUFFICES ASSUME TypeOK, RateInv, [Next]_vars, NEW x \in Keys PROVE Spent(x)'
  BY DEF RateInv
<1> USE LimiterAssumption
<1>0. Spent(x)
  BY DEF RateInv
<1>1. CASE Tick
  <2>1. Cost * used[x] \in Nat /\ MaxLag * forgotten[x] \in Nat
    BY Product DEF TypeOK
  <2> QED
    BY <1>0, <1>1, <2>1 DEF Tick, Spent, TypeOK
<1>2. CASE Watch
  <2>1. used'[x] = 0 /\ forgotten'[x] = 0 /\ clock' - mark' = 0
    BY <1>2 DEF Watch, TypeOK
  <2>2. Cost * used'[x] = 0 /\ MaxLag * forgotten'[x] = 0
    BY <2>1, Product
  <2> QED
    BY <2>1, <2>2 DEF Spent
<1>3. CASE Sweep(clock)
  BY <1>0, <1>3, SweepRate
<1>4. CASE \E k \in Keys : AllowNoRoom(k)
  <2>1. PICK k \in Keys : AllowNoRoom(k)
    BY <1>4
  <2>2. CASE x # k
    BY <1>0, <2>1, <2>2, OtherRate
  <2>3. CASE x = k
    BY <1>0, <2>1, <2>3 DEF AllowNoRoom, Refuse, Spent
  <2> QED
    BY <2>2, <2>3
<1>5. CASE \E k \in Keys, now \in (clock - MaxLag) .. clock :
              AllowNew(k, now) \/ AllowKnown(k, now)
  <2>1. PICK k \in Keys, now \in (clock - MaxLag) .. clock :
            AllowNew(k, now) \/ AllowKnown(k, now)
    BY <1>5
  <2>2. CASE x # k
    BY <1>0, <2>1, <2>2, OtherRate
  <2>3. CASE x = k
    BY <1>0, <2>1, <2>3, NewRate, KnownRate
  <2> QED
    BY <2>2, <2>3
<1>6. CASE UNCHANGED vars
  BY <1>0, <1>6 DEF vars, Spent
<1> QED
  BY <1>1, <1>2, <1>3, <1>4, <1>5, <1>6 DEF Next

(***************************************************************************)
(* However late requests reach the lock, what Allow lets through from any  *)
(* moment on is bounded by a burst, the refill of the time gone by and     *)
(* MaxLag for each time the key came to be tracked.                        *)
(***************************************************************************)
THEOREM RateCorrect == Spec => []RateBound
<1>1. TypeOK /\ RateInv => RateBound
  <2> SUFFICES ASSUME TypeOK, RateInv, NEW k \in Keys
               PROVE  Cost * used[k] <= Full + (clock - mark) + MaxLag * (1 + forgotten[k])
    BY DEF RateBound
  <2> USE LimiterAssumption
  <2>1. /\ Cost * used[k] \in Nat
        /\ MaxLag * forgotten[k] \in Nat
        /\ MaxLag * (1 + forgotten[k]) = MaxLag + MaxLag * forgotten[k]
    BY Product DEF TypeOK
  <2>2. clock \in Int /\ mark \in Int /\ mark <= clock
    BY DEF TypeOK
  <2>3. CASE k \notin DOMAIN buckets
    <3>1. Cost * used[k] <= (clock - mark) + MaxLag * forgotten[k]
      BY <2>3 DEF RateInv, Spent
    <3> QED
      BY <2>1, <2>2, <3>1
  <2>4. CASE k \in DOMAIN buckets /\ used[k] = 0
    <3>1. Cost * used[k] = 0
      BY <2>4, Product
    <3> QED
      BY <2>1, <2>2, <3>1
  <2>5. CASE k \in DOMAIN buckets /\ used[k] # 0
    <3>1. Cost * used[k] + buckets[k].tokens
            <= Full + (buckets[k].last - mark) + MaxLag + MaxLag * forgotten[k]
      BY <2>5 DEF RateInv, Spent
    <3>2. buckets[k].tokens \in Nat /\ buckets[k].last \in Int /\ buckets[k].last <= clock
      BY <2>5 DEF TypeOK, Bucket
    <3> QED
      BY <2>1, <2>2, <3>1, <3>2
  <2> QED
    BY <2>3, <2>4, <2>5
<1> QED
  BY <1>1, InitRate, StepRate, TypeCorrect, PTL DEF Spec

-----------------------------------------------------------------------------

LEMMA LevelType ==
    ASSUME TypeOK, NEW k \in Keys
    PROVE  Level(k) \in 0 .. (Full + MaxLag)
BY LimiterAssumption DEF TypeOK, Level, Bucket

(***************************************************************************)
(* A request of time now finds the bucket of d = clock - last ticks ago,   *)
(* where last is that of the refilled bucket: what it finds is the level   *)
(* cut at Full + d, less d.  A now before last leaves bucket and last as   *)
(* they are, and counts as a request that is clock - last late.            *)
(***************************************************************************)
LEMMA RefilledLevel ==
    ASSUME TypeOK, NEW k \in DOMAIN buckets, NEW now \in (clock - MaxLag) .. clock
    PROVE  LET r == Refilled(buckets[k], now)
               d == clock - r.last
               kept == IF Level(k) > Full + d THEN Full + d ELSE Level(k)
           IN  d \in 0 .. MaxLag /\ r.tokens = kept - d
<1>1. buckets[k] \in Bucket /\ buckets[k].last <= clock /\ clock \in Nat
  BY DEF TypeOK
<1>2. PICK t \in 0 .. Full, l \in Int : buckets[k] = [tokens |-> t, last |-> l] /\ l <= clock
  BY <1>1 DEF Bucket
<1>3. now \in Int /\ clock - now \in 0 .. MaxLag /\ MaxLag \in Nat /\ Full \in Nat
  BY <1>1, LimiterAssumption
<1>4. Level(k) = IF t + (clock - l) > Full + MaxLag THEN Full + MaxLag ELSE t + (clock - l)
  BY <1>2 DEF Level
<1>5. CASE now > l
  <2>1. Refilled(buckets[k], now) =
          [tokens |-> IF t + (now - l) > Full THEN Full ELSE t + (now - l), last |-> now]
    BY <1>2, <1>5 DEF Refilled
  <2> QED
    BY <1>1, <1>2, <1>3, <1>4, <1>5, <2>1
<1>6. CASE ~(now > l)
  <2>1. Refilled(buckets[k], now) = [tokens |-> t, last |-> l]
    BY <1>2, <1>6 DEF Refilled
  <2> QED
    BY <1>1, <1>2, <1>3, <1>4, <1>6, <2>1
<1> QED
  BY <1>5, <1>6

\* The level of a bucket just written: its tokens and the time since its last.
LEMMA TrackLevel ==
    ASSUME TypeOK, NEW k \in Keys, NEW b \in Bucket, NEW d \in 0 .. MaxLag,
           b.last = clock - d, Track(k, b), clock' = clock
    PROVE  \A x \in Keys : Level(x)' = IF x = k THEN b.tokens + d ELSE Level(x)
<1> SUFFICES ASSUME NEW x \in Keys PROVE Level(x)' = IF x = k THEN b.tokens + d ELSE Level(x)
  OBVIOUS
<1>1. (x \in DOMAIN buckets') <=> (x \in DOMAIN buckets \/ x = k)
  BY DEF Track
<1>2. CASE x = k
  <2>1. buckets'[k] = b /\ k \in DOMAIN buckets'
    BY DEF Track
  <2>2. b.tokens \in 0 .. Full /\ clock \in Nat
    BY DEF Bucket, TypeOK
  <2>3. Level(k)' = b.tokens + d
    BY <2>1, <2>2, LimiterAssumption DEF Level
  <2> QED
    BY <1>2, <2>3
<1>3. CASE x # k
  <2>1. x \in DOMAIN buckets => buckets'[x] = buckets[x]
    BY <1>3 DEF Track
  <2> QED
    BY <1>1, <1>3, <2>1 DEF Level
<1> QED
  BY <1>2, <1>3

Levels == [k \in Keys |-> Level(k)]

\* What a request that is d late leaves of a level, as TokenBucket has it.
Left(k, d) == IF Level(k) > Full + d THEN Full + d ELSE Level(k)

LEMMA LeftIsKept ==
    ASSUME NEW k \in Keys, NEW d
    PROVE  TB!Kept(k, d) = Left(k, d)
BY DEF TB!Kept, Left

LEMMA GrantStep ==
    ASSUME TypeOK, NEW k \in Keys, NEW d \in 0 .. MaxLag, Left(k, d) - d >= Cost,
           Pass(k), UNCHANGED <<clock, mark>>,
           \A x \in Keys : Level(x)' = IF x = k THEN Left(k, d) - Cost ELSE Level(x)
    PROVE  TB!Next
<1>1. Levels' = [Levels EXCEPT ![k] = Left(k, d) - Cost]
  BY DEF Levels
<1>2. TB!Grant(k, d)
  BY <1>1, LeftIsKept DEF TB!Grant, Levels, Pass
<1> QED
  BY <1>2 DEF TB!Next

LEMMA DenyStep ==
    ASSUME TypeOK, NEW k \in Keys, NEW d \in 0 .. MaxLag,
           Left(k, d) - d < Cost \/ Level(k) = Full + MaxLag,
           Refuse(k), UNCHANGED <<clock, mark>>, \A x \in Keys : Level(x)' = Level(x)
    PROVE  TB!Next
<1>1. Levels' = Levels
  BY DEF Levels
<1>2. TB!Deny(k, d)
  BY <1>1, LeftIsKept DEF TB!Deny, Levels, Refuse
<1> QED
  BY <1>2 DEF TB!Next

LEMMA SimulateKnown ==
    ASSUME TypeOK, NEW k \in Keys, NEW now \in (clock - MaxLag) .. clock, AllowKnown(k, now)
    PROVE  TB!Next
<1> USE LimiterAssumption
<1> DEFINE r == Refilled(buckets[k], now)
           d == clock - r.last
<1>1. k \in DOMAIN buckets
  BY DEF AllowKnown
<1>2. buckets[k] \in Bucket /\ clock \in Int /\ now \in Int
  BY <1>1 DEF TypeOK
<1>3. r \in Bucket
  BY <1>2, RefilledType
<1>4. d \in 0 .. MaxLag /\ r.tokens = Left(k, d) - d
  BY <1>1, RefilledLevel DEF Left
<1>5. UNCHANGED <<clock, mark>>
  BY DEF AllowKnown
<1>6. Level(k) \in Nat /\ Left(k, d) \in Int /\ r.last = clock - d
  <2>1. Level(k) \in Nat
    BY LevelType
  <2>2. r.last \in Int
    BY <1>3 DEF Bucket
  <2> HIDE DEF r
  <2> QED
    BY <1>2, <1>4, <2>1, <2>2 DEF Left
<1>7. CASE r.tokens < Cost /\ Track(k, r) /\ Refuse(k)
  <2>1. \A x \in Keys : Level(x)' = IF x = k THEN r.tokens + d ELSE Level(x)
    <3> HIDE DEF r, d
    <3> QED
      BY <1>3, <1>4, <1>5, <1>6, <1>7, TrackLevel
  <2> HIDE DEF r, d
  <2>2. Left(k, d) = Level(k)
    BY <1>4, <1>6, <1>7 DEF Left
  <2>3. \A x \in Keys : Level(x)' = Level(x)
    BY <1>4, <1>6, <2>1, <2>2
  <2>4. Left(k, d) - d < Cost
    BY <1>4, <1>7
  <2> QED
    BY <1>4, <1>5, <1>7, <2>3, <2>4, DenyStep
<1>8. CASE r.tokens >= Cost /\ Track(k, [r EXCEPT !.tokens = @ - Cost]) /\ Pass(k)
  <2> DEFINE b == [r EXCEPT !.tokens = @ - Cost]
  <2>1. b \in Bucket /\ b.last = clock - d /\ b.tokens = Left(k, d) - d - Cost
    BY <1>3, <1>4, <1>6, <1>8 DEF Bucket
  <2>2. Track(k, b)
    BY <1>8
  <2> HIDE DEF b, r, d
  <2>3. \A x \in Keys : Level(x)' = IF x = k THEN b.tokens + d ELSE Level(x)
    BY <1>4, <1>5, <2>1, <2>2, TrackLevel
  <2>4. \A x \in Keys : Level(x)' = IF x = k THEN Left(k, d) - Cost ELSE Level(x)
    BY <1>4, <1>6, <2>1, <2>3
  <2>5. Left(k, d) - d >= Cost
    BY <1>4, <1>8
  <2> QED
    BY <1>4, <1>5, <1>8, <2>4, <2>5, GrantStep
<1> QED
  BY <1>7, <1>8 DEF AllowKnown

LEMMA SimulateNew ==
    ASSUME TypeOK, NEW k \in Keys, NEW now \in (clock - MaxLag) .. clock, AllowNew(k, now)
    PROVE  TB!Next
<1> USE LimiterAssumption
<1> DEFINE b == [tokens |-> Full - Cost, last |-> now]
           d == clock - now
<1>1. d \in 0 .. MaxLag /\ now = clock - d
  BY DEF TypeOK
<1>2. b \in Bucket /\ b.last = clock - d /\ b.tokens = Full - Cost
  BY <1>1 DEF Bucket, TypeOK
<1>3. Level(k) = Full + MaxLag
  BY DEF AllowNew, Level
<1>4. UNCHANGED <<clock, mark>> /\ Track(k, b) /\ Pass(k)
  BY DEF AllowNew
<1> HIDE DEF b, d
<1>5. \A x \in Keys : Level(x)' = IF x = k THEN b.tokens + d ELSE Level(x)
  BY <1>1, <1>2, <1>4, TrackLevel
<1>6. Left(k, d) = Full + d
  BY <1>1, <1>3 DEF Left
<1>7. Left(k, d) - d >= Cost /\ b.tokens + d = Left(k, d) - Cost
  BY <1>1, <1>2, <1>6
<1> QED
  BY <1>1, <1>4, <1>5, <1>7, GrantStep

\* A key that is swept was idle for a full refill, whatever its bucket held.
LEMMA SimulateSweep ==
    ASSUME TypeOK, Sweep(clock)
    PROVE  TB!Next
<1> USE LimiterAssumption
<1>1. UNCHANGED <<clock, answer, mark, used>>
  BY DEF Sweep
<1>2. ASSUME NEW k \in Stale(clock)
      PROVE  k \in Keys /\ Level(k) >= Full /\ Level(k)' = Full + MaxLag
  <2>1. k \in DOMAIN buckets /\ k \notin DOMAIN buckets' /\ clock - buckets[k].last > Full
    BY <1>2 DEF Sweep, Stale, Restrict
  <2>2. k \in Keys /\ buckets[k].tokens \in Nat /\ buckets[k].last \in Int /\ clock \in Int
    BY <2>1 DEF TypeOK, Bucket
  <2>3. buckets[k].tokens + (clock - buckets[k].last) > Full
    BY <2>1, <2>2
  <2>4. Level(k) >= Full
    BY <2>1, <2>2, <2>3 DEF Level
  <2>5. Level(k)' = Full + MaxLag
    BY <2>1 DEF Level
  <2> QED
    BY <2>2, <2>4, <2>5
<1>3. ASSUME NEW k \in Keys \ Stale(clock) PROVE Level(k)' = Level(k)
  <2>1. (k \in DOMAIN buckets') <=> (k \in DOMAIN buckets)
    BY <1>3 DEF Sweep, Restrict
  <2>2. k \in DOMAIN buckets => buckets'[k] = buckets[k]
    BY <1>3 DEF Sweep, Restrict
  <2> QED
    BY <1>1, <2>1, <2>2 DEF Level
<1>4. Levels' = [k \in Keys |-> IF k \in Stale(clock) THEN Full + MaxLag ELSE Levels[k]]
  <2>1. \A k \in Keys : Level(k)' = IF k \in Stale(clock) THEN Full + MaxLag ELSE Level(k)
    BY <1>2, <1>3
  <2> QED
    BY <2>1 DEF Levels
<1>5. TB!Forget(Stale(clock))
  <2>1. \A k \in Stale(clock) : Levels[k] >= Full
    BY <1>2 DEF Levels
  <2> QED
    BY <1>1, <1>4, <2>1 DEF TB!Forget, Levels
<1>6. Stale(clock) \in SUBSET Keys
  BY <1>2
<1> QED
  BY <1>5, <1>6 DEF TB!Next

LEMMA SimulateTick ==
    ASSUME TypeOK, Tick
    PROVE  TB!Tick
<1> USE LimiterAssumption
<1>1. ASSUME NEW k \in Keys
      PROVE  Level(k)' = IF Level(k) < Full + MaxLag THEN Level(k) + 1 ELSE Full + MaxLag
  <2>1. CASE k \notin DOMAIN buckets
    BY <2>1 DEF Tick, Level
  <2>2. CASE k \in DOMAIN buckets
    <3>1. buckets[k].tokens \in 0 .. Full /\ buckets[k].last \in Int /\ clock \in Int
      BY <2>2 DEF TypeOK, Bucket
    <3>2. clock' = clock + 1 /\ buckets' = buckets
      BY DEF Tick
    <3> QED
      BY <2>2, <3>1, <3>2 DEF Level
  <2> QED
    BY <2>1, <2>2
<1>2. Levels' = [k \in Keys |-> IF Levels[k] < Full + MaxLag THEN Levels[k] + 1 ELSE Full + MaxLag]
  BY <1>1 DEF Levels
<1> QED
  BY <1>2 DEF Tick, TB!Tick, Levels

(***************************************************************************)
(* However late requests reach the lock, the limiter implements one ideal  *)
(* token bucket per key with MaxLag for its slack (with requests in order, *)
(* the textbook one): lazy refill, the full map and Sweep show in no       *)
(* answer beyond that.                                                     *)
(***************************************************************************)
THEOREM Refinement == Spec => IdealBuckets
<1> USE LimiterAssumption
<1>1. Init => TB!Init
  <2> SUFFICES ASSUME Init PROVE TB!Init
    OBVIOUS
  <2>1. \A k \in Keys : Level(k) = Full + MaxLag
    BY DEF Init, Level
  <2>2. Levels = [k \in Keys |-> Full + MaxLag]
    BY <2>1 DEF Levels
  <2> QED
    BY <2>2 DEF Init, TB!Init, Levels, Decision, TB!Decision
<1>2. TypeOK /\ [Next]_vars => [TB!Next]_TB!vars
  <2> SUFFICES ASSUME TypeOK, [Next]_vars PROVE TB!Next \/ UNCHANGED TB!vars
    OBVIOUS
  <2>1. CASE Tick
    BY <2>1, SimulateTick DEF TB!Next
  <2>2. CASE Watch
    <3>1. \A k \in Keys : Level(k)' = Level(k)
      BY <2>2 DEF Watch, Level
    <3>2. Levels' = Levels
      BY <3>1 DEF Levels
    <3>3. TB!Watch
      BY <2>2, <3>2 DEF Watch, TB!Watch, Levels
    <3> QED
      BY <3>3 DEF TB!Next
  <2>3. CASE Sweep(clock)
    BY <2>3, SimulateSweep
  <2>4. CASE \E k \in Keys : AllowNoRoom(k)
    <3>1. PICK k \in Keys : AllowNoRoom(k)
      BY <2>4
    <3>2. Level(k) = Full + MaxLag
      BY <3>1 DEF AllowNoRoom, Level
    <3>3. \A x \in Keys : Level(x)' = Level(x)
      BY <3>1 DEF AllowNoRoom, Level
    <3>4. 0 \in 0 .. MaxLag
      OBVIOUS
    <3> QED
      BY <3>1, <3>2, <3>3, <3>4, DenyStep DEF AllowNoRoom
  <2>5. CASE \E k \in Keys, now \in (clock - MaxLag) .. clock :
                AllowNew(k, now) \/ AllowKnown(k, now)
    BY <2>5, SimulateNew, SimulateKnown
  <2>6. CASE UNCHANGED vars
    <3>1. \A k \in Keys : Level(k)' = Level(k)
      BY <2>6 DEF vars, Level
    <3>2. Levels' = Levels
      BY <3>1 DEF Levels
    <3> QED
      BY <2>6, <3>2 DEF vars, TB!vars, Levels
  <2> QED
    BY <2>1, <2>2, <2>3, <2>4, <2>5, <2>6 DEF Next
<1> QED
  BY <1>1, <1>2, TypeCorrect, PTL DEF Spec, IdealBuckets, TB!Spec
=============================================================================
