--------------------------- MODULE SessionsProofs ---------------------------
(***************************************************************************)
(* Proofs about the session map, for every number of visitors and workers, *)
(* every TTL, cap and lag.                                                 *)
(***************************************************************************)
EXTENDS SessionHistory, FiniteSetTheorems, SequenceTheorems, TLAPS

\* What leaves the map is a well-formed report, and what stays is unchanged.
LEMMA FinishedType ==
    ASSUME TypeOK, NEW a \in Actors, NEW id \in DOMAIN m
    PROVE  Finished(a, id) \in [by : Actors, id : Visitors, end : Ended]
<1>1. m[id] \in Session /\ id \in Visitors
    BY DEF TypeOK
<1>2. finish(m[id]) \in Ended
    BY <1>1 DEF finish, Session, Ended
<1> QED
    BY <1>1, <1>2 DEF Finished

LEMMA WithoutType ==
    ASSUME TypeOK, NEW S, m' = Without(S)
    PROVE  /\ DOMAIN m' = DOMAIN m \ S
           /\ m' \in [DOMAIN m' -> Session]
    BY DEF TypeOK, Without, Restrict

LEMMA TypeStep == TypeOK /\ [Next]_vars => TypeOK'
<1> SUFFICES ASSUME TypeOK, [Next]_vars PROVE TypeOK'
    OBVIOUS
<1> USE ActorAssumption, BoundAssumption
<1>1. CASE Tick
    BY <1>1 DEF TypeOK, Tick
<1>2. CASE Sweep
    <2>1. Sweeper \in Actors /\ Idle(clock) \subseteq DOMAIN m
        BY DEF Actors, Idle
    <2>2. {Finished(Sweeper, id) : id \in Idle(clock)} \subseteq [by : Actors, id : Visitors, end : Ended]
        BY <2>1, FinishedType
    <2> QED
        BY <1>2, <2>1, <2>2, WithoutType DEF TypeOK, Sweep
<1>3. ASSUME NEW w \in Workers, NEW id \in Visitors, NEW now \in Times, Event(w, id, now)
      PROVE  TypeOK'
    <2>0. now \in Int
        BY DEF Times, TypeOK
    <2>1. CASE TouchLive(w, id, now)
        <3>1. m[id] \in Session /\ id \in DOMAIN m
            BY <2>1 DEF TypeOK, TouchLive, Live
        <3>2. [m[id] EXCEPT !.pages = 2, !.last = now] \in Session
            BY <2>0, <3>1 DEF Session
        <3> QED
            BY <2>1, <3>1, <3>2 DEF TypeOK, TouchLive
    <2>2. CASE TouchNew(w, id, now)
        BY <2>0, <2>2 DEF TypeOK, TouchNew, Insert, Opened, Fresh, Session, Actors
    <2>3. CASE TouchExpired(w, id, now)
        <3>1. /\ DOMAIN m' = DOMAIN m \ {id}
              /\ m' \in [DOMAIN m' -> Session]
            BY <2>3, WithoutType DEF TouchExpired
        <3>2. Finished(w, id) \in [by : Actors, id : Visitors, end : Ended]
            BY <2>3, FinishedType DEF TouchExpired, Actors
        <3> QED
            BY <2>0, <2>3, <3>1, <3>2 DEF TypeOK, TouchExpired, Actors
    <2>4. CASE Extend(w, id, now)
        BY <2>0, <2>4 DEF TypeOK, Extend, Live, Session
    <2> QED BY <1>3, <2>1, <2>2, <2>3, <2>4 DEF Event
<1>4. ASSUME NEW w \in Workers, TouchReopen(w)
      PROVE  TypeOK'
    BY <1>4 DEF TypeOK, TouchReopen, Insert, Opened, Fresh, Session, Actors
<1>5. ASSUME NEW w \in Workers, SessionStarted(w)
      PROVE  TypeOK'
    BY <1>5 DEF TypeOK, SessionStarted, Actors
<1>6. ASSUME NEW w \in Workers, EvictOldest(w)
      PROVE  TypeOK'
    <2>1. PICK E \in Victims :
            /\ done' = done \cup {Finished(w, id) : id \in E}
            /\ m' = Without(E)
            /\ evicted' = evicted + Cardinality(E)
            /\ pc' = [pc EXCEPT ![w] = IF E = {} THEN "idle" ELSE "report"]
        BY <1>6 DEF EvictOldest
    <2>2. E \subseteq DOMAIN m /\ Cardinality(E) \in Nat
        BY FS_Subset, FS_CardinalityType DEF Victims, TypeOK
    <2>3. {Finished(w, id) : id \in E} \subseteq [by : Actors, id : Visitors, end : Ended]
        BY <2>2, FinishedType DEF Actors
    <2>4. /\ DOMAIN m' = DOMAIN m \ E
          /\ m' \in [DOMAIN m' -> Session]
        BY <2>1, WithoutType
    <2> QED
        BY <1>6, <2>1, <2>2, <2>3, <2>4 DEF EvictOldest, TypeOK, Actors
<1>7. ASSUME NEW a \in Actors, SessionEnded(a)
      PROVE  TypeOK'
    BY <1>7 DEF TypeOK, SessionEnded, Pending, AfterReport, Actors
<1>8. CASE UNCHANGED vars
    BY <1>8 DEF TypeOK, vars
<1> QED
    BY <1>1, <1>2, <1>3, <1>4, <1>5, <1>6, <1>7, <1>8 DEF Next

\* Every reachable state is well typed.
THEOREM TypeCorrect == Spec => []TypeOK
<1>1. Init => TypeOK
    BY ActorAssumption, BoundAssumption DEF Init, TypeOK, Actors, Session
<1> QED
    BY <1>1, TypeStep, PTL DEF Spec

-----------------------------------------------------------------------------

\* The sets counted by the invariants are finite, in both states of a step.
LEMMA SizesAreNat ==
    ASSUME TypeOK
    PROVE  /\ IsFiniteSet(DOMAIN m) /\ Cardinality(DOMAIN m) \in Nat
           /\ IsFiniteSet(Owing) /\ Cardinality(Owing) \in Nat
           /\ IsFiniteSet(Announcing) /\ Cardinality(Announcing) \in Nat
<1>1. DOMAIN m \subseteq Visitors /\ Owing \subseteq Workers /\ Announcing \subseteq Workers
    BY DEF TypeOK, Owing, Announcing
<1> QED
    BY <1>1, FS_Subset, FS_CardinalityType, ActorAssumption

\* Insert adds one key at most, and the worker that goes over the cap owes
\* an eviction.
LEMMA InsertSizes ==
    ASSUME TypeOK, TypeOK', NEW w \in Workers, pc[w] \in {"idle", "insert"},
           NEW id, NEW now, Insert(w, id, now)
    PROVE  /\ DOMAIN m' = DOMAIN m \cup {id}
           /\ Cardinality(DOMAIN m') \in Nat
           /\ Cardinality(DOMAIN m') =
                Cardinality(DOMAIN m) + (IF id \in DOMAIN m THEN 0 ELSE 1)
           /\ Cardinality(Announcing') = Cardinality(Announcing) + 1
           /\ Cardinality(DOMAIN m') > Cap =>
                Cardinality(Owing') = Cardinality(Owing) + 1
           /\ Cardinality(Owing') \in Nat
<1>1. DOMAIN m' = DOMAIN m \cup {id}
    BY DEF Insert, Opened
<1>2. /\ Cardinality(DOMAIN m') =
            Cardinality(DOMAIN m) + (IF id \in DOMAIN m THEN 0 ELSE 1)
      /\ Cardinality(DOMAIN m') \in Nat
    <2>1. IsFiniteSet(DOMAIN m) /\ Cardinality(DOMAIN m) \in Nat
        BY SizesAreNat
    <2>2. Cardinality(DOMAIN m \cup {id}) =
            IF id \in DOMAIN m THEN Cardinality(DOMAIN m) ELSE Cardinality(DOMAIN m) + 1
        BY <2>1, FS_AddElement
    <2> QED BY <1>1, <2>1, <2>2
<1>w. \A u \in Workers : pc'[u] = IF u = w THEN "opened" ELSE pc[u]
    BY DEF Insert, TypeOK, Actors
<1>o. \A u \in Workers : over'[u] = IF u = w THEN Cardinality(DOMAIN m') > Cap ELSE over[u]
    BY DEF Insert, TypeOK
<1>3. Announcing' = Announcing \cup {w} /\ w \notin Announcing
    BY <1>w DEF Announcing
<1>4. Cardinality(Announcing') = Cardinality(Announcing) + 1
    BY <1>3, SizesAreNat, FS_AddElement
<1>5. Owing' \subseteq Workers
    BY DEF Owing
<1>6. Cardinality(Owing') \in Nat
    BY <1>5, ActorAssumption, FS_Subset, FS_CardinalityType
<1>7. ASSUME Cardinality(DOMAIN m') > Cap
      PROVE  Cardinality(Owing') = Cardinality(Owing) + 1
    <2>1. Owing' = Owing \cup {w} /\ w \notin Owing
        BY <1>7, <1>w, <1>o DEF Owing
    <2> QED
        BY <2>1, SizesAreNat, FS_AddElement
<1> QED
    BY <1>1, <1>2, <1>4, <1>6, <1>7

LEMMA CapStep == TypeOK /\ TypeOK' /\ CapBound /\ [Next]_vars => CapBound'
<1> SUFFICES ASSUME TypeOK, TypeOK', CapBound, [Next]_vars PROVE CapBound'
    OBVIOUS
<1> USE ActorAssumption, BoundAssumption
<1>0. /\ Cardinality(DOMAIN m) \in Nat /\ Cardinality(Owing) \in Nat
      /\ IsFiniteSet(DOMAIN m)
    BY SizesAreNat
\* Most actions keep the owing workers and do not add to the map.
<1>a. ASSUME Owing' = Owing, DOMAIN m' \subseteq DOMAIN m
      PROVE  CapBound'
    <2>1. Cardinality(DOMAIN m') \in Nat /\ Cardinality(DOMAIN m') <= Cardinality(DOMAIN m)
        BY <1>0, <1>a, FS_Subset, FS_CardinalityType
    <2> QED
        BY <1>0, <1>a, <2>1 DEF CapBound
<1>b. ASSUME NEW w \in Workers, NEW id, NEW now,
             pc[w] \in {"idle", "insert"}, Insert(w, id, now)
      PROVE  CapBound'
    <2>1. /\ Cardinality(DOMAIN m') \in Nat
          /\ Cardinality(DOMAIN m') =
                Cardinality(DOMAIN m) + (IF id \in DOMAIN m THEN 0 ELSE 1)
          /\ Cardinality(DOMAIN m') > Cap =>
                Cardinality(Owing') = Cardinality(Owing) + 1
          /\ Cardinality(Owing') \in Nat
        BY <1>b, InsertSizes
    <2> QED BY <1>0, <2>1 DEF CapBound
<1>1. CASE Tick
    BY <1>1, <1>a DEF Tick, Owing
<1>2. CASE Sweep
    <2>1. DOMAIN m' \subseteq DOMAIN m
        BY <1>2, WithoutType DEF Sweep
    <2>2. Owing' = Owing
        BY <1>2 DEF Sweep, Owing, TypeOK, Actors
    <2> QED BY <2>1, <2>2, <1>a
<1>3. ASSUME NEW w \in Workers, NEW id \in Visitors, NEW now \in Times, Event(w, id, now)
      PROVE  CapBound'
    <2>1. CASE TouchLive(w, id, now)
        BY <2>1, <1>a DEF TouchLive, Owing
    <2>2. CASE TouchNew(w, id, now)
        BY <2>2, <1>b DEF TouchNew
    <2>3. CASE TouchExpired(w, id, now)
        <3>1. DOMAIN m' \subseteq DOMAIN m
            BY <2>3, WithoutType DEF TouchExpired
        <3>2. Owing' = Owing
            BY <2>3 DEF TouchExpired, Owing, TypeOK, Actors
        <3> QED BY <3>1, <3>2, <1>a
    <2>4. CASE Extend(w, id, now)
        BY <2>4, <1>a DEF Extend, Owing
    <2> QED BY <1>3, <2>1, <2>2, <2>3, <2>4 DEF Event
<1>4. ASSUME NEW w \in Workers, TouchReopen(w)
      PROVE  CapBound'
    BY <1>4, <1>b DEF TouchReopen
<1>5. ASSUME NEW w \in Workers, SessionStarted(w)
      PROVE  CapBound'
    <2>1. Owing' = Owing
        BY <1>5 DEF SessionStarted, Owing, TypeOK, Actors
    <2> QED BY <1>5, <2>1, <1>a DEF SessionStarted
<1>6. ASSUME NEW w \in Workers, EvictOldest(w)
      PROVE  CapBound'
    <2>1. PICK E \in Victims : m' = Without(E)
        BY <1>6 DEF EvictOldest
    <2>2. Cardinality(DOMAIN m') <= Cap
        BY <2>1, WithoutType DEF Victims
    <2>3. Cardinality(Owing') \in Nat /\ Cardinality(DOMAIN m') \in Nat
        <3>1. Owing' \subseteq Workers /\ DOMAIN m' \subseteq Visitors
            BY DEF Owing, TypeOK
        <3> QED BY <3>1, FS_Subset, FS_CardinalityType
    <2> QED BY <2>2, <2>3 DEF CapBound
<1>7. ASSUME NEW a \in Actors, SessionEnded(a)
      PROVE  CapBound'
    <2>1. Owing' = Owing
        BY <1>7 DEF SessionEnded, AfterReport, Owing, TypeOK, Actors
    <2> QED BY <1>7, <2>1, <1>a DEF SessionEnded
<1>8. CASE UNCHANGED vars
    BY <1>8, <1>a DEF vars, Owing
<1> QED
    BY <1>1, <1>2, <1>3, <1>4, <1>5, <1>6, <1>7, <1>8 DEF Next

(***************************************************************************)
(* The map outgrows its cap only by sessions whose worker is still on its  *)
(* way to evictOldest.                                                     *)
(***************************************************************************)
THEOREM CapCorrect == Spec => []CapBound
<1>1. Init => CapBound
    <2> SUFFICES ASSUME Init PROVE CapBound
        OBVIOUS
    <2>1. DOMAIN m = {} /\ Owing = {}
        BY DEF Init, Owing
    <2> QED BY <2>1, FS_EmptySet, BoundAssumption DEF CapBound
<1> QED
    BY <1>1, TypeCorrect, CapStep, PTL DEF Spec

-----------------------------------------------------------------------------

\* The sessions opened that are neither live nor finished.
Lost == started + Cardinality(Announcing) - Tracked

\* The strengthening the counts need: the finished sessions are finitely
\* many, and an actor that takes sessions out of the map has none left over.
Counting == TypeOK /\ IsFiniteSet(done) /\ Reporting

\* Taking the sessions of E out of the map moves their number into done.
LEMMA TakeOut ==
    ASSUME Counting, NEW a \in Actors, pc[a] \notin {"close", "report"},
           NEW E, E \subseteq DOMAIN m,
           done' = done \cup {Finished(a, id) : id \in E}, m' = Without(E)
    PROVE  /\ IsFiniteSet(done')
           /\ Cardinality(E) \in Nat
           /\ Cardinality(done') = Cardinality(done) + Cardinality(E)
           /\ Cardinality(DOMAIN m') = Cardinality(DOMAIN m) - Cardinality(E)
<1> DEFINE F == {Finished(a, id) : id \in E}
<1> DEFINE f == [id \in E |-> Finished(a, id)]
<1>1. IsFiniteSet(DOMAIN m) /\ IsFiniteSet(E) /\ Cardinality(E) \in Nat
    BY SizesAreNat, FS_Subset, FS_CardinalityType DEF Counting
<1>2. f \in Bijection(E, F)
    <2>1. \A x, y \in E : Finished(a, x) = Finished(a, y) => x = y
        BY DEF Finished
    <2> QED BY <2>1 DEF Bijection, Injection, Surjection, IsInjective
<1>3. IsFiniteSet(F) /\ Cardinality(F) = Cardinality(E)
    <2>1. ExistsBijection(E, F)
        BY <1>2 DEF ExistsBijection
    <2> HIDE DEF F
    <2> QED BY <1>1, <2>1, FS_Bijection
<1>4. done \cap F = {}
    <2>1. \A d \in done : d.by # a
        BY DEF Counting, Reporting
    <2>2. \A d \in F : d.by = a
        BY DEF Finished
    <2> QED BY <2>1, <2>2
<1>5. IsFiniteSet(done') /\ Cardinality(done') = Cardinality(done) + Cardinality(E)
    <2>1. IsFiniteSet(done) /\ done' = done \cup F
        BY DEF Counting
    <2>2. IsFiniteSet(done \cup F)
        BY <1>3, <2>1, FS_Union
    <2>3. Cardinality(done \cup F) = Cardinality(done) + Cardinality(F) - Cardinality(done \cap F)
        BY <1>3, <2>1, FS_Union
    <2>4. Cardinality(done) \in Nat /\ Cardinality(done \cap F) = 0
        BY <1>4, <2>1, FS_CardinalityType, FS_EmptySet
    <2> QED BY <1>1, <1>3, <2>1, <2>2, <2>3, <2>4
<1>6. Cardinality(DOMAIN m') = Cardinality(DOMAIN m) - Cardinality(E)
    <2>1. DOMAIN m' = DOMAIN m \ E /\ DOMAIN m \cap E = E
        BY DEF Without, Restrict
    <2> QED BY <1>1, <2>1, FS_Difference
<1> QED
    BY <1>1, <1>5, <1>6

\* A second insert for the visitor of a session that is still in the map.
Replaces == \E w \in Workers : TouchReopen(w) /\ arg[w].id \in DOMAIN m

Out == ended + Cardinality(done)

\* A step loses a session only when it replaces one, and every eviction is
\* on its way out.
LEMMA CountStep ==
    ASSUME Counting, TypeOK', [Next]_vars
    PROVE  /\ Counting'
           /\ Lost' = Lost \/ (Lost' = Lost + 1 /\ Replaces)
           /\ evicted' - Out' <= evicted - Out
<1> USE ActorAssumption, BoundAssumption
<1> DEFINE Kept ==
        /\ Counting'
        /\ Lost' = Lost \/ (Lost' = Lost + 1 /\ Replaces)
        /\ evicted' - Out' <= evicted - Out
<1>0. /\ Cardinality(DOMAIN m) \in Nat /\ Cardinality(Announcing) \in Nat
      /\ Cardinality(done) \in Nat /\ IsFiniteSet(Announcing)
      /\ started \in Nat /\ ended \in Nat /\ evicted \in Nat
    BY SizesAreNat, FS_CardinalityType DEF Counting, TypeOK
<1>t. TypeOK
    BY DEF Counting
\* Actions that leave all that is counted alone.
<1>a. ASSUME DOMAIN m' = DOMAIN m, UNCHANGED <<pc, done, started, ended, evicted>>
      PROVE  Kept
    <2>1. Announcing' = Announcing /\ Reporting'
        BY <1>a DEF Announcing, Counting, Reporting
    <2> QED BY <1>0, <1>a, <2>1 DEF Counting, Lost, Tracked, Out
\* Actions that take sessions out of the map.
<1>b. ASSUME NEW a \in Actors, NEW E, E \subseteq DOMAIN m, NEW n,
             pc[a] \notin {"close", "report", "opened"},
             done' = done \cup {Finished(a, id) : id \in E}, m' = Without(E),
             pc' = [pc EXCEPT ![a] = n], n # "opened", E = {} \/ n \in {"close", "report"},
             evicted' \in {evicted, evicted + Cardinality(E)},
             UNCHANGED <<started, ended>>
      PROVE  Kept
    <2>1. /\ IsFiniteSet(done')
          /\ Cardinality(E) \in Nat
          /\ Cardinality(done') = Cardinality(done) + Cardinality(E)
          /\ Cardinality(DOMAIN m') = Cardinality(DOMAIN m) - Cardinality(E)
        BY <1>b, TakeOut
    <2>2. Announcing' = Announcing
        BY <1>b, <1>t DEF Announcing, TypeOK, Actors
    <2>3. Reporting'
        <3>1. \A d \in done : d.by # a /\ d.by \in Actors /\ pc[d.by] \in {"close", "report"}
            BY <1>b, <1>t DEF Counting, Reporting, TypeOK
        <3>2. \A d \in done : pc'[d.by] \in {"close", "report"}
            BY <1>b, <1>t, <3>1 DEF TypeOK
        <3>3. \A id \in E : pc'[Finished(a, id).by] \in {"close", "report"}
            BY <1>b, <1>t DEF Finished, TypeOK
        <3> QED BY <1>b, <3>2, <3>3 DEF Reporting
    <2> QED BY <1>0, <1>b, <2>1, <2>2, <2>3 DEF Counting, Lost, Tracked, Out
\* Insert: the map and the announcing workers grow together.
<1>c. ASSUME NEW w \in Workers, NEW id, NEW now, pc[w] \in {"idle", "insert"},
             Insert(w, id, now), UNCHANGED <<done, started, ended, evicted>>
      PROVE  /\ Counting' /\ evicted' - Out' <= evicted - Out
             /\ Lost' = Lost + (IF id \in DOMAIN m THEN 1 ELSE 0)
    <2>1. /\ Cardinality(DOMAIN m') =
                Cardinality(DOMAIN m) + (IF id \in DOMAIN m THEN 0 ELSE 1)
          /\ Cardinality(Announcing') = Cardinality(Announcing) + 1
        BY <1>c, <1>t, InsertSizes
    <2>2. Reporting'
        <3>1. \A d \in done : d.by # w /\ d.by \in Actors /\ pc[d.by] \in {"close", "report"}
            BY <1>c, <1>t DEF Counting, Reporting, TypeOK
        <3> QED BY <1>c, <1>t, <3>1 DEF Insert, TypeOK, Reporting
    <2> QED BY <1>0, <1>c, <2>1, <2>2 DEF Counting, Lost, Tracked, Out
<1>1. CASE Tick
    BY <1>1, <1>a DEF Tick
<1>2. CASE Sweep
    <2>1. Sweeper \in Actors /\ Idle(clock) \subseteq DOMAIN m
        BY DEF Actors, Idle
    <2> QED BY <1>2, <1>b, <2>1 DEF Sweep
<1>3. ASSUME NEW w \in Workers, NEW id \in Visitors, NEW now \in Times, Event(w, id, now)
      PROVE  Kept
    <2>1. CASE TouchLive(w, id, now)
        BY <2>1, <1>a DEF TouchLive
    <2>2. CASE TouchNew(w, id, now)
        BY <2>2, <1>0, <1>c DEF TouchNew, Lost, Tracked
    <2>3. CASE TouchExpired(w, id, now)
        <3>1. {Finished(w, x) : x \in {id}} = {Finished(w, id)}
            OBVIOUS
        <3> QED BY <2>3, <1>b, <3>1 DEF TouchExpired, Actors
    <2>4. CASE Extend(w, id, now)
        BY <2>4, <1>a DEF Extend
    <2> QED BY <1>3, <2>1, <2>2, <2>3, <2>4 DEF Event
<1>4. ASSUME NEW w \in Workers, TouchReopen(w)
      PROVE  Kept
    BY <1>4, <1>0, <1>c DEF TouchReopen, Lost, Tracked, Replaces
<1>5. ASSUME NEW w \in Workers, SessionStarted(w)
      PROVE  Kept
    <2>1. \A u \in Workers : pc'[u] = "opened" <=> u # w /\ pc[u] = "opened"
        BY <1>5, <1>t DEF SessionStarted, TypeOK, Actors
    <2>2. Announcing' = Announcing \ {w} /\ w \in Announcing
        BY <1>5, <2>1 DEF SessionStarted, Announcing
    <2>3. Cardinality(Announcing') = Cardinality(Announcing) - 1
        BY <1>0, <2>2, FS_RemoveElement
    <2>4. Reporting'
        <3>1. \A d \in done : d.by # w /\ d.by \in Actors /\ pc[d.by] \in {"close", "report"}
            BY <1>5, <1>t DEF SessionStarted, Counting, Reporting, TypeOK
        <3> QED BY <1>5, <1>t, <3>1 DEF SessionStarted, TypeOK, Reporting
    <2> QED BY <1>0, <1>5, <2>3, <2>4 DEF SessionStarted, Counting, Lost, Tracked, Out
<1>6. ASSUME NEW w \in Workers, EvictOldest(w)
      PROVE  Kept
    <2>1. PICK E \in Victims :
            /\ done' = done \cup {Finished(w, id) : id \in E}
            /\ m' = Without(E)
            /\ evicted' = evicted + Cardinality(E)
            /\ pc' = [pc EXCEPT ![w] = IF E = {} THEN "idle" ELSE "report"]
        BY <1>6 DEF EvictOldest
    <2>2. E \subseteq DOMAIN m /\ w \in Actors
        BY DEF Victims, Actors
    <2> QED BY <1>6, <1>b, <2>1, <2>2 DEF EvictOldest
<1>7. ASSUME NEW a \in Actors, SessionEnded(a)
      PROVE  Kept
    <2>1. PICK d \in Pending(a) :
            /\ done' = done \ {d}
            /\ ended' = ended + 1
            /\ pc' = [pc EXCEPT ![a] = AfterReport(a, d)]
        BY <1>7 DEF SessionEnded
    <2>2. d \in done /\ d.by = a
        BY DEF Pending
    <2>3. IsFiniteSet(done') /\ Cardinality(done') = Cardinality(done) - 1
        BY <2>1, <2>2, FS_RemoveElement DEF Counting
    <2>4. Announcing' = Announcing
        BY <1>7, <1>t, <2>1 DEF SessionEnded, AfterReport, Announcing, TypeOK, Actors
    <2>5. Reporting'
        <3> SUFFICES ASSUME NEW e \in done' PROVE pc'[e.by] \in {"close", "report"}
            BY DEF Reporting
        <3>1. e \in done /\ e # d /\ e.by \in Actors /\ pc[e.by] \in {"close", "report"}
            BY <1>t, <2>1 DEF Counting, Reporting, TypeOK
        <3>2. CASE e.by = a
            <4>1. Pending(a) # {d}
                BY <3>1, <3>2 DEF Pending
            <4> QED BY <1>t, <2>1, <3>1, <3>2, <4>1 DEF AfterReport, TypeOK
        <3>3. CASE e.by # a
            BY <1>t, <2>1, <3>1, <3>3 DEF TypeOK
        <3> QED BY <3>2, <3>3
    <2> QED BY <1>0, <1>7, <2>1, <2>3, <2>4, <2>5 DEF SessionEnded, Counting, Lost, Tracked, Out
<1>8. CASE UNCHANGED vars
    BY <1>8, <1>a DEF vars
<1> QED
    BY <1>1, <1>2, <1>3, <1>4, <1>5, <1>6, <1>7, <1>8 DEF Next

LEMMA CountInit == Init => Counting /\ Lost = 0 /\ evicted - Out = 0
<1> SUFFICES ASSUME Init PROVE Counting /\ Lost = 0 /\ evicted - Out = 0
    OBVIOUS
<1>1. TypeOK
    BY ActorAssumption, BoundAssumption DEF Init, TypeOK, Actors, Session
<1>2. DOMAIN m = {} /\ done = {} /\ Announcing = {} /\ Reporting
    BY DEF Init, Announcing, Reporting, Actors
<1> QED
    BY <1>1, <1>2, FS_EmptySet DEF Init, Counting, Lost, Tracked, Out

LEMMA CountsAreInt ==
    ASSUME Counting
    PROVE  /\ Lost \in Int
           /\ evicted \in Nat /\ Out \in Nat
           /\ NoPhantom <=> Lost >= 0
           /\ Accounted <=> Lost = 0
           /\ EvictedAreReported <=> evicted - Out <= 0
<1>1. /\ Cardinality(DOMAIN m) \in Nat /\ Cardinality(Announcing) \in Nat
      /\ Cardinality(done) \in Nat
      /\ started \in Nat /\ ended \in Nat /\ evicted \in Nat
    BY SizesAreNat, FS_CardinalityType DEF Counting, TypeOK
<1> QED
    BY <1>1 DEF Lost, Tracked, Out, NoPhantom, Accounted, EvictedAreReported

LEMMA CountInvariant == Spec => [](Counting /\ Lost >= 0 /\ evicted - Out <= 0)
<1> DEFINE Inv == Counting /\ Lost >= 0 /\ evicted - Out <= 0
<1>1. Init => Inv
    BY CountInit
<1>2. Inv /\ TypeOK' /\ [Next]_vars => Inv'
    <2> SUFFICES ASSUME Inv, TypeOK', [Next]_vars PROVE Inv'
        OBVIOUS
    <2>1. /\ Counting'
          /\ Lost' = Lost \/ Lost' = Lost + 1
          /\ evicted' - Out' <= evicted - Out
        BY CountStep
    <2>2. Lost \in Int /\ evicted \in Nat /\ Out \in Nat
        BY CountsAreInt
    <2>3. Counting' => evicted' \in Nat /\ Out' \in Nat
        <3>1. Counting' => IsFiniteSet(done') /\ TypeOK'
            BY DEF Counting
        <3> QED BY <3>1, FS_CardinalityType DEF Out, TypeOK
    <2> QED BY <2>1, <2>2, <2>3
<1> HIDE DEF Inv
<1> QED
    BY <1>1, <1>2, TypeCorrect, PTL DEF Spec, Inv

(***************************************************************************)
(* No interleaving of Touch, Sweep and evictOldest reports a session twice *)
(* or out of thin air.                                                     *)
(***************************************************************************)
THEOREM NoPhantomCorrect == Spec => []NoPhantom
    BY CountInvariant, CountsAreInt, PTL

(***************************************************************************)
(* Evicted sessions are reported like any other.                           *)
(***************************************************************************)
THEOREM EvictedCorrect == Spec => []EvictedAreReported
    BY CountInvariant, CountsAreInt, PTL

-----------------------------------------------------------------------------

\* With one worker nothing appears in the map between the two critical
\* sections of a Touch, so a reopened session replaces none.
LEMMA ReopenStep ==
    ASSUME NEW w0, Workers = {w0}, TypeOK, TypeOK', ReopensAbsent, [Next]_vars
    PROVE  ReopensAbsent'
<1> USE ActorAssumption
<1> DEFINE Busy == pc[w0] \in {"close", "insert"}
<1>0. Sweeper # w0 /\ w0 \in Workers
    OBVIOUS
\* The map does not grow and the worker stays where it is.
<1>a. ASSUME DOMAIN m' \subseteq DOMAIN m, arg' = arg, Busy' => Busy
      PROVE  ReopensAbsent'
    BY <1>a DEF ReopensAbsent
<1>1. CASE Tick
    BY <1>1, <1>a DEF Tick
<1>2. CASE Sweep
    <2>1. DOMAIN m' \subseteq DOMAIN m
        BY <1>2, WithoutType DEF Sweep
    <2> QED BY <1>0, <1>2, <1>a, <2>1 DEF Sweep, TypeOK, Actors
<1>3. ASSUME NEW w \in Workers, NEW id \in Visitors, NEW now \in Times, Event(w, id, now)
      PROVE  ReopensAbsent'
    <2>1. CASE TouchLive(w, id, now)
        BY <2>1, <1>a DEF TouchLive
    <2>2. CASE TouchNew(w, id, now)
        BY <2>2 DEF TouchNew, Insert, ReopensAbsent, TypeOK, Actors
    <2>3. CASE TouchExpired(w, id, now)
        <3>1. DOMAIN m' = DOMAIN m \ {id}
            BY <2>3, WithoutType DEF TouchExpired
        <3>2. arg'[w0].id = id
            BY <2>3 DEF TouchExpired, TypeOK
        <3> QED BY <3>1, <3>2 DEF ReopensAbsent
    <2>4. CASE Extend(w, id, now)
        BY <2>4, <1>a DEF Extend
    <2> QED BY <1>3, <2>1, <2>2, <2>3, <2>4 DEF Event
<1>4. ASSUME NEW w \in Workers, TouchReopen(w)
      PROVE  ReopensAbsent'
    BY <1>4 DEF TouchReopen, Insert, ReopensAbsent, TypeOK, Actors
<1>5. ASSUME NEW w \in Workers, SessionStarted(w)
      PROVE  ReopensAbsent'
    BY <1>5 DEF SessionStarted, ReopensAbsent, TypeOK, Actors
<1>6. ASSUME NEW w \in Workers, EvictOldest(w)
      PROVE  ReopensAbsent'
    BY <1>6 DEF EvictOldest, ReopensAbsent, TypeOK, Actors
<1>7. ASSUME NEW a \in Actors, SessionEnded(a)
      PROVE  ReopensAbsent'
    <2>1. Busy' => Busy
        BY <1>0, <1>7 DEF SessionEnded, AfterReport, TypeOK, Actors
    <2> QED BY <1>7, <1>a, <2>1 DEF SessionEnded
<1>8. CASE UNCHANGED vars
    BY <1>8, <1>a DEF vars
<1> QED
    BY <1>1, <1>2, <1>3, <1>4, <1>5, <1>6, <1>7, <1>8 DEF Next

(***************************************************************************)
(* With a single ingest worker every session is accounted for: live, about *)
(* to be reported, or reported, whatever the sweeper and the evictions do. *)
(***************************************************************************)
THEOREM AccountedCorrect ==
    ASSUME NEW w0, Workers = {w0}
    PROVE  Spec => []Accounted
<1> DEFINE Inv == Counting /\ ReopensAbsent /\ Lost = 0
<1>1. Init => Inv
    <2>1. Init => ReopensAbsent
        BY DEF Init, ReopensAbsent, Actors
    <2> QED BY <2>1, CountInit
<1>2. Inv /\ TypeOK' /\ [Next]_vars => Inv'
    <2> SUFFICES ASSUME Inv, TypeOK', [Next]_vars PROVE Inv'
        OBVIOUS
    <2>1. ReopensAbsent'
        BY ReopenStep DEF Counting
    <2>2. ~Replaces
        BY DEF Replaces, ReopensAbsent, TouchReopen
    <2>3. Counting' /\ Lost' = Lost
        BY <2>2, CountStep
    <2> QED BY <2>1, <2>3
<1>3. Inv => Accounted
    BY CountsAreInt
<1> HIDE DEF Inv
<1> QED
    BY <1>1, <1>2, <1>3, TypeCorrect, PTL DEF Spec

-----------------------------------------------------------------------------

\* A session began and was last seen within the time that has passed, and was
\* last seen before it began by no more than the lag.
Dated(s) ==
    /\ s.start \in (-MaxLag) .. clock
    /\ s.last \in (-MaxLag) .. clock
    /\ s.last - s.start >= -MaxLag

Dates ==
    /\ \A id \in DOMAIN m : Dated(m[id])
    /\ \A w \in Workers : arg[w].now \in (-MaxLag) .. clock
    /\ \A d \in done : d.end.duration \in (-MaxLag) .. (clock + MaxLag)

LEMMA FinishedDated ==
    ASSUME TypeOK, Dates, NEW a, NEW id \in DOMAIN m
    PROVE  Finished(a, id).end.duration \in (-MaxLag) .. (clock + MaxLag)
<1>1. Dated(m[id]) /\ clock \in Nat /\ MaxLag \in Nat
    BY BoundAssumption DEF Dates, TypeOK
<1>2. Finished(a, id).end.duration = m[id].last - m[id].start
    BY DEF Finished, finish
<1> QED
    BY <1>1, <1>2 DEF Dated

LEMMA DateStep == TypeOK /\ Dates /\ [Next]_vars => Dates'
<1> SUFFICES ASSUME TypeOK, Dates, [Next]_vars PROVE Dates'
    OBVIOUS
<1>0. clock \in Nat /\ MaxLag \in Nat
    BY BoundAssumption DEF TypeOK
\* Actions that take sessions out of the map.
<1>a. ASSUME NEW a, NEW E, E \subseteq DOMAIN m, clock' = clock, m' = Without(E),
             done' = done \cup {Finished(a, id) : id \in E},
             \A w \in Workers : arg'[w].now \in (-MaxLag) .. clock
      PROVE  Dates'
    <2>1. DOMAIN m' = DOMAIN m \ E /\ \A id \in DOMAIN m' : m'[id] = m[id]
        BY <1>a DEF Without, Restrict
    <2>2. \A id \in DOMAIN m' : Dated(m'[id])
        BY <2>1 DEF Dates
    <2>3. \A d \in done' : d.end.duration \in (-MaxLag) .. (clock + MaxLag)
        BY <1>a, FinishedDated DEF Dates
    <2> QED BY <1>a, <2>2, <2>3 DEF Dates, Dated
\* Actions that leave the map and the reports alone or drop a report.
<1>b. ASSUME clock' = clock, arg' = arg, done' \subseteq done,
             \A id \in DOMAIN m' : Dated(m'[id])
      PROVE  Dates'
    BY <1>b DEF Dates, Dated
\* A session opened at a time that has been.
<1>c. ASSUME NEW w, NEW id, NEW now \in (-MaxLag) .. clock, Insert(w, id, now)
      PROVE  \A x \in DOMAIN m' : Dated(m'[x])
    <2>1. Dated(Fresh(now))
        BY <1>0 DEF Dated, Fresh
    <2>2. \A x \in DOMAIN m' : m'[x] = Fresh(now) \/ (x \in DOMAIN m /\ m'[x] = m[x])
        BY <1>c DEF Insert, Opened
    <2> QED BY <2>1, <2>2 DEF Dates
<1>1. CASE Tick
    <2>1. clock' = clock + 1 /\ UNCHANGED <<m, arg, done>>
        BY <1>1 DEF Tick
    <2>2. (-MaxLag) .. clock \subseteq (-MaxLag) .. (clock + 1)
        BY <1>0
    <2>3. \A id \in DOMAIN m : Dated(m[id])'
        BY <2>1, <2>2 DEF Dates, Dated
    <2>4. \A d \in done : d.end.duration \in (-MaxLag) .. (clock + 1 + MaxLag)
        BY <1>0 DEF Dates
    <2> QED BY <2>1, <2>2, <2>3, <2>4 DEF Dates
<1>2. CASE Sweep
    <2>1. Idle(clock) \subseteq DOMAIN m
        BY DEF Idle
    <2> QED BY <1>2, <1>a, <2>1 DEF Sweep, Dates
<1>3. ASSUME NEW w \in Workers, NEW id \in Visitors, NEW now \in Times, Event(w, id, now)
      PROVE  Dates'
    <2>0. now \in (-MaxLag) .. clock /\ clock - MaxLag <= now
        BY <1>0 DEF Times
    \* Both assign the event's time to LastSeen.
    <2>a. ASSUME id \in DOMAIN m, NEW s, s.start = m[id].start, s.last = now,
                 m' = [m EXCEPT ![id] = s], UNCHANGED <<clock, arg, done>>
          PROVE  Dates'
        <3>1. Dated(s)
            BY <1>0, <2>0, <2>a DEF Dates, Dated
        <3>2. DOMAIN m' = DOMAIN m /\ \A x \in DOMAIN m' : m'[x] = IF x = id THEN s ELSE m[x]
            BY <2>a
        <3>3. \A x \in DOMAIN m' : Dated(m'[x])
            BY <3>1, <3>2 DEF Dates
        <3> QED BY <1>b, <2>a, <3>3
    <2>1. CASE TouchLive(w, id, now)
        <3> DEFINE s == [m[id] EXCEPT !.pages = 2, !.last = now]
        <3>1. id \in DOMAIN m /\ m[id] \in Session
            BY <2>1 DEF TouchLive, Live, TypeOK
        <3>2. s.start = m[id].start /\ s.last = now
            BY <3>1 DEF Session
        <3>3. m' = [m EXCEPT ![id] = s] /\ UNCHANGED <<clock, arg, done>>
            BY <2>1 DEF TouchLive
        <3> HIDE DEF s
        <3> QED BY <2>a, <3>1, <3>2, <3>3
    <2>2. CASE TouchNew(w, id, now)
        BY <1>b, <1>c, <2>0, <2>2 DEF TouchNew
    <2>3. CASE TouchExpired(w, id, now)
        <3>1. /\ clock' = clock /\ m' = Without({id}) /\ {id} \subseteq DOMAIN m
              /\ done' = done \cup {Finished(w, x) : x \in {id}}
              /\ arg' = [arg EXCEPT ![w] = [id |-> id, now |-> now]]
            BY <2>3 DEF TouchExpired
        <3>2. \A v \in Workers : arg'[v].now \in (-MaxLag) .. clock
            BY <2>0, <3>1 DEF Dates, TypeOK
        <3> QED BY <1>a, <3>1, <3>2
    <2>4. CASE Extend(w, id, now)
        <3> DEFINE s == [m[id] EXCEPT !.last = now]
        <3>1. id \in DOMAIN m /\ m[id] \in Session
            BY <2>4 DEF Extend, Live, TypeOK
        <3>2. s.start = m[id].start /\ s.last = now
            BY <3>1 DEF Session
        <3>3. m' = [m EXCEPT ![id] = s] /\ UNCHANGED <<clock, arg, done>>
            BY <2>4 DEF Extend
        <3> HIDE DEF s
        <3> QED BY <2>a, <3>1, <3>2, <3>3
    <2> QED BY <1>3, <2>1, <2>2, <2>3, <2>4 DEF Event
<1>4. ASSUME NEW w \in Workers, TouchReopen(w)
      PROVE  Dates'
    <2>1. arg[w].now \in (-MaxLag) .. clock
        BY DEF Dates
    <2>2. Insert(w, arg[w].id, arg[w].now) /\ UNCHANGED <<clock, arg, done>>
        BY <1>4 DEF TouchReopen
    <2>3. \A x \in DOMAIN m' : Dated(m'[x])
        BY <1>c, <2>1, <2>2
    <2> QED BY <1>b, <2>2, <2>3
<1>5. ASSUME NEW w \in Workers, SessionStarted(w)
      PROVE  Dates'
    BY <1>5, <1>b DEF SessionStarted, Dates
<1>6. ASSUME NEW w \in Workers, EvictOldest(w)
      PROVE  Dates'
    <2>1. PICK E \in Victims :
            /\ done' = done \cup {Finished(w, id) : id \in E}
            /\ m' = Without(E)
        BY <1>6 DEF EvictOldest
    <2>2. E \subseteq DOMAIN m
        BY DEF Victims
    <2> QED BY <1>6, <1>a, <2>1, <2>2 DEF EvictOldest, Dates
<1>7. ASSUME NEW a \in Actors, SessionEnded(a)
      PROVE  Dates'
    BY <1>7, <1>b DEF SessionEnded, Dates
<1>8. CASE UNCHANGED vars
    BY <1>8 DEF vars, Dates, Dated
<1> QED
    BY <1>1, <1>2, <1>3, <1>4, <1>5, <1>6, <1>7, <1>8 DEF Next

(***************************************************************************)
(* Late events give no session a duration below minus the lag of one event *)
(* nor above the time that has passed, however many of them a session      *)
(* sees and whoever takes it out of the map.                               *)
(***************************************************************************)
THEOREM DurationsCorrect == Spec => []DurationsBounded
<1>1. Init => Dates
    BY BoundAssumption DEF Init, Dates
<1>2. TypeOK /\ Dates => DurationsBounded
    <2> SUFFICES ASSUME TypeOK, Dates PROVE DurationsBounded
        OBVIOUS
    <2>1. clock \in Nat /\ MaxLag \in Nat
        BY BoundAssumption DEF TypeOK
    <2>2. \A id \in DOMAIN m : m[id].last - m[id].start \in (-MaxLag) .. (clock + MaxLag)
        BY <2>1 DEF Dates, Dated
    <2> QED BY <2>2 DEF DurationsBounded, Dates
<1> QED
    BY <1>1, <1>2, TypeCorrect, DateStep, PTL DEF Spec

-----------------------------------------------------------------------------

\* Induction: a set that holds 0 and is closed under successor holds every
\* natural number, for a least number outside it would have a predecessor.
LEMMA Induction ==
    ASSUME NEW T, 0 \in T, \A n \in Nat : n \in T => n + 1 \in T
    PROVE  Nat \subseteq T
<1> SUFFICES ASSUME Nat \ T # {} PROVE FALSE
    OBVIOUS
<1> DEFINE R == OpToRel(<, Nat)
<1>1. PICK x \in Nat \ T : \A y \in Nat \ T : ~ (<<y, x>> \in R)
    <2>1. Nat \ T \in SUBSET Nat /\ Nat \ T # {}
        OBVIOUS
    <2> QED BY <2>1, WFMin, NatLessThanWellFounded
<1>2. \A y \in Nat \ T : ~(y < x)
    BY <1>1 DEF OpToRel
<1>3. x # 0 /\ x - 1 \in Nat /\ x - 1 + 1 = x /\ x - 1 < x
    OBVIOUS
<1> QED BY <1>2, <1>3

\* f lists the sessions after each of the first n activities.
IsCut(f, a, n) ==
    f = [i \in 0 .. n |-> IF i = 0 THEN <<>> ELSE Apply(f[i - 1], a[i])]

LEMMA CutAt ==
    ASSUME NEW f, NEW a, NEW n \in Nat, IsCut(f, a, n)
    PROVE  /\ f[0] = <<>>
           /\ \A i \in 1 .. n : f[i] = Apply(f[i - 1], a[i])
    BY DEF IsCut

LEMMA CutExists ==
    ASSUME NEW a, NEW n \in Nat
    PROVE  \E f : IsCut(f, a, n)
<1> DEFINE T == {k \in Nat : \E f : IsCut(f, a, k)}
<1>1. 0 \in T
    <2>1. IsCut([i \in 0 .. 0 |-> <<>>], a, 0)
        BY DEF IsCut
    <2> QED BY <2>1
<1>2. ASSUME NEW k \in Nat, k \in T PROVE k + 1 \in T
    <2>1. PICK f : IsCut(f, a, k)
        BY <1>2
    <2> DEFINE g == [i \in 0 .. k + 1 |-> IF i = k + 1 THEN Apply(f[k], a[k + 1]) ELSE f[i]]
    <2>2. /\ \A i \in 0 .. k : g[i] = f[i]
          /\ f[0] = <<>>
          /\ \A i \in 1 .. k : f[i] = Apply(f[i - 1], a[i])
        BY <2>1, CutAt
    <2>3. \A i \in 0 .. k + 1 : g[i] = IF i = 0 THEN <<>> ELSE Apply(g[i - 1], a[i])
        <3> SUFFICES ASSUME NEW i \in 0 .. k + 1
                     PROVE  g[i] = IF i = 0 THEN <<>> ELSE Apply(g[i - 1], a[i])
            OBVIOUS
        <3>1. CASE i = k + 1
            <4>1. g[i] = Apply(f[k], a[k + 1]) /\ g[i - 1] = f[k] /\ i # 0
                BY <2>2, <3>1
            <4> QED BY <3>1, <4>1
        <3>2. CASE i \in 1 .. k
            <4>1. i - 1 \in 0 .. k /\ i \in 0 .. k /\ i # 0
                BY <3>2
            <4>2. g[i - 1] = f[i - 1] /\ g[i] = f[i]
                BY <2>2, <4>1
            <4>3. f[i] = Apply(f[i - 1], a[i])
                BY <2>2, <3>2
            <4> QED BY <4>1, <4>2, <4>3
        <3>3. CASE i = 0
            <4>1. g[0] = f[0]
                BY <2>2
            <4> QED BY <2>2, <3>3, <4>1
        <3> QED BY <3>1, <3>2, <3>3
    <2>4. IsCut(g, a, k + 1)
        BY <2>3 DEF IsCut
    <2> QED BY <2>4
<1>3. Nat \subseteq T
    <2> HIDE DEF T
    <2> QED BY <1>1, <1>2, Induction
<1> QED BY <1>3

\* Two cuts of sequences that agree on their first n activities agree there.
LEMMA CutUnique ==
    ASSUME NEW a, NEW b, NEW n \in Nat, NEW k \in Nat, n <= k, NEW f, NEW g,
           IsCut(f, a, n), IsCut(g, b, k), \A i \in 1 .. n : a[i] = b[i]
    PROVE  f[n] = g[n]
<1> DEFINE T == {i \in Nat : i <= n => f[i] = g[i]}
<1>1. 0 \in T
    BY CutAt
<1>2. ASSUME NEW i \in Nat, i \in T PROVE i + 1 \in T
    <2> SUFFICES ASSUME i + 1 <= n PROVE f[i + 1] = g[i + 1]
        OBVIOUS
    <2>1. i + 1 \in 1 .. n /\ i + 1 \in 1 .. k /\ i + 1 - 1 = i /\ i <= n
        OBVIOUS
    <2>2. f[i + 1] = Apply(f[i], a[i + 1])
        BY <2>1, CutAt
    <2>3. g[i + 1] = Apply(g[i], b[i + 1])
        BY <2>1, CutAt
    <2>4. f[i] = g[i] /\ a[i + 1] = b[i + 1]
        BY <1>2, <2>1
    <2> QED BY <2>2, <2>3, <2>4
<1>3. Nat \subseteq T
    <2> HIDE DEF T
    <2> QED BY <1>1, <1>2, Induction
<1> QED BY <1>3

LEMMA SessionsOfIsCut ==
    ASSUME NEW a, Len(a) \in Nat
    PROVE  \E f : IsCut(f, a, Len(a)) /\ SessionsOf(a) = f[Len(a)]
<1> DEFINE cut == CHOOSE f : IsCut(f, a, Len(a))
<1>1. IsCut(cut, a, Len(a))
    BY CutExists
<1>2. SessionsOf(a) = cut[Len(a)]
    BY DEF SessionsOf, IsCut
<1> QED BY <1>1, <1>2

\* The reference, activity by activity.
LEMMA SessionsOfEmpty == SessionsOf(<<>>) = <<>>
<1>1. Len(<<>>) = 0
    OBVIOUS
<1>2. PICK f : IsCut(f, <<>>, Len(<<>>)) /\ SessionsOf(<<>>) = f[Len(<<>>)]
    BY <1>1, SessionsOfIsCut
<1> QED BY <1>1, <1>2 DEF IsCut

\* A pageview or a ping, as it was applied.
Activity == [kind : {"view", "ping"}, at : Int]

LEMMA SessionsOfAppend ==
    ASSUME NEW a \in Seq(Activity), NEW e \in Activity
    PROVE  SessionsOf(Append(a, e)) = Apply(SessionsOf(a), e)
<1> DEFINE n == Len(a)
           b == Append(a, e)
           k == Len(b)
<1>1. /\ n \in Nat /\ k \in Nat /\ k = n + 1 /\ b[k] = e
      /\ \A i \in 1 .. n : a[i] = b[i]
    OBVIOUS
<1>2. PICK f : IsCut(f, a, n) /\ SessionsOf(a) = f[n]
    BY <1>1, SessionsOfIsCut
<1>3. PICK g : IsCut(g, b, k) /\ SessionsOf(b) = g[k]
    BY <1>1, SessionsOfIsCut
<1> HIDE DEF n, b, k
<1>4. f[n] = g[n]
    BY <1>1, <1>2, <1>3, CutUnique
<1>5. k \in 1 .. k /\ k - 1 = n
    BY <1>1
<1>6. g[k] = Apply(g[k - 1], b[k])
    BY <1>1, <1>3, <1>5, CutAt
<1> QED BY <1>1, <1>2, <1>3, <1>4, <1>5, <1>6 DEF b

\* The session that ended last, if any, ended for having paused.
Paused(v, now) == closed[v] # <<>> => now - Last(closed[v]).last >= TTL

\* A visitor's sessions are the cut of its activity, and one who is absent
\* has been idle for the TTL.
CutOf(v) ==
    /\ log[v] \in Seq(Activity)
    /\ closed[v] \in Seq(Session)
    /\ v \notin DOMAIN m => Paused(v, clock)
    /\ closed[v] \o (IF v \in DOMAIN m THEN <<m[v]>> ELSE <<>>) = SessionsOf(log[v])

\* The inductive invariant: so has been the visitor whose session a worker is
\* about to reopen, at the time the new session will start.
History ==
    /\ TypeOK
    /\ ReopensAbsent
    /\ log = [v \in Visitors |-> log[v]]
    /\ closed = [v \in Visitors |-> closed[v]]
    /\ \A v \in Visitors : CutOf(v)
    /\ \A w \in Workers : pc[w] \in {"close", "insert"} => Paused(arg[w].id, arg[w].now)

LEMMA LastFront ==
    ASSUME NEW S, NEW s \in Seq(S), NEW x \in S
    PROVE  /\ Append(s, x) \in Seq(S)
           /\ Append(s, x) # <<>>
           /\ Last(Append(s, x)) = x
           /\ Front(Append(s, x)) = s
<1>1. Append(s, x) \in Seq(S) /\ Len(Append(s, x)) = Len(s) + 1 /\ Append(s, x)[Len(s) + 1] = x
    OBVIOUS
<1>2. Front(Append(s, x)) = s
    BY <1>1 DEF Front
<1> QED BY <1>1, <1>2 DEF Last

\* The open session comes last, after the closed ones.
LEMMA CutShape ==
    ASSUME TypeOK, NEW v \in Visitors, CutOf(v)
    PROVE  /\ v \in DOMAIN m => m[v] \in Session /\ SessionsOf(log[v]) = Append(closed[v], m[v])
           /\ v \notin DOMAIN m => SessionsOf(log[v]) = closed[v]
<1>1. closed[v] \in Seq(Session) /\ (v \in DOMAIN m => m[v] \in Session)
    BY DEF CutOf, TypeOK
<1>2. SessionsOf(log[v]) = closed[v] \o (IF v \in DOMAIN m THEN <<m[v]>> ELSE <<>>)
    BY DEF CutOf
<1>3. v \in DOMAIN m => closed[v] \o <<m[v]>> = Append(closed[v], m[v])
    BY <1>1, AppendIsConcat
<1>4. closed[v] \o <<>> = closed[v]
    BY <1>1, ConcatEmptySeq
<1> QED BY <1>1, <1>2, <1>3, <1>4

\* A visitor whom a step does not concern stays idle while time passes.
LEMMA VisitorKept ==
    ASSUME TypeOK, NEW v \in Visitors, CutOf(v), clock' \in Int, clock <= clock',
           closed'[v] = closed[v], log'[v] = log[v],
           v \in DOMAIN m' <=> v \in DOMAIN m, v \in DOMAIN m => m'[v] = m[v]
    PROVE  CutOf(v)'
<1>1. closed[v] # <<>> => Last(closed[v]).last \in Int
    <2>1. ASSUME closed[v] # <<>> PROVE Last(closed[v]) \in Session
        BY <2>1 DEF CutOf, Last
    <2> QED BY <2>1 DEF Session
<1>2. v \notin DOMAIN m' => Paused(v, clock)'
    BY <1>1, BoundAssumption DEF CutOf, Paused, TypeOK
<1> QED BY <1>2 DEF CutOf

\* A session idle for the TTL is taken out of the map.
LEMMA VisitorCloses ==
    ASSUME TypeOK, NEW v \in Visitors, CutOf(v), clock' = clock,
           v \in DOMAIN m, v \notin DOMAIN m', clock - m[v].last >= TTL,
           closed'[v] = Append(closed[v], m[v]), log'[v] = log[v]
    PROVE  CutOf(v)'
<1>1. m[v] \in Session /\ SessionsOf(log[v]) = Append(closed[v], m[v]) /\ closed[v] \in Seq(Session)
    BY CutShape DEF CutOf
<1>2. closed'[v] \in Seq(Session) /\ Last(closed'[v]) = m[v]
    BY <1>1, LastFront
<1>3. closed'[v] \o <<>> = closed'[v]
    BY <1>2, ConcatEmptySeq
<1> QED BY <1>1, <1>2, <1>3 DEF CutOf, Paused

\* A pageview opens a session for an absent visitor after a pause.
LEMMA VisitorStarts ==
    ASSUME TypeOK, NEW v \in Visitors, CutOf(v), NEW now \in Int,
           v \notin DOMAIN m, v \in DOMAIN m', m'[v] = Fresh(now), Paused(v, now),
           closed'[v] = closed[v], log'[v] = Append(log[v], [kind |-> "view", at |-> now])
    PROVE  CutOf(v)'
<1> DEFINE e == [kind |-> "view", at |-> now]
<1>1. SessionsOf(log[v]) = closed[v] /\ closed[v] \in Seq(Session) /\ log[v] \in Seq(Activity)
    BY CutShape DEF CutOf
<1>2. e \in Activity /\ e.at = now /\ e.kind = "view" /\ Fresh(now) \in Session
    BY DEF Activity, Fresh, Session
<1> HIDE DEF e
<1>3. log'[v] \in Seq(Activity) /\ SessionsOf(log'[v]) = Apply(closed[v], e)
    BY <1>1, <1>2, SessionsOfAppend DEF e
<1>4. ~(closed[v] # <<>> /\ now - Last(closed[v]).last < TTL)
    <2>1. ASSUME closed[v] # <<>> PROVE Last(closed[v]).last \in Int
        <3>1. Last(closed[v]) \in Session
            BY <1>1, <2>1 DEF Last
        <3> QED BY <3>1 DEF Session
    <2> QED BY <2>1, BoundAssumption DEF Paused
<1>5. Apply(closed[v], e) = Append(closed[v], Fresh(now))
    BY <1>2, <1>4 DEF Apply
<1>6. closed[v] \o <<Fresh(now)>> = Append(closed[v], Fresh(now))
    BY <1>1, <1>2, AppendIsConcat
<1> QED BY <1>1, <1>3, <1>5, <1>6 DEF CutOf

\* A pageview or a ping joins the open session.
LEMMA VisitorJoins ==
    ASSUME TypeOK, NEW v \in Visitors, CutOf(v), NEW e \in Activity,
           v \in DOMAIN m, v \in DOMAIN m', e.at - m[v].last < TTL,
           m'[v] = [m[v] EXCEPT !.last = e.at, !.pages = IF e.kind = "view" THEN 2 ELSE @],
           closed'[v] = closed[v], log'[v] = Append(log[v], e)
    PROVE  CutOf(v)'
<1>1. /\ m[v] \in Session /\ SessionsOf(log[v]) = Append(closed[v], m[v])
      /\ closed[v] \in Seq(Session) /\ log[v] \in Seq(Activity)
    BY CutShape DEF CutOf
<1>2. m'[v] \in Session
    BY <1>1 DEF Session, Activity
<1>3. log'[v] \in Seq(Activity) /\ SessionsOf(log'[v]) = Apply(Append(closed[v], m[v]), e)
    <2>1. SessionsOf(Append(log[v], e)) = Apply(SessionsOf(log[v]), e)
        BY <1>1, SessionsOfAppend
    <2> QED BY <1>1, <2>1
<1>4. /\ Append(closed[v], m[v]) # <<>>
      /\ Last(Append(closed[v], m[v])) = m[v]
      /\ Front(Append(closed[v], m[v])) = closed[v]
    BY <1>1, LastFront
<1>5. Apply(Append(closed[v], m[v]), e) = Append(closed[v], m'[v])
    BY <1>4 DEF Apply
<1>6. closed[v] \o <<m'[v]>> = Append(closed[v], m'[v])
    BY <1>1, <1>2, AppendIsConcat
<1> QED BY <1>1, <1>3, <1>5, <1>6 DEF CutOf

-----------------------------------------------------------------------------

\* The history variables only watch: every step is one of the session map's.
LEMMA HistoryWatches == [HNext]_hvars => [Next]_vars
    BY DEF HNext, HEvent, HReopen, Next, Event, hvars

\* Where nothing leaves the map, nothing is closed.
LEMMA NothingCloses ==
    ASSUME History, ClosedNow, DOMAIN m \subseteq DOMAIN m'
    PROVE  closed' = closed
    BY DEF ClosedNow, History

LEMMA HistoryStep ==
    ASSUME NEW w0, Workers = {w0}, MaxLag = 0, History, [HNext]_hvars
    PROVE  History'
<1> USE ActorAssumption, BoundAssumption
<1>0. /\ TypeOK /\ TypeOK' /\ ReopensAbsent'
      /\ w0 \in Workers /\ w0 # Sweeper /\ clock \in Nat
    <2>1. TypeOK'
        BY HistoryWatches, TypeStep DEF History
    <2> QED BY <2>1, HistoryWatches, ReopenStep DEF History, TypeOK
<1>v. \A v \in Visitors : CutOf(v)
    BY DEF History
\* What there is to show of a step, visitor by visitor.
<1>a. ASSUME log' = [v \in Visitors |-> log'[v]], closed' = [v \in Visitors |-> closed'[v]],
             \A v \in Visitors : CutOf(v)',
             pc'[w0] \in {"close", "insert"} => Paused(arg[w0].id, arg[w0].now)'
      PROVE  History'
    BY <1>0, <1>a DEF History
\* Steps that leave the map, the logs and the worker's place alone.
<1>b. ASSUME UNCHANGED <<m, log, arg>>, ClosedNow \/ closed' = closed, clock' \in Int, clock <= clock',
             pc'[w0] \in {"close", "insert"} => pc[w0] \in {"close", "insert"}
      PROVE  History'
    <2>1. closed' = closed
        BY <1>b, NothingCloses
    <2>2. \A v \in Visitors : CutOf(v)'
        BY <1>0, <1>b, <1>v, <2>1, VisitorKept
    <2>3. pc'[w0] \in {"close", "insert"} => Paused(arg[w0].id, arg[w0].now)'
        BY <1>0, <1>b, <2>1 DEF History, Paused
    <2> QED BY <1>a, <1>b, <2>1, <2>2, <2>3 DEF History
\* Events that change the session and the log of one visitor.
<1>c. ASSUME NEW id \in Visitors, NEW e, ClosedNow, CutOf(id)', clock' = clock,
             DOMAIN m \subseteq DOMAIN m', DOMAIN m' \subseteq DOMAIN m \cup {id},
             \A v \in DOMAIN m : v # id => m'[v] = m[v],
             log' = [log EXCEPT ![id] = Append(@, e)],
             pc'[w0] \notin {"close", "insert"}
      PROVE  History'
    <2>1. closed' = closed
        BY <1>c, NothingCloses
    <2>2. \A v \in Visitors : v # id => log'[v] = log[v]
        BY <1>c DEF History
    <2>3. ASSUME NEW v \in Visitors, v # id PROVE CutOf(v)'
        BY <1>0, <1>c, <1>v, <2>1, <2>2, <2>3, VisitorKept
    <2>4. log' = [v \in Visitors |-> log'[v]]
        BY <1>c DEF History
    <2> QED BY <1>a, <1>c, <2>1, <2>3, <2>4 DEF History
<1>1. ASSUME NEW w \in Workers, NEW id \in Visitors, NEW now \in Times, HEvent(w, id, now)
      PROVE  History'
    <2>0. now = clock /\ w = w0 /\ ClosedNow /\ now \in Int
        BY <1>0, <1>1 DEF Times, HEvent
    <2>1. CASE TouchLive(w, id, now) /\ Logged(id, "view", now)
        <3> DEFINE e == [kind |-> "view", at |-> now]
        <3>1. id \in DOMAIN m /\ m[id] \in Session /\ now - m[id].last < TTL
            BY <1>0, <2>1 DEF TouchLive, Live, TypeOK
        <3>2. /\ m' = [m EXCEPT ![id] = [@ EXCEPT !.pages = 2, !.last = now]]
              /\ clock' = clock /\ pc' = pc /\ pc[w0] = "idle"
              /\ log' = [log EXCEPT ![id] = Append(@, e)]
            BY <2>0, <2>1 DEF TouchLive, Logged
        <3>3. e \in Activity /\ e.at = now /\ e.kind = "view"
            BY <2>0 DEF Activity
        <3>4. m'[id] = [m[id] EXCEPT !.last = e.at, !.pages = IF e.kind = "view" THEN 2 ELSE @]
            BY <3>1, <3>2 DEF Session
        <3>5. DOMAIN m' = DOMAIN m /\ \A v \in DOMAIN m : v # id => m'[v] = m[v]
            BY <3>2
        <3>6. log'[id] = Append(log[id], e) /\ closed' = closed
            BY <2>0, <3>2, <3>5, NothingCloses DEF History
        <3> HIDE DEF e
        <3>7. CutOf(id)'
            BY <1>0, <1>v, <3>1, <3>3, <3>4, <3>5, <3>6, VisitorJoins
        <3> QED BY <1>c, <2>0, <3>2, <3>5, <3>7
    <2>2. CASE TouchNew(w, id, now) /\ Logged(id, "view", now)
        <3> DEFINE e == [kind |-> "view", at |-> now]
        <3>1. /\ id \notin DOMAIN m /\ DOMAIN m' = DOMAIN m \cup {id} /\ m'[id] = Fresh(now)
              /\ \A v \in DOMAIN m : v # id => m'[v] = m[v]
            BY <2>2 DEF TouchNew, Insert, Opened
        <3>2. clock' = clock /\ pc'[w0] = "opened" /\ log' = [log EXCEPT ![id] = Append(@, e)]
            BY <1>0, <2>0, <2>2 DEF TouchNew, Insert, Logged, TypeOK, Actors
        <3>3. log'[id] = Append(log[id], e) /\ closed' = closed
            BY <2>0, <3>1, <3>2, NothingCloses DEF History
        <3>4. Paused(id, now)
            BY <1>v, <2>0, <3>1 DEF CutOf
        <3>5. CutOf(id)'
            BY <1>0, <1>v, <2>0, <3>1, <3>3, <3>4, VisitorStarts
        <3> QED BY <1>c, <2>0, <3>1, <3>2, <3>5
    <2>3. CASE TouchExpired(w, id, now) /\ UNCHANGED log
        <3>1. /\ id \in DOMAIN m /\ m[id] \in Session /\ clock - m[id].last >= TTL
              /\ clock' = clock /\ arg'[w0] = [id |-> id, now |-> now]
            BY <1>0, <2>0, <2>3 DEF TouchExpired, Live, TypeOK, Session
        <3>2. DOMAIN m' = DOMAIN m \ {id} /\ \A v \in DOMAIN m' : m'[v] = m[v]
            BY <2>3 DEF TouchExpired, Without, Restrict
        <3>3. \A v \in Visitors : closed'[v] = IF v = id THEN Append(closed[v], m[v]) ELSE closed[v]
            BY <2>0, <3>1, <3>2 DEF ClosedNow
        <3>4. CutOf(id)'
            BY <1>0, <1>v, <2>3, <3>1, <3>2, <3>3, VisitorCloses
        <3>5. ASSUME NEW v \in Visitors, v # id PROVE CutOf(v)'
            BY <1>0, <1>v, <2>3, <3>1, <3>2, <3>3, <3>5, VisitorKept
        <3>6. Paused(arg[w0].id, arg[w0].now)'
            <4>1. Paused(id, clock)'
                BY <3>2, <3>4 DEF CutOf
            <4> QED BY <2>0, <3>1, <4>1 DEF Paused
        <3> QED BY <1>a, <2>0, <2>3, <3>4, <3>5, <3>6 DEF History, ClosedNow
    <2>4. CASE Extend(w, id, now) /\ Logged(id, "ping", now)
        <3> DEFINE e == [kind |-> "ping", at |-> now]
        <3>1. id \in DOMAIN m /\ m[id] \in Session /\ now - m[id].last < TTL
            BY <1>0, <2>4 DEF Extend, Live, TypeOK
        <3>2. /\ m' = [m EXCEPT ![id].last = now]
              /\ clock' = clock /\ pc' = pc /\ pc[w0] = "idle"
              /\ log' = [log EXCEPT ![id] = Append(@, e)]
            BY <2>0, <2>4 DEF Extend, Logged
        <3>3. e \in Activity /\ e.at = now /\ e.kind # "view"
            BY <2>0 DEF Activity
        <3>4. m'[id] = [m[id] EXCEPT !.last = e.at, !.pages = IF e.kind = "view" THEN 2 ELSE @]
            BY <3>1, <3>2 DEF Session
        <3>5. DOMAIN m' = DOMAIN m /\ \A v \in DOMAIN m : v # id => m'[v] = m[v]
            BY <3>2
        <3>6. log'[id] = Append(log[id], e) /\ closed' = closed
            BY <2>0, <3>2, <3>5, NothingCloses DEF History
        <3> HIDE DEF e
        <3>7. CutOf(id)'
            BY <1>0, <1>v, <3>1, <3>3, <3>4, <3>5, <3>6, VisitorJoins
        <3> QED BY <1>c, <2>0, <3>2, <3>5, <3>7
    <2> QED BY <1>1, <2>1, <2>2, <2>3, <2>4 DEF HEvent
<1>2. ASSUME NEW w \in Workers, HReopen(w)
      PROVE  History'
    <2>i. PICK id \in Visitors, now \in Int : id = arg[w0].id /\ now = arg[w0].now
        BY <1>0 DEF TypeOK
    <2> DEFINE e == [kind |-> "view", at |-> now]
    <2>0. w = w0 /\ ClosedNow /\ pc[w0] = "insert"
        BY <1>2 DEF HReopen, TouchReopen
    <2>1. /\ id \notin DOMAIN m /\ DOMAIN m' = DOMAIN m \cup {id} /\ m'[id] = Fresh(now)
          /\ \A v \in DOMAIN m : v # id => m'[v] = m[v]
        BY <1>0, <1>2, <2>i, <2>0 DEF HReopen, TouchReopen, Insert, Opened, History, ReopensAbsent
    <2>2. clock' = clock /\ pc'[w0] = "opened" /\ log' = [log EXCEPT ![id] = Append(@, e)]
        BY <1>0, <1>2, <2>i, <2>0 DEF HReopen, TouchReopen, Insert, Logged, TypeOK, Actors
    <2>3. log'[id] = Append(log[id], e) /\ closed' = closed
        BY <2>0, <2>1, <2>2, NothingCloses DEF History
    <2>4. Paused(id, now)
        BY <1>0, <2>i, <2>0 DEF History
    <2>5. CutOf(id)'
        BY <1>0, <1>v, <2>0, <2>1, <2>3, <2>4, VisitorStarts
    <2> QED BY <1>c, <2>0, <2>1, <2>2, <2>5
<1>3. CASE Tick /\ ClosedNow /\ UNCHANGED log
    BY <1>0, <1>3, <1>b DEF Tick
<1>4. CASE Sweep /\ ClosedNow /\ UNCHANGED log
    <2>1. /\ clock' = clock /\ UNCHANGED arg
          /\ DOMAIN m' = DOMAIN m \ Idle(clock) /\ \A v \in DOMAIN m' : m'[v] = m[v]
        BY <1>4 DEF Sweep, Without, Restrict
    <2>2. \A v \in Visitors :
            closed'[v] = IF v \in Idle(clock) THEN Append(closed[v], m[v]) ELSE closed[v]
        BY <1>4, <2>1 DEF ClosedNow, Idle
    <2>3. ASSUME NEW v \in Visitors, v \in Idle(clock) PROVE CutOf(v)'
        <3>1. v \in DOMAIN m /\ v \notin DOMAIN m' /\ clock - m[v].last >= TTL
            BY <2>1, <2>3 DEF Idle
        <3> QED BY <1>0, <1>v, <1>4, <2>1, <2>2, <2>3, <3>1, VisitorCloses
    <2>4. ASSUME NEW v \in Visitors, v \notin Idle(clock) PROVE CutOf(v)'
        BY <1>0, <1>v, <1>4, <2>1, <2>2, <2>4, VisitorKept
    <2>5. pc'[w0] = pc[w0]
        BY <1>0, <1>4 DEF Sweep, TypeOK, Actors
    <2>6. pc[w0] \in {"close", "insert"} => Paused(arg[w0].id, arg[w0].now)'
        <3> SUFFICES ASSUME pc[w0] \in {"close", "insert"} PROVE Paused(arg[w0].id, arg[w0].now)'
            OBVIOUS
        <3>1. arg[w0].id \in Visitors /\ arg[w0].id \notin Idle(clock)
            BY <1>0 DEF History, ReopensAbsent, TypeOK, Idle
        <3>2. closed'[arg[w0].id] = closed[arg[w0].id]
            BY <2>2, <3>1
        <3> QED BY <1>0, <2>1, <3>2 DEF History, Paused
    <2> QED BY <1>a, <1>4, <2>3, <2>4, <2>5, <2>6 DEF History, ClosedNow
<1>5. ASSUME NEW w \in Workers, SessionStarted(w), ClosedNow, UNCHANGED log
      PROVE  History'
    BY <1>0, <1>5, <1>b DEF SessionStarted, TypeOK, Actors
<1>6. ASSUME NEW a \in Actors, SessionEnded(a), ClosedNow, UNCHANGED log
      PROVE  History'
    <2>1. pc'[w0] \in {"close", "insert"} => pc[w0] \in {"close", "insert"}
        BY <1>0, <1>6 DEF SessionEnded, AfterReport, TypeOK, Actors
    <2> QED BY <1>0, <1>6, <1>b, <2>1 DEF SessionEnded
<1>7. CASE UNCHANGED hvars
    BY <1>0, <1>7, <1>b DEF hvars, vars
<1> QED
    BY <1>1, <1>2, <1>3, <1>4, <1>5, <1>6, <1>7 DEF HNext

LEMMA HistoryInit == HInit => History
<1> SUFFICES ASSUME HInit PROVE History
    OBVIOUS
<1>1. TypeOK /\ ReopensAbsent
    BY CountInit DEF HInit, Init, Counting, ReopensAbsent, Actors
<1>2. DOMAIN m = {} /\ \A v \in Visitors : log[v] = <<>> /\ closed[v] = <<>>
    BY DEF HInit, Init
<1>3. <<>> \in Seq(Activity) /\ <<>> \in Seq(Session) /\ <<>> \o <<>> = <<>>
    OBVIOUS
<1>4. \A v \in Visitors : CutOf(v)
    BY <1>2, <1>3, SessionsOfEmpty DEF CutOf, Paused
<1> QED BY <1>1, <1>4 DEF HInit, Init, History, Actors

(***************************************************************************)
(* The sessions of a visitor are its activity cut wherever it pauses for   *)
(* the TTL, for any number of visitors and however long they stay: with    *)
(* one worker and events applied as they come, it makes no difference when *)
(* Sweep runs, nor whether Sweep or the next Touch ends an idle session,   *)
(* nor how long a Touch is held up between its two critical sections.      *)
(***************************************************************************)
THEOREM CutCorrect ==
    ASSUME NEW w0, Workers = {w0}, MaxLag = 0
    PROVE  HSpec => []CutAtPauses
<1>1. HInit => History
    BY HistoryInit
<1>2. History /\ [HNext]_hvars => History'
    BY HistoryStep
<1>3. History => CutAtPauses
    BY DEF History, CutOf, CutAtPauses
<1> QED BY <1>1, <1>2, <1>3, PTL DEF HSpec

\* No worker has found the map over its cap.
NoneOver == \A w \in Workers : ~over[w] /\ pc[w] # "evict"

(***************************************************************************)
(* Where every visitor has room for a session, Touch never reaches         *)
(* evictOldest: leaving it out of HNext leaves nothing out.                *)
(***************************************************************************)
THEOREM NothingToEvict ==
    ASSUME RoomForAll
    PROVE  Spec => []NoneOver
<1> USE ActorAssumption, BoundAssumption
<1>1. Init => NoneOver
    BY DEF Init, NoneOver, Actors
<1>2. TypeOK /\ TypeOK' /\ NoneOver /\ [Next]_vars => NoneOver'
    <2> SUFFICES ASSUME TypeOK, TypeOK', NoneOver, [Next]_vars PROVE NoneOver'
        OBVIOUS
    <2>0. ~(Cardinality(DOMAIN m') > Cap)
        <3>1. DOMAIN m' \subseteq Visitors
            BY DEF TypeOK
        <3>2. Cardinality(DOMAIN m') <= Cardinality(Visitors) /\ Cardinality(DOMAIN m') \in Nat
            BY <3>1, FS_Subset, FS_CardinalityType
        <3>3. Cardinality(Visitors) \in Nat
            BY FS_CardinalityType
        <3> QED BY <3>2, <3>3 DEF RoomForAll
    <2>a. ASSUME NEW w \in Workers, NEW id, NEW now, Insert(w, id, now)
          PROVE  NoneOver'
        BY <2>0, <2>a DEF Insert, NoneOver, TypeOK, Actors
    <2>1. ASSUME NEW w \in Workers, NEW id \in Visitors, NEW now \in Times, Event(w, id, now)
          PROVE  NoneOver'
        BY <2>1, <2>a DEF Event, TouchLive, TouchNew, TouchExpired, Extend, NoneOver, TypeOK, Actors
    <2>2. ASSUME NEW w \in Workers, TouchReopen(w) \/ SessionStarted(w) \/ EvictOldest(w)
          PROVE  NoneOver'
        BY <2>2, <2>a DEF TouchReopen, SessionStarted, EvictOldest, NoneOver, TypeOK, Actors
    <2>3. ASSUME NEW a \in Actors, SessionEnded(a)
          PROVE  NoneOver'
        BY <2>3 DEF SessionEnded, AfterReport, NoneOver, TypeOK, Actors
    <2>4. CASE Tick \/ Sweep \/ UNCHANGED vars
        BY <2>4 DEF Tick, Sweep, vars, NoneOver, TypeOK, Actors
    <2> QED BY <2>1, <2>2, <2>3, <2>4 DEF Next
<1> QED BY <1>1, <1>2, TypeCorrect, PTL DEF Spec

(***************************************************************************)
(* The history variables watch the session map and change nothing of what  *)
(* it does: what holds of the map holds of the watched map.                *)
(***************************************************************************)
THEOREM HistoryImplements == HSpec => FairSpec
<1>1. HInit => Init
    BY DEF HInit
<1> QED BY <1>1, HistoryWatches, PTL DEF HSpec, FairSpec, Spec
=============================================================================
