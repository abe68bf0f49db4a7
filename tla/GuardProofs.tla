----------------------------- MODULE GuardProofs -----------------------------
(***************************************************************************)
(* Proofs about the count-min sketch and the guards, for every sketch size *)
(* and hash function, every set of values and every number of workers.     *)
(***************************************************************************)
EXTENDS Guard, FiniteSetTheorems, TLAPS

\* A non-empty set of naturals has its minimum.
LEMMA MinOfNats ==
    ASSUME NEW S, S \subseteq Nat, S # {}
    PROVE  Min(S) \in S /\ \A y \in S : Min(S) <= y
<1>1. \E x \in S : \A y \in S : ~(<<y, x>> \in OpToRel(<, Nat))
    BY WFMin, NatLessThanWellFounded
<1>2. \A x, y \in Nat : y < x => <<y, x>> \in OpToRel(<, Nat)
    BY Zenon DEF OpToRel
<1>3. \E x \in S : \A y \in S : x <= y
    <2>1. PICK x \in S : \A y \in S : ~(<<y, x>> \in OpToRel(<, Nat))
        BY <1>1
    <2>2. \A y \in S : ~(y < x)
        BY <1>2, <2>1
    <2>3. \A y \in S : x <= y
        BY <2>2
    <2> QED BY <2>3
<1> QED
    BY <1>3 DEF Min

\* The estimate is one of the value's cells and none is smaller.
LEMMA EstimateIsMin ==
    ASSUME NEW cs \in [Rows -> [Columns -> Nat]], NEW v \in Values
    PROVE  /\ Estimate(cs, v) \in Nat
           /\ \A i \in Rows : Estimate(cs, v) <= cs[i][Hash[v][i]]
           /\ \E i \in Rows : Estimate(cs, v) = cs[i][Hash[v][i]]
<1> DEFINE S == {cs[i][Hash[v][i]] : i \in Rows}
<1>1. \A i \in Rows : Hash[v][i] \in Columns
    BY SketchAssumption
<1>2. S \subseteq Nat
    BY <1>1
<1>3. 1 \in Rows
    BY SketchAssumption DEF Rows
<1>4. S # {}
    BY <1>3
<1>5. Min(S) \in S /\ \A y \in S : Min(S) <= y
    <2> HIDE DEF S
    <2> QED BY <1>2, <1>4, MinOfNats
<1> QED
    BY <1>2, <1>5 DEF Estimate

Sketch == [Rows -> [Columns -> Nat]]

\* What an update does to the cells: none shrinks, none grows by more than
\* one, and the value's own cells end above its old estimate.
LEMMA BumpedCells ==
    ASSUME NEW cs \in Sketch, NEW v \in Values
    PROVE  /\ Bumped(cs, v) \in Sketch
           /\ \A i \in Rows, c \in Columns :
                /\ cs[i][c] <= Bumped(cs, v)[i][c]
                /\ Bumped(cs, v)[i][c] <= cs[i][c] + 1
           /\ Estimate(cs, v) # MaxCell =>
                \A i \in Rows : Bumped(cs, v)[i][Hash[v][i]] >= Estimate(cs, v) + 1
<1> DEFINE min == Estimate(cs, v)
<1>1. /\ min \in Nat
      /\ \A i \in Rows : min <= cs[i][Hash[v][i]]
    BY EstimateIsMin DEF Sketch
<1>2. CASE min = MaxCell
    BY <1>1, <1>2 DEF Bumped, Sketch
<1>3. CASE min # MaxCell
    <2> HIDE DEF min
    <2>1. Bumped(cs, v) = [i \in Rows |-> [c \in Columns |->
            IF c = Hash[v][i] /\ cs[i][c] = min THEN min + 1 ELSE cs[i][c]]]
        BY <1>3 DEF Bumped, min
    <2>2. \A i \in Rows, c \in Columns : cs[i][c] \in Nat
        BY DEF Sketch
    <2>3. \A i \in Rows, c \in Columns : Bumped(cs, v)[i][c] =
            IF c = Hash[v][i] /\ cs[i][c] = min THEN min + 1 ELSE cs[i][c]
        BY <2>1
    <2>4. Bumped(cs, v) \in Sketch
        BY <1>1, <2>1, <2>2 DEF Sketch
    <2>5. \A i \in Rows : Hash[v][i] \in Columns
        BY SketchAssumption
    <2>6. \A i \in Rows : Bumped(cs, v)[i][Hash[v][i]] >= min + 1
        BY <1>1, <2>2, <2>3, <2>5
    <2> QED BY <1>1, <2>2, <2>3, <2>4, <2>6 DEF min
<1> QED BY <1>2, <1>3

LEMMA HalvedCells ==
    ASSUME NEW cs \in Sketch
    PROVE  /\ halve(cs) \in Sketch
           /\ \A i \in Rows, c \in Columns : halve(cs)[i][c] = cs[i][c] \div 2
    BY DEF halve, Sketch

\* The sketch and the exact counts right before the increment of add.
LEMMA BeforeTypes ==
    ASSUME cells \in Sketch, aged \in [Values -> Nat]
    PROVE  CellsBefore \in Sketch /\ AgedBefore \in [Values -> Nat]
<1>1. \A n \in Nat : n \div 2 \in Nat
    OBVIOUS
<1> QED
    BY <1>1, HalvedCells DEF CellsBefore, AgedBefore

LEMMA TypeStep == TypeOK /\ [Next]_vars => TypeOK'
<1> SUFFICES ASSUME TypeOK, [Next]_vars PROVE TypeOK'
    OBVIOUS
<1> USE SketchAssumption, GuardAssumption
<1>1. CASE Tick
    BY <1>1 DEF TypeOK, Tick, counter
<1>2. ASSUME NEW w \in Workers, NEW v \in Values, NEW now \in Times, Observe(w, v, now)
      PROVE  TypeOK'
    <2>1. now \in Int /\ 1 \in GuardIds
        BY DEF Times, TypeOK, GuardIds
    <2>2. \A i \in Rows, c \in Columns : hits[i][c] \in Nat
        BY DEF TypeOK
    <2>3. hits' \in [Rows -> [Columns -> Nat]]
        BY <1>2, <2>2 DEF Observe
    <2>4. /\ job' \in [Workers -> [value : Values, now : Int]]
          /\ turn' \in [Workers -> GuardIds \cup {0}] /\ seen' \in [Values -> Nat]
        BY <1>2, <2>1 DEF TypeOK, Observe
    <2>5. UNCHANGED <<clock, cells, adds, aged, admitted, capped, est, resetting>>
        BY <1>2 DEF Observe, counter
    <2> QED BY <2>3, <2>4, <2>5 DEF TypeOK
<1>3. ASSUME NEW w \in Workers, AdmitCount(w)
      PROVE  TypeOK'
    <2>1. job[w].value \in Values /\ cells \in Sketch
        BY DEF TypeOK, Sketch
    <2>2. CellsBefore \in Sketch /\ AgedBefore \in [Values -> Nat]
        BY <2>1, BeforeTypes DEF TypeOK
    <2>3. cells' \in Sketch
        BY <1>3, <2>1, <2>2, BumpedCells DEF AdmitCount, add
    <2>4. Estimate(cells', job[w].value) \in Nat
        BY <2>1, <2>3, EstimateIsMin DEF Sketch
    <2>5. adds' \in Nat /\ aged' \in [Values -> Nat]
        BY <1>3, <2>1, <2>2 DEF AdmitCount, add, TypeOK
    <2> QED BY <1>3, <2>3, <2>4, <2>5 DEF TypeOK, AdmitCount, Sketch
<1>4. ASSUME NEW w \in Workers, AdmitDecide(w)
      PROVE  TypeOK'
    <2>1. /\ turn[w] \in GuardIds /\ job[w].value \in Values /\ job[w].now \in Int
        BY <1>4 DEF AdmitDecide, TypeOK
    <2>2. turn[w] # Len(Guards) => turn[w] + 1 \in GuardIds
        BY <2>1 DEF GuardIds
    <2>3. \A g \in GuardIds : /\ DOMAIN admitted'[g] \subseteq Values
                              /\ admitted'[g] \in [DOMAIN admitted'[g] -> Int]
        <3>1. CASE Earns(w, turn[w])
            <4>1. admitted' = [admitted EXCEPT ![turn[w]] = Put(@, job[w].value, job[w].now)]
                BY <1>4, <3>1 DEF AdmitDecide
            <4> QED BY <2>1, <4>1 DEF TypeOK, Put
        <3>2. CASE ~Earns(w, turn[w])
            BY <1>4, <3>2 DEF AdmitDecide, TypeOK
        <3> QED BY <3>1, <3>2
    <2>4. DOMAIN admitted' = GuardIds /\ capped' \in [GuardIds -> Nat]
        <3>1. CASE Earns(w, turn[w])
            BY <1>4, <3>1 DEF AdmitDecide, TypeOK
        <3>2. CASE ~Earns(w, turn[w])
            <4>1. /\ capped' = [capped EXCEPT ![turn[w]] = @ + 1]
                  /\ admitted' = admitted
                BY <1>4, <3>2 DEF AdmitDecide
            <4> QED BY <2>1, <4>1 DEF TypeOK
        <3> QED BY <3>1, <3>2
    <2>5. turn' \in [Workers -> GuardIds \cup {0}] /\ est' \in [Workers -> Nat]
        BY <1>4, <2>1, <2>2 DEF AdmitDecide, TypeOK
    <2> QED BY <1>4, <2>3, <2>4, <2>5 DEF AdmitDecide, TypeOK, counter
<1>5. ASSUME NEW g \in GuardIds, Decay(g)
      PROVE  TypeOK'
    <2>1. \A h \in GuardIds : /\ DOMAIN admitted'[h] \subseteq Values
                              /\ admitted'[h] \in [DOMAIN admitted'[h] -> Int]
        BY <1>5 DEF Decay, TypeOK, Restrict
    <2>2. resetting' \in BOOLEAN
        BY <1>5 DEF Decay
    <2> QED BY <1>5, <2>1, <2>2 DEF Decay, TypeOK, counter
<1>6. CASE reset
    BY <1>6 DEF reset, TypeOK
<1>7. CASE UNCHANGED vars
    BY <1>7 DEF vars, TypeOK
<1> QED
    BY <1>1, <1>2, <1>3, <1>4, <1>5, <1>6, <1>7 DEF Next

\* Every reachable state is well typed.
THEOREM TypeCorrect == Spec => []TypeOK
<1>1. Init => TypeOK
    <2> SUFFICES ASSUME Init PROVE TypeOK
        OBVIOUS
    <2>1. \A g \in GuardIds : /\ DOMAIN admitted[g] \subseteq Values
                              /\ admitted[g] \in [DOMAIN admitted[g] -> Int]
        BY DEF Init
    <2>2. /\ cells \in [Rows -> [Columns -> Nat]] /\ capped \in [GuardIds -> Nat]
          /\ hits \in [Rows -> [Columns -> Nat]]
        BY DEF Init
    <2>3. job \in [Workers -> [value : Values, now : Int]]
        BY DEF Init
    <2> QED BY <2>1, <2>2, <2>3 DEF Init, TypeOK
<1> QED
    BY <1>1, TypeStep, PTL DEF Spec

-----------------------------------------------------------------------------

\* Only add and reset touch the sketch; add is the work of AdmitCount.
LEMMA SketchSteps ==
    ASSUME [Next]_vars, TypeOK
    PROVE  \/ UNCHANGED counter
           \/ \E v \in Values : add(v)
           \/ /\ cells' = [i \in Rows |-> [c \in Columns |-> 0]]
              /\ aged' = [v \in Values |-> 0]
              /\ adds' = adds
<1>1. ASSUME NEW w \in Workers, AdmitCount(w)
      PROVE  \E v \in Values : add(v)
    <2>1. job[w].value \in Values
        BY DEF TypeOK
    <2> QED BY <1>1, <2>1 DEF AdmitCount
<1> QED
    BY <1>1 DEF Next, vars, counter, Tick, Observe, AdmitDecide, Decay, reset

LEMMA SaturationStep == TypeOK /\ NeverSaturates /\ [Next]_vars => NeverSaturates'
<1> SUFFICES ASSUME TypeOK, NeverSaturates, [Next]_vars PROVE NeverSaturates'
    OBVIOUS
<1> USE SketchAssumption
<1>0. /\ adds \in Nat /\ adds < Epoch /\ Epoch \in Nat \ {0} /\ cells \in Sketch
      /\ \A i \in Rows, c \in Columns : cells[i][c] \in Nat /\ cells[i][c] <= Epoch + adds
    BY DEF TypeOK, NeverSaturates, Epoch, Sketch
<1>1. CASE UNCHANGED counter
    BY <1>1 DEF counter, NeverSaturates
<1>2. ASSUME NEW v \in Values, add(v)
      PROVE  NeverSaturates'
    <2>1. CellsBefore \in Sketch
        BY <1>0, BeforeTypes DEF TypeOK
    <2>2. \A i \in Rows, c \in Columns :
            cells'[i][c] <= CellsBefore[i][c] + 1 /\ CellsBefore[i][c] \in Nat /\ cells'[i][c] \in Nat
        BY <1>2, <2>1, BumpedCells DEF add, Sketch
    <2>3. CASE Ages
        <3>1. adds + 1 = Epoch
            BY <1>0, <2>3 DEF Ages
        <3>2. \A i \in Rows, c \in Columns : CellsBefore[i][c] = cells[i][c] \div 2
            BY <1>0, <2>3, HalvedCells DEF CellsBefore
        <3>3. \A n, e \in Nat : n <= e + e - 1 => n \div 2 <= e - 1
            OBVIOUS
        <3>4. \A i \in Rows, c \in Columns : cells[i][c] \div 2 <= Epoch - 1
            BY <1>0, <3>1, <3>3
        <3> QED BY <1>0, <1>2, <2>2, <2>3, <3>2, <3>4 DEF add, NeverSaturates
    <2>4. CASE ~Ages
        <3>1. adds + 1 < Epoch /\ CellsBefore = cells /\ adds' = adds + 1
            BY <1>0, <1>2, <2>4 DEF Ages, CellsBefore, add
        <3> QED BY <1>0, <2>2, <3>1 DEF NeverSaturates
    <2> QED BY <2>3, <2>4
<1>3. CASE /\ cells' = [i \in Rows |-> [c \in Columns |-> 0]]
           /\ adds' = adds
    BY <1>0, <1>3 DEF NeverSaturates
<1> QED
    BY <1>1, <1>2, <1>3, SketchSteps

(***************************************************************************)
(* No cell ever reaches 2 * Width, hence none saturates.                   *)
(***************************************************************************)
THEOREM SaturationCorrect == Spec => []NeverSaturates
<1>1. Init => NeverSaturates
    BY SketchAssumption DEF Init, NeverSaturates, Epoch
<1> QED
    BY <1>1, TypeCorrect, SaturationStep, PTL DEF Spec

\* So add never takes its saturation branch.
LEMMA NoSaturation ==
    ASSUME TypeOK, NeverSaturates, NEW v \in Values
    PROVE  Estimate(CellsBefore, v) # MaxCell
<1> USE SketchAssumption
<1>0. /\ cells \in Sketch /\ CellsBefore \in Sketch
      /\ \A i \in Rows : Hash[v][i] \in Columns
    BY BeforeTypes DEF TypeOK, Sketch
<1>1. PICK i \in Rows : Estimate(CellsBefore, v) = CellsBefore[i][Hash[v][i]]
    BY <1>0, EstimateIsMin DEF Sketch
<1>2. cells[i][Hash[v][i]] \in Nat /\ cells[i][Hash[v][i]] < MaxCell /\ MaxCell \in Nat
    BY <1>0 DEF NeverSaturates, Epoch, TypeOK
<1>3. \A n, k \in Nat : n < k => n \div 2 < k
    OBVIOUS
<1>4. CellsBefore[i][Hash[v][i]] < MaxCell
    BY <1>0, <1>2, <1>3, HalvedCells DEF CellsBefore
<1> QED
    BY <1>1, <1>2, <1>4

LEMMA UpperBoundStep ==
    TypeOK /\ NeverSaturates /\ UpperBound /\ [Next]_vars => UpperBound'
<1> SUFFICES ASSUME TypeOK, NeverSaturates, UpperBound, [Next]_vars PROVE UpperBound'
    OBVIOUS
<1> USE SketchAssumption
<1>0. /\ cells \in Sketch /\ aged \in [Values -> Nat]
      /\ \A u \in Values, i \in Rows : Hash[u][i] \in Columns
    BY DEF TypeOK, Sketch
<1>1. CASE UNCHANGED counter
    BY <1>1 DEF counter, UpperBound
<1>2. ASSUME NEW v \in Values, add(v)
      PROVE  UpperBound'
    <2>1. CellsBefore \in Sketch /\ AgedBefore \in [Values -> Nat]
        BY <1>0, BeforeTypes
    <2>2. \A u \in Values, i \in Rows : AgedBefore[u] <= CellsBefore[i][Hash[u][i]]
        <3>1. CASE Ages
            <4>1. \A n, k \in Nat : n <= k => n \div 2 <= k \div 2
                OBVIOUS
            <4>2. \A i \in Rows, c \in Columns : CellsBefore[i][c] = cells[i][c] \div 2
                BY <1>0, <3>1, HalvedCells DEF CellsBefore
            <4>3. \A u \in Values : AgedBefore[u] = aged[u] \div 2
                BY <3>1 DEF AgedBefore
            <4>4. \A u \in Values, i \in Rows :
                    aged[u] \in Nat /\ cells[i][Hash[u][i]] \in Nat /\ aged[u] <= cells[i][Hash[u][i]]
                BY <1>0 DEF UpperBound, Sketch
            <4> QED BY <1>0, <4>1, <4>2, <4>3, <4>4
        <3>2. CASE ~Ages
            BY <3>2 DEF CellsBefore, AgedBefore, UpperBound
        <3> QED BY <3>1, <3>2
    <2>3. Estimate(CellsBefore, v) # MaxCell
        BY NoSaturation
    <2>4. /\ \A i \in Rows, c \in Columns :
                CellsBefore[i][c] <= cells'[i][c] /\ cells'[i][c] \in Nat /\ CellsBefore[i][c] \in Nat
          /\ \A i \in Rows : cells'[i][Hash[v][i]] >= Estimate(CellsBefore, v) + 1
        BY <1>2, <2>1, <2>3, BumpedCells DEF add, Sketch
    <2>5. Estimate(CellsBefore, v) \in Nat /\ AgedBefore[v] <= Estimate(CellsBefore, v)
        <3>1. PICK i \in Rows : Estimate(CellsBefore, v) = CellsBefore[i][Hash[v][i]]
            BY <2>1, EstimateIsMin DEF Sketch
        <3> QED BY <1>0, <2>2, <2>4, <3>1
    <2>6. \A u \in Values : aged'[u] = IF u = v THEN AgedBefore[v] + 1 ELSE AgedBefore[u]
        BY <1>2, <2>1 DEF add
    <2> QED BY <1>0, <2>1, <2>2, <2>4, <2>5, <2>6 DEF UpperBound
<1>3. CASE /\ cells' = [i \in Rows |-> [c \in Columns |-> 0]]
           /\ aged' = [v \in Values |-> 0]
    BY <1>0, <1>3 DEF UpperBound
<1> QED
    BY <1>1, <1>2, <1>3, SketchSteps

(***************************************************************************)
(* The sketch never underestimates: whatever workers, decay and ageing do, *)
(* every cell of a value is at least its exact, equally aged count.        *)
(***************************************************************************)
THEOREM UpperBoundCorrect == Spec => []UpperBound
<1>1. Init => UpperBound
    BY SketchAssumption DEF Init, UpperBound
<1> QED
    BY <1>1, TypeCorrect, SaturationCorrect, UpperBoundStep, PTL DEF Spec

-----------------------------------------------------------------------------

LEMMA CapStep == TypeOK /\ WithinCap /\ [Next]_vars => WithinCap'
<1> SUFFICES ASSUME TypeOK, WithinCap, [Next]_vars, NEW h \in GuardIds
             PROVE  Cardinality(DOMAIN admitted'[h]) <= Cap[h]
    BY DEF WithinCap
<1> USE GuardAssumption
<1>0. /\ IsFiniteSet(DOMAIN admitted[h]) /\ Cardinality(DOMAIN admitted[h]) \in Nat
      /\ Cardinality(DOMAIN admitted[h]) <= Cap[h] /\ Cap[h] \in Nat
    BY FS_Subset, FS_CardinalityType DEF TypeOK, WithinCap
<1>1. ASSUME NEW w \in Workers, AdmitDecide(w)
      PROVE  Cardinality(DOMAIN admitted'[h]) <= Cap[h]
    <2> DEFINE v == job[w].value
    <2>1. CASE Earns(w, turn[w]) /\ turn[w] = h
        <3>1. DOMAIN admitted'[h] = DOMAIN admitted[h] \cup {v}
            BY <1>1, <2>1 DEF AdmitDecide, TypeOK, Put
        <3>2. v \in DOMAIN admitted[h] \/ Cardinality(DOMAIN admitted[h]) < Cap[h]
            BY <2>1 DEF Earns
        <3>3. Cardinality(DOMAIN admitted[h] \cup {v}) =
                IF v \in DOMAIN admitted[h] THEN Cardinality(DOMAIN admitted[h])
                ELSE Cardinality(DOMAIN admitted[h]) + 1
            BY <1>0, FS_AddElement
        <3> QED BY <1>0, <3>1, <3>2, <3>3
    <2>2. CASE ~(Earns(w, turn[w]) /\ turn[w] = h)
        <3>1. admitted'[h] = admitted[h]
            BY <1>1, <2>2 DEF AdmitDecide, TypeOK
        <3> QED BY <1>0, <3>1
    <2> QED BY <2>1, <2>2
<1>2. ASSUME NEW g \in GuardIds, Decay(g)
      PROVE  Cardinality(DOMAIN admitted'[h]) <= Cap[h]
    <2>1. DOMAIN admitted'[h] \subseteq DOMAIN admitted[h]
        BY <1>2 DEF Decay, TypeOK, Restrict
    <2> QED BY <1>0, <2>1, FS_Subset, FS_CardinalityType
<1>3. CASE UNCHANGED admitted
    BY <1>0, <1>3
<1> QED
    BY <1>1, <1>2, <1>3 DEF Next, vars, Tick, Observe, AdmitCount, reset

(***************************************************************************)
(* No guard ever holds more values than its cap.                           *)
(***************************************************************************)
THEOREM CapCorrect == Spec => []WithinCap
<1>1. Init => WithinCap
    BY FS_EmptySet, GuardAssumption DEF Init, WithinCap
<1> QED
    BY <1>1, TypeCorrect, CapStep, PTL DEF Spec

-----------------------------------------------------------------------------

\* The worker has still to count its observation for guard g.
Awaits(w, g) == turn[w] # 0 /\ (turn[w] < g \/ (turn[w] = g /\ est[w] = 0))

\* The countings that observations of a cell's values still have ahead.
Owed(i, c) ==
    {x \in Workers \X GuardIds : Awaits(x[1], x[2]) /\ Hash[job[x[1]].value][i] = c}

\* What the sightings of a cell's values are worth.
Worth(i, c) == Len(Guards) * hits[i][c]

\* No cell counts more than its share: an observation adds one for each
\* guard at most, and what the workers have still to add is not there yet.
CellsEarned ==
    \A i \in Rows, c \in Columns :
        cells[i][c] + Cardinality(Owed(i, c)) <= Worth(i, c)

\* Nor does an estimate, however old it is when the guard decides.
EstEarned ==
    \A w \in Workers :
        /\ turn[w] = 0 => est[w] = 0
        /\ \A i \in Rows : est[w] <= Worth(i, Hash[job[w].value][i])

Earning == CellsEarned /\ EstEarned /\ EarnedTogether

LEMMA EarningTypes ==
    ASSUME TypeOK
    PROVE  /\ Len(Guards) \in Nat \ {0} /\ GuardIds = 1 .. Len(Guards)
           /\ \A i \in Rows, c \in Columns :
                /\ cells[i][c] \in Nat /\ hits[i][c] \in Nat /\ Worth(i, c) \in Nat
                /\ IsFiniteSet(Owed(i, c)) /\ Cardinality(Owed(i, c)) \in Nat
           /\ \A w \in Workers : job[w].value \in Values /\ est[w] \in Nat
           /\ \A v \in Values, i \in Rows : Hash[v][i] \in Columns
<1>1. Len(Guards) \in Nat \ {0} /\ GuardIds = 1 .. Len(Guards)
    BY GuardAssumption DEF GuardIds
<1>2. \A i \in Rows, c \in Columns :
        cells[i][c] \in Nat /\ hits[i][c] \in Nat /\ Worth(i, c) \in Nat
    BY <1>1 DEF TypeOK, Worth
<1>3. IsFiniteSet(Workers \X GuardIds)
    <2>1. IsFiniteSet(GuardIds)
        BY <1>1, FS_Interval
    <2> QED BY <2>1, GuardAssumption, FS_Product
<1>4. ASSUME NEW i \in Rows, NEW c \in Columns
      PROVE  IsFiniteSet(Owed(i, c)) /\ Cardinality(Owed(i, c)) \in Nat
    <2>1. Owed(i, c) \subseteq Workers \X GuardIds
        BY DEF Owed
    <2> QED BY <1>3, <2>1, FS_Subset, FS_CardinalityType
<1>5. \A w \in Workers : job[w].value \in Values /\ est[w] \in Nat
    BY DEF TypeOK
<1>6. \A v \in Values, i \in Rows : Hash[v][i] \in Columns
    BY SketchAssumption
<1> QED
    BY <1>1, <1>2, <1>4, <1>5, <1>6

\* Sightings only grow, and with them what they earn.
LEMMA WorthGrows ==
    ASSUME TypeOK, NEW i \in Rows, NEW c \in Columns
    PROVE  /\ hits'[i][c] = hits[i][c] => Worth(i, c)' = Worth(i, c)
           /\ hits'[i][c] = hits[i][c] + 1 => Worth(i, c)' = Worth(i, c) + Len(Guards)
<1> DEFINE G == Len(Guards)
<1>1. G \in Nat /\ hits[i][c] \in Nat
    BY EarningTypes
<1>2. \A n \in Nat : G * (n + 1) = G * n + G
    BY <1>1
<1> QED
    BY <1>1, <1>2 DEF Worth

\* A step that neither observes nor counts nor decides.
LEMMA EarningQuiet ==
    ASSUME TypeOK, TypeOK', Earning, UNCHANGED <<job, turn, est, hits>>,
           \A i \in Rows, c \in Columns : cells'[i][c] <= cells[i][c],
           \A g \in GuardIds : DOMAIN admitted'[g] \subseteq DOMAIN admitted[g]
    PROVE  Earning'
<1>1. \A i \in Rows, c \in Columns : Owed(i, c)' = Owed(i, c)
    BY DEF Owed, Awaits
<1>2. \A i \in Rows, c \in Columns :
        /\ cells'[i][c] \in Nat /\ cells[i][c] \in Nat /\ Cardinality(Owed(i, c)) \in Nat
        /\ Worth(i, c) \in Nat /\ Worth(i, c)' = Worth(i, c)
    BY EarningTypes, WorthGrows DEF TypeOK
<1>3. CellsEarned'
    BY <1>1, <1>2 DEF Earning, CellsEarned
<1>4. EstEarned' /\ EarnedTogether'
    BY DEF Earning, EstEarned, EarnedTogether, Worth
<1> QED
    BY <1>3, <1>4 DEF Earning

LEMMA EarningObserve ==
    ASSUME TypeOK, TypeOK', Earning,
           NEW w \in Workers, NEW v \in Values, NEW now, Observe(w, v, now)
    PROVE  Earning'
<1> DEFINE G == Len(Guards)
<1>0. /\ G \in Nat \ {0} /\ GuardIds = 1 .. G
      /\ \A i \in Rows, c \in Columns :
            /\ cells[i][c] \in Nat /\ Worth(i, c) \in Nat
            /\ IsFiniteSet(Owed(i, c)) /\ Cardinality(Owed(i, c)) \in Nat
      /\ \A u \in Workers : job[u].value \in Values /\ est[u] \in Nat
      /\ \A x \in Values, i \in Rows : Hash[x][i] \in Columns
    BY EarningTypes
<1>1. /\ turn[w] = 0 /\ est' = est /\ cells' = cells /\ admitted' = admitted
      /\ turn' = [turn EXCEPT ![w] = 1]
      /\ job' = [job EXCEPT ![w] = [value |-> v, now |-> now]]
    BY DEF Observe, counter
<1>2. est[w] = 0
    BY <1>1 DEF Earning, EstEarned
<1>3. \A u \in Workers : /\ turn'[u] = IF u = w THEN 1 ELSE turn[u]
                         /\ job'[u].value = IF u = w THEN v ELSE job[u].value
    BY <1>1 DEF TypeOK
<1>4. \A u \in Workers, g \in GuardIds : Awaits(u, g)' <=> u = w \/ Awaits(u, g)
    BY <1>0, <1>1, <1>2, <1>3 DEF Awaits
<1>5. \A i \in Rows, c \in Columns :
        Worth(i, c)' = IF c = Hash[v][i] THEN Worth(i, c) + G ELSE Worth(i, c)
    <2>1. \A i \in Rows, c \in Columns :
            hits'[i][c] = IF c = Hash[v][i] THEN hits[i][c] + 1 ELSE hits[i][c]
        BY DEF Observe
    <2> QED BY <2>1, WorthGrows
<1> HIDE DEF G
<1>6. \A i \in Rows, c \in Columns : Worth(i, c)' \in Nat /\ Worth(i, c) <= Worth(i, c)'
    BY <1>0, <1>5
<1>7. ASSUME NEW i \in Rows, NEW c \in Columns
      PROVE  cells'[i][c] + Cardinality(Owed(i, c)') <= Worth(i, c)'
    <2>0. cells[i][c] + Cardinality(Owed(i, c)) <= Worth(i, c)
        BY DEF Earning, CellsEarned
    <2>1. CASE c = Hash[v][i]
        <3> DEFINE New == {w} \X GuardIds
        <3>1. Owed(i, c)' = Owed(i, c) \cup New
            <4>1. \A x \in Workers \X GuardIds : x \in Owed(i, c)' <=> x \in Owed(i, c) \/ x[1] = w
                BY <1>1, <1>3, <1>4, <2>1 DEF Owed, Awaits
            <4>2. Owed(i, c)' \subseteq Workers \X GuardIds /\ Owed(i, c) \subseteq Workers \X GuardIds
                BY DEF Owed
            <4>3. \A x \in Workers \X GuardIds : x[1] = w <=> x \in New
                OBVIOUS
            <4>4. New \subseteq Workers \X GuardIds
                OBVIOUS
            <4> HIDE DEF New
            <4> QED BY <4>1, <4>2, <4>3, <4>4
        <3>2. IsFiniteSet(New) /\ Cardinality(New) = G
            <4>1. IsFiniteSet(GuardIds) /\ Cardinality(GuardIds) = G
                BY <1>0, FS_Interval
            <4>2. IsFiniteSet({w}) /\ Cardinality({w}) = 1
                BY FS_Singleton
            <4>3. IsFiniteSet(New) /\ Cardinality(New) = 1 * G
                BY <4>1, <4>2, FS_Product
            <4> QED BY <1>0, <4>3
        <3>3. Owed(i, c) \cap New = {}
            BY <1>1 DEF Owed, Awaits
        <3> HIDE DEF New
        <3>4. Cardinality(Owed(i, c) \cup New) = Cardinality(Owed(i, c)) + G
            <4>1. Cardinality(Owed(i, c) \cup New) =
                    Cardinality(Owed(i, c)) + Cardinality(New) - Cardinality(Owed(i, c) \cap New)
                BY <1>0, <3>2, FS_Union
            <4>2. Cardinality(Owed(i, c) \cap New) = 0
                BY <3>3, FS_EmptySet
            <4> QED BY <1>0, <3>2, <4>1, <4>2
        <3> QED BY <1>0, <1>1, <1>5, <2>0, <2>1, <3>1, <3>4
    <2>2. CASE c # Hash[v][i]
        <3>1. Owed(i, c)' = Owed(i, c)
            <4>1. \A x \in Workers \X GuardIds : x \in Owed(i, c)' <=> x \in Owed(i, c)
                BY <1>1, <1>3, <1>4, <2>2 DEF Owed, Awaits
            <4>2. Owed(i, c)' \subseteq Workers \X GuardIds /\ Owed(i, c) \subseteq Workers \X GuardIds
                BY DEF Owed
            <4> QED BY <4>1, <4>2
        <3> QED BY <1>1, <1>5, <2>0, <2>2, <3>1
    <2> QED BY <2>1, <2>2
<1>8. ASSUME NEW u \in Workers, NEW i \in Rows, NEW c \in Columns, c = Hash[job'[u].value][i]
      PROVE  est'[u] <= Worth(i, c)'
    <2>1. CASE u = w
        BY <1>1, <1>2, <1>6, <2>1
    <2>2. CASE u # w
        <3>1. est[u] <= Worth(i, c)
            BY <1>3, <1>8, <2>2 DEF Earning, EstEarned
        <3> QED BY <1>0, <1>1, <1>6, <3>1
    <2> QED BY <2>1, <2>2
<1>9. EstEarned'
    <2>1. \A u \in Workers : turn'[u] = 0 => est'[u] = 0
        BY <1>1, <1>3 DEF Earning, EstEarned
    <2>2. \A u \in Workers, i \in Rows : Hash[job'[u].value][i] \in Columns
        BY <1>0, <1>3
    <2>3. \A u \in Workers, i \in Rows : est'[u] <= Len(Guards) * hits'[i][Hash[job'[u].value][i]]
        BY <1>8, <2>2 DEF Worth
    <2> QED BY <2>1, <2>3 DEF EstEarned, Worth
<1>10. EarnedTogether'
    <2> SUFFICES ASSUME NEW g \in GuardIds, NEW x \in DOMAIN admitted[g], NEW i \in Rows
                 PROVE  Worth(i, Hash[x][i])' >= MinCount
        BY <1>1 DEF EarnedTogether, Worth
    <2>1. Hash[x][i] \in Columns /\ MinCount \in Nat
        BY <1>0, GuardAssumption DEF TypeOK
    <2>2. Worth(i, Hash[x][i]) >= MinCount
        BY DEF Earning, EarnedTogether, Worth
    <2> QED BY <1>0, <1>6, <2>1, <2>2
<1> QED
    BY <1>7, <1>9, <1>10 DEF Earning, CellsEarned

LEMMA EarningCount ==
    ASSUME TypeOK, TypeOK', NeverSaturates, Earning, NEW w \in Workers, AdmitCount(w)
    PROVE  Earning'
<1>0. /\ Len(Guards) \in Nat \ {0} /\ GuardIds = 1 .. Len(Guards)
      /\ \A i \in Rows, c \in Columns :
            /\ cells[i][c] \in Nat /\ Worth(i, c) \in Nat
            /\ IsFiniteSet(Owed(i, c)) /\ Cardinality(Owed(i, c)) \in Nat
      /\ \A u \in Workers : job[u].value \in Values /\ est[u] \in Nat
      /\ \A x \in Values, i \in Rows : Hash[x][i] \in Columns
    BY EarningTypes
<1>v. PICK v \in Values, h \in GuardIds : job[w].value = v /\ turn[w] = h
    BY <1>0 DEF AdmitCount, TypeOK
<1>1. /\ est[w] = 0
      /\ cells' = Bumped(CellsBefore, v)
      /\ UNCHANGED <<job, turn, hits, admitted>>
      /\ \A u \in Workers : est'[u] = IF u = w THEN Estimate(cells', v) ELSE est[u]
    BY <1>v DEF AdmitCount, add, TypeOK
<1>2. CellsBefore \in Sketch /\ cells' \in Sketch
    BY <1>1, BeforeTypes, BumpedCells DEF TypeOK, Sketch
<1>3. \A i \in Rows, c \in Columns :
        CellsBefore[i][c] \in Nat /\ CellsBefore[i][c] <= cells[i][c]
    <2>1. \A n \in Nat : n \div 2 \in Nat /\ n \div 2 <= n
        OBVIOUS
    <2>2. cells \in Sketch
        BY DEF TypeOK, Sketch
    <2> QED BY <1>0, <2>1, <2>2, HalvedCells DEF CellsBefore
<1>4. \A i \in Rows, c \in Columns :
        /\ cells'[i][c] \in Nat
        /\ cells'[i][c] <= cells[i][c] + 1
        /\ c # Hash[v][i] => cells'[i][c] <= cells[i][c]
    <2>1. \A i \in Rows, c \in Columns :
            cells'[i][c] \in Nat /\ cells'[i][c] <= CellsBefore[i][c] + 1
        BY <1>1, <1>2, BumpedCells DEF Sketch
    <2>2. \A i \in Rows, c \in Columns : c # Hash[v][i] => cells'[i][c] = CellsBefore[i][c]
        BY <1>1 DEF Bumped
    <2> QED BY <1>0, <1>3, <2>1, <2>2
<1>5. /\ est'[w] \in Nat /\ est'[w] # 0
      /\ \A i \in Rows : est'[w] <= cells'[i][Hash[v][i]]
    <2>1. Estimate(CellsBefore, v) \in Nat /\ Estimate(CellsBefore, v) # MaxCell
        BY <1>2, NoSaturation, EstimateIsMin DEF Sketch
    <2>2. \A i \in Rows : cells'[i][Hash[v][i]] >= Estimate(CellsBefore, v) + 1
        BY <1>1, <1>2, <2>1, BumpedCells
    <2>3. /\ Estimate(cells', v) \in Nat
          /\ \A i \in Rows : Estimate(cells', v) <= cells'[i][Hash[v][i]]
          /\ \E i \in Rows : Estimate(cells', v) = cells'[i][Hash[v][i]]
        BY <1>2, EstimateIsMin DEF Sketch
    <2>4. Estimate(cells', v) # 0
        BY <2>1, <2>2, <2>3
    <2> QED BY <1>1, <2>3, <2>4
<1>6. \A u \in Workers, g \in GuardIds :
        Awaits(u, g)' <=> Awaits(u, g) /\ ~(u = w /\ g = h)
    <2> SUFFICES ASSUME NEW u \in Workers, NEW g \in GuardIds
                 PROVE  Awaits(u, g)' <=> Awaits(u, g) /\ ~(u = w /\ g = h)
        OBVIOUS
    <2>1. CASE u = w
        BY <1>0, <1>1, <1>v, <1>5, <2>1 DEF Awaits
    <2>2. CASE u # w
        BY <1>1, <2>2 DEF Awaits
    <2> QED BY <2>1, <2>2
<1>7. \A i \in Rows, c \in Columns : Worth(i, c)' = Worth(i, c)
    BY <1>1, WorthGrows
<1>8. ASSUME NEW i \in Rows, NEW c \in Columns
      PROVE  /\ cells'[i][c] + Cardinality(Owed(i, c)') <= Worth(i, c)
             /\ Cardinality(Owed(i, c)') \in Nat
    <2>0. cells[i][c] + Cardinality(Owed(i, c)) <= Worth(i, c)
        BY DEF Earning, CellsEarned
    <2>a. /\ Owed(i, c)' \subseteq Workers \X GuardIds
          /\ Owed(i, c) \subseteq Workers \X GuardIds
          /\ \A x \in Workers \X GuardIds : x = <<w, h>> <=> x[1] = w /\ x[2] = h
        BY DEF Owed
    <2>1. CASE c = Hash[v][i]
        <3>1. \A x \in Workers \X GuardIds :
                x \in Owed(i, c)' <=> x \in Owed(i, c) /\ ~(x[1] = w /\ x[2] = h)
            BY <1>1, <1>6 DEF Owed
        <3>2. Owed(i, c)' = Owed(i, c) \ {<<w, h>>}
            BY <2>a, <3>1
        <3>3. <<w, h>> \in Owed(i, c)
            BY <1>0, <1>1, <1>v, <2>1 DEF Owed, Awaits
        <3>4. Cardinality(Owed(i, c)') = Cardinality(Owed(i, c)) - 1 /\ Cardinality(Owed(i, c)') \in Nat
            BY <1>0, <3>2, <3>3, FS_RemoveElement, FS_CardinalityType
        <3> QED BY <1>0, <1>4, <2>0, <3>4
    <2>2. CASE c # Hash[v][i]
        <3>1. \A x \in Workers \X GuardIds : x \in Owed(i, c)' <=> x \in Owed(i, c)
            BY <1>1, <1>v, <1>6, <2>2 DEF Owed
        <3>2. Owed(i, c)' = Owed(i, c)
            BY <2>a, <3>1
        <3> QED BY <1>0, <1>4, <2>0, <2>2, <3>2
    <2> QED BY <2>1, <2>2
<1>9. \A i \in Rows : est'[w] <= Worth(i, Hash[v][i])
    <2> SUFFICES ASSUME NEW i \in Rows PROVE est'[w] <= Worth(i, Hash[v][i])
        OBVIOUS
    <2>1. PICK c \in Columns : c = Hash[v][i]
        BY <1>0
    <2>2. cells'[i][c] \in Nat /\ est'[w] <= cells'[i][c] /\ Worth(i, c) \in Nat
        BY <1>0, <1>4, <1>5, <2>1
    <2> QED BY <1>5, <1>8, <2>1, <2>2
<1>10. EstEarned'
    <2>1. \A u \in Workers : turn'[u] = 0 => est'[u] = 0
        BY <1>0, <1>v, <1>1 DEF Earning, EstEarned
    <2>2. \A u \in Workers, i \in Rows : est'[u] <= Worth(i, Hash[job[u].value][i])
        BY <1>v, <1>1, <1>9 DEF Earning, EstEarned
    <2> QED BY <1>1, <2>1, <2>2 DEF EstEarned, Worth
<1>11. EarnedTogether'
    BY <1>1 DEF Earning, EarnedTogether
<1>12. CellsEarned'
    BY <1>7, <1>8 DEF CellsEarned
<1> QED
    BY <1>10, <1>11, <1>12 DEF Earning

LEMMA EarningDecide ==
    ASSUME TypeOK, TypeOK', Earning, NEW w \in Workers, AdmitDecide(w)
    PROVE  Earning'
<1> DEFINE G == Len(Guards)
<1>0. /\ G \in Nat \ {0} /\ GuardIds = 1 .. G
      /\ \A i \in Rows, c \in Columns : Worth(i, c) \in Nat
      /\ \A u \in Workers : job[u].value \in Values /\ est[u] \in Nat
      /\ \A x \in Values, i \in Rows : Hash[x][i] \in Columns
    BY EarningTypes
<1>v. PICK v \in Values, h \in GuardIds : job[w].value = v /\ turn[w] = h
    BY <1>0 DEF AdmitDecide, TypeOK
<1>1. /\ est[w] # 0
      /\ UNCHANGED <<cells, job, hits>>
      /\ \A u \in Workers :
            /\ est'[u] = IF u = w THEN 0 ELSE est[u]
            /\ turn'[u] = IF u = w THEN (IF h = G THEN 0 ELSE h + 1) ELSE turn[u]
    BY <1>v DEF AdmitDecide, counter, TypeOK
<1>2. \A u \in Workers, g \in GuardIds : Awaits(u, g)' <=> Awaits(u, g)
    <2> SUFFICES ASSUME NEW u \in Workers, NEW g \in GuardIds
                 PROVE  Awaits(u, g)' <=> Awaits(u, g)
        OBVIOUS
    <2> HIDE DEF G
    <2>1. CASE u = w
        BY <1>0, <1>v, <1>1, <2>1 DEF Awaits
    <2>2. CASE u # w
        BY <1>1, <2>2 DEF Awaits
    <2> QED BY <2>1, <2>2
<1>3. \A i \in Rows, c \in Columns : Owed(i, c)' = Owed(i, c)
    BY <1>1, <1>2 DEF Owed
<1>4. CellsEarned'
    BY <1>1, <1>3 DEF Earning, CellsEarned, Worth
<1>5. EstEarned'
    <2> SUFFICES ASSUME NEW u \in Workers
                 PROVE  /\ turn'[u] = 0 => est'[u] = 0
                        /\ \A i \in Rows : est'[u] <= Worth(i, Hash[job[u].value][i])
        BY <1>1 DEF EstEarned, Worth
    <2>1. CASE u = w
        BY <1>0, <1>1, <2>1
    <2>2. CASE u # w
        BY <1>1, <2>2 DEF Earning, EstEarned
    <2> QED BY <2>1, <2>2
<1>6. EarnedTogether'
    <2> SUFFICES ASSUME NEW g \in GuardIds, NEW x \in DOMAIN admitted'[g], NEW i \in Rows
                 PROVE  Worth(i, Hash[x][i]) >= MinCount
        BY <1>1 DEF EarnedTogether, Worth
    <2>1. CASE x \in DOMAIN admitted[g]
        BY <2>1 DEF Earning, EarnedTogether, Worth
    <2>2. CASE x \notin DOMAIN admitted[g]
        <3>1. Earns(w, h)
            BY <1>v, <2>2 DEF AdmitDecide
        <3>2. admitted' = [admitted EXCEPT ![h] = Put(@, v, job[w].now)]
            BY <1>v, <3>1 DEF AdmitDecide
        <3>3. g = h /\ x = v
            BY <2>2, <3>2 DEF Put, TypeOK
        <3>4. est[w] >= MinCount
            BY <1>v, <2>2, <3>1, <3>3 DEF Earns
        <3>5. est[w] <= Worth(i, Hash[v][i])
            BY <1>v DEF Earning, EstEarned
        <3>6. MinCount \in Nat /\ Worth(i, Hash[v][i]) \in Nat
            BY <1>0, GuardAssumption
        <3> QED BY <1>0, <3>3, <3>4, <3>5, <3>6
    <2> QED BY <2>1, <2>2
<1> QED
    BY <1>4, <1>5, <1>6 DEF Earning

LEMMA EarningStep == TypeOK /\ TypeOK' /\ NeverSaturates /\ Earning /\ [Next]_vars => Earning'
<1> SUFFICES ASSUME TypeOK, TypeOK', NeverSaturates, Earning, [Next]_vars PROVE Earning'
    OBVIOUS
<1>0. \A i \in Rows, c \in Columns : cells[i][c] \in Nat
    BY EarningTypes
<1>1. CASE Tick \/ UNCHANGED vars
    <2>1. UNCHANGED <<job, turn, est, hits, cells, admitted>>
        BY <1>1 DEF Tick, counter, vars
    <2> QED BY <1>0, <2>1, EarningQuiet
<1>2. ASSUME NEW w \in Workers, NEW v \in Values, NEW now \in Times, Observe(w, v, now)
      PROVE  Earning'
    BY <1>2, EarningObserve
<1>3. ASSUME NEW w \in Workers, AdmitCount(w)
      PROVE  Earning'
    BY <1>3, EarningCount
<1>4. ASSUME NEW w \in Workers, AdmitDecide(w)
      PROVE  Earning'
    BY <1>4, EarningDecide
<1>5. ASSUME NEW g \in GuardIds, Decay(g)
      PROVE  Earning'
    <2>1. \A k \in GuardIds : DOMAIN admitted'[k] \subseteq DOMAIN admitted[k]
        BY <1>5 DEF Decay, TypeOK, Restrict
    <2>2. UNCHANGED <<job, turn, est, hits, cells>>
        BY <1>5 DEF Decay, counter
    <2> QED BY <1>0, <2>1, <2>2, EarningQuiet
<1>6. CASE reset
    <2>1. UNCHANGED <<job, turn, est, hits, admitted>>
        BY <1>6 DEF reset
    <2>2. \A i \in Rows, c \in Columns : cells'[i][c] <= cells[i][c]
        BY <1>0, <1>6 DEF reset
    <2> QED BY <2>1, <2>2, EarningQuiet
<1> QED
    BY <1>1, <1>2, <1>3, <1>4, <1>5, <1>6 DEF Next

(***************************************************************************)
(* Whatever collides, however many guards share the counter and however    *)
(* workers, ageing and resets fall between a count and its decision, no    *)
(* value is admitted before the values of each of its cells were seen      *)
(* MinCount times, each sighting counted once per guard.                   *)
(***************************************************************************)
THEOREM EarnedCorrect == Spec => []EarnedTogether
<1>1. Init => Earning
    <2> SUFFICES ASSUME Init PROVE Earning
        OBVIOUS
    <2>1. \A w \in Workers : turn[w] = 0 /\ est[w] = 0
        BY DEF Init
    <2>2. \A i, c : Owed(i, c) = {}
        BY <2>1 DEF Owed, Awaits
    <2>3. \A i \in Rows, c \in Columns : cells[i][c] = 0 /\ Worth(i, c) = 0
        <3>1. Len(Guards) * 0 = 0
            BY GuardAssumption
        <3>2. \A i \in Rows, c \in Columns : cells[i][c] = 0 /\ hits[i][c] = 0
            BY DEF Init
        <3> QED BY <3>1, <3>2 DEF Worth
    <2>4. CellsEarned
        <3>1. Cardinality({}) = 0
            BY FS_EmptySet
        <3> QED BY <2>2, <2>3, <3>1 DEF CellsEarned
    <2>5. EstEarned
        <3>1. \A w \in Workers, i \in Rows : Hash[job[w].value][i] \in Columns
            BY SketchAssumption DEF Init
        <3> QED BY <2>1, <2>3, <3>1 DEF EstEarned
    <2>6. EarnedTogether
        BY DEF Init, EarnedTogether
    <2> QED BY <2>4, <2>5, <2>6 DEF Earning
<1>2. Earning => EarnedTogether
    BY DEF Earning
<1> QED
    BY <1>1, <1>2, TypeCorrect, SaturationCorrect, EarningStep, PTL DEF Spec
==============================================================================
