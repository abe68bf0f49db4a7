--------------------------- MODULE RegistryProofs ---------------------------
(***************************************************************************)
(* The series of the registry are bounded by its guards, for any number of *)
(* workers, paths, values and visitors and any configs, caps and times, as *)
(* long as an event is through within half of DecayAfter.                  *)
(***************************************************************************)
EXTENDS Registry, TLAPS

\* The hypothesis on time: half of DecayAfter is more than an event takes.
Prompt == 2 * MaxDelay <= DecayAfter

-----------------------------------------------------------------------------

(***************************************************************************)
(* Types, part by part, with what TypeOK leaves open: the shape of the     *)
(* partial functions, of the series and of a worker's locals.              *)
(***************************************************************************)
Families == PathFamilies \cup Dims
PathLabels == Paths \cup {Other}
SeriesSet == [fam : Families, path : Paths \cup {Other, All}, value : Values \cup {Other, NoValue}]
Deletions == [fam : Families, label : {"path", "value"}, of : Paths \cup Values]
Cells == Dims \X (Paths \cup {Other, All}) \X (Values \cup {Other, NoValue})

Stages == {"idle", "pure", "cross", "view", "touch", "reopen", "entry", "unique", "sketch",
           "dims", "value", "cell", "extend", "peek", "spent"}

AdmittedOK ==
    /\ admitted = [g \in GuardIds |-> admitted[g]]
    /\ \A g \in GuardIds : \A v \in DOMAIN admitted[g] :
        v \in Paths \cup Values /\ admitted[g][v] \in Int

SessOK ==
    /\ DOMAIN sess \subseteq Visitors
    /\ sess = [id \in DOMAIN sess |-> sess[id]]
    /\ \A id \in DOMAIN sess : sess[id] \in [exit : PathLabels, last : Int]

SeriesOK == series \subseteq SeriesSet

WorkerOK ==
    /\ pc \in [Workers -> Stages]
    /\ job \in [Workers -> Observations \cup {NoJob}]
    /\ pure \in [Workers -> PathLabels]
    /\ cross \in [Workers -> PathLabels]
    /\ left \in [Workers -> SUBSET Dims]
    /\ val \in [Workers -> Cells \cup {NoCell}]
    /\ \A w \in Workers : pc[w] # "idle" => job[w] \in Observations
    /\ \A w \in Workers : pc[w] \in {"value", "cell"} =>
        val[w] \in Cells /\ val[w][2] \in {All, cross[w]}

EndingOK == ending \in [Actors -> SUBSET PathLabels]

MaintainOK ==
    /\ clock \in Nat
    /\ stage \in 0 .. Len(GuardOrder)
    /\ mnow \in 0 .. clock
    /\ doomed \subseteq Deletions

Typed == AdmittedOK /\ SessOK /\ SeriesOK /\ WorkerOK /\ EndingOK /\ MaintainOK

(***************************************************************************)
(* Why no label outlives its admission.                                    *)
(***************************************************************************)

\* An event is through within MaxDelay.
Timely ==
    \A w \in Workers : pc[w] # "idle" => job[w].at <= clock /\ clock - job[w].at <= MaxDelay

\* A label v that worker w got from guard g is still in, and was seen not
\* longer than MaxDelay before w's event: whoever admitted it again since had
\* an event that was not older than that.  Maintain is no danger to it, if
\* events are prompt.
InHand(g, v, w) ==
    Prompt /\ v # Other => v \in DOMAIN admitted[g] /\ admitted[g][v] >= job[w].at - MaxDelay

\* Where a worker has a label in hand from the path, the cross and the value
\* guard.
PureStages == {"cross", "view", "touch", "reopen", "entry"}
CrossStages == {"view", "touch", "reopen", "entry", "unique", "sketch", "dims", "value", "cell"}

Hold(w) ==
    /\ pc[w] \in PureStages => InHand("pure", pure[w], w)
    /\ pc[w] \in CrossStages => InHand("cross", cross[w], w)
    /\ pc[w] = "cell" => InHand(val[w][1], val[w][3], w)

LabelsInHand == \A w \in Workers : Hold(w)

Bounded == Prompt => SeriesBacked

IInv == Typed /\ Timely /\ LabelsInHand /\ Bounded

\* A guard goes by a time that lies MaxDelay before the latest sighting at
\* most.
Recent ==
    /\ seen = [g \in GuardIds |-> seen[g]]
    /\ \A g \in GuardIds : DOMAIN seen[g] = DOMAIN admitted[g]
    /\ \A g \in GuardIds : \A v \in DOMAIN admitted[g] :
        /\ seen[g][v] \in Int /\ seen[g][v] <= clock
        /\ admitted[g][v] >= seen[g][v] - MaxDelay

-----------------------------------------------------------------------------

\* The names of guards and families do not clash.
LEMMA Names ==
    /\ Dims \subseteq {"country", "event"}
    /\ Dims \subseteq GuardIds
    /\ {"pure", "cross"} \subseteq GuardIds
    /\ \A i \in 1 .. Len(GuardOrder) : GuardOrder[i] \in GuardIds
    /\ Len(GuardOrder) \in Nat
<1>1. DimOrder \in Seq({"country", "event"})
  BY RegistryAssumption
<1>2. Dims \subseteq {"country", "event"}
  BY <1>1 DEF Dims
<1>3. Len(GuardOrder) = 2 + Len(DimOrder)
  BY <1>1 DEF GuardOrder
<1>4. ASSUME NEW i \in 1 .. Len(GuardOrder) PROVE GuardOrder[i] \in GuardIds
  <2>1. CASE i \in 1 .. 2
    BY <1>1, <2>1 DEF GuardOrder, GuardIds
  <2>2. CASE i \notin 1 .. 2
    <3>1. i - 2 \in 1 .. Len(DimOrder) /\ GuardOrder[i] = DimOrder[i - 2]
      BY <1>1, <1>3, <2>2 DEF GuardOrder
    <3> QED
      BY <1>1, <3>1 DEF Dims, GuardIds
  <2> QED
    BY <2>1, <2>2
<1> QED
  BY <1>1, <1>2, <1>3, <1>4 DEF GuardIds

LEMMA NoClash ==
    /\ Other \in Sentinels /\ All \in Sentinels /\ NoValue \in Sentinels
    /\ \A v \in Paths \cup Values : v \notin Sentinels
BY RegistryAssumption DEF Sentinels

LEMMA TypedTypeOK == Typed => TypeOK
<1> SUFFICES ASSUME Typed PROVE TypeOK
  OBVIOUS
<1> USE DEF Typed
<1>1. \A s \in series :
        /\ s.fam \in PathFamilies \cup Dims
        /\ s.path \in Paths \cup {Other, All}
        /\ s.value \in Values \cup {Other, NoValue}
  BY DEF SeriesOK, SeriesSet, Families
<1> QED
  BY <1>1 DEF TypeOK, AdmittedOK, SessOK, WorkerOK, EndingOK, MaintainOK, PathLabels,
              Deletions, Families

-----------------------------------------------------------------------------

(***************************************************************************)
(* What a call of Guard.Admit with time at does to the guards: values stay *)
(* in, and the only new time is at.                                        *)
(***************************************************************************)
Grows(at) ==
    \A g \in GuardIds : \A x \in DOMAIN admitted[g] :
        x \in DOMAIN admitted'[g] /\ admitted'[g][x] \in {admitted[g][x], at}

LEMMA AdmitFacts ==
    ASSUME AdmittedOK, NEW g \in GuardIds, NEW v \in Paths \cup Values, NEW at \in Int,
           NEW l, Admit(g, v, at, l)
    PROVE  /\ AdmittedOK'
           /\ Grows(at)
           /\ l \in {v, Other}
           /\ l # Other => v \in DOMAIN admitted'[g] /\ admitted'[g][v] = at
<1>1. CASE l = v /\ admitted' = [admitted EXCEPT ![g] = Put(@, v, at)]
  <2> DEFINE f == Put(admitted[g], v, at)
  <2>1. /\ DOMAIN f = DOMAIN admitted[g] \cup {v}
        /\ f[v] = at
        /\ \A x \in DOMAIN admitted[g] : f[x] \in {admitted[g][x], at}
        /\ \A x \in DOMAIN f : x \in Paths \cup Values /\ f[x] \in Int
    BY DEF Put, AdmittedOK
  <2>2. admitted' = [h \in GuardIds |-> IF h = g THEN f ELSE admitted[h]]
    BY <1>1 DEF AdmittedOK
  <2> HIDE DEF f
  <2>3. AdmittedOK'
    BY <2>1, <2>2 DEF AdmittedOK
  <2>4. Grows(at)
    BY <2>1, <2>2 DEF Grows
  <2> QED
    BY <1>1, <2>1, <2>2, <2>3, <2>4
<1>2. CASE l = Other /\ UNCHANGED admitted
  BY <1>2 DEF AdmittedOK, Grows
<1> QED
  BY <1>1, <1>2 DEF Admit

LEMMA SameGuards ==
    ASSUME UNCHANGED admitted, NEW at
    PROVE  Grows(at)
BY DEF Grows

(***************************************************************************)
(* Bounded, when the guards only grow and when a series is counted.        *)
(***************************************************************************)
LEMMA BackedGrows ==
    ASSUME Bounded, NEW at, Grows(at), UNCHANGED doomed, series' \subseteq series
    PROVE  Bounded'
BY Names DEF Bounded, SeriesBacked, ViewsBacked, CellsBacked, UniquesBacked, Backed, Grows

LEMMA CountBacked ==
    ASSUME Bounded, UNCHANGED <<admitted, doomed>>, NEW s, Count(s),
           Prompt /\ s.fam \in {"views", "entries"} => Backed(s, "path", "pure"),
           Prompt /\ s.fam \in Dims => Backed(s, "path", "cross") /\ Backed(s, "value", s.fam),
           Prompt /\ s.fam = "uniques" => Backed(s, "path", "cross")
    PROVE  Bounded'
<1> SUFFICES ASSUME Prompt PROVE SeriesBacked'
  BY DEF Bounded, Prompt
<1> USE DEF Bounded
<1>1. series' \subseteq series \cup {s}
  BY DEF Count
<1>2. \A t \in series' : t.fam \in {"views", "entries"} => Backed(t, "path", "pure")
  BY <1>1 DEF SeriesBacked, ViewsBacked
<1>3. \A t \in series' : t.fam \in Dims => Backed(t, "path", "cross") /\ Backed(t, "value", t.fam)
  BY <1>1 DEF SeriesBacked, CellsBacked
<1>4. \A t \in series' : t.fam = "uniques" => Backed(t, "path", "cross")
  BY <1>1 DEF SeriesBacked, UniquesBacked
<1> QED
  BY <1>2, <1>3, <1>4 DEF SeriesBacked, ViewsBacked, CellsBacked, UniquesBacked, Backed

LEMMA CountTyped ==
    ASSUME SeriesOK, NEW s \in SeriesSet, Count(s)
    PROVE  SeriesOK'
BY DEF SeriesOK, Count

LEMMA SeriesType ==
    ASSUME NEW f \in Families, NEW p \in Paths \cup {Other, All},
           NEW v \in Values \cup {Other, NoValue}
    PROVE  /\ Series(f, p, v) \in SeriesSet
           /\ Series(f, p, v).fam = f
           /\ Series(f, p, v).path = p /\ Series(f, p, v)["path"] = p
           /\ Series(f, p, v).value = v /\ Series(f, p, v)["value"] = v
BY DEF Series, SeriesSet

(***************************************************************************)
(* What a worker holds survives the steps of the others and its own, as    *)
(* long as it asks no guard anew.                                          *)
(***************************************************************************)
LEMMA HoldFrame ==
    ASSUME Typed, Timely, NEW v \in Workers, Hold(v),
           NEW at \in Int, at >= clock - MaxDelay, Grows(at),
           pc'[v] \in PureStages => pc[v] \in PureStages /\ pure'[v] = pure[v],
           pc'[v] \in CrossStages => pc[v] \in CrossStages /\ cross'[v] = cross[v],
           pc'[v] = "cell" => pc[v] = "cell" /\ val'[v] = val[v],
           pc'[v] \in PureStages \cup CrossStages => job'[v] = job[v]
    PROVE  Hold(v)'
<1> USE RegistryAssumption
<1>1. ASSUME NEW g \in GuardIds, NEW x, InHand(g, x, v), job'[v] = job[v], pc[v] # "idle"
      PROVE  Prompt /\ x # Other =>
                x \in DOMAIN admitted'[g] /\ admitted'[g][x] >= job'[v].at - MaxDelay
  <2> SUFFICES ASSUME Prompt, x # Other
               PROVE  x \in DOMAIN admitted'[g] /\ admitted'[g][x] >= job'[v].at - MaxDelay
    OBVIOUS
  <2>1. x \in DOMAIN admitted[g] /\ admitted[g][x] >= job[v].at - MaxDelay
    BY <1>1 DEF InHand
  <2>2. job[v].at \in Int /\ job[v].at <= clock
    BY <1>1 DEF Typed, WorkerOK, Timely, Observations
  <2>3. clock \in Int /\ MaxDelay \in Int
    BY DEF Typed, MaintainOK
  <2>4. x \in DOMAIN admitted'[g] /\ admitted'[g][x] \in {admitted[g][x], at}
    BY <1>1, <2>1 DEF Grows
  <2>5. admitted[g][x] \in Int
    BY <1>1, <2>1 DEF Typed, AdmittedOK
  <2>6. at >= job[v].at - MaxDelay
    BY <2>2, <2>3
  <2> QED
    BY <1>1, <2>1, <2>4, <2>6
<1>2. (pc[v] \in PureStages => InHand("pure", pure[v], v))'
  BY <1>1, Names DEF InHand, Hold, PureStages
<1>3. (pc[v] \in CrossStages => InHand("cross", cross[v], v))'
  BY <1>1, Names DEF InHand, Hold, CrossStages
<1>4. (pc[v] = "cell" => InHand(val[v][1], val[v][3], v))'
  <2>1. pc[v] = "cell" => val[v][1] \in GuardIds
    BY Names DEF Typed, WorkerOK, Cells
  <2> QED
    BY <1>1, <2>1 DEF InHand, Hold, CrossStages
<1> QED
  BY <1>2, <1>3, <1>4 DEF Hold

\* The locals of the other workers are as they were.
OthersRest(w) ==
    \A v \in Workers \ {w} :
        /\ pc'[v] = pc[v] /\ job'[v] = job[v]
        /\ pure'[v] = pure[v] /\ cross'[v] = cross[v] /\ val'[v] = val[v]

LEMMA WorkerStep ==
    ASSUME IInv, NEW w \in Workers, OthersRest(w), UNCHANGED clock,
           NEW at \in Int, at >= clock - MaxDelay, Grows(at),
           Hold(w)',
           pc'[w] # "idle" => pc[w] # "idle" /\ job'[w] = job[w]
    PROVE  Timely' /\ LabelsInHand'
<1>1. Timely'
  BY DEF IInv, Timely, OthersRest
<1>2. ASSUME NEW v \in Workers \ {w} PROVE Hold(v)'
  BY HoldFrame DEF IInv, LabelsInHand, OthersRest
<1> QED
  BY <1>1, <1>2 DEF LabelsInHand

\* A worker moves on without asking a guard.
LEMMA QuietStep ==
    ASSUME IInv, NEW w \in Workers, OthersRest(w), UNCHANGED <<clock, admitted>>,
           pc'[w] \in PureStages => pc[w] \in PureStages /\ pure'[w] = pure[w],
           pc'[w] \in CrossStages => pc[w] \in CrossStages /\ cross'[w] = cross[w],
           pc'[w] # "cell",
           pc'[w] # "idle" => pc[w] # "idle" /\ job'[w] = job[w]
    PROVE  Timely' /\ LabelsInHand'
<1>1. clock \in Int /\ clock >= clock - MaxDelay /\ Grows(clock)
  BY SameGuards, RegistryAssumption DEF IInv, Typed, MaintainOK
<1>2. Hold(w)'
  BY <1>1, HoldFrame DEF IInv, LabelsInHand, PureStages, CrossStages
<1> QED
  BY <1>1, <1>2, WorkerStep

-----------------------------------------------------------------------------

LEMMA InitIInv == Init => IInv
<1> SUFFICES ASSUME Init PROVE IInv
  OBVIOUS
<1> USE RegistryAssumption DEF Init
<1>1. AdmittedOK /\ SessOK /\ SeriesOK /\ EndingOK
  BY DEF AdmittedOK, SessOK, SeriesOK, EndingOK
<1>2. WorkerOK
  BY DEF WorkerOK, Stages, PathLabels
<1>3. MaintainOK
  BY Names DEF MaintainOK
<1>4. Timely /\ LabelsInHand
  BY DEF Timely, LabelsInHand, Hold, PureStages, CrossStages
<1>5. Bounded
  BY DEF Bounded, SeriesBacked, ViewsBacked, CellsBacked, UniquesBacked
<1> QED
  BY <1>1, <1>2, <1>3, <1>4, <1>5 DEF IInv, Typed

\* Time passes, or the config is replaced.
LEMMA TickIInv == IInv /\ Tick => IInv'
<1> SUFFICES ASSUME IInv, Tick PROVE IInv'
  OBVIOUS
<1> USE DEF IInv, Tick
<1>1. AdmittedOK' /\ SessOK' /\ SeriesOK' /\ EndingOK'
  BY DEF Typed, AdmittedOK, SessOK, SeriesOK, EndingOK
<1>2. WorkerOK'
  BY DEF Typed, WorkerOK, wvars
<1>3. MaintainOK'
  BY DEF Typed, MaintainOK, mvars
<1>4. Timely'
  <2>1. \A w \in Workers : pc[w] # "idle" => job[w].at \in Int
    BY DEF Typed, WorkerOK, Observations
  <2>2. clock \in Nat /\ MaxDelay \in Nat
    BY RegistryAssumption DEF Typed, MaintainOK
  <2>3. clock' = clock + 1 /\ pc' = pc /\ job' = job
    BY DEF wvars
  <2>4. ASSUME NEW w \in Workers, pc'[w] # "idle"
        PROVE  job'[w].at <= clock' /\ clock' - job'[w].at <= MaxDelay
    <3>1. job[w].at \in Int /\ job[w].at <= clock /\ clock - job[w].at < MaxDelay
      BY <2>1, <2>3, <2>4 DEF Timely
    <3> QED
      BY <2>2, <2>3, <3>1
  <2> QED
    BY <2>4 DEF Timely
<1>5. LabelsInHand'
  BY DEF LabelsInHand, Hold, InHand, wvars
<1>6. Bounded'
  BY SameGuards, BackedGrows DEF mvars
<1> QED
  BY <1>1, <1>2, <1>3, <1>4, <1>5, <1>6 DEF Typed

LEMMA ConfigureIInv ==
    ASSUME IInv, NEW c, Configure(c)
    PROVE  IInv'
<1> USE DEF IInv, Configure
<1>1. Typed'
  BY DEF Typed, AdmittedOK, SessOK, SeriesOK, EndingOK, WorkerOK, MaintainOK, wvars, mvars
<1>2. Timely' /\ LabelsInHand'
  BY DEF Timely, LabelsInHand, Hold, InHand, wvars
<1>3. Bounded'
  BY SameGuards, BackedGrows DEF mvars
<1> QED
  BY <1>1, <1>2, <1>3

LEMMA PickupIInv ==
    ASSUME IInv, NEW w \in Workers, Pickup(w)
    PROVE  IInv'
<1> USE DEF IInv
<1>1. PICK k \in {"view", "custom", "ping"}, p \in Paths, v \in Values, id \in Visitors, t \in Times :
        Record(w, [kind |-> k, path |-> p, value |-> v, visitor |-> id, at |-> t])
  BY DEF Pickup
<1> DEFINE o == [kind |-> k, path |-> p, value |-> v, visitor |-> id, at |-> t]
<1>2. o \in Observations /\ o.at = t /\ t \in Int /\ t <= clock /\ clock - t <= MaxDelay
  BY RegistryAssumption DEF Observations, Times, Typed, MaintainOK
<1> HIDE DEF o
<1>3. /\ job' = [job EXCEPT ![w] = o]
      /\ \/ pc' = [pc EXCEPT ![w] = "extend"]
         \/ pc' = [pc EXCEPT ![w] = "pure"]
      /\ UNCHANGED <<clock, conf, admitted, sess, series, pure, cross, left, val, ending, mvars>>
  BY <1>1 DEF Record, Goto, o
<1>4. Typed'
  <2>1. AdmittedOK' /\ SessOK' /\ SeriesOK' /\ EndingOK' /\ MaintainOK'
    BY <1>3 DEF Typed, AdmittedOK, SessOK, SeriesOK, EndingOK, MaintainOK, mvars
  <2>2. WorkerOK'
    BY <1>2, <1>3 DEF Typed, WorkerOK, Stages
  <2> QED
    BY <2>1, <2>2 DEF Typed
<1>5. OthersRest(w) /\ pc'[w] \in {"extend", "pure"} /\ job'[w] = o
  BY <1>3 DEF OthersRest, Typed, WorkerOK
<1>6. Timely'
  BY <1>2, <1>3, <1>5 DEF Timely, OthersRest
<1>7. LabelsInHand'
  <2>1. \A u \in Workers \ {w} : Hold(u)'
    BY <1>3, <1>5 DEF LabelsInHand, Hold, InHand, OthersRest
  <2>2. Hold(w)'
    BY <1>5 DEF Hold, PureStages, CrossStages
  <2> QED
    BY <2>1, <2>2 DEF LabelsInHand
<1>8. Bounded'
  BY <1>3, SameGuards, BackedGrows DEF mvars
<1> QED
  BY <1>4, <1>6, <1>7, <1>8

-----------------------------------------------------------------------------

LEMMA AdmitPureIInv ==
    ASSUME IInv, NEW w \in Workers, AdmitPure(w)
    PROVE  IInv'
<1> USE DEF IInv
<1> DEFINE p == job[w].path
           at == job[w].at
<1>1. PICK l \in {p, Other} : Admit("pure", p, at, l) /\ pure' = [pure EXCEPT ![w] = l]
  BY DEF AdmitPure
<1>2. /\ pc[w] = "pure"
      /\ pc' = [pc EXCEPT ![w] = "cross"]
      /\ UNCHANGED <<clock, sess, series, job, cross, left, val, ending, mvars>>
  BY DEF AdmitPure, Goto
<1>3. p \in Paths /\ at \in Int
  BY <1>2 DEF Typed, WorkerOK, Observations
<1>4. at >= clock - MaxDelay
  <2>1. clock - at <= MaxDelay /\ clock \in Int /\ MaxDelay \in Int
    BY <1>2, RegistryAssumption DEF Timely, Typed, MaintainOK
  <2> QED
    BY <1>3, <2>1
<1>5. /\ AdmittedOK' /\ Grows(at)
      /\ l # Other => p \in DOMAIN admitted'["pure"] /\ admitted'["pure"][p] = at
  BY <1>1, <1>3, AdmitFacts, Names DEF Typed
<1>6. Typed'
  <2>1. SessOK' /\ SeriesOK' /\ EndingOK' /\ MaintainOK'
    BY <1>2 DEF Typed, SessOK, SeriesOK, EndingOK, MaintainOK, mvars
  <2>2. WorkerOK'
    BY <1>1, <1>2, <1>3 DEF Typed, WorkerOK, Stages, PathLabels
  <2> QED
    BY <1>5, <2>1, <2>2 DEF Typed
<1>7. OthersRest(w) /\ pc'[w] = "cross" /\ pure'[w] = l /\ job'[w] = job[w]
  BY <1>1, <1>2 DEF OthersRest, Typed, WorkerOK
<1>8. Hold(w)'
  <2>1. l # Other => l \in DOMAIN admitted'["pure"] /\ admitted'["pure"][l] >= at - MaxDelay
    BY <1>1, <1>3, <1>5, RegistryAssumption
  <2> QED
    BY <1>7, <2>1 DEF Hold, InHand, CrossStages
<1> HIDE DEF at
<1>9. Timely' /\ LabelsInHand'
  BY <1>2, <1>3, <1>4, <1>5, <1>7, <1>8, WorkerStep
<1>10. Bounded'
  BY <1>2, <1>5, BackedGrows DEF mvars
<1> QED
  BY <1>6, <1>9, <1>10

LEMMA AdmitCrossIInv ==
    ASSUME IInv, NEW w \in Workers, AdmitCross(w)
    PROVE  IInv'
<1> USE DEF IInv
<1> DEFINE p == job[w].path
           at == job[w].at
<1>1. PICK l \in {p, Other} : Admit("cross", p, at, l) /\ cross' = [cross EXCEPT ![w] = l]
  BY DEF AdmitCross
<1>2. /\ pc[w] = "cross"
      /\ \E q \in {"view", "dims"} : pc' = [pc EXCEPT ![w] = q]
      /\ left' = [left EXCEPT ![w] = DimsOf(job[w].kind)]
      /\ UNCHANGED <<clock, sess, series, job, pure, val, ending, mvars>>
  BY DEF AdmitCross, Goto
<1>3. p \in Paths /\ at \in Int
  BY <1>2 DEF Typed, WorkerOK, Observations
<1>4. at >= clock - MaxDelay
  <2>1. clock - at <= MaxDelay /\ clock \in Int /\ MaxDelay \in Int
    BY <1>2, RegistryAssumption DEF Timely, Typed, MaintainOK
  <2> QED
    BY <1>3, <2>1
<1>5. /\ AdmittedOK' /\ Grows(at)
      /\ l # Other => p \in DOMAIN admitted'["cross"] /\ admitted'["cross"][p] = at
  BY <1>1, <1>3, AdmitFacts, Names DEF Typed
<1>6. Typed'
  <2>1. SessOK' /\ SeriesOK' /\ EndingOK' /\ MaintainOK'
    BY <1>2 DEF Typed, SessOK, SeriesOK, EndingOK, MaintainOK, mvars
  <2>2. left' \in [Workers -> SUBSET Dims]
    BY <1>2 DEF DimsOf, Typed, WorkerOK
  <2>3. WorkerOK'
    BY <1>1, <1>2, <1>3, <2>2 DEF Typed, WorkerOK, Stages, PathLabels
  <2> QED
    BY <1>5, <2>1, <2>3 DEF Typed
<1>7. OthersRest(w) /\ pc'[w] \in {"view", "dims"} /\ cross'[w] = l /\ job'[w] = job[w] /\ pure'[w] = pure[w]
  BY <1>1, <1>2 DEF OthersRest, Typed, WorkerOK
<1>8. Hold(w)'
  <2>1. l # Other => l \in DOMAIN admitted'["cross"] /\ admitted'["cross"][l] >= at - MaxDelay
    BY <1>1, <1>3, <1>5, RegistryAssumption
  <2>2. Prompt /\ pure[w] # Other =>
          pure[w] \in DOMAIN admitted'["pure"] /\ admitted'["pure"][pure[w]] >= at - MaxDelay
    <3> SUFFICES ASSUME Prompt, pure[w] # Other
                 PROVE  pure[w] \in DOMAIN admitted'["pure"] /\ admitted'["pure"][pure[w]] >= at - MaxDelay
      OBVIOUS
    <3>1. pure[w] \in DOMAIN admitted["pure"] /\ admitted["pure"][pure[w]] >= at - MaxDelay
      BY <1>2 DEF LabelsInHand, Hold, InHand, PureStages
    <3>2. pure[w] \in DOMAIN admitted'["pure"] /\ admitted'["pure"][pure[w]] \in {admitted["pure"][pure[w]], at}
      BY <1>5, <3>1, Names DEF Grows
    <3>3. at >= at - MaxDelay
      BY <1>3, RegistryAssumption
    <3> QED
      BY <3>1, <3>2, <3>3
  <2> QED
    BY <1>7, <2>1, <2>2 DEF Hold, InHand
<1> HIDE DEF at
<1>9. Timely' /\ LabelsInHand'
  BY <1>2, <1>3, <1>4, <1>5, <1>7, <1>8, WorkerStep
<1>10. Bounded'
  BY <1>2, <1>5, BackedGrows DEF mvars
<1> QED
  BY <1>6, <1>9, <1>10

LEMMA AdmitValueIInv ==
    ASSUME IInv, NEW w \in Workers, AdmitValue(w)
    PROVE  IInv'
<1> USE DEF IInv
<1> DEFINE x == job[w].value
           at == job[w].at
           d == val[w][1]
<1>1. PICK l \in {x, Other} : Admit(d, x, at, l) /\ val' = [val EXCEPT ![w] = <<@[1], @[2], l>>]
  BY DEF AdmitValue
<1>2. /\ pc[w] = "value"
      /\ pc' = [pc EXCEPT ![w] = "cell"]
      /\ UNCHANGED <<clock, sess, series, job, pure, cross, left, ending, mvars>>
  BY DEF AdmitValue, Goto
<1>3. x \in Values /\ at \in Int
  BY <1>2 DEF Typed, WorkerOK, Observations
<1>4. at >= clock - MaxDelay
  <2>1. clock - at <= MaxDelay /\ clock \in Int /\ MaxDelay \in Int
    BY <1>2, RegistryAssumption DEF Timely, Typed, MaintainOK
  <2> QED
    BY <1>3, <2>1
<1>d. d \in Dims /\ val[w] \in Cells /\ val[w][2] \in {All, cross[w]}
  BY <1>2 DEF Typed, WorkerOK, Cells
<1>5. /\ AdmittedOK' /\ Grows(at)
      /\ l # Other => x \in DOMAIN admitted'[d] /\ admitted'[d][x] = at
  BY <1>1, <1>3, <1>d, AdmitFacts, Names DEF Typed
<1>7. OthersRest(w) /\ pc'[w] = "cell" /\ cross'[w] = cross[w] /\ job'[w] = job[w]
      /\ val'[w] = <<d, val[w][2], l>>
  BY <1>1, <1>2 DEF OthersRest, Typed, WorkerOK
<1>6. Typed'
  <2>1. SessOK' /\ SeriesOK' /\ EndingOK' /\ MaintainOK'
    BY <1>2 DEF Typed, SessOK, SeriesOK, EndingOK, MaintainOK, mvars
  <2>2. val'[w] \in Cells /\ val'[w][2] \in {All, cross'[w]}
    BY <1>1, <1>3, <1>7, <1>d DEF Cells
  <2>3. val' \in [Workers -> Cells \cup {NoCell}] /\ pc' \in [Workers -> Stages]
    BY <1>1, <1>2, <1>7, <2>2 DEF Typed, WorkerOK, Stages
  <2>4. \A v \in Workers : pc'[v] \in {"value", "cell"} =>
          val'[v] \in Cells /\ val'[v][2] \in {All, cross'[v]}
    BY <1>7, <2>2 DEF OthersRest, Typed, WorkerOK
  <2>5. WorkerOK'
    BY <1>2, <1>7, <2>3, <2>4 DEF Typed, WorkerOK, OthersRest
  <2> QED
    BY <1>5, <2>1, <2>5 DEF Typed
<1>8. Hold(w)'
  <2>1. l # Other => l \in DOMAIN admitted'[d] /\ admitted'[d][l] >= at - MaxDelay
    BY <1>1, <1>3, <1>5, RegistryAssumption
  <2>2. Prompt /\ cross[w] # Other =>
          cross[w] \in DOMAIN admitted'["cross"] /\ admitted'["cross"][cross[w]] >= at - MaxDelay
    <3> SUFFICES ASSUME Prompt, cross[w] # Other
                 PROVE  cross[w] \in DOMAIN admitted'["cross"] /\ admitted'["cross"][cross[w]] >= at - MaxDelay
      OBVIOUS
    <3>1. cross[w] \in DOMAIN admitted["cross"] /\ admitted["cross"][cross[w]] >= at - MaxDelay
      BY <1>2 DEF LabelsInHand, Hold, InHand, CrossStages
    <3>2. cross[w] \in DOMAIN admitted'["cross"] /\ admitted'["cross"][cross[w]] \in {admitted["cross"][cross[w]], at}
      BY <1>5, <3>1, Names DEF Grows
    <3>3. at >= at - MaxDelay
      BY <1>3, RegistryAssumption
    <3> QED
      BY <3>1, <3>2, <3>3
  <2>3. val'[w][1] = d /\ val'[w][3] = l
    BY <1>7
  <2> QED
    BY <1>7, <2>1, <2>2, <2>3 DEF Hold, InHand, PureStages
<1> HIDE DEF at
<1>9. Timely' /\ LabelsInHand'
  BY <1>2, <1>3, <1>4, <1>5, <1>7, <1>8, WorkerStep
<1>10. Bounded'
  BY <1>2, <1>5, BackedGrows DEF mvars
<1> QED
  BY <1>6, <1>9, <1>10

\* A worker reads the config: for the sketch, or for the label of a dimension.
LEMMA AskIInv ==
    ASSUME IInv, NEW w \in Workers, AskUnique(w) \/ \E d \in Dims : PathLabel(w, d)
    PROVE  IInv'
<1> USE DEF IInv
<1>1. UNCHANGED <<clock, admitted, sess, series, job, pure, cross, ending, mvars>>
  BY DEF AskUnique, PathLabel
<1>2. /\ pc[w] \in {"unique", "dims"}
      /\ \E q \in {"sketch", "dims", "value"} : pc' = [pc EXCEPT ![w] = q]
      /\ \A v \in Workers \ {w} : val'[v] = val[v]
      /\ left' \in [Workers -> SUBSET Dims]
      /\ val' \in [Workers -> Cells \cup {NoCell}]
      /\ pc'[w] = "value" => val'[w] \in Cells /\ val'[w][2] \in {All, cross[w]}
  <2>1. CASE AskUnique(w)
    BY <2>1 DEF AskUnique, Goto, Typed, WorkerOK
  <2>2. CASE \E d \in Dims : PathLabel(w, d)
    <3>1. PICK d \in Dims : PathLabel(w, d)
      BY <2>2
    <3> DEFINE q == IF d \in cfg.labels THEN cross[w] ELSE All
    <3>2. q \in {All, cross[w]} /\ cross[w] \in Paths \cup {Other}
      BY DEF Typed, WorkerOK, PathLabels
    <3>3. val' = [val EXCEPT ![w] = <<d, q, NoValue>>]
      BY <3>1 DEF PathLabel
    <3> HIDE DEF q
    <3>4. <<d, q, NoValue>> \in Cells
      BY <3>2 DEF Cells
    <3>5. /\ val' \in [Workers -> Cells \cup {NoCell}]
          /\ val'[w] = <<d, q, NoValue>>
          /\ \A v \in Workers \ {w} : val'[v] = val[v]
      BY <3>3, <3>4 DEF Typed, WorkerOK
    <3>6. left' \in [Workers -> SUBSET Dims]
      BY <3>1 DEF PathLabel, Typed, WorkerOK
    <3>7. pc[w] = "dims" /\ pc' = [pc EXCEPT ![w] = "value"]
      BY <3>1 DEF PathLabel, Goto
    <3> QED
      BY <3>2, <3>4, <3>5, <3>6, <3>7
  <2> QED
    BY <2>1, <2>2
<1>3. /\ OthersRest(w) /\ job'[w] = job[w] /\ pure'[w] = pure[w] /\ cross'[w] = cross[w]
      /\ pc'[w] \in {"sketch", "dims", "value"}
  BY <1>1, <1>2 DEF OthersRest, Typed, WorkerOK
<1>4. Timely' /\ LabelsInHand'
  BY <1>1, <1>2, <1>3, QuietStep DEF PureStages, CrossStages
<1>5. AdmittedOK' /\ SessOK' /\ SeriesOK' /\ EndingOK' /\ MaintainOK'
  BY <1>1 DEF Typed, AdmittedOK, SessOK, SeriesOK, EndingOK, MaintainOK, mvars
<1>6. WorkerOK'
  <2>1. pc' \in [Workers -> Stages]
    BY <1>2 DEF Typed, WorkerOK, Stages
  <2>2. \A v \in Workers : pc'[v] \in {"value", "cell"} =>
          val'[v] \in Cells /\ val'[v][2] \in {All, cross'[v]}
    BY <1>1, <1>2, <1>3 DEF OthersRest, Typed, WorkerOK
  <2>3. \A v \in Workers : pc'[v] # "idle" => job'[v] \in Observations
    BY <1>1, <1>2, <1>3 DEF OthersRest, Typed, WorkerOK
  <2> QED
    BY <1>1, <1>2, <2>1, <2>2, <2>3 DEF Typed, WorkerOK
<1>7. Bounded'
  BY <1>1, SameGuards, BackedGrows DEF mvars
<1> QED
  BY <1>4, <1>5, <1>6, <1>7 DEF Typed

-----------------------------------------------------------------------------

\* The four steps that count a pageview, an entry, a visitor or a cell: the
\* series they may create is labelled with what the worker has in hand.
LEMMA CountIInv ==
    ASSUME IInv, NEW w \in Workers, CountView(w) \/ CountEntry(w) \/ CountUnique(w) \/ CountCell(w)
    PROVE  IInv'
<1> USE DEF IInv
<1>1. /\ UNCHANGED <<clock, admitted, sess, job, pure, cross, left, val, ending, mvars>>
      /\ \/ pc[w] = "view" /\ pc' = [pc EXCEPT ![w] = "touch"]
         \/ pc[w] = "entry" /\ pc' = [pc EXCEPT ![w] = "unique"]
         \/ pc[w] = "sketch" /\ pc' = [pc EXCEPT ![w] = "dims"]
         \/ pc[w] = "cell" /\ pc' = [pc EXCEPT ![w] = "dims"]
  BY DEF CountView, CountEntry, CountUnique, CountCell, Goto
<1>2. pure[w] \in PathLabels /\ cross[w] \in PathLabels /\ Hold(w)
  BY DEF Typed, WorkerOK, LabelsInHand
<1>3. /\ OthersRest(w) /\ job'[w] = job[w] /\ pure'[w] = pure[w] /\ cross'[w] = cross[w]
      /\ <<pc[w], pc'[w]>> \in {<<"view", "touch">>, <<"entry", "unique">>,
                                <<"sketch", "dims">>, <<"cell", "dims">>}
  BY <1>1 DEF OthersRest, Typed, WorkerOK
<1>4. Timely' /\ LabelsInHand'
  BY <1>1, <1>3, QuietStep DEF PureStages, CrossStages
<1>5. AdmittedOK' /\ SessOK' /\ EndingOK' /\ MaintainOK'
  BY <1>1 DEF Typed, AdmittedOK, SessOK, EndingOK, MaintainOK, mvars
<1>6. WorkerOK'
  BY <1>1 DEF Typed, WorkerOK, Stages
<1>7. UNCHANGED <<admitted, doomed>>
  BY <1>1 DEF mvars
<1>8. SeriesOK' /\ Bounded'
  <2>1. ASSUME NEW f \in {"views", "entries"}, Count(Series(f, pure[w], NoValue)),
               pc[w] \in {"view", "entry"}
        PROVE  SeriesOK' /\ Bounded'
    <3> DEFINE t == Series(f, pure[w], NoValue)
    <3>0. f \in Families /\ pure[w] \in Paths \cup {Other, All}
      BY <1>2 DEF Families, PathFamilies, PathLabels
    <3>1. t \in SeriesSet /\ t.fam = f /\ t["path"] = pure[w]
      BY <3>0, SeriesType
    <3>2. Prompt => Backed(t, "path", "pure")
      BY <1>2, <2>1, <3>1, NoClash DEF Backed, Hold, InHand, PureStages
    <3>3. t.fam \notin Dims /\ t.fam # "uniques"
      BY <3>1, Names
    <3> HIDE DEF t
    <3> QED
      BY <1>7, <2>1, <3>1, <3>2, <3>3, CountBacked, CountTyped DEF Typed, t
  <2>2. CASE CountView(w)
    BY <2>1, <2>2 DEF CountView
  <2>3. CASE CountEntry(w)
    BY <2>1, <2>3 DEF CountEntry
  <2>4. CASE CountUnique(w)
    <3> DEFINE t == Series("uniques", cross[w], NoValue)
    <3>1. t \in SeriesSet /\ t.fam = "uniques" /\ t["path"] = cross[w]
      BY <1>2, SeriesType DEF Families, PathFamilies, PathLabels
    <3>2. Prompt => Backed(t, "path", "cross")
      BY <1>2, <2>4, <3>1, NoClash DEF CountUnique, Backed, Hold, InHand, CrossStages
    <3>3. t.fam \notin Dims /\ t.fam \notin {"views", "entries"}
      BY <3>1, Names
    <3>4. Count(t)
      BY <2>4 DEF CountUnique
    <3> HIDE DEF t
    <3> QED
      BY <1>7, <3>1, <3>2, <3>3, <3>4, CountBacked, CountTyped DEF Typed
  <2>5. CASE CountCell(w)
    <3> DEFINE d == val[w][1]
               q == val[w][2]
               t == Series(d, q, val[w][3])
    <3>1. d \in Dims /\ val[w][3] \in Values \cup {Other, NoValue} /\ q \in {All, cross[w]}
      BY <2>5 DEF CountCell, Typed, WorkerOK, Cells
    <3>2. q \in Paths \cup {Other, All}
      BY <1>2, <3>1 DEF PathLabels
    <3>3. t \in SeriesSet /\ t.fam = d /\ t["path"] = q /\ t["value"] = val[w][3]
      <4>1. d \in Families
        BY <3>1 DEF Families
      <4> HIDE DEF d, q
      <4> QED
        BY <3>1, <3>2, <4>1, SeriesType DEF t
    <3>4. Prompt => Backed(t, "path", "cross")
      BY <1>2, <2>5, <3>1, <3>3, NoClash DEF CountCell, Backed, Hold, InHand, CrossStages
    <3>5. Prompt => Backed(t, "value", t.fam)
      BY <1>2, <2>5, <3>3, NoClash DEF CountCell, Backed, Hold, InHand
    <3>6. t.fam \notin {"views", "entries", "uniques"}
      BY <3>1, <3>3, Names
    <3>7. Count(t)
      BY <2>5 DEF CountCell
    <3> HIDE DEF t
    <3> QED
      BY <1>7, <3>3, <3>4, <3>5, <3>6, <3>7, CountBacked, CountTyped DEF Typed
  <2> QED
    BY <2>2, <2>3, <2>4, <2>5
<1> QED
  BY <1>4, <1>5, <1>6, <1>8 DEF Typed

\* The series of exits and of time on page are none of SeriesBacked's.
LEMMA CountLate ==
    ASSUME IInv, UNCHANGED <<admitted, doomed>>, NEW f \in {"exits", "spent"}, NEW p \in PathLabels,
           Count(Series(f, p, NoValue))
    PROVE  SeriesOK' /\ Bounded'
<1> DEFINE t == Series(f, p, NoValue)
<1>1. t \in SeriesSet /\ t.fam = f
  BY SeriesType DEF Families, PathFamilies, PathLabels
<1>2. t.fam \notin Dims /\ t.fam \notin {"views", "entries", "uniques"}
  BY <1>1, Names
<1> HIDE DEF t
<1> QED
  BY <1>1, <1>2, CountBacked, CountTyped DEF IInv, Typed, t

LEMMA TouchIInv ==
    ASSUME IInv, NEW w \in Workers, Touch(w) \/ Reopen(w)
    PROVE  IInv'
<1> USE DEF IInv
<1> DEFINE id == job[w].visitor
           cur == [exit |-> pure[w], last |-> job[w].at]
<1>1. /\ UNCHANGED <<clock, admitted, series, job, pure, cross, left, val, mvars>>
      /\ pc[w] \in {"touch", "reopen"}
      /\ \/ /\ id \in DOMAIN sess
            /\ ending' = [ending EXCEPT ![w] = {sess[id].exit}]
            /\ sess' = Restrict(sess, DOMAIN sess \ {id})
            /\ pc[w] = "touch" /\ pc' = [pc EXCEPT ![w] = "reopen"]
         \/ /\ sess' = Put(sess, id, cur)
            /\ \E q \in {"unique", "entry"} : pc' = [pc EXCEPT ![w] = q]
            /\ UNCHANGED ending
  BY DEF Touch, Reopen, Opened, Goto
<1>2. id \in Visitors /\ cur \in [exit : PathLabels, last : Int]
  BY <1>1 DEF Typed, WorkerOK, Observations
<1>3. OthersRest(w) /\ pc'[w] \in {"reopen", "unique", "entry"} /\ job'[w] = job[w]
      /\ pure'[w] = pure[w] /\ cross'[w] = cross[w]
  BY <1>1 DEF OthersRest, Typed, WorkerOK
<1>4. Timely' /\ LabelsInHand'
  BY <1>1, <1>3, QuietStep DEF PureStages, CrossStages
<1>5. AdmittedOK' /\ SeriesOK' /\ MaintainOK' /\ WorkerOK'
  BY <1>1 DEF Typed, AdmittedOK, SeriesOK, MaintainOK, WorkerOK, Stages, mvars
<1>6. EndingOK'
  BY <1>1 DEF Typed, EndingOK, SessOK
<1>7. SessOK'
  <2>1. CASE sess' = Restrict(sess, DOMAIN sess \ {id})
    BY <2>1 DEF Typed, SessOK, Restrict
  <2>2. CASE sess' = Put(sess, id, cur)
    <3> HIDE DEF cur
    <3> QED
      BY <1>2, <2>2 DEF Typed, SessOK, Put
  <2> QED
    BY <1>1, <2>1, <2>2
<1>8. Bounded'
  BY <1>1, SameGuards, BackedGrows DEF mvars
<1> QED
  BY <1>4, <1>5, <1>6, <1>7, <1>8 DEF Typed

LEMMA SessionEndedIInv ==
    ASSUME IInv, NEW a \in Actors, SessionEnded(a)
    PROVE  IInv'
<1> USE DEF IInv
<1>1. PICK p \in ending[a] : Count(Series("exits", p, NoValue)) /\ ending' = [ending EXCEPT ![a] = @ \ {p}]
  BY DEF SessionEnded
<1>2. UNCHANGED <<clock, admitted, sess, wvars, mvars>>
  BY DEF SessionEnded
<1>3. p \in PathLabels
  BY DEF Typed, EndingOK
<1>4. SeriesOK' /\ Bounded'
  BY <1>1, <1>2, <1>3, CountLate DEF mvars
<1>5. EndingOK'
  BY <1>1 DEF Typed, EndingOK
<1>6. AdmittedOK' /\ SessOK' /\ MaintainOK' /\ WorkerOK'
  BY <1>2 DEF Typed, AdmittedOK, SessOK, MaintainOK, WorkerOK, wvars, mvars
<1>7. Timely' /\ LabelsInHand'
  BY <1>2 DEF Timely, LabelsInHand, Hold, InHand, wvars
<1> QED
  BY <1>4, <1>5, <1>6, <1>7 DEF Typed

LEMMA PeekIInv ==
    ASSUME IInv, NEW w \in Workers, Peek(w)
    PROVE  IInv'
<1> USE DEF IInv
<1>1. /\ UNCHANGED <<clock, admitted, sess, series, job, pure, left, val, ending, mvars>>
      /\ pc[w] = "peek"
      /\ pc' = [pc EXCEPT ![w] = "spent"]
      /\ \E l \in {job[w].path, Other} : cross' = [cross EXCEPT ![w] = l]
  BY DEF Peek, Goto
<1>2. job[w].path \in Paths
  BY <1>1 DEF Typed, WorkerOK, Observations
<1>3. OthersRest(w) /\ pc'[w] = "spent" /\ job'[w] = job[w]
  BY <1>1 DEF OthersRest, Typed, WorkerOK
<1>4. Timely' /\ LabelsInHand'
  BY <1>1, <1>3, QuietStep DEF PureStages, CrossStages
<1>5. AdmittedOK' /\ SessOK' /\ SeriesOK' /\ MaintainOK' /\ EndingOK'
  BY <1>1 DEF Typed, AdmittedOK, SessOK, SeriesOK, MaintainOK, EndingOK, mvars
<1>6. WorkerOK'
  BY <1>1, <1>2 DEF Typed, WorkerOK, Stages, PathLabels
<1>7. Bounded'
  BY <1>1, SameGuards, BackedGrows DEF mvars
<1> QED
  BY <1>4, <1>5, <1>6, <1>7 DEF Typed

\* Record ends, or an engagement goes on to its peek.
LEMMA ReturnFacts ==
    ASSUME IInv, NEW w \in Workers, Return(w), UNCHANGED <<clock, admitted>>
    PROVE  WorkerOK' /\ Timely' /\ LabelsInHand'
<1> USE DEF IInv
<1>1. OthersRest(w) /\ pc'[w] = "idle"
  BY DEF Return, OthersRest, Typed, WorkerOK
<1>2. Timely' /\ LabelsInHand'
  BY <1>1, QuietStep DEF PureStages, CrossStages
<1>3. WorkerOK'
  BY DEF Return, Typed, WorkerOK, Stages, PathLabels
<1> QED
  BY <1>2, <1>3

LEMMA DimsDoneIInv ==
    ASSUME IInv, NEW w \in Workers, DimsDone(w)
    PROVE  IInv'
<1> USE DEF IInv, DimsDone
<1>1. WorkerOK' /\ Timely' /\ LabelsInHand'
  BY ReturnFacts
<1>2. AdmittedOK' /\ SessOK' /\ SeriesOK' /\ MaintainOK' /\ EndingOK'
  BY DEF Typed, AdmittedOK, SessOK, SeriesOK, MaintainOK, EndingOK, mvars
<1>3. Bounded'
  BY SameGuards, BackedGrows DEF mvars
<1> QED
  BY <1>1, <1>2, <1>3 DEF Typed

LEMMA ExtendIInv ==
    ASSUME IInv, NEW w \in Workers, Extend(w)
    PROVE  IInv'
<1> USE DEF IInv
<1> DEFINE id == job[w].visitor
<1>1. /\ UNCHANGED <<clock, admitted, series, ending, mvars>>
      /\ pc[w] = "extend"
      /\ sess' = IF Live(id, job[w].at) THEN [sess EXCEPT ![id].last = job[w].at] ELSE sess
      /\ \/ pc' = [pc EXCEPT ![w] = "peek"] /\ UNCHANGED <<job, pure, cross, left, val>>
         \/ Return(w)
  BY DEF Extend, Goto
<1>2. WorkerOK' /\ Timely' /\ LabelsInHand'
  <2>1. CASE Return(w)
    BY <1>1, <2>1, ReturnFacts
  <2>2. CASE pc' = [pc EXCEPT ![w] = "peek"] /\ UNCHANGED <<job, pure, cross, left, val>>
    <3>1. OthersRest(w) /\ pc'[w] = "peek" /\ job'[w] = job[w]
      BY <2>2 DEF OthersRest, Typed, WorkerOK
    <3>2. Timely' /\ LabelsInHand'
      BY <1>1, <3>1, QuietStep DEF PureStages, CrossStages
    <3>3. WorkerOK'
      BY <1>1, <2>2 DEF Typed, WorkerOK, Stages
    <3> QED
      BY <3>2, <3>3
  <2> QED
    BY <1>1, <2>1, <2>2
<1>3. AdmittedOK' /\ SeriesOK' /\ MaintainOK' /\ EndingOK'
  BY <1>1 DEF Typed, AdmittedOK, SeriesOK, MaintainOK, EndingOK, mvars
<1>4. SessOK'
  <2>1. job[w].at \in Int
    BY <1>1 DEF Typed, WorkerOK, Observations
  <2>2. CASE sess' = sess
    BY <2>2 DEF Typed, SessOK
  <2>3. CASE id \in DOMAIN sess /\ sess' = [sess EXCEPT ![id].last = job[w].at]
    BY <2>1, <2>3 DEF Typed, SessOK
  <2> QED
    BY <1>1, <2>2, <2>3 DEF Live
<1>5. Bounded'
  BY <1>1, SameGuards, BackedGrows DEF mvars
<1> QED
  BY <1>2, <1>3, <1>4, <1>5 DEF Typed

LEMMA CountSpentIInv ==
    ASSUME IInv, NEW w \in Workers, CountSpent(w)
    PROVE  IInv'
<1> USE DEF IInv, CountSpent
<1>1. WorkerOK' /\ Timely' /\ LabelsInHand'
  BY ReturnFacts
<1>2. AdmittedOK' /\ SessOK' /\ MaintainOK' /\ EndingOK'
  BY DEF Typed, AdmittedOK, SessOK, MaintainOK, EndingOK, mvars
<1>3. SeriesOK' /\ Bounded'
  <2>1. cross[w] \in PathLabels
    BY DEF Typed, WorkerOK
  <2> QED
    BY <2>1, CountLate DEF mvars
<1> QED
  BY <1>1, <1>2, <1>3 DEF Typed

-----------------------------------------------------------------------------

LEMMA SweepIInv == IInv /\ Sweep => IInv'
<1> SUFFICES ASSUME IInv, Sweep PROVE IInv'
  OBVIOUS
<1> USE DEF IInv
<1> DEFINE idle == {id \in DOMAIN sess : clock - sess[id].last >= TTL}
<1>1. /\ UNCHANGED <<clock, admitted, series, wvars, doomed>>
      /\ mnow' = clock
      /\ ending' = [ending EXCEPT ![Maintainer] = {sess[id].exit : id \in idle}]
      /\ sess' = Restrict(sess, DOMAIN sess \ idle)
      /\ stage' = 1
  BY DEF Sweep
<1>2. AdmittedOK' /\ SeriesOK' /\ WorkerOK'
  BY <1>1 DEF Typed, AdmittedOK, SeriesOK, WorkerOK, wvars
<1>3. MaintainOK'
  <2>1. Len(GuardOrder) >= 1
    BY RegistryAssumption DEF GuardOrder
  <2> QED
    BY <1>1, <2>1, Names DEF Typed, MaintainOK
<1>4. SessOK'
  BY <1>1 DEF Typed, SessOK, Restrict
<1>5. EndingOK'
  BY <1>1 DEF Typed, EndingOK, SessOK
<1>6. Timely' /\ LabelsInHand'
  BY <1>1 DEF Timely, LabelsInHand, Hold, InHand, wvars
<1>7. Bounded'
  BY <1>1, SameGuards, BackedGrows
<1> QED
  BY <1>2, <1>3, <1>4, <1>5, <1>6, <1>7 DEF Typed

\* Maintain deletes a dropped value in every family that it may label.
LEMMA LabelledFacts ==
    /\ {"views", "entries", "exits"} \X {"path"} \subseteq Labelled("pure")
    /\ (Dims \cup {"spent", "uniques"}) \X {"path"} \subseteq Labelled("cross")
    /\ \A d \in Dims : <<d, "value">> \in Labelled(d)
    /\ \A g \in GuardIds : Labelled(g) \subseteq Families \X {"path", "value"}
<1>1. Labelled("pure") = {"views", "entries", "exits"} \X {"path"}
  BY DEF Labelled
<1>2. Labelled("cross") = (Dims \cup {"spent", "uniques"}) \X {"path"}
  BY DEF Labelled
<1>3. \A d \in Dims : Labelled(d) = {<<d, "value">>}
  BY Names DEF Labelled
<1> QED
  BY <1>1, <1>2, <1>3 DEF GuardIds, Families, PathFamilies

\* The guard Maintain is at, and what Decay leaves in guard h.
Turn == GuardOrder[stage]

Remain(h) == IF h = Turn THEN DOMAIN admitted[h] \ Quiet(h) ELSE DOMAIN admitted[h]

Dooms == {Deletion(at, v) : at \in Labelled(Turn), v \in Quiet(Turn)}

LEMMA DecayFacts ==
    ASSUME Typed, Decay
    PROVE  /\ Turn \in GuardIds
           /\ doomed = {}
           /\ doomed' = Dooms
           /\ admitted' = [h \in GuardIds |-> admitted'[h]]
           /\ \A h \in GuardIds : DOMAIN admitted'[h] = Remain(h)
           /\ \A h \in GuardIds : \A x \in Remain(h) : admitted'[h][x] = admitted[h][x]
<1>1. stage \in 1 .. Len(GuardOrder)
  BY Names DEF Decay, Typed, MaintainOK
<1>2. Turn \in GuardIds
  BY <1>1, Names DEF Turn
<1>3. /\ doomed = {}
      /\ admitted' = [admitted EXCEPT ![Turn] = Restrict(@, DOMAIN @ \ Quiet(Turn))]
      /\ doomed' = Dooms
  BY DEF Decay, Turn, Dooms
<1> DEFINE f == Restrict(admitted[Turn], DOMAIN admitted[Turn] \ Quiet(Turn))
<1>4. DOMAIN f = Remain(Turn) /\ \A x \in Remain(Turn) : f[x] = admitted[Turn][x]
  BY DEF Restrict, Remain
<1>5. admitted' = [h \in GuardIds |-> IF h = Turn THEN f ELSE admitted[h]]
  BY <1>2, <1>3 DEF Typed, AdmittedOK
<1> HIDE DEF f
<1>6. ASSUME NEW h \in GuardIds
      PROVE  DOMAIN admitted'[h] = Remain(h) /\ \A x \in Remain(h) : admitted'[h][x] = admitted[h][x]
  <2>1. CASE h = Turn
    <3>1. admitted'[h] = f
      BY <1>5, <2>1
    <3> QED
      BY <1>4, <2>1, <3>1
  <2>2. CASE h # Turn
    <3>1. admitted'[h] = admitted[h] /\ Remain(h) = DOMAIN admitted[h]
      BY <1>5, <2>2 DEF Remain
    <3> QED
      BY <3>1
  <2> QED
    BY <2>1, <2>2
<1>7. admitted' = [h \in GuardIds |-> admitted'[h]]
  BY <1>5
<1>8. /\ \A h \in GuardIds : DOMAIN admitted'[h] = Remain(h)
      /\ \A h \in GuardIds : \A x \in Remain(h) : admitted'[h][x] = admitted[h][x]
  BY <1>6
<1> QED
  BY <1>2, <1>3, <1>7, <1>8

\* What was in and is not any more is about to be deleted.
LEMMA DecayBacks ==
    ASSUME Typed, Decay, NEW s \in series, NEW l \in {"path", "value"}, NEW h \in GuardIds,
           <<s.fam, l>> \in Labelled(h), Backed(s, l, h)
    PROVE  Backed(s, l, h)'
<1>1. CASE s[l] \in Sentinels
  BY <1>1 DEF Backed
<1>2. CASE s[l] \in DOMAIN admitted[h] /\ s[l] \in DOMAIN admitted'[h]
  BY <1>2 DEF Backed
<1>3. CASE s[l] \in DOMAIN admitted[h] /\ s[l] \notin DOMAIN admitted'[h]
  <2>0. DOMAIN admitted'[h] = Remain(h)
    BY DecayFacts
  <2>1. h = Turn /\ s[l] \in Quiet(Turn)
    BY <1>3, <2>0 DEF Remain
  <2>2. doomed' = {Deletion(at, v) : at \in Labelled(Turn), v \in Quiet(Turn)}
    BY DecayFacts DEF Dooms
  <2>3. Deletion(<<s.fam, l>>, s[l]) \in doomed'
    BY <2>1, <2>2
  <2>4. Deletion(<<s.fam, l>>, s[l]) = [fam |-> s.fam, label |-> l, of |-> s[l]]
    BY DEF Deletion
  <2> QED
    BY <2>3, <2>4 DEF Backed
<1>4. doomed = {}
  BY DecayFacts
<1> QED
  BY <1>1, <1>2, <1>3, <1>4 DEF Backed

LEMMA DecayIInv ==
    ASSUME IInv, Decay
    PROVE  IInv'
<1> USE DEF IInv
<1>1. UNCHANGED <<clock, sess, series, wvars, ending, mnow>>
  BY DEF Decay
<1>2. AdmittedOK'
  <2>1. \A h \in GuardIds : Remain(h) \subseteq DOMAIN admitted[h]
    BY DEF Remain
  <2>2. \A h \in GuardIds : \A x \in DOMAIN admitted'[h] :
          x \in Paths \cup Values /\ admitted'[h][x] \in Int
    BY <2>1, DecayFacts DEF Typed, AdmittedOK
  <2>3. admitted' = [h \in GuardIds |-> admitted'[h]]
    BY DecayFacts
  <2> QED
    BY <2>2, <2>3 DEF AdmittedOK
<1>3. SessOK' /\ SeriesOK' /\ WorkerOK' /\ EndingOK'
  BY <1>1 DEF Typed, SessOK, SeriesOK, WorkerOK, EndingOK, wvars
<1>4. MaintainOK'
  <2>1. stage' \in 0 .. Len(GuardOrder)
    BY Names DEF Decay, Typed, MaintainOK
  <2>2. doomed' \subseteq Deletions
    <3> SUFFICES ASSUME NEW at \in Labelled(Turn), NEW v \in Quiet(Turn)
                 PROVE  Deletion(at, v) \in Deletions
      BY DecayFacts DEF Dooms
    <3>1. at \in Families \X {"path", "value"}
      BY DecayFacts, LabelledFacts
    <3>2. v \in Paths \cup Values
      BY DecayFacts DEF Quiet, Typed, AdmittedOK
    <3> QED
      BY <3>1, <3>2 DEF Deletion, Deletions
  <2> QED
    BY <1>1, <2>1, <2>2 DEF Typed, MaintainOK
<1>5. Timely'
  BY <1>1 DEF Timely, wvars
<1>6. ASSUME NEW w \in Workers, pc[w] # "idle", NEW h \in GuardIds, NEW x, InHand(h, x, w)
      PROVE  Prompt /\ x # Other =>
                x \in DOMAIN admitted'[h] /\ admitted'[h][x] >= job[w].at - MaxDelay
  <2> SUFFICES ASSUME Prompt, x # Other
               PROVE  x \in DOMAIN admitted'[h] /\ admitted'[h][x] >= job[w].at - MaxDelay
    OBVIOUS
  <2>1. x \in DOMAIN admitted[h] /\ admitted[h][x] >= job[w].at - MaxDelay
    BY <1>6 DEF InHand
  <2>2. mnow - admitted[h][x] <= DecayAfter
    <3>1. admitted[h][x] \in Int
      BY <2>1 DEF Typed, AdmittedOK
    <3>2. job[w].at \in Int /\ clock - job[w].at <= MaxDelay
      BY <1>6 DEF Typed, WorkerOK, Observations, Timely
    <3>3. mnow \in Int /\ clock \in Int /\ mnow <= clock
      BY DEF Typed, MaintainOK
    <3>4. MaxDelay \in Int /\ DecayAfter \in Int /\ 2 * MaxDelay <= DecayAfter
      BY RegistryAssumption DEF Prompt
    <3> HIDE DEF IInv
    <3> QED
      BY <2>1, <3>1, <3>2, <3>3, <3>4
  <2>3. x \notin Quiet(h)
    <3>1. mnow \in Int /\ admitted[h][x] \in Int /\ DecayAfter \in Int
      BY <2>1, RegistryAssumption DEF Typed, MaintainOK, AdmittedOK
    <3> QED
      BY <2>2, <3>1 DEF Quiet
  <2>4. x \in Remain(h)
    BY <2>1, <2>3 DEF Remain
  <2> QED
    BY <2>1, <2>4, DecayFacts
<1>7. LabelsInHand'
  <2> SUFFICES ASSUME NEW w \in Workers PROVE Hold(w)'
    BY DEF LabelsInHand
  <2>1. /\ pc'[w] = pc[w] /\ job'[w] = job[w] /\ pure'[w] = pure[w]
        /\ cross'[w] = cross[w] /\ val'[w] = val[w]
    BY <1>1 DEF wvars
  <2>2. Hold(w)
    BY DEF LabelsInHand
  <2>3. pc[w] = "cell" => val[w][1] \in GuardIds
    BY Names DEF Typed, WorkerOK, Cells
  <2>4. (pc[w] \in PureStages => InHand("pure", pure[w], w))'
    BY <1>6, <2>1, <2>2, Names DEF Hold, InHand, PureStages
  <2>5. (pc[w] \in CrossStages => InHand("cross", cross[w], w))'
    BY <1>6, <2>1, <2>2, Names DEF Hold, InHand, CrossStages
  <2>6. (pc[w] = "cell" => InHand(val[w][1], val[w][3], w))'
    BY <1>6, <2>1, <2>2, <2>3 DEF Hold, InHand
  <2> QED
    BY <2>4, <2>5, <2>6 DEF Hold
<1>8. Bounded'
  <2> SUFFICES ASSUME Prompt, NEW s \in series
               PROVE  /\ s.fam \in {"views", "entries"} => Backed(s, "path", "pure")'
                      /\ s.fam \in Dims => Backed(s, "path", "cross")' /\ Backed(s, "value", s.fam)'
                      /\ s.fam = "uniques" => Backed(s, "path", "cross")'
    BY <1>1 DEF Bounded, Prompt, SeriesBacked, ViewsBacked, CellsBacked, UniquesBacked
  <2>1. ASSUME s.fam \in {"views", "entries"} PROVE Backed(s, "path", "pure")'
    BY <2>1, LabelledFacts, DecayBacks, Names DEF Bounded, SeriesBacked, ViewsBacked
  <2>2. ASSUME s.fam \in Dims PROVE Backed(s, "path", "cross")' /\ Backed(s, "value", s.fam)'
    BY <2>2, LabelledFacts, DecayBacks, Names DEF Bounded, SeriesBacked, CellsBacked
  <2>3. ASSUME s.fam = "uniques" PROVE Backed(s, "path", "cross")'
    BY <2>3, LabelledFacts, DecayBacks, Names DEF Bounded, SeriesBacked, UniquesBacked
  <2> QED
    BY <2>1, <2>2, <2>3
<1> QED
  BY <1>2, <1>3, <1>4, <1>5, <1>7, <1>8 DEF Typed

\* A deletion that is made is owed no more, and what it owed is gone.
LEMMA DeleteBacks ==
    ASSUME NEW x \in doomed, Delete(x), NEW s \in series', NEW l, NEW g, Backed(s, l, g)
    PROVE  s \in series /\ Backed(s, l, g)'
<1>1. UNCHANGED admitted /\ doomed' = doomed \ {x}
  BY DEF Delete
<1>2. s \in series /\ ~(s.fam = x.fam /\ s[x.label] = x.of)
  BY DEF Delete
<1>3. [fam |-> s.fam, label |-> l, of |-> s[l]] # x
  BY <1>2
<1> QED
  BY <1>1, <1>2, <1>3 DEF Backed

LEMMA DeleteIInv ==
    ASSUME IInv, NEW x \in doomed, Delete(x)
    PROVE  IInv'
<1> USE DEF IInv
<1>1. /\ UNCHANGED <<clock, admitted, sess, wvars, ending, stage, mnow>>
      /\ series' \subseteq series
      /\ doomed' \subseteq doomed
  BY DEF Delete
<1>2. Typed'
  BY <1>1 DEF Typed, AdmittedOK, SessOK, SeriesOK, EndingOK, WorkerOK, MaintainOK, wvars
<1>3. Timely' /\ LabelsInHand'
  BY <1>1 DEF Timely, LabelsInHand, Hold, InHand, wvars
<1>4. Bounded'
  <2> SUFFICES ASSUME Prompt PROVE SeriesBacked'
    BY DEF Bounded, Prompt
  <2>1. \A s \in series' : s.fam \in {"views", "entries"} => Backed(s, "path", "pure")'
    BY <1>1, DeleteBacks DEF Bounded, SeriesBacked, ViewsBacked
  <2>2. \A s \in series' : s.fam \in Dims => Backed(s, "path", "cross")' /\ Backed(s, "value", s.fam)'
    BY <1>1, DeleteBacks DEF Bounded, SeriesBacked, CellsBacked
  <2>3. \A s \in series' : s.fam = "uniques" => Backed(s, "path", "cross")'
    BY <1>1, DeleteBacks DEF Bounded, SeriesBacked, UniquesBacked
  <2> QED
    BY <2>1, <2>2, <2>3 DEF SeriesBacked, ViewsBacked, CellsBacked, UniquesBacked
<1> QED
  BY <1>2, <1>3, <1>4

-----------------------------------------------------------------------------

(***************************************************************************)
(* The invariant of Record, Maintain and Configure together holds in every *)
(* interleaving.                                                           *)
(***************************************************************************)
THEOREM Invariance == Spec => []IInv
<1>1. IInv /\ [Next]_vars => IInv'
  <2> SUFFICES ASSUME IInv, [Next]_vars PROVE IInv'
    OBVIOUS
  <2>1. CASE Tick
    BY <2>1, TickIInv
  <2>2. CASE \E c \in Configs \ {cfg} : Configure(c)
    BY <2>2, ConfigureIInv
  <2>3. CASE \E w \in Workers : Pickup(w)
    BY <2>3, PickupIInv
  <2>4. CASE \E w \in Workers : RecordStep(w)
    BY <2>4, AdmitPureIInv, AdmitCrossIInv, AdmitValueIInv, AskIInv, CountIInv, TouchIInv, DimsDoneIInv,
       ExtendIInv, PeekIInv, CountSpentIInv DEF RecordStep
  <2>5. CASE \E a \in Actors : SessionEnded(a)
    BY <2>5, SessionEndedIInv
  <2>6. CASE Sweep
    BY <2>6, SweepIInv
  <2>7. CASE Decay
    BY <2>7, DecayIInv
  <2>8. CASE \E x \in doomed : Delete(x)
    BY <2>8, DeleteIInv
  <2>9. CASE UNCHANGED vars
    <3>1. UNCHANGED <<clock, admitted, sess, series, wvars, ending, mvars>>
      BY <2>9 DEF vars
    <3>2. Typed'
      BY <3>1 DEF IInv, Typed, AdmittedOK, SessOK, SeriesOK, EndingOK, WorkerOK, MaintainOK, wvars, mvars
    <3>3. Timely' /\ LabelsInHand'
      BY <3>1 DEF IInv, Timely, LabelsInHand, Hold, InHand, wvars
    <3>4. Bounded'
      BY <3>1, SameGuards, BackedGrows DEF IInv, mvars
    <3> QED
      BY <3>2, <3>3, <3>4 DEF IInv
  <2> QED
    BY <2>1, <2>2, <2>3, <2>4, <2>5, <2>6, <2>7, <2>8, <2>9 DEF Next
<1> QED
  BY InitIInv, <1>1, PTL DEF Spec

(***************************************************************************)
(* Every variable of the registry keeps its type.                          *)
(***************************************************************************)
THEOREM TypeCorrect == Spec => []TypeOK
<1>1. IInv => TypeOK
  BY TypedTypeOK DEF IInv
<1> QED
  BY <1>1, Invariance, PTL

(***************************************************************************)
(* Series are bounded by the guards: if an event is through within half of *)
(* DecayAfter, Maintain never drops a label between Record's admission and *)
(* its count, so no pageview, entry or dimension series and no sketch      *)
(* outlives the admission of its labels.                                   *)
(***************************************************************************)
THEOREM SeriesCorrect ==
    ASSUME Prompt
    PROVE  Spec => []SeriesBacked
<1>1. IInv => SeriesBacked
  BY DEF IInv, Bounded
<1> QED
  BY <1>1, Invariance, PTL

-----------------------------------------------------------------------------

(***************************************************************************)
(* What is in use stays.  A guard that is asked has its time set to one    *)
(* that lies MaxDelay back at most, and no sighting lies ahead.            *)
(***************************************************************************)
LEMMA AdmitRecent ==
    ASSUME Typed, Timely, Recent, NEW w \in Workers, pc[w] # "idle", NEW g \in GuardIds,
           NEW v, NEW l, Admit(g, v, job[w].at, l), UNCHANGED clock
    PROVE  Recent' /\ \A h \in GuardIds : DOMAIN admitted[h] \subseteq DOMAIN admitted'[h]
<1> DEFINE at == job[w].at
<1>1. at \in Int /\ at <= clock /\ clock - at <= MaxDelay /\ clock \in Int /\ MaxDelay \in Nat
  BY RegistryAssumption DEF Typed, WorkerOK, Observations, Timely, MaintainOK
<1>2. CASE UNCHANGED <<admitted, seen>>
  BY <1>2 DEF Recent
<1>3. CASE /\ admitted' = [admitted EXCEPT ![g] = Put(@, v, at)]
           /\ seen' = [seen EXCEPT ![g] = Put(@, v, Latest(@, v, at))]
  <2> DEFINE late == Latest(seen[g], v, at)
             a == Put(admitted[g], v, at)
             s == Put(seen[g], v, late)
  <2>1. late \in Int /\ late <= clock /\ at >= late - MaxDelay
    BY <1>1 DEF Latest, Recent
  <2>2. admitted' = [h \in GuardIds |-> IF h = g THEN a ELSE admitted[h]]
    BY <1>3 DEF Typed, AdmittedOK
  <2>3. seen' = [h \in GuardIds |-> IF h = g THEN s ELSE seen[h]]
    BY <1>3 DEF Recent
  <2>4. /\ DOMAIN a = DOMAIN admitted[g] \cup {v} /\ a[v] = at
        /\ \A x \in DOMAIN admitted[g] \ {v} : a[x] = admitted[g][x]
        /\ DOMAIN s = DOMAIN seen[g] \cup {v} /\ s[v] = late
        /\ \A x \in DOMAIN seen[g] \ {v} : s[x] = seen[g][x]
    BY DEF Put
  <2> HIDE DEF late, a, s, at
  <2>5. \A h \in GuardIds : DOMAIN seen'[h] = DOMAIN admitted'[h]
    BY <2>2, <2>3, <2>4 DEF Recent
  <2>6. ASSUME NEW h \in GuardIds, NEW x \in DOMAIN admitted'[h]
        PROVE  /\ seen'[h][x] \in Int /\ seen'[h][x] <= clock'
               /\ admitted'[h][x] >= seen'[h][x] - MaxDelay
    <3>1. CASE h = g /\ x = v
      BY <2>1, <2>2, <2>3, <2>4, <3>1
    <3>2. CASE ~(h = g /\ x = v)
      <4>1. x \in DOMAIN admitted[h] /\ admitted'[h][x] = admitted[h][x] /\ seen'[h][x] = seen[h][x]
        BY <2>2, <2>3, <2>4, <2>6, <3>2 DEF Recent
      <4> QED
        BY <4>1 DEF Recent
    <3> QED
      BY <3>1, <3>2
  <2>7. seen' = [h \in GuardIds |-> seen'[h]]
    BY <2>3
  <2>8. \A h \in GuardIds : DOMAIN admitted[h] \subseteq DOMAIN admitted'[h]
    BY <2>2, <2>4
  <2> QED
    BY <2>5, <2>6, <2>7, <2>8 DEF Recent
<1> QED
  BY <1>2, <1>3 DEF Admit

\* What Decay drops has been quiet for long, what it leaves is as it was.
LEMMA DecayRecent ==
    ASSUME Typed, Recent, Decay
    PROVE  /\ Recent'
           /\ \A g \in GuardIds : \A v \in DOMAIN admitted[g] \ DOMAIN admitted'[g] :
                clock - seen[g][v] > DecayAfter - MaxDelay
<1>1. UNCHANGED clock
  BY DEF Decay
<1>2. seen' = [seen EXCEPT ![Turn] = Restrict(@, DOMAIN @ \ Quiet(Turn))]
  BY DEF Decay, Turn
<1>3. Turn \in GuardIds
  BY DecayFacts
<1> DEFINE f == Restrict(seen[Turn], DOMAIN seen[Turn] \ Quiet(Turn))
<1>4. DOMAIN f = Remain(Turn) /\ \A x \in Remain(Turn) : f[x] = seen[Turn][x]
  BY <1>3 DEF Restrict, Remain, Recent
<1>5. seen' = [h \in GuardIds |-> IF h = Turn THEN f ELSE seen[h]]
  BY <1>2, <1>3 DEF Recent
<1> HIDE DEF f
<1>6. ASSUME NEW h \in GuardIds
      PROVE  DOMAIN seen'[h] = Remain(h) /\ \A x \in Remain(h) : seen'[h][x] = seen[h][x]
  <2>1. CASE h = Turn
    <3>1. seen'[h] = f
      BY <1>5, <2>1
    <3> QED
      BY <1>4, <2>1, <3>1
  <2>2. CASE h # Turn
    BY <1>5, <2>2 DEF Remain, Recent
  <2> QED
    BY <2>1, <2>2
<1>7. Recent'
  <2>1. seen' = [h \in GuardIds |-> seen'[h]]
    BY <1>5
  <2>2. \A h \in GuardIds : DOMAIN seen'[h] = DOMAIN admitted'[h]
    BY <1>6, DecayFacts
  <2>3. ASSUME NEW h \in GuardIds, NEW x \in DOMAIN admitted'[h]
        PROVE  /\ seen'[h][x] \in Int /\ seen'[h][x] <= clock'
               /\ admitted'[h][x] >= seen'[h][x] - MaxDelay
    <3>1. x \in Remain(h)
      BY DecayFacts
    <3>2. seen'[h][x] = seen[h][x] /\ admitted'[h][x] = admitted[h][x] /\ x \in DOMAIN admitted[h]
      BY <1>6, <3>1, DecayFacts DEF Remain
    <3> QED
      BY <1>1, <3>2 DEF Recent
  <2> QED
    BY <2>1, <2>2, <2>3 DEF Recent
<1>8. ASSUME NEW g \in GuardIds, NEW v \in DOMAIN admitted[g] \ DOMAIN admitted'[g]
      PROVE  clock - seen[g][v] > DecayAfter - MaxDelay
  <2>1. v \in Quiet(g)
    <3>1. DOMAIN admitted'[g] = Remain(g)
      BY DecayFacts
    <3> QED
      BY <3>1 DEF Remain
  <2>2. mnow - admitted[g][v] > DecayAfter
    BY <2>1 DEF Quiet
  <2>3. /\ admitted[g][v] \in Int /\ seen[g][v] \in Int
        /\ admitted[g][v] >= seen[g][v] - MaxDelay
    BY DEF Recent, Typed, AdmittedOK
  <2>4. mnow \in Int /\ clock \in Int /\ mnow <= clock /\ DecayAfter \in Int /\ MaxDelay \in Int
    BY RegistryAssumption DEF Typed, MaintainOK
  <2> QED
    BY <2>2, <2>3, <2>4
<1> QED
  BY <1>7, <1>8

(***************************************************************************)
(* Maintain drops no value that was seen within DecayAfter less the delay  *)
(* of an event, for any number of workers, any caps and any times.         *)
(***************************************************************************)
THEOREM InUseCorrect == Spec => InUseKept
<1> DEFINE Kept == \A g \in GuardIds : \A v \in DOMAIN admitted[g] \ DOMAIN admitted'[g] :
                     clock - seen[g][v] > DecayAfter - MaxDelay
<1>1. Init => Recent
  BY DEF Init, Recent
<1>2. IInv /\ Recent /\ [Next]_vars => Recent' /\ [Kept]_vars
  <2> SUFFICES ASSUME IInv, Recent, [Next]_vars PROVE Recent' /\ Kept
    OBVIOUS
  <2>0. ASSUME UNCHANGED <<admitted, seen>>, clock' \in Int, clock' >= clock PROVE Recent' /\ Kept
    <3>1. clock \in Int
      BY DEF IInv, Typed, MaintainOK
    <3> QED
      BY <2>0, <3>1 DEF Recent
  <2>c. clock \in Int
    BY DEF IInv, Typed, MaintainOK
  <2>1. CASE Tick
    BY <2>0, <2>1, <2>c DEF Tick
  <2>2. CASE \E c \in Configs \ {cfg} : Configure(c)
    BY <2>0, <2>2, <2>c DEF Configure
  <2>3. CASE \E w \in Workers : Pickup(w)
    <3>1. UNCHANGED <<clock, admitted, seen>>
      BY <2>3 DEF Pickup, Record
    <3> QED
      BY <2>0, <2>c, <3>1
  <2>4. CASE \E w \in Workers : RecordStep(w)
    <3>1. PICK w \in Workers : RecordStep(w)
      BY <2>4
    <3>2. CASE AdmitPure(w)
      <4>1. PICK l : Admit("pure", job[w].path, job[w].at, l)
        BY <3>2 DEF AdmitPure
      <4>2. pc[w] # "idle" /\ UNCHANGED clock
        BY <3>2 DEF AdmitPure
      <4> QED
        BY <4>1, <4>2, AdmitRecent, Names DEF IInv
    <3>3. CASE AdmitCross(w)
      <4>1. PICK l : Admit("cross", job[w].path, job[w].at, l)
        BY <3>3 DEF AdmitCross
      <4>2. pc[w] # "idle" /\ UNCHANGED clock
        BY <3>3 DEF AdmitCross
      <4> QED
        BY <4>1, <4>2, AdmitRecent, Names DEF IInv
    <3>4. CASE AdmitValue(w)
      <4>1. PICK l : Admit(val[w][1], job[w].value, job[w].at, l)
        BY <3>4 DEF AdmitValue
      <4>2. pc[w] = "value" /\ UNCHANGED clock
        BY <3>4 DEF AdmitValue
      <4>3. val[w][1] \in GuardIds
        BY <4>2, Names DEF IInv, Typed, WorkerOK, Cells
      <4> QED
        BY <4>1, <4>2, <4>3, AdmitRecent DEF IInv
    <3>5. CASE ~AdmitPure(w) /\ ~AdmitCross(w) /\ ~AdmitValue(w)
      <4>1. UNCHANGED <<clock, admitted, seen>>
        BY <3>1, <3>5 DEF RecordStep, CountView, Touch, Reopen, CountEntry, AskUnique, CountUnique,
                          PathLabel, CountCell, DimsDone, Extend, Peek, CountSpent
      <4> QED
        BY <2>0, <2>c, <4>1
    <3> QED
      BY <3>2, <3>3, <3>4, <3>5
  <2>5. CASE \E a \in Actors : SessionEnded(a)
    BY <2>0, <2>5, <2>c DEF SessionEnded
  <2>6. CASE Sweep
    BY <2>0, <2>6, <2>c DEF Sweep
  <2>7. CASE Decay
    BY <2>7, DecayRecent DEF IInv
  <2>8. CASE \E x \in doomed : Delete(x)
    BY <2>0, <2>8, <2>c DEF Delete
  <2>9. CASE UNCHANGED vars
    BY <2>0, <2>9, <2>c DEF vars
  <2> HIDE DEF Kept
  <2> QED
    BY <2>1, <2>2, <2>3, <2>4, <2>5, <2>6, <2>7, <2>8, <2>9 DEF Next
<1>3. [Kept]_vars => [\A g \in GuardIds : \A v \in DOMAIN admitted[g] \ DOMAIN admitted'[g] :
                        clock - seen[g][v] > DecayAfter - MaxDelay]_vars
  OBVIOUS
<1> QED
  BY <1>1, <1>2, Invariance, PTL DEF Spec, InUseKept
=============================================================================
