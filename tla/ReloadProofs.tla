---------------------------- MODULE ReloadProofs ----------------------------
(***************************************************************************)
(* What SIGHUP reloads, under traffic.                                     *)
(*                                                                         *)
(* The GeoIP databases (module Geo): the provider always serves, leaks no  *)
(* reader and closes each one once, and lookups see one round of           *)
(* databases, for any number of workers, rounds and failed reloads.        *)
(*                                                                         *)
(* The configuration (module Pipeline): every setting comes from where it  *)
(* should, what was sized at the start stays, and events are recorded as   *)
(* they were sent, for any files, environments and requests.               *)
(***************************************************************************)
EXTENDS Geo, Pipeline, FiniteSetTheorems, SequenceTheorems, TLAPS

Reader(k, n) == [kind |-> k, round |-> n]

\* What Reload holds at each stage: before the swap, the readers of its own
\* round for the databases it is through with.
FreshMatchesStage ==
    /\ stage = 0 => fresh = {}
    /\ stage # 0 =>
        /\ trash = {}
        /\ fresh = {Reader(k, round) : k \in Paths \cap {Order[i] : i \in 1 .. (stage - 1)}}

\* Reload's readers are its own, and newer than the ones installed.
Apart ==
    /\ fresh \subseteq open
    /\ installed \subseteq open
    /\ trash \cap installed = {}
    /\ \A r \in installed : r.round < round \/ (stage = 0 /\ r.round <= round)

IInv == TypeOK /\ AlwaysServing /\ NoReaderLeaks /\ ClosedOnce /\ FreshMatchesStage /\ Apart

\* The invariant holds of a process that has just come through Open.
LEMMA InitIInv == Init => IInv
<1> SUFFICES ASSUME Init PROVE IInv
  OBVIOUS
<1> USE GeoAssumption DEF Init
<1>1. TypeOK
  <2>1. installed \subseteq Readers
    BY DEF Readers
  <2>2. todo \in [Workers -> SUBSET Readers]
    OBVIOUS
  <2>3. stage \in 0 .. 4 /\ round \in 0 .. MaxRound
    OBVIOUS
  <2> QED
    BY <2>1, <2>2, <2>3, Zenon DEF TypeOK
<1>2. AlwaysServing
  BY DEF AlwaysServing
<1>3. NoReaderLeaks /\ ClosedOnce
  BY DEF NoReaderLeaks, ClosedOnce
<1>4. FreshMatchesStage /\ Apart
  BY DEF FreshMatchesStage, Apart
<1> QED
  BY <1>1, <1>2, <1>3, <1>4 DEF IInv

LEMMA ReloadIInv == IInv /\ Reload => IInv'
<1> SUFFICES ASSUME IInv, Reload PROVE IInv'
  OBVIOUS
<1> USE GeoAssumption DEF IInv, Reload
<1>1. TypeOK'
  BY DEF TypeOK
<1>2. AlwaysServing'
  <2>1. PICK n \in 0 .. round : installed = {[kind |-> k, round |-> n] : k \in Paths}
    BY DEF AlwaysServing
  <2>2. n \in 0 .. round'
    BY DEF TypeOK
  <2> QED
    BY <2>1, <2>2 DEF AlwaysServing
<1>3. NoReaderLeaks' /\ ClosedOnce'
  BY DEF NoReaderLeaks, ClosedOnce, FreshMatchesStage
<1>4. FreshMatchesStage'
  BY DEF FreshMatchesStage
<1>5. Apart'
  BY DEF Apart, TypeOK, Readers
<1> QED
  BY <1>1, <1>2, <1>3, <1>4, <1>5

LEMMA OpenNextIInv == IInv /\ OpenNext => IInv'
<1> SUFFICES ASSUME IInv, OpenNext PROVE IInv'
  OBVIOUS
<1> USE GeoAssumption DEF IInv
<1> DEFINE r == [kind |-> Order[stage], round |-> round]
           new == IF r.kind \in Paths THEN {r} ELSE {}
<1>0. /\ stage \in 1 .. 3
      /\ stage' = stage + 1
      /\ fresh' = fresh \cup new
      /\ open' = open \cup new
      /\ UNCHANGED <<installed, round, trash, todo, closed>>
  BY DEF OpenNext
<1>1. Order[stage] \in Kinds
  BY <1>0 DEF Order, Kinds
<1>2. new \subseteq Readers
  BY <1>0, <1>1 DEF TypeOK, Readers
<1>3. TypeOK'
  BY <1>0, <1>2 DEF TypeOK
<1>4. AlwaysServing'
  BY <1>0 DEF AlwaysServing
<1>5. trash' = {}
  BY <1>0 DEF FreshMatchesStage
<1>6. NoReaderLeaks' /\ ClosedOnce'
  BY <1>0, <1>5 DEF NoReaderLeaks, ClosedOnce
<1>7. FreshMatchesStage'
  <2>1. fresh = {Reader(k, round) : k \in Paths \cap {Order[i] : i \in 1 .. (stage - 1)}}
    BY <1>0 DEF FreshMatchesStage
  <2>2. {Order[i] : i \in 1 .. (stage' - 1)} = {Order[i] : i \in 1 .. (stage - 1)} \cup {Order[stage]}
    <3>1. 1 .. (stage' - 1) = (1 .. (stage - 1)) \cup {stage}
      BY <1>0
    <3> QED
      BY <3>1
  <2>3. fresh' = {Reader(k, round') : k \in Paths \cap {Order[i] : i \in 1 .. (stage' - 1)}}
    BY <1>0, <2>1, <2>2 DEF Reader
  <2>4. stage' # 0
    BY <1>0
  <2> QED
    BY <1>5, <2>3, <2>4 DEF FreshMatchesStage
<1>8. Apart'
  BY <1>0 DEF Apart
<1> QED
  BY <1>3, <1>4, <1>6, <1>7, <1>8

LEMMA OpenFailsIInv == IInv /\ OpenFails => IInv'
<1> SUFFICES ASSUME IInv, OpenFails PROVE IInv'
  OBVIOUS
<1> USE GeoAssumption DEF IInv, OpenFails
<1>1. TypeOK'
  BY DEF TypeOK
<1>2. AlwaysServing'
  BY DEF AlwaysServing
<1>3. trash = {}
  BY DEF FreshMatchesStage
<1>4. NoReaderLeaks' /\ ClosedOnce'
  BY <1>3 DEF NoReaderLeaks, ClosedOnce, Apart
<1>5. FreshMatchesStage'
  BY DEF FreshMatchesStage
<1>6. \A r \in fresh : r.round = round
  BY DEF FreshMatchesStage, Reader
<1>7. \A r \in installed : r.round < round
  BY DEF Apart
<1>8. fresh \cap installed = {}
  BY <1>6, <1>7 DEF TypeOK
<1>9. Apart'
  BY <1>7, <1>8 DEF Apart, TypeOK, Readers
<1> QED
  BY <1>1, <1>2, <1>4, <1>5, <1>9

LEMMA SwapIInv == IInv /\ Swap => IInv'
<1> SUFFICES ASSUME IInv, Swap PROVE IInv'
  OBVIOUS
<1> USE GeoAssumption DEF IInv, Swap
<1>1. TypeOK'
  BY DEF TypeOK
<1>2. fresh = {Reader(k, round) : k \in Paths}
  <2>1. fresh = {Reader(k, round) : k \in Paths \cap {Order[i] : i \in 1 .. (stage - 1)}}
    BY DEF FreshMatchesStage
  <2>2. Order[1] = "city" /\ Order[2] = "country" /\ Order[3] = "asn"
    BY DEF Order
  <2>3. Paths \cap {Order[i] : i \in 1 .. (stage - 1)} = Paths
    <3>1. 1 \in 1 .. (stage - 1) /\ 2 \in 1 .. (stage - 1) /\ 3 \in 1 .. (stage - 1)
      OBVIOUS
    <3> QED
      BY <2>2, <3>1 DEF Kinds
  <2> QED
    BY <2>1, <2>3
<1>3. AlwaysServing'
  <2>1. round' \in 0 .. round'
    BY DEF TypeOK
  <2>2. installed' \subseteq open'
    BY DEF Apart
  <2>3. installed' = {[kind |-> k, round |-> round'] : k \in Paths}
    BY <1>2 DEF Reader
  <2> QED
    BY <2>1, <2>2, <2>3 DEF AlwaysServing
<1>4. NoReaderLeaks' /\ ClosedOnce'
  BY DEF NoReaderLeaks, ClosedOnce, Apart, FreshMatchesStage
<1>5. FreshMatchesStage'
  BY DEF FreshMatchesStage
<1>6. \A r \in fresh : r.round = round
  BY <1>2 DEF Reader
<1>7. \A r \in installed : r.round < round
  BY DEF Apart
<1>8. fresh \cap installed = {}
  BY <1>6, <1>7 DEF TypeOK
<1>9. Apart'
  BY <1>6, <1>8 DEF Apart, TypeOK
<1> QED
  BY <1>1, <1>3, <1>4, <1>5, <1>9

LEMMA CloseNextIInv == IInv /\ CloseNext => IInv'
<1> SUFFICES ASSUME IInv, CloseNext PROVE IInv'
  OBVIOUS
<1> USE GeoAssumption DEF IInv
<1>0. PICK r \in trash : open' = open \ {r} /\ trash' = trash \ {r}
  BY DEF CloseNext
<1>1. UNCHANGED <<installed, stage, round, fresh, todo, closed>>
  BY DEF CloseNext
<1>2. TypeOK'
  BY <1>0, <1>1 DEF TypeOK
<1>3. AlwaysServing'
  <2>1. installed' \subseteq open'
    BY <1>0, <1>1 DEF Apart
  <2> QED
    BY <1>1, <2>1 DEF AlwaysServing
<1>4. NoReaderLeaks' /\ ClosedOnce'
  BY <1>0, <1>1 DEF NoReaderLeaks, ClosedOnce
<1>5. stage = 0
  BY <1>0 DEF FreshMatchesStage
<1>6. FreshMatchesStage'
  BY <1>1, <1>5 DEF FreshMatchesStage
<1>7. Apart'
  BY <1>0, <1>1, <1>5 DEF Apart, FreshMatchesStage
<1> QED
  BY <1>2, <1>3, <1>4, <1>6, <1>7

LEMMA CloseIInv == IInv /\ Close => IInv'
<1> SUFFICES ASSUME IInv, Close PROVE IInv'
  OBVIOUS
<1> USE GeoAssumption DEF IInv, Close
<1>1. TypeOK'
  BY DEF TypeOK
<1>2. AlwaysServing'
  BY DEF AlwaysServing
<1>3. fresh \cap installed = {}
  <2>1. CASE stage = 0
    BY <2>1 DEF FreshMatchesStage
  <2>2. CASE stage # 0
    <3>1. \A r \in fresh : r.round = round
      BY <2>2 DEF FreshMatchesStage, Reader
    <3>2. \A r \in installed : r.round < round
      BY <2>2 DEF Apart
    <3> QED
      BY <3>1, <3>2 DEF TypeOK
  <2> QED
    BY <2>1, <2>2
<1>4. NoReaderLeaks' /\ ClosedOnce'
  BY DEF NoReaderLeaks, ClosedOnce, Apart
<1>5. FreshMatchesStage'
  BY DEF FreshMatchesStage
<1>6. Apart'
  BY <1>3 DEF Apart
<1> QED
  BY <1>1, <1>2, <1>4, <1>5, <1>6

LEMMA LookupIInv ==
    ASSUME NEW w \in Workers, IInv, LookupBegin(w) \/ LookupStep(w)
    PROVE  IInv'
<1> USE DEF IInv
<1>1. UNCHANGED <<open, installed, stage, round, fresh, trash, closed>>
  BY DEF LookupBegin, LookupStep
<1>2. todo' \in [Workers -> SUBSET Readers]
  <2>1. CASE LookupBegin(w)
    BY <2>1 DEF LookupBegin, Consulted, TypeOK
  <2>2. CASE LookupStep(w)
    BY <2>2 DEF LookupStep, TypeOK
  <2> QED
    BY <2>1, <2>2
<1>3. TypeOK'
  BY <1>1, <1>2 DEF TypeOK
<1>4. AlwaysServing' /\ NoReaderLeaks' /\ ClosedOnce'
  BY <1>1 DEF AlwaysServing, NoReaderLeaks, ClosedOnce
<1>5. FreshMatchesStage' /\ Apart'
  BY <1>1 DEF FreshMatchesStage, Apart
<1> QED
  BY <1>3, <1>4, <1>5

(***************************************************************************)
(* The invariant of Reload, Lookup and Close together: geo.go keeps it in  *)
(* every interleaving.                                                     *)
(***************************************************************************)
THEOREM Invariance == Spec => []IInv
<1>1. IInv /\ [Next]_vars => IInv'
  <2> SUFFICES ASSUME IInv, [Next]_vars PROVE IInv'
    OBVIOUS
  <2>1. CASE Reload
    BY <2>1, ReloadIInv
  <2>2. CASE ReloadStep
    BY <2>2, OpenNextIInv, OpenFailsIInv, SwapIInv, CloseNextIInv DEF ReloadStep
  <2>3. CASE \E w \in Workers : LookupBegin(w) \/ LookupStep(w)
    BY <2>3, LookupIInv
  <2>4. CASE Close
    BY <2>4, CloseIInv
  <2>5. CASE UNCHANGED vars
    BY <2>5 DEF vars, IInv, TypeOK, AlwaysServing, NoReaderLeaks, ClosedOnce,
                FreshMatchesStage, Apart
  <2> QED
    BY <2>1, <2>2, <2>3, <2>4, <2>5 DEF Next
<1> QED
  BY InitIInv, <1>1, PTL DEF Spec

(***************************************************************************)
(* Every variable of the provider keeps its type.                          *)
(***************************************************************************)
THEOREM TypeCorrect == Spec => []TypeOK
BY Invariance, PTL DEF IInv

(***************************************************************************)
(* Until Close, the databases configured are installed, open and of one    *)
(* Reload, however often Reload fails half-way.                            *)
(***************************************************************************)
THEOREM ServingCorrect == Spec => []AlwaysServing
BY Invariance, PTL DEF IInv

(***************************************************************************)
(* Reload, its error paths and Close lose no open reader ...               *)
(***************************************************************************)
THEOREM NoLeakCorrect == Spec => []NoReaderLeaks
BY Invariance, PTL DEF IInv

(***************************************************************************)
(* ... and close none twice.                                               *)
(***************************************************************************)
THEOREM ClosedOnceCorrect == Spec => []ClosedOnce
BY Invariance, PTL DEF IInv

-----------------------------------------------------------------------------

\* The readers a Lookup holds: of one Reload, older than the one under way,
\* and installed unless a newer Reload has been through.
Snapshots ==
    \A w \in Workers : \A r \in todo[w] :
        /\ \A q \in todo[w] : q.round = r.round
        /\ r \in installed \/ \A q \in installed : q.round > r.round
        /\ r.round < round \/ (stage = 0 /\ r.round <= round)

LEMMA LookupSnapshots ==
    ASSUME IInv, Snapshots, NEW w \in Workers, LookupBegin(w) \/ LookupStep(w)
    PROVE  Snapshots'
<1> USE DEF IInv
<1>1. UNCHANGED <<installed, stage, round>>
  BY DEF LookupBegin, LookupStep
<1>2. \A v \in Workers \ {w} : todo'[v] = todo[v]
  BY DEF LookupBegin, LookupStep, TypeOK
<1>3. CASE LookupBegin(w)
  <2>1. todo'[w] \subseteq installed
    BY <1>3 DEF LookupBegin, Consulted, TypeOK
  <2>2. \A r, q \in installed : q.round = r.round
    BY <1>3 DEF LookupBegin, AlwaysServing
  <2>3. \A r \in todo'[w] :
          /\ \A q \in todo'[w] : q.round = r.round
          /\ r \in installed
          /\ r.round < round \/ (stage = 0 /\ r.round <= round)
    BY <2>1, <2>2 DEF Apart
  <2> QED
    BY <1>1, <1>2, <2>3 DEF Snapshots
<1>4. CASE LookupStep(w)
  <2>1. todo'[w] \subseteq todo[w]
    BY <1>4 DEF LookupStep, TypeOK
  <2> QED
    BY <1>1, <1>2, <2>1 DEF Snapshots
<1> QED
  BY <1>3, <1>4

LEMMA SnapshotsNext == IInv /\ Snapshots /\ [Next]_vars => Snapshots'
<1> SUFFICES ASSUME IInv, Snapshots, [Next]_vars PROVE Snapshots'
  OBVIOUS
<1> USE DEF IInv
<1>1. CASE Reload
  BY <1>1 DEF Reload, Snapshots, TypeOK, Readers
<1>2. CASE OpenNext
  BY <1>2 DEF OpenNext, Snapshots
<1>3. CASE OpenFails
  BY <1>3 DEF OpenFails, Snapshots, TypeOK, Readers
<1>4. CASE Swap
  <2>1. \A q \in fresh : q.round = round
    BY <1>4 DEF Swap, FreshMatchesStage, Reader
  <2>2. \A w \in Workers : \A r \in todo[w] : r.round < round /\ r.round \in Nat
    BY <1>4 DEF Swap, Snapshots, TypeOK, Readers
  <2>3. installed' = fresh /\ stage' = 0 /\ UNCHANGED <<round, todo>>
    BY <1>4 DEF Swap
  <2>4. round \in Nat
    BY GeoAssumption DEF TypeOK
  <2> QED
    BY <2>1, <2>2, <2>3, <2>4 DEF Snapshots
<1>5. CASE CloseNext
  BY <1>5 DEF CloseNext, Snapshots
<1>6. CASE \E w \in Workers : LookupBegin(w) \/ LookupStep(w)
  BY <1>6, LookupSnapshots
<1>7. CASE Close
  BY <1>7 DEF Close, Snapshots
<1>8. CASE UNCHANGED vars
  BY <1>8 DEF vars, Snapshots
<1> QED
  BY <1>1, <1>2, <1>3, <1>4, <1>5, <1>6, <1>7, <1>8 DEF Next, ReloadStep

(***************************************************************************)
(* A Lookup that took its readers under the lock and uses them after it    *)
(* consults databases of one Reload that was swapped in, the last one      *)
(* unless a newer one was swapped in meanwhile.                            *)
(***************************************************************************)
THEOREM SnapshotCorrect == Spec => []LookupsOnSnapshot
<1>1. Init => Snapshots
  BY DEF Init, Snapshots
<1>2. IInv /\ Snapshots => LookupsOnSnapshot
  BY DEF IInv, TypeOK, Readers, Snapshots, LookupsOnSnapshot
<1> QED
  BY <1>1, <1>2, Invariance, SnapshotsNext, PTL DEF Spec

-----------------------------------------------------------------------------

\* What validate leaves alone.
LEMMA SanitizedFields ==
    ASSUME NEW r \in Requests
    PROVE  /\ Sanitized(r).name = r.name /\ Sanitized(r).url = r.url
           /\ Sanitized(r).ref = r.ref /\ Sanitized(r).ua = r.ua
           /\ Sanitized(r).forwarded = r.forwarded /\ Sanitized(r).realIP = r.realIP
           /\ Sanitized(r).remote = r.remote
           /\ Sanitized(r).width \in 0 .. MaxWidth
           /\ Sanitized(r).engaged \in 0 .. MaxEngaged
<1>1. r \in Request
    BY RequestAssumption
<1>2. r.width \in Int /\ r.engaged \in Int
    BY <1>1 DEF Request
<1>3. /\ "width" \in DOMAIN r /\ "engaged" \in DOMAIN r /\ "name" \in DOMAIN r
      /\ "url" \in DOMAIN r /\ "ref" \in DOMAIN r /\ "ua" \in DOMAIN r
      /\ "forwarded" \in DOMAIN r /\ "realIP" \in DOMAIN r /\ "remote" \in DOMAIN r
    BY <1>1 DEF Request
<1> DEFINE clamp(w, n) == IF w < 0 \/ w > n THEN 0 ELSE w
<1>4. PICK a, b : /\ a \in 0 .. MaxWidth /\ b \in 0 .. MaxEngaged
                  /\ Sanitized(r) = [r EXCEPT !.width = a, !.engaged = b]
    <2>1. ASSUME NEW w \in Int, NEW n \in Nat PROVE clamp(w, n) \in 0 .. n
        OBVIOUS
    <2>n. MaxWidth \in Nat /\ MaxEngaged \in Nat
        BY DEF MaxWidth, MaxEngaged
    <2>2. clamp(r.width, MaxWidth) \in 0 .. MaxWidth
        BY <1>2, <2>1, <2>n
    <2>3. clamp(r.engaged, MaxEngaged) \in 0 .. MaxEngaged
        BY <1>2, <2>1, <2>n
    <2>4. Sanitized(r) = [r EXCEPT !.width = clamp(r.width, MaxWidth), !.engaged = clamp(r.engaged, MaxEngaged)]
        BY DEF Sanitized
    <2> HIDE DEF clamp
    <2> QED BY <2>2, <2>3, <2>4
<1>5. \A k \in DOMAIN r : k # "width" /\ k # "engaged" => Sanitized(r)[k] = r[k]
    BY <1>4
<1> QED
    BY <1>3, <1>4, <1>5

\* An observation depends on the payload and the site's config only.
LEMMA EnrichDepends ==
    ASSUME NEW e, NEW g, e.req = g.req, e.site = g.site
    PROVE  enrichEvent(e) = enrichEvent(g)
    BY DEF enrichEvent

-----------------------------------------------------------------------------

Keys == {"cap", "decay", "zone", "labels", "flag"}

Numbers == {"cap", "decay", "zone"}

LEMMA OverlayAt ==
    ASSUME NEW d, NEW w
    PROVE  /\ DOMAIN Overlay(d, w) = DOMAIN d
           /\ \A k \in DOMAIN d :
                Overlay(d, w)[k] = IF k \in DOMAIN w /\ w[k] # Bad THEN w[k] ELSE d[k]
    BY DEF Overlay

\* fillZero and the inheritance of labels, key by key.
LEMMA FilledAt ==
    ASSUME NEW d, NEW def, Keys \subseteq DOMAIN d
    PROVE  /\ \A k \in Numbers : Filled(d, def)[k] = IF d[k] = 0 THEN def[k] ELSE d[k]
           /\ Filled(d, def).labels = IF d.labels = Nil THEN def.labels ELSE d.labels
           /\ Filled(d, def).flag = d.flag
           /\ "domain" \in DOMAIN d => Filled(d, def).domain = d.domain
<1>1. /\ DOMAIN fillZero(d, def) = DOMAIN d
      /\ \A k \in DOMAIN d :
            fillZero(d, def)[k] = IF k \in Numbers /\ d[k] = 0 THEN def[k] ELSE d[k]
    BY DEF fillZero, Numbers
<1>2. \A k \in DOMAIN d : k # "labels" => Filled(d, def)[k] = fillZero(d, def)[k]
    BY <1>1 DEF Filled
<1>3. Filled(d, def).labels =
        IF fillZero(d, def).labels = Nil THEN def.labels ELSE fillZero(d, def).labels
    BY <1>1 DEF Filled, Keys
<1> QED
    BY <1>1, <1>2, <1>3 DEF Keys, Numbers

\* What is known of the variables of an environment without bad ones.
LEMMA VarsGood ==
    ASSUME NEW e \in Envs, BadVars(e) = {}
    PROVE  /\ \A k \in DOMAIN e.global : e.global[k] # Bad
           /\ "labels" \in DOMAIN e.global => e.global["labels"] # Nil
           /\ \A d \in e.listed :
                /\ \A k \in DOMAIN VarsOf(e, d) : VarsOf(e, d)[k] # Bad
                /\ "domain" \notin DOMAIN VarsOf(e, d)
                /\ "labels" \in DOMAIN VarsOf(e, d) => VarsOf(e, d)["labels"] # Nil
<1>1. \A k \in DOMAIN e.global : e.global[k] # Bad
    BY DEF BadVars
<1>2. \A d \in e.listed : \A k \in DOMAIN VarsOf(e, d) : VarsOf(e, d)[k] # Bad
    BY DEF BadVars
<1>3. \A d : "domain" \notin DOMAIN VarsOf(e, d)
             /\ ("labels" \in DOMAIN VarsOf(e, d) => VarsOf(e, d)["labels"] # Nil)
    <2> SUFFICES ASSUME NEW d
                 PROVE  Named(VarsOf(e, d))
        BY DEF Named
    <2>1. CASE siteKey(d) \in DOMAIN e.site
        BY <2>1, SectionAssumption DEF VarsOf
    <2>2. CASE siteKey(d) \notin DOMAIN e.site
        BY <2>2 DEF VarsOf, Named
    <2> QED BY <2>1, <2>2
<1> QED
    BY <1>1, <1>2, <1>3, SectionAssumption DEF Named

\* The defaults section, before finalize and after.
LEMMA GlobalsAt ==
    ASSUME NEW e \in Envs, NEW f \in Files, BadVars(e) = {}
    PROVE  /\ DOMAIN Globals(e, f) = Keys
           /\ \A k \in Numbers \cup {"flag"} : Globals(e, f)[k] = GlobalSays(e, f, k)
           /\ Globals(e, f).labels =
                IF "labels" \in DOMAIN e.global \cup DOMAIN f.defaults
                THEN GlobalSays(e, f, "labels") ELSE Nil
           /\ "labels" \in DOMAIN e.global \cup DOMAIN f.defaults => GlobalSays(e, f, "labels") # Nil
           /\ "labels" \notin DOMAIN e.global \cup DOMAIN f.defaults =>
                GlobalSays(e, f, "labels") = Builtin.labels
<1> DEFINE b == [Builtin EXCEPT !.labels = Nil]
           g == Overlay(b, f.defaults)
<1>1. DOMAIN b = Keys /\ DOMAIN Builtin = Keys /\ b.labels = Nil
    BY DEF Builtin, Keys
<1>2. \A k \in Keys : k # "labels" => b[k] = Builtin[k]
    BY DEF Builtin, Keys
<1> HIDE DEF b
<1>3. DOMAIN g = Keys /\ \A k \in Keys : g[k] = IF k \in DOMAIN f.defaults THEN f.defaults[k] ELSE b[k]
    BY <1>1, OverlayAt, SectionAssumption DEF Parsed
<1> HIDE DEF g
<1>4. Globals(e, f) = Overlay(g, e.global)
    BY DEF Globals, g, b
<1>5. /\ DOMAIN Globals(e, f) = Keys
      /\ \A k \in Keys : Globals(e, f)[k] = IF k \in DOMAIN e.global THEN e.global[k] ELSE g[k]
    BY <1>3, <1>4, OverlayAt, VarsGood
<1>6. \A k \in Keys :
        GlobalSays(e, f, k) = IF k \in DOMAIN e.global THEN e.global[k]
                              ELSE IF k \in DOMAIN f.defaults THEN f.defaults[k] ELSE Builtin[k]
    BY <1>1 DEF GlobalSays, Join
<1>7. \A k \in Numbers \cup {"flag"} : k \in Keys /\ k # "labels"
    BY DEF Numbers, Keys
<1>8. \A k \in Numbers \cup {"flag"} : Globals(e, f)[k] = GlobalSays(e, f, k)
    BY <1>2, <1>3, <1>5, <1>6, <1>7
<1>9. "labels" \in Keys
    BY DEF Keys
<1>10. "labels" \in DOMAIN f.defaults => f.defaults["labels"] # Nil
    BY SectionAssumption DEF Parsed
<1> QED
    BY <1>1, <1>3, <1>5, <1>6, <1>8, <1>9, <1>10, VarsGood

\* The section that sites inherit from.
LEMMA InheritedAt ==
    ASSUME NEW e \in Envs, NEW f \in Files, BadVars(e) = {}
    PROVE  /\ Filled(Globals(e, f), Builtin).labels = GlobalSays(e, f, "labels")
           /\ \A k \in Numbers :
                Filled(Globals(e, f), Builtin)[k] =
                    IF GlobalSays(e, f, k) = 0 THEN Builtin[k] ELSE GlobalSays(e, f, k)
    BY GlobalsAt, FilledAt

\* The entry of a file, with the variables of its site.
LEMMA FileSiteAt ==
    ASSUME NEW e \in Envs, NEW f \in Files, BadVars(e) = {}, NEW i \in DOMAIN f.sites
    PROVE  LET s == f.sites[i]
               t == FileSite(e, s) IN
           /\ Keys \subseteq DOMAIN t /\ "domain" \in DOMAIN t /\ t.domain = s.domain
           /\ \A k \in Keys :
                t[k] = IF Listed(e, s) /\ k \in DOMAIN VarsOf(e, s.domain) THEN VarsOf(e, s.domain)[k]
                       ELSE IF k \in DOMAIN s.own THEN s.own[k] ELSE Zero[k]
<1> DEFINE s == f.sites[i]
           z == Join(Bare(s.domain), Zero)
           t == Overlay(z, s.own)
           v == VarsOf(e, s.domain)
<1>1. /\ Keys \subseteq DOMAIN z /\ "domain" \in DOMAIN z /\ z.domain = s.domain
      /\ \A k \in Keys : z[k] = Zero[k]
    BY DEF Join, Bare, Zero, Keys
<1>2. Parsed(s.own)
    BY SectionAssumption
<1> HIDE DEF z
<1>3. /\ DOMAIN t = DOMAIN z /\ t.domain = s.domain
      /\ \A k \in Keys : t[k] = IF k \in DOMAIN s.own THEN s.own[k] ELSE Zero[k]
    BY <1>1, <1>2, OverlayAt DEF Parsed
<1>4. FileSite(e, s) = IF Listed(e, s) THEN WithOrigins(Overlay(t, v)) ELSE t
    BY DEF FileSite, z
<1>5. Listed(e, s) => \A k \in DOMAIN v : v[k] # Bad /\ k # "domain"
    BY VarsGood DEF Listed
<1> HIDE DEF t, v
<1>6. /\ DOMAIN WithOrigins(Overlay(t, v)) = DOMAIN t
      /\ \A k \in DOMAIN t : k # "origins" => WithOrigins(Overlay(t, v))[k] = Overlay(t, v)[k]
    BY OverlayAt DEF WithOrigins
<1>7. \A k \in Keys \cup {"domain"} : k # "origins" /\ k \in DOMAIN t
    BY <1>1, <1>3 DEF Keys
<1>8. Listed(e, s) => \A k \in Keys \cup {"domain"} :
        FileSite(e, s)[k] = IF k \in DOMAIN v THEN v[k] ELSE t[k]
    BY <1>4, <1>5, <1>6, <1>7, OverlayAt
<1> QED
    BY <1>1, <1>3, <1>4, <1>5, <1>6, <1>8 DEF v

\* A site that only the environment lists.
LEMMA CreatedSiteAt ==
    ASSUME NEW e \in Envs, NEW f \in Files, BadVars(e) = {}, NEW d \in e.listed
    PROVE  LET t == CreatedSite(e, f, d) IN
           /\ Keys \subseteq DOMAIN t /\ "domain" \in DOMAIN t /\ t.domain = d
           /\ \A k \in Keys :
                t[k] = IF k \in DOMAIN VarsOf(e, d) THEN VarsOf(e, d)[k] ELSE Globals(e, f)[k]
<1> DEFINE z == Join(Bare(d), Globals(e, f))
           v == VarsOf(e, d)
<1>1. DOMAIN Globals(e, f) = Keys
    BY GlobalsAt
<1>2. /\ Keys \subseteq DOMAIN z /\ "domain" \in DOMAIN z /\ z.domain = d
      /\ \A k \in Keys : z[k] = Globals(e, f)[k]
    BY <1>1 DEF Join, Bare, Keys
<1>3. CreatedSite(e, f, d) = WithOrigins(Overlay(z, v))
    BY DEF CreatedSite
<1>4. \A k \in DOMAIN v : v[k] # Bad /\ k # "domain"
    BY VarsGood
<1> HIDE DEF z, v
<1>5. /\ DOMAIN WithOrigins(Overlay(z, v)) = DOMAIN z
      /\ \A k \in DOMAIN z : k # "origins" => WithOrigins(Overlay(z, v))[k] = Overlay(z, v)[k]
    BY OverlayAt DEF WithOrigins
<1>6. \A k \in Keys \cup {"domain"} : k # "origins" /\ k \in DOMAIN z
    BY <1>2 DEF Keys
<1>7. \A k \in Keys \cup {"domain"} :
        CreatedSite(e, f, d)[k] = IF k \in DOMAIN v THEN v[k] ELSE z[k]
    BY <1>3, <1>4, <1>5, <1>6, OverlayAt
<1> QED
    BY <1>2, <1>3, <1>4, <1>5, <1>7 DEF v

\* A site that loads is the one entry of the file, with its variables if it is
\* listed, or is listed and has no entry.
LEMMA SiteFound ==
    ASSUME NEW e \in Envs, NEW f \in Files, Loads(e, f), NEW d \in DOMAIN Load(e, f).sites
    PROVE  LET site == Load(e, f).sites[d]
               global == Filled(Globals(e, f), Builtin) IN
           \/ \E i \in DOMAIN f.sites :
                /\ site = Filled(FileSite(e, f.sites[i]), global)
                /\ f.sites[i].domain = d
                /\ Entries(f, d) = {f.sites[i]}
                /\ d \in e.listed <=> Listed(e, f.sites[i])
           \/ /\ site = Filled(CreatedSite(e, f, d), global)
              /\ d \in e.listed
              /\ Entries(f, d) = {}
<1> DEFINE global == Filled(Globals(e, f), Builtin)
           site == Load(e, f).sites[d]
<1>0. BadVars(e) = {} /\ Valid(e, f)
    BY DEF Loads
<1>1. \E s \in SitesOf(e, f) : s.domain = d
    BY DEF Load
<1>2. site \in SitesOf(e, f) /\ site.domain = d
    <2>1. site = CHOOSE s \in SitesOf(e, f) : s.domain = d
        BY DEF Load
    <2> HIDE DEF site
    <2> QED BY <1>1, <2>1
<1>3. \/ \E i \in DOMAIN f.sites : site = Filled(FileSite(e, f.sites[i]), global)
      \/ \E x \in Created(e, f) : site = Filled(CreatedSite(e, f, x), global)
    BY <1>2 DEF SitesOf
<1> HIDE DEF site, global
<1>4. ASSUME NEW i \in DOMAIN f.sites, site = Filled(FileSite(e, f.sites[i]), global)
      PROVE  /\ f.sites[i].domain = d
             /\ Entries(f, d) = {f.sites[i]}
             /\ d \in e.listed <=> Listed(e, f.sites[i])
    <2>1. f.sites[i].domain = d
        BY <1>0, <1>2, <1>4, FileSiteAt, FilledAt
    <2>2. \A j \in DOMAIN f.sites : f.sites[j].domain = d => j = i
        BY <1>0, <2>1 DEF Valid
    <2>3. Entries(f, d) = {f.sites[i]}
        BY <2>1, <2>2 DEF Entries
    <2>4. d \notin Created(e, f)
        BY <1>0, <2>1 DEF Valid
    <2>5. d \in e.listed => Listed(e, f.sites[i])
        BY <2>2, <2>4 DEF Created
    <2> QED BY <2>1, <2>3, <2>5 DEF Listed
<1>5. ASSUME NEW x \in Created(e, f), site = Filled(CreatedSite(e, f, x), global)
      PROVE  /\ site = Filled(CreatedSite(e, f, d), global)
             /\ d \in e.listed
             /\ Entries(f, d) = {}
    <2>1. x \in e.listed
        BY DEF Created
    <2>2. x = d
        BY <1>0, <1>2, <1>5, <2>1, CreatedSiteAt, FilledAt
    <2>3. Entries(f, d) = {}
        BY <1>0, <2>2 DEF Valid, Entries
    <2> QED BY <1>5, <2>1, <2>2, <2>3
<1> QED
    BY <1>3, <1>4, <1>5 DEF site, global

\* A configuration that loads gives every site what the sections say.
\* The settings of a site, with what Precedence leaves open: a zero counts as
\* nothing, the site's section comes before any global one, and a site of the
\* file has the flags of its section alone.
Settled(e, f, d, site) ==
    LET global(k) == GlobalSays(e, f, k) IN
    /\ \A k \in {"cap", "decay", "zone"} :
        LET own == SiteSays(e, f, d, k, 0) IN
        site[k] = IF own # 0 THEN own ELSE IF global(k) # 0 THEN global(k) ELSE Builtin[k]
    /\ site.labels = SiteSays(e, f, d, "labels", global("labels"))
    /\ site.flag = SiteSays(e, f, d, "flag", IF Entries(f, d) = {} THEN global("flag") ELSE FALSE)

LEMMA LoadSettles ==
    ASSUME NEW e \in Envs, NEW f \in Files, Loads(e, f), NEW d \in DOMAIN Load(e, f).sites
    PROVE  Settled(e, f, d, Load(e, f).sites[d])
<1> DEFINE global == Filled(Globals(e, f), Builtin)
           site == Load(e, f).sites[d]
           v == VarsOf(e, d)
<1>0. BadVars(e) = {}
    BY DEF Loads
<1>1. /\ global.labels = GlobalSays(e, f, "labels")
      /\ \A k \in Numbers : global[k] = IF GlobalSays(e, f, k) = 0 THEN Builtin[k] ELSE GlobalSays(e, f, k)
    BY <1>0, InheritedAt
<1>2. /\ \A k \in Numbers : Zero[k] = 0 /\ k \in Keys
      /\ Zero.labels = Nil /\ Zero.flag = FALSE /\ "labels" \in Keys /\ "flag" \in Keys
    BY DEF Zero, Numbers, Keys
<1>v. d \in e.listed /\ "labels" \in DOMAIN v => v["labels"] # Nil
    BY <1>0, VarsGood
<1>3. ASSUME NEW i \in DOMAIN f.sites, site = Filled(FileSite(e, f.sites[i]), global),
             f.sites[i].domain = d, Entries(f, d) = {f.sites[i]},
             d \in e.listed <=> Listed(e, f.sites[i])
      PROVE  Settled(e, f, d, site)
    <2> DEFINE s == f.sites[i]
               t == FileSite(e, s)
    <2>1. /\ Keys \subseteq DOMAIN t
          /\ \A k \in Keys :
                t[k] = IF d \in e.listed /\ k \in DOMAIN v THEN v[k]
                       ELSE IF k \in DOMAIN s.own THEN s.own[k] ELSE Zero[k]
        BY <1>0, <1>3, FileSiteAt
    <2>2. \A k, o : SiteSays(e, f, d, k, o) =
                        IF d \in e.listed /\ k \in DOMAIN v THEN v[k]
                        ELSE IF k \in DOMAIN s.own THEN s.own[k] ELSE o
        <3> SUFFICES ASSUME NEW k, NEW o
                     PROVE  SiteSays(e, f, d, k, o) =
                                IF d \in e.listed /\ k \in DOMAIN v THEN v[k]
                                ELSE IF k \in DOMAIN s.own THEN s.own[k] ELSE o
            OBVIOUS
        <3> DEFINE given == {x \in Entries(f, d) : k \in DOMAIN x.own}
        <3>1. given = IF k \in DOMAIN s.own THEN {s} ELSE {}
            BY <1>3
        <3>2. given # {} => (CHOOSE x \in given : TRUE) = s
            BY <3>1
        <3> QED BY <3>1, <3>2 DEF SiteSays, VarGives
    <2>3. "labels" \in DOMAIN s.own => s.own["labels"] # Nil
        BY SectionAssumption DEF Parsed
    <2> HIDE DEF s, t, v, global
    <2>4. /\ \A k \in Numbers : site[k] = IF t[k] = 0 THEN global[k] ELSE t[k]
          /\ site.labels = IF t.labels = Nil THEN global.labels ELSE t.labels
          /\ site.flag = t.flag
        BY <1>3, <2>1, FilledAt DEF s, t
    <2>5. \A k \in Numbers : t[k] = SiteSays(e, f, d, k, 0)
        BY <1>2, <2>1, <2>2
    <2>6. \A k \in Numbers :
            site[k] = IF SiteSays(e, f, d, k, 0) # 0 THEN SiteSays(e, f, d, k, 0)
                      ELSE IF GlobalSays(e, f, k) # 0 THEN GlobalSays(e, f, k) ELSE Builtin[k]
        BY <1>1, <2>4, <2>5
    <2>7. site.labels = SiteSays(e, f, d, "labels", GlobalSays(e, f, "labels"))
        BY <1>1, <1>2, <1>v, <2>1, <2>2, <2>3, <2>4
    <2>8. site.flag = SiteSays(e, f, d, "flag", IF Entries(f, d) = {} THEN GlobalSays(e, f, "flag") ELSE FALSE)
        BY <1>2, <1>3, <2>1, <2>2, <2>4
    <2> HIDE DEF site
    <2> QED BY <2>6, <2>7, <2>8 DEF Settled, Numbers
<1>4. ASSUME site = Filled(CreatedSite(e, f, d), global), d \in e.listed, Entries(f, d) = {}
      PROVE  Settled(e, f, d, site)
    <2> DEFINE t == CreatedSite(e, f, d)
               g == Globals(e, f)
    <2>1. /\ Keys \subseteq DOMAIN t
          /\ \A k \in Keys : t[k] = IF k \in DOMAIN v THEN v[k] ELSE g[k]
        BY <1>0, <1>4, CreatedSiteAt
    <2>2. \A k, o : SiteSays(e, f, d, k, o) = IF k \in DOMAIN v THEN v[k] ELSE o
        BY <1>4 DEF SiteSays, VarGives
    <2>3. /\ \A k \in Numbers \cup {"flag"} : g[k] = GlobalSays(e, f, k)
          /\ g.labels \in {Nil, GlobalSays(e, f, "labels")}
        BY <1>0, GlobalsAt
    <2> HIDE DEF t, v, g, global
    <2>4. /\ \A k \in Numbers : site[k] = IF t[k] = 0 THEN global[k] ELSE t[k]
          /\ site.labels = IF t.labels = Nil THEN global.labels ELSE t.labels
          /\ site.flag = t.flag
        BY <1>4, <2>1, FilledAt DEF t
    <2>6. \A k \in Numbers :
            site[k] = IF SiteSays(e, f, d, k, 0) # 0 THEN SiteSays(e, f, d, k, 0)
                      ELSE IF GlobalSays(e, f, k) # 0 THEN GlobalSays(e, f, k) ELSE Builtin[k]
        BY <1>1, <1>2, <2>1, <2>2, <2>3, <2>4
    <2>7. site.labels = SiteSays(e, f, d, "labels", GlobalSays(e, f, "labels"))
        BY <1>1, <1>2, <1>4, <1>v, <2>1, <2>2, <2>3, <2>4
    <2>8. site.flag = SiteSays(e, f, d, "flag", IF Entries(f, d) = {} THEN GlobalSays(e, f, "flag") ELSE FALSE)
        BY <1>2, <1>4, <2>1, <2>2, <2>3, <2>4
    <2> HIDE DEF site
    <2> QED BY <2>6, <2>7, <2>8 DEF Settled, Numbers
<1> QED
    BY <1>3, <1>4, SiteFound

\* The configuration in force is one that loaded, and except in the middle of
\* a reload the registry works with it.
InForce ==
    /\ env \in Envs /\ file \in Files /\ source \in Files
    /\ Loads(env, source)
    /\ cur = Load(env, source)
    /\ ~reloading => \A d \in DOMAIN cur.sites : d \in DOMAIN sites /\ sites[d].cfg = cur.sites[d]

LEMMA ConfiguredCfg ==
    ASSUME NEW old, NEW c
    PROVE  \A d \in DOMAIN c.sites : d \in DOMAIN Configured(old, c) /\ Configured(old, c)[d].cfg = c.sites[d]
    BY DEF Configured

LEMMA InForceAlways == PSpec => []InForce
<1>1. PInit => InForce
    BY ConfiguredCfg DEF PInit, InForce
<1>2. InForce /\ [PNext]_pvars => InForce'
    <2> SUFFICES ASSUME InForce, [PNext]_pvars PROVE InForce'
        OBVIOUS
    <2>1. ASSUME NEW f \in Files, Edit(f) PROVE InForce'
        BY <2>1 DEF Edit, InForce
    <2>2. CASE StoreReload
        BY <2>2 DEF StoreReload, InForce
    <2>3. CASE Configure
        BY <2>3, ConfiguredCfg DEF Configure, InForce
    <2>4. CASE UNCHANGED <<env, file, cur, sites, reloading, source>>
        BY <2>4 DEF InForce
    <2> QED
        BY <2>1, <2>2, <2>3, <2>4 DEF PNext, pvars, Reject, Accept, Enriched, Done
<1> QED BY <1>1, <1>2, PTL DEF PSpec

(***************************************************************************)
(* Where a setting comes from, for any files, environments and reloads:    *)
(* from the site's section, else the global one, else built in, with the   *)
(* variable before the file in each.                                       *)
(***************************************************************************)
THEOREM PrecedenceCorrect == PSpec => []Precedence
<1>1. InForce => Precedence
    <2> SUFFICES ASSUME InForce, NEW d \in DOMAIN cur.sites, NEW k \in {"cap", "decay", "zone", "labels"}
                 PROVE  LET gives == SiteGives(env, source, d, k)
                            said == IF gives THEN SiteSays(env, source, d, k, Nil)
                                    ELSE GlobalSays(env, source, k)
                        IN  k = "labels" \/ said # 0 => cur.sites[d][k] = said
        BY DEF InForce, Precedence
    <2>1. Settled(env, source, d, cur.sites[d])
        BY LoadSettles DEF InForce
    <2>2. ASSUME NEW x, NEW y, SiteGives(env, source, d, k)
          PROVE  SiteSays(env, source, d, k, x) = SiteSays(env, source, d, k, y)
        BY <2>2 DEF SiteGives, SiteSays
    <2>3. ASSUME NEW x, ~SiteGives(env, source, d, k)
          PROVE  SiteSays(env, source, d, k, x) = x
        BY <2>3 DEF SiteGives, SiteSays
    <2>4. CASE k = "labels"
        BY <2>1, <2>2, <2>3, <2>4 DEF Settled
    <2>5. CASE k \in {"cap", "decay", "zone"}
        <3>1. cur.sites[d][k] = IF SiteSays(env, source, d, k, 0) # 0 THEN SiteSays(env, source, d, k, 0)
                                ELSE IF GlobalSays(env, source, k) # 0 THEN GlobalSays(env, source, k)
                                ELSE Builtin[k]
            BY <2>1, <2>5 DEF Settled
        <3> QED BY <2>2, <2>3, <2>5, <3>1
    <2> QED BY <2>4, <2>5
<1> QED BY <1>1, InForceAlways, PTL

-----------------------------------------------------------------------------

LEMMA SiteDomain ==
    ASSUME InForce, NEW d \in DOMAIN cur.sites
    PROVE  cur.sites[d].domain = d
    BY DEF InForce, Load

\* What is known of an event on its way: it is a request of someone who is no
\* bot, for the site it names, with the address found when it came, and it is
\* recorded as it was queued.
Followed ==
    /\ event.pc \in {"none", "rejected", "queued", "recorded"}
    /\ event.pc = "none" => event = NoEvent
    /\ event.pc = "queued" => event = [pc |-> "queued", req |-> event.req, site |-> event.site,
                                       ip |-> event.ip, trusted |-> event.trusted]
    /\ event.pc \in {"queued", "recorded"} =>
        \E r \in Requests :
            /\ event.req = Sanitized(r)
            /\ event.ip = ClientIP(r, event.trusted)
            /\ event.site.domain = r.domain
            /\ ~ParseUA(r.ua).bot
    /\ event.pc = "recorded" => event.obs = enrichEvent(event)
    /\ event.pc = "rejected" => event.label \in {Nil} \cup DOMAIN cur.sites \cup DOMAIN sites

LEMMA FollowedStep == InForce /\ Followed /\ [PNext]_pvars => Followed'
<1> SUFFICES ASSUME InForce, Followed, [PNext]_pvars PROVE Followed'
    OBVIOUS
<1>1. ASSUME NEW r \in Requests, Reject(r) PROVE Followed'
    <2>1. Label(r, cur) \in {Nil} \cup DOMAIN cur.sites
        <3>1. 2 \in DOMAIN Checks(r, cur) /\ Checks(r, cur)[2][2] = (r.domain \notin DOMAIN cur.sites)
            BY DEF Checks
        <3>2. 2 \notin Failed(r, cur) => r.domain \in DOMAIN cur.sites
            BY <3>1 DEF Failed
        <3> QED BY <3>2, SiteDomain DEF Label
    <2>2. /\ event' = [pc |-> "rejected", req |-> r, verdict |-> Verdict(r, cur), label |-> Label(r, cur)]
          /\ cur' = cur /\ sites' = sites
        BY <1>1 DEF Reject
    <2>3. event'.pc = "rejected" /\ event'.label = Label(r, cur)
        BY <2>2
    <2> QED BY <2>1, <2>2, <2>3 DEF Followed
<1>2. ASSUME NEW r \in Requests, Accept(r) PROVE Followed'
    <2>1. event' = [pc |-> "queued", req |-> Sanitized(r), site |-> cur.sites[r.domain],
                    ip |-> ClientIP(r, cur.server.trust), trusted |-> cur.server.trust]
        BY <1>2 DEF Accept
    <2>2. /\ event'.pc = "queued" /\ event'.req = Sanitized(r)
          /\ event'.ip = ClientIP(r, event'.trusted) /\ event'.site = cur.sites[r.domain]
          /\ event' = [pc |-> "queued", req |-> event'.req, site |-> event'.site,
                       ip |-> event'.ip, trusted |-> event'.trusted]
        BY <2>1
    <2>3. Failed(r, cur) = {}
        BY <1>2 DEF Accept
    <2>4. ~ParseUA(r.ua).bot
        <3>1. 6 \in DOMAIN Checks(r, cur) /\ Checks(r, cur)[6][2] = ParseUA(r.ua).bot
            BY DEF Checks
        <3> QED BY <2>3, <3>1 DEF Failed
    <2>5. cur.sites[r.domain].domain = r.domain
        <3>1. 2 \in DOMAIN Checks(r, cur) /\ Checks(r, cur)[2][2] = (r.domain \notin DOMAIN cur.sites)
            BY DEF Checks
        <3>2. r.domain \in DOMAIN cur.sites
            BY <2>3, <3>1 DEF Failed
        <3> QED BY <3>2, SiteDomain
    <2> QED BY <2>2, <2>4, <2>5 DEF Followed
<1>3. CASE Enriched
    <2>1. /\ event.pc = "queued"
          /\ event' = Join([event EXCEPT !.pc = "recorded"], [obs |-> enrichEvent(event)])
        BY <1>3 DEF Enriched
    <2>2. DOMAIN event = {"pc", "req", "site", "ip", "trusted"}
        BY <2>1 DEF Followed
    <2>3. /\ event'.pc = "recorded" /\ event'.obs = enrichEvent(event) /\ event'.req = event.req
          /\ event'.site = event.site /\ event'.ip = event.ip /\ event'.trusted = event.trusted
        BY <2>1, <2>2 DEF Join
    <2>4. enrichEvent(event') = enrichEvent(event)
        BY <2>3, EnrichDepends
    <2>5. \E r \in Requests :
            /\ event.req = Sanitized(r) /\ event.ip = ClientIP(r, event.trusted)
            /\ event.site.domain = r.domain /\ ~ParseUA(r.ua).bot
        BY <2>1 DEF Followed
    <2> QED BY <2>3, <2>4, <2>5 DEF Followed
<1>4. CASE Done
    BY <1>4 DEF Done, Followed, NoEvent
\* A site that a reload takes out of the configuration stays in the registry.
<1>5. ASSUME UNCHANGED event,
             DOMAIN cur.sites \cup DOMAIN sites \subseteq DOMAIN cur'.sites \cup DOMAIN sites'
      PROVE  Followed'
    BY <1>5, EnrichDepends DEF Followed
<1>6. CASE StoreReload
    BY <1>5, <1>6 DEF StoreReload, InForce
<1>7. CASE Configure
    BY <1>5, <1>7 DEF Configure, Configured
<1>8. CASE UNCHANGED <<event, cur, sites>>
    BY <1>5, <1>8
<1> QED
    BY <1>1, <1>2, <1>3, <1>4, <1>6, <1>7, <1>8 DEF PNext, pvars, Edit

LEMMA FollowedAlways == PSpec => []Followed
<1>1. PInit => Followed
    BY DEF PInit, NoEvent, Followed
<1> QED BY <1>1, InForceAlways, FollowedStep, PTL DEF PSpec

\* The address that a request is seen to come from.
Seen(q, trusted) ==
    IF trusted /\ q.forwarded # <<>> /\ q.forwarded[1] # NoAddr THEN q.forwarded[1]
    ELSE IF trusted /\ q.realIP # NoAddr THEN q.realIP ELSE q.remote

Prefix(a) == IF a = NoAddr THEN <<0, 0>> ELSE <<IF a.family = 6 THEN 6 ELSE 4, a.net>>

LEMMA KeyIsPrefix ==
    ASSUME NEW a \in Address \cup {NoAddr}
    PROVE  rateKey(Unmap(a)) = Prefix(a)
<1>1. NoAddr \notin Address
    BY RequestAssumption
<1> QED BY <1>1 DEF rateKey, Unmap, Prefix, Address

LEMMA SeenIsAddress ==
    ASSUME NEW q, NEW t, q.forwarded \in Seq(Address \cup {NoAddr}),
           q.realIP \in Address \cup {NoAddr}, q.remote \in Address \cup {NoAddr}
    PROVE  /\ Seen(q, t) \in Address \cup {NoAddr}
           /\ ClientIP(q, t) = Unmap(Seen(q, t))
    BY DEF Seen, ClientIP

(***************************************************************************)
(* One prefix is one key of the limiter and one key is one prefix, mapped  *)
(* or not, for every address a request can come from, and no header counts *)
(* unless the proxy was trusted when the request came.                     *)
(***************************************************************************)
THEOREM OneKeyCorrect == PSpec => []OneKeyPerPrefix
<1>1. Followed => OneKeyPerPrefix
    <2> SUFFICES ASSUME Followed, event.pc \in {"queued", "recorded"}, NEW p \in Peers
                 PROVE  rateKey(ClientIP(p, event.trusted)) = rateKey(event.ip)
                            <=> Prefix(Seen(p, event.trusted)) = Prefix(Seen(event.req, event.trusted))
        BY DEF OneKeyPerPrefix, Seen, Prefix
    <2>1. PICK r \in Requests : event.req = Sanitized(r) /\ event.ip = ClientIP(r, event.trusted)
        BY DEF Followed
    <2>2. PICK q \in Requests : p = [forwarded |-> q.forwarded, realIP |-> q.realIP, remote |-> q.remote]
        BY DEF Peers
    <2>3. ASSUME NEW s \in Requests
          PROVE  /\ s.forwarded \in Seq(Address \cup {NoAddr})
                 /\ s.realIP \in Address \cup {NoAddr} /\ s.remote \in Address \cup {NoAddr}
        BY RequestAssumption DEF Request
    <2>4. rateKey(ClientIP(p, event.trusted)) = Prefix(Seen(p, event.trusted))
        <3>1. p.forwarded = q.forwarded /\ p.realIP = q.realIP /\ p.remote = q.remote
            BY <2>2
        <3> QED BY <2>3, <3>1, SeenIsAddress, KeyIsPrefix
    <2>5. rateKey(event.ip) = Prefix(Seen(r, event.trusted))
        BY <2>1, <2>3, SeenIsAddress, KeyIsPrefix
    <2>6. Seen(event.req, event.trusted) = Seen(r, event.trusted)
        BY <2>1, SanitizedFields DEF Seen
    <2> QED BY <2>4, <2>5, <2>6
<1> QED BY <1>1, FollowedAlways, PTL
-----------------------------------------------------------------------------

\* A set of numbers has a least one.
LEMMA LeastNumber ==
    ASSUME NEW T, T \subseteq Nat, T # {}
    PROVE  \E x \in T : \A y \in T : x <= y
<1> DEFINE R == OpToRel(<, Nat)
<1>1. PICK x \in T : \A y \in T : ~ (<<y, x>> \in R)
    BY WFMin, NatLessThanWellFounded
<1>2. \A y \in T : ~(y < x)
    BY <1>1 DEF OpToRel
<1> QED BY <1>2

LEMMA MinOf ==
    ASSUME NEW T, T \subseteq Nat, T # {}
    PROVE  Min(T) \in T /\ \A y \in T : Min(T) <= y
    BY LeastNumber DEF Min

\* What a URL gives under the names, blanks left out.
Tags(u, names) ==
    IF u.parses /\ ~u.padded THEN {u.query[k] : k \in DOMAIN u.query \cap names} \ {""} ELSE {}

LEMMA PickTags ==
    ASSUME NEW u, NEW keys, DOMAIN keys \subseteq Nat
    PROVE  LET tags == Tags(u, {keys[i] : i \in DOMAIN keys})
           IN  /\ tags = {} => pick(u, keys) = ""
               /\ tags # {} => pick(u, keys) \in tags
<1> DEFINE given == {i \in DOMAIN keys : keys[i] \in DOMAIN u.query /\ u.query[keys[i]] # ""}
           tags == {u.query[k] : k \in DOMAIN u.query \cap {keys[i] : i \in DOMAIN keys}} \ {""}
<1>1. tags = {u.query[keys[i]] : i \in given}
    <2>1. ASSUME NEW t \in tags PROVE t \in {u.query[keys[i]] : i \in given}
        <3>1. PICK k \in DOMAIN u.query \cap {keys[i] : i \in DOMAIN keys} : t = u.query[k] /\ t # ""
            OBVIOUS
        <3>2. PICK i \in DOMAIN keys : k = keys[i]
            OBVIOUS
        <3> QED BY <3>1, <3>2
    <2>2. ASSUME NEW i \in given PROVE u.query[keys[i]] \in tags
        OBVIOUS
    <2> HIDE DEF tags, given
    <2> QED BY <2>1, <2>2
<1>2. given # {} => Min(given) \in given
    <2>1. given \subseteq Nat
        OBVIOUS
    <2> HIDE DEF given
    <2> QED BY <2>1, MinOf
<1>3. pick(u, keys) = IF ~u.parses \/ u.padded \/ given = {} THEN "" ELSE u.query[keys[Min(given)]]
    BY DEF pick
<1> HIDE DEF given, tags
<1>4. given # {} => u.query[keys[Min(given)]] \in tags
    BY <1>1, <1>2
<1>5. given = {} <=> tags = {}
    BY <1>1
<1> DEFINE all == Tags(u, {keys[i] : i \in DOMAIN keys})
<1>6. all = IF u.parses /\ ~u.padded THEN tags ELSE {}
    BY DEF Tags, tags
<1> HIDE DEF all
<1>7. CASE u.parses /\ ~u.padded /\ given # {}
    <2>1. all = tags /\ all # {} /\ pick(u, keys) \in all
        BY <1>3, <1>4, <1>5, <1>6, <1>7
    <2> QED BY <2>1 DEF all
<1>8. CASE ~(u.parses /\ ~u.padded /\ given # {})
    <2>1. all = {} /\ pick(u, keys) = ""
        BY <1>3, <1>5, <1>6, <1>8
    <2> QED BY <2>1 DEF all
<1> QED BY <1>7, <1>8

LEMMA SourceTags ==
    ASSUME NEW u
    PROVE  LET tags == Tags(u, {"utm_source", "source", "ref"})
           IN  /\ tags = {} => ParseUTM(u).source = ""
               /\ tags # {} => ParseUTM(u).source \in tags
               /\ "" \notin tags
<1> DEFINE keys == <<"utm_source", "source", "ref">>
<1>1. DOMAIN keys \subseteq Nat /\ {keys[i] : i \in DOMAIN keys} = {"utm_source", "source", "ref"}
    <2>1. DOMAIN keys = 1 .. 3
        OBVIOUS
    <2>2. {keys[i] : i \in 1 .. 3} = {keys[1], keys[2], keys[3]}
        OBVIOUS
    <2>3. keys[1] = "utm_source" /\ keys[2] = "source" /\ keys[3] = "ref"
        OBVIOUS
    <2>4. 1 .. 3 \subseteq Nat
        OBVIOUS
    <2> HIDE DEF keys
    <2> QED BY <2>1, <2>2, <2>3, <2>4
<1>2. ParseUTM(u).source = pick(u, keys)
    BY DEF ParseUTM
<1> HIDE DEF keys
<1>3. "" \notin Tags(u, {"utm_source", "source", "ref"})
    BY DEF Tags
<1> QED BY <1>1, <1>2, <1>3, PickTags

\* The referrer of a page is a host other than the site's.
LEMMA ReferrerOutside ==
    ASSUME NEW q \in Requests
    PROVE  ReferrerHost(q.ref, q.domain) # "" <=>
            q.ref.letters # "" /\ <<q.ref.letters, q.ref.punct>> # <<q.domain.letters, q.domain.punct>>
<1>1. q.ref \in Domain /\ q.domain \in Domain
    BY RequestAssumption DEF Request
<1>2. [q.ref EXCEPT !.www = FALSE] = [q.domain EXCEPT !.www = FALSE] <=>
        q.ref.letters = q.domain.letters /\ q.ref.punct = q.domain.punct
    BY <1>1 DEF Domain
<1>3. q.ref.letters # "" => hostName(q.ref) # ""
    BY RequestAssumption
<1> QED BY <1>2, <1>3 DEF ReferrerHost

LEMMA BrowserNames ==
    /\ DOMAIN browserRules = 1 .. 19
    /\ \A i \in 1 .. 19 : browserRules[i][2] \notin {""}
    /\ \A i \in 1 .. 14 : browserRules[i][2] \notin {"Chrome", "Safari"}
    /\ \A i \in 15 .. 16 : browserRules[i][2] \notin {"Safari"}
<1>1. DOMAIN browserRules = 1 .. 19
    BY DEF browserRules
<1>2. /\ browserRules[1][2] = "Edge" /\ browserRules[2][2] = "Edge" /\ browserRules[3][2] = "Edge"
      /\ browserRules[4][2] = "Opera" /\ browserRules[5][2] = "Opera" /\ browserRules[6][2] = "Vivaldi"
      /\ browserRules[7][2] = "Brave" /\ browserRules[8][2] = "Yandex" /\ browserRules[9][2] = "Samsung Internet"
      /\ browserRules[10][2] = "UC Browser" /\ browserRules[11][2] = "DuckDuckGo" /\ browserRules[12][2] = "Firefox"
      /\ browserRules[13][2] = "Firefox" /\ browserRules[14][2] = "Chromium" /\ browserRules[15][2] = "Chrome"
      /\ browserRules[16][2] = "Chrome" /\ browserRules[17][2] = "Safari" /\ browserRules[18][2] = "Internet Explorer"
      /\ browserRules[19][2] = "Internet Explorer"
    BY DEF browserRules
<1>3. ASSUME NEW i \in 1 .. 19 PROVE browserRules[i][2] \notin {""}
    <2>1. \/ i = 1 \/ i = 2 \/ i = 3 \/ i = 4 \/ i = 5 \/ i = 6 \/ i = 7 \/ i = 8 \/ i = 9
          \/ i = 10 \/ i = 11 \/ i = 12 \/ i = 13 \/ i = 14 \/ i = 15 \/ i = 16 \/ i = 17 \/ i = 18
          \/ i = 19
        OBVIOUS
    <2> QED BY <1>2, <2>1
<1>4. ASSUME NEW i \in 1 .. 14 PROVE browserRules[i][2] \notin {"Chrome", "Safari"}
    <2>1. \/ i = 1 \/ i = 2 \/ i = 3 \/ i = 4 \/ i = 5 \/ i = 6 \/ i = 7 \/ i = 8 \/ i = 9
          \/ i = 10 \/ i = 11 \/ i = 12 \/ i = 13 \/ i = 14
        OBVIOUS
    <2> QED BY <1>2, <2>1
<1>5. ASSUME NEW i \in 15 .. 16 PROVE browserRules[i][2] \notin {"Safari"}
    <2>1. \/ i = 15 \/ i = 16
        OBVIOUS
    <2> QED BY <1>2, <2>1
<1> QED BY <1>1, <1>3, <1>4, <1>5, Zenon

LEMMA SystemNames ==
    /\ DOMAIN osRules = 1 .. 16
    /\ \A i \in 1 .. 16 : osRules[i][2] \notin {""}
    /\ \A i \in 1 .. 8 : osRules[i][2] \notin {"macOS", "Linux"}
    /\ \A i \in 9 .. 10 : osRules[i][2] \notin {"Linux"}
<1>1. DOMAIN osRules = 1 .. 16
    BY DEF osRules
<1>2. /\ osRules[1][2] = "Windows" /\ osRules[2][2] = "Windows" /\ osRules[3][2] = "Windows Phone"
      /\ osRules[4][2] = "Android" /\ osRules[5][2] = "ChromeOS" /\ osRules[6][2] = "iOS"
      /\ osRules[7][2] = "iOS" /\ osRules[8][2] = "iOS" /\ osRules[9][2] = "macOS"
      /\ osRules[10][2] = "macOS" /\ osRules[11][2] = "Linux" /\ osRules[12][2] = "Linux"
      /\ osRules[13][2] = "Linux" /\ osRules[14][2] = "Linux" /\ osRules[15][2] = "BSD"
      /\ osRules[16][2] = "BSD"
    BY DEF osRules
<1>3. ASSUME NEW i \in 1 .. 16 PROVE osRules[i][2] \notin {""}
    <2>1. \/ i = 1 \/ i = 2 \/ i = 3 \/ i = 4 \/ i = 5 \/ i = 6 \/ i = 7 \/ i = 8 \/ i = 9
          \/ i = 10 \/ i = 11 \/ i = 12 \/ i = 13 \/ i = 14 \/ i = 15 \/ i = 16
        OBVIOUS
    <2> QED BY <1>2, <2>1
<1>4. ASSUME NEW i \in 1 .. 8 PROVE osRules[i][2] \notin {"macOS", "Linux"}
    <2>1. \/ i = 1 \/ i = 2 \/ i = 3 \/ i = 4 \/ i = 5 \/ i = 6 \/ i = 7 \/ i = 8
        OBVIOUS
    <2> QED BY <1>2, <2>1
<1>5. ASSUME NEW i \in 9 .. 10 PROVE osRules[i][2] \notin {"Linux"}
    <2>1. \/ i = 9 \/ i = 10
        OBVIOUS
    <2> QED BY <1>2, <2>1
<1> QED BY <1>1, <1>3, <1>4, <1>5, Zenon

LEMMA MatchKnown ==
    ASSUME NEW ua
    PROVE  match(browserRules, ua) # "" /\ match(osRules, ua) # ""
<1>1. ASSUME NEW rules, NEW n \in Nat, DOMAIN rules = 1 .. n, \A i \in 1 .. n : rules[i][2] # ""
      PROVE  match(rules, ua) # ""
    <2> DEFINE hits == {i \in DOMAIN rules : rules[i][1] \in ua}
    <2>1. hits # {} => Min(hits) \in hits
        <3>1. hits \subseteq 1 .. n
            BY <1>1
        <3>2. 1 .. n \subseteq Nat
            OBVIOUS
        <3> HIDE DEF hits
        <3> QED BY <3>1, <3>2, MinOf
    <2>2. match(rules, ua) = IF hits = {} THEN "Other" ELSE rules[Min(hits)][2]
        BY DEF match
    <2>3. \A i \in hits : rules[i][2] # ""
        BY <1>1
    <2> HIDE DEF hits
    <2> QED BY <2>1, <2>2, <2>3
<1>2. match(browserRules, ua) # ""
    BY <1>1, BrowserNames
<1>3. match(osRules, ua) # ""
    BY <1>1, SystemNames
<1> QED BY <1>2, <1>3

LEMMA ClientKnown ==
    ASSUME NEW ua, ~ParseUA(ua).bot
    PROVE  "" \notin {ParseUA(ua).browser, ParseUA(ua).os, ParseUA(ua).device}
<1>1. deviceClass(ua) # ""
    BY DEF deviceClass
<1> QED BY <1>1, MatchKnown DEF ParseUA

\* The user agents of Browsers are told apart, those of bots excepted.
ToldApart ==
    \A b \in Browsers :
        LET c == ParseUA(b.ua) IN
        ~c.bot => <<c.browser, c.os, c.device>> = <<b.browser, b.os, b.device>>

\* What a page view and an engagement are recorded as.
LEMMA ObservedAs ==
    ASSUME NEW e
    PROVE  LET obs == enrichEvent(e)
               client == ParseUA(e.req.ua)
               ref == ReferrerHost(e.req.ref, e.site.domain) IN
           /\ e.req.name = "pageview" =>
                /\ obs.browser = client.browser /\ obs.os = client.os /\ obs.device = client.device
                /\ obs.source = Source(ParseUTM(e.req.url), ref) /\ obs.referrer = ref
                /\ obs.screen = ScreenClass(e.req.width)
           /\ e.req.name = "engagement" => obs.time = e.req.engaged
<1> DEFINE base == [kind |-> e.req.name, site |-> e.site.domain, path |-> Rewrite(e.site, NormalizePath(e.req.url))]
           utm == ParseUTM(e.req.url)
           ref == ReferrerHost(e.req.ref, e.site.domain)
           client == ParseUA(e.req.ua)
           view == [source |-> Source(utm, ref), medium |-> utm.medium,
                    campaign |-> utm.campaign, referrer |-> ref,
                    browser |-> client.browser, os |-> client.os,
                    device |-> client.device, screen |-> ScreenClass(e.req.width)]
<1>1. \A a, b : \A k \in DOMAIN b : Join(a, b)[k] = b[k]
    BY DEF Join
<1>2. CASE e.req.name = "pageview"
    <2>1. enrichEvent(e) = Join(base, view)
        BY <1>2 DEF enrichEvent
    <2>2. DOMAIN view = {"source", "medium", "campaign", "referrer", "browser", "os", "device", "screen"}
        OBVIOUS
    <2>3. /\ view.source = Source(utm, ref) /\ view.referrer = ref
          /\ view.browser = client.browser /\ view.os = client.os /\ view.device = client.device
          /\ view.screen = ScreenClass(e.req.width)
        OBVIOUS
    <2> HIDE DEF base, view, utm, ref, client
    <2>4. \A k \in DOMAIN view : enrichEvent(e)[k] = view[k]
        BY <1>1, <2>1
    <2>5. /\ enrichEvent(e).source = Source(utm, ref) /\ enrichEvent(e).referrer = ref
          /\ enrichEvent(e).browser = client.browser /\ enrichEvent(e).os = client.os
          /\ enrichEvent(e).device = client.device
          /\ enrichEvent(e).screen = ScreenClass(e.req.width)
        BY <2>2, <2>3, <2>4
    <2> QED BY <1>2, <2>5 DEF utm, ref, client
<1>3. CASE e.req.name = "engagement"
    <2>1. enrichEvent(e) = Join(base, [time |-> e.req.engaged])
        BY <1>3 DEF enrichEvent
    <2> QED BY <1>1, <1>3, <2>1
<1> QED BY <1>2, <1>3

LEMMA ObservedPath ==
    ASSUME NEW e
    PROVE  enrichEvent(e).path = Rewrite(e.site, NormalizePath(e.req.url))
<1> DEFINE path == Rewrite(e.site, NormalizePath(e.req.url))
           base == [kind |-> e.req.name, site |-> e.site.domain, path |-> path]
<1>1. base.path = path /\ "path" \in DOMAIN base
    OBVIOUS
<1> HIDE DEF path
<1>2. \/ enrichEvent(e) = base
      \/ \E b : "path" \notin DOMAIN b /\ enrichEvent(e) = Join(base, b)
    BY DEF enrichEvent, path
<1> HIDE DEF base
<1>3. \A b : "path" \notin DOMAIN b => Join(base, b).path = base.path
    BY <1>1 DEF Join
<1> QED BY <1>1, <1>2, <1>3 DEF path

(***************************************************************************)
(* An event is recorded as what was sent, whichever configurations come    *)
(* and go meanwhile: provided that the rules tell the browsers apart,      *)
(* browser, system and device are the ones of the user agent; the source   *)
(* is what led to the page; nothing is half known.                         *)
(***************************************************************************)
THEOREM RecordedCorrect ==
    ASSUME ToldApart
    PROVE  PSpec => []RecordedAsSent
<1>1. Followed => RecordedAsSent
    <2> SUFFICES ASSUME Followed PROVE RecordedAsSent
        OBVIOUS
    <2>1. event.pc = "rejected" => event.label \in {Nil} \cup DOMAIN cur.sites \cup DOMAIN sites
        BY DEF Followed
    <2>2. ASSUME event.pc = "recorded"
          PROVE  ImpostorsToldApart /\ Attribution /\ NothingHalfKnown
        <3>1. PICK q \in Requests :
                event.req = Sanitized(q) /\ event.site.domain = q.domain /\ ~ParseUA(q.ua).bot
            BY <2>2 DEF Followed
        <3>2. event.obs = enrichEvent(event)
            BY <2>2 DEF Followed
        <3>3. /\ event.req.url = q.url /\ event.req.ref = q.ref /\ event.req.ua = q.ua
              /\ event.req.width \in 0 .. MaxWidth /\ event.req.engaged \in 0 .. MaxEngaged
            BY <3>1, SanitizedFields
        <3>4. event.req.name = "pageview" =>
                /\ event.obs.browser = ParseUA(q.ua).browser
                /\ event.obs.os = ParseUA(q.ua).os
                /\ event.obs.device = ParseUA(q.ua).device
                /\ event.obs.source = Source(ParseUTM(q.url), ReferrerHost(q.ref, q.domain))
                /\ event.obs.referrer = ReferrerHost(q.ref, q.domain)
                /\ event.obs.screen = ScreenClass(event.req.width)
            BY <3>1, <3>2, <3>3, ObservedAs
        <3>5. ImpostorsToldApart
            BY <3>1, <3>3, <3>4 DEF ImpostorsToldApart, ToldApart, Recorded
        <3>6. Attribution
            <4> DEFINE tags == Tags(q.url, {"utm_source", "source", "ref"})
                       outside == /\ q.ref.letters # ""
                                  /\ <<q.ref.letters, q.ref.punct>> # <<q.domain.letters, q.domain.punct>>
            <4>1. /\ tags = {} => ParseUTM(q.url).source = ""
                  /\ tags # {} => ParseUTM(q.url).source \in tags
                  /\ "" \notin tags
                BY SourceTags
            <4>2. ReferrerHost(q.ref, q.domain) # "" <=> outside
                BY ReferrerOutside
            <4> HIDE DEF tags, outside
            <4>3. event.req.name = "pageview" =>
                    /\ event.obs.source # "" <=> outside \/ tags # {}
                    /\ tags # {} => event.obs.source \in tags
                    /\ event.obs.referrer # "" <=> outside
                BY <3>4, <4>1, <4>2 DEF Source
            <4> QED BY <3>1, <3>3, <4>3 DEF Attribution, Recorded, tags, outside, Tags
        <3>7. NothingHalfKnown
            <4>1. event.req.width = 0 => ScreenClass(event.req.width) = ""
                BY DEF ScreenClass
            <4>2. event.req.width # 0 => event.req.width \in 1 .. MaxWidth
                BY <3>3
            <4>3. event.req.name = "engagement" => event.obs.time \in 0 .. MaxEngaged
                BY <3>2, <3>3, ObservedAs
            <4> QED BY <3>1, <3>4, <4>1, <4>2, <4>3, ClientKnown DEF NothingHalfKnown, Recorded
        <3> QED BY <3>5, <3>6, <3>7
    <2>3. CASE event.pc # "recorded"
        BY <2>1, <2>3 DEF RecordedAsSent, ImpostorsToldApart, Attribution, NothingHalfKnown, Recorded
    <2> QED BY <2>1, <2>2, <2>3 DEF RecordedAsSent
<1> QED BY <1>1, FollowedAlways, PTL
-----------------------------------------------------------------------------

\* The first rule wins: a marker that is found keeps all later rules out.
LEMMA MatchFirst ==
    ASSUME NEW rules, NEW ua, NEW n \in Nat, DOMAIN rules = 1 .. n,
           NEW i \in 1 .. n, rules[i][1] \in ua
    PROVE  \E k \in 1 .. i : match(rules, ua) = rules[k][2]
<1> DEFINE hits == {k \in DOMAIN rules : rules[k][1] \in ua}
<1>1. hits \subseteq 1 .. n /\ i \in hits
    OBVIOUS
<1>2. match(rules, ua) = IF hits = {} THEN "Other" ELSE rules[Min(hits)][2]
    BY DEF match
<1>3. 1 .. n \subseteq Nat
    OBVIOUS
<1> HIDE DEF hits
<1>4. Min(hits) \in hits /\ Min(hits) <= i
    BY <1>1, <1>3, MinOf
<1>5. Min(hits) \in 1 .. i
    <2>1. Min(hits) \in 1 .. n
        BY <1>1, <1>4
    <2> QED BY <1>4, <2>1
<1>6. match(rules, ua) = rules[Min(hits)][2]
    BY <1>1, <1>2
<1> QED BY <1>5, <1>6

\* The rules above do not match a user agent that is given another name.
LEMMA NotAbove ==
    ASSUME NEW rules, NEW ua, NEW n \in Nat, DOMAIN rules = 1 .. n, NEW m \in 1 .. n,
           \A i \in 1 .. m : rules[i][2] # match(rules, ua)
    PROVE  \A i \in 1 .. m : rules[i][1] \notin ua
<1> SUFFICES ASSUME NEW i \in 1 .. m, rules[i][1] \in ua PROVE FALSE
    OBVIOUS
<1>1. i \in 1 .. n /\ 1 .. i \subseteq 1 .. m
    OBVIOUS
<1>2. PICK k \in 1 .. i : match(rules, ua) = rules[k][2]
    BY <1>1, MatchFirst
<1> QED BY <1>1, <1>2

(***************************************************************************)
(* No browser that carries the marker of another is taken for it: Safari   *)
(* is what no rule above its own knows, Chrome what is none of its         *)
(* derivatives; an Android is no Linux and an iPhone no Mac.               *)
(***************************************************************************)
THEOREM ImpostorsYield ==
    ASSUME NEW ua
    PROVE  /\ ParseUA(ua).browser = "Safari" => \A i \in 1 .. 16 : browserRules[i][1] \notin ua
           /\ ParseUA(ua).browser = "Chrome" => \A i \in 1 .. 14 : browserRules[i][1] \notin ua
           /\ ParseUA(ua).os = "Linux" => \A i \in 1 .. 10 : osRules[i][1] \notin ua
           /\ ParseUA(ua).os = "macOS" => \A i \in 1 .. 8 : osRules[i][1] \notin ua
<1>1. /\ ParseUA(ua).browser \in {"Unknown", "", match(browserRules, ua)}
      /\ ParseUA(ua).os \in {"Unknown", "", match(osRules, ua)}
    BY DEF ParseUA
<1>2. ASSUME ParseUA(ua).browser = "Safari" PROVE \A i \in 1 .. 16 : browserRules[i][1] \notin ua
    <2>1. match(browserRules, ua) = "Safari"
        BY <1>1, <1>2
    <2>2. ASSUME NEW i \in 1 .. 16 PROVE browserRules[i][2] # "Safari"
        <3>1. i \in 1 .. 14 \/ i \in 15 .. 16
            OBVIOUS
        <3> QED BY <3>1, BrowserNames
    <2>3. 19 \in Nat /\ 16 \in 1 .. 19
        OBVIOUS
    <2> QED BY <2>1, <2>2, <2>3, BrowserNames, NotAbove, Zenon
<1>3. ASSUME ParseUA(ua).browser = "Chrome" PROVE \A i \in 1 .. 14 : browserRules[i][1] \notin ua
    <2>1. match(browserRules, ua) = "Chrome"
        BY <1>1, <1>3
    <2>2. ASSUME NEW i \in 1 .. 14 PROVE browserRules[i][2] # "Chrome"
        <3>1. i \in 1 .. 14
            OBVIOUS
        <3> QED BY <3>1, BrowserNames
    <2>3. 19 \in Nat /\ 14 \in 1 .. 19
        OBVIOUS
    <2> QED BY <2>1, <2>2, <2>3, BrowserNames, NotAbove, Zenon
<1>4. ASSUME ParseUA(ua).os = "Linux" PROVE \A i \in 1 .. 10 : osRules[i][1] \notin ua
    <2>1. match(osRules, ua) = "Linux"
        BY <1>1, <1>4
    <2>2. ASSUME NEW i \in 1 .. 10 PROVE osRules[i][2] # "Linux"
        <3>1. i \in 1 .. 8 \/ i \in 9 .. 10
            OBVIOUS
        <3> QED BY <3>1, SystemNames
    <2>3. 16 \in Nat /\ 10 \in 1 .. 16
        OBVIOUS
    <2> QED BY <2>1, <2>2, <2>3, SystemNames, NotAbove, Zenon
<1>5. ASSUME ParseUA(ua).os = "macOS" PROVE \A i \in 1 .. 8 : osRules[i][1] \notin ua
    <2>1. match(osRules, ua) = "macOS"
        BY <1>1, <1>5
    <2>2. ASSUME NEW i \in 1 .. 8 PROVE osRules[i][2] # "macOS"
        <3>1. i \in 1 .. 8
            OBVIOUS
        <3> QED BY <3>1, SystemNames
    <2>3. 16 \in Nat /\ 8 \in 1 .. 16
        OBVIOUS
    <2> QED BY <2>1, <2>2, <2>3, SystemNames, NotAbove, Zenon
<1> QED BY <1>2, <1>3, <1>4, <1>5

-----------------------------------------------------------------------------

\* The segments that occur, with the two that NormalizePath puts in.
Pieces == {Empty, Id} \cup UNION {{u.path[i] : i \in DOMAIN u.path} : u \in Urls}

Lower(s) == [s EXCEPT !.capitals = FALSE]

\* The texts of the segments stand for them: two segments with one text differ
\* in capitals only, no text stands for no bytes, and Opaque is where the
\* identifiers are.
TextsTell ==
    \A s \in Pieces :
        /\ s.text = "" <=> Size(s) = 0
        /\ s.text \in Opaque <=> isIdentifier(s)
        /\ \A t \in Pieces : s.text = t.text => Lower(s) = Lower(t)

\* A segment as it goes into the label.
Normal(s) == IF isIdentifier(s) THEN Id ELSE Lower(s)

PathOf(u) == IF u.parses THEN u.path ELSE <<Empty>>

FullOf(u) == {i \in DOMAIN PathOf(u) : Size(PathOf(u)[i]) > 0}

\* The whole path, before the cut.
Whole(u) ==
    IF FullOf(u) = {} THEN <<Empty>> ELSE [i \in 1 .. Max(FullOf(u)) |-> Normal(PathOf(u)[i])]

LEMMA MaxOf ==
    ASSUME NEW n \in Nat, NEW T, T \subseteq 1 .. n, T # {}
    PROVE  Max(T) \in T /\ \A y \in T : Max(T) >= y
<1> DEFINE D == {n - i : i \in T}
<1>0. ASSUME NEW i \in T PROVE i \in Nat /\ n - i \in Nat
    OBVIOUS
<1>1. D \subseteq Nat /\ D # {}
    BY <1>0
<1>2. PICK m \in D : \A y \in D : m <= y
    <2> HIDE DEF D
    <2> QED BY <1>1, LeastNumber
<1>3. PICK x \in T : m = n - x
    OBVIOUS
<1>4. ASSUME NEW y \in T PROVE x >= y
    <2>1. n - y \in D
        OBVIOUS
    <2>2. n - x <= n - y
        BY <1>2, <1>3, <2>1
    <2> QED BY <1>0, <2>2
<1> QED BY <1>4 DEF Max

LEMMA LowerLeaves ==
    ASSUME NEW s, s = [k \in DOMAIN s |-> s[k]], s.capitals = FALSE
    PROVE  Lower(s) = s
    BY DEF Lower

\* The two segments that NormalizePath puts in.
LEMMA EmptyIs ==
    /\ Empty.text = "" /\ Size(Empty) = 0
    /\ ~isIdentifier(Empty) /\ Lower(Empty) = Empty
<1>2. Empty.text = "" /\ ~Empty.uuid /\ Empty.capitals = FALSE
    BY DEF Empty, Segment
<1>3. Size(Empty) = 0
    BY DEF Empty, Segment, Size
<1>4. ASSUME NEW s, ~s.uuid, Size(s) = 0 PROVE ~isIdentifier(s)
    BY <1>4 DEF isIdentifier
<1>5. Empty = [k \in DOMAIN Empty |-> Empty[k]]
    BY DEF Empty, Segment
<1>6. ~isIdentifier(Empty)
    BY <1>2, <1>3, <1>4
<1>7. Lower(Empty) = Empty
    BY <1>2, <1>5, LowerLeaves
<1> QED BY <1>2, <1>3, <1>6, <1>7

LEMMA IdIs ==
    /\ Id.text = ":id" /\ Size(Id) = 3
    /\ ~isIdentifier(Id) /\ Lower(Id) = Id
<1>2. Id.text = ":id" /\ ~Id.uuid /\ Id.capitals = FALSE
    BY DEF Id, Segment
<1>3. Size(Id) = 3
    BY DEF Id, Segment, Size
<1>4. ASSUME NEW s, ~s.uuid, Size(s) = 3 PROVE ~isIdentifier(s)
    BY <1>4 DEF isIdentifier
<1>5. Id = [k \in DOMAIN Id |-> Id[k]]
    BY DEF Id, Segment
<1>6. ~isIdentifier(Id)
    BY <1>2, <1>3, <1>4
<1>7. Lower(Id) = Id
    BY <1>2, <1>5, LowerLeaves
<1> QED BY <1>2, <1>3, <1>6, <1>7

\* What the proofs need of a segment.
Sound(s) ==
    /\ s \in Pieces
    /\ Size(s) \in Nat
    /\ Lower(s).text = s.text
    /\ Size(Lower(s)) = Size(s)

LEMMA PathTypes ==
    ASSUME NEW u \in Urls
    PROVE  /\ Len(PathOf(u)) \in Nat
           /\ DOMAIN PathOf(u) = 1 .. Len(PathOf(u))
           /\ \A i \in DOMAIN PathOf(u) : Sound(PathOf(u)[i])
<1>1. CASE u.parses
    <2>1. u.path \in Seq(Segments)
        BY RequestAssumption
    <2>2. ASSUME NEW s \in Segments, s \in Pieces PROVE Sound(s)
        BY <2>2 DEF Sound, Segments, Size, Lower
    <2>3. \A i \in DOMAIN u.path : u.path[i] \in Segments /\ u.path[i] \in Pieces
        BY <2>1 DEF Pieces
    <2> QED BY <1>1, <2>1, <2>2, <2>3 DEF PathOf
<1>2. CASE ~u.parses
    <2>1. PathOf(u) = <<Empty>>
        BY <1>2 DEF PathOf
    <2>2. Sound(Empty)
        <3>1. Empty \in Pieces
            BY DEF Pieces
        <3>2. Lower(Empty).text = Empty.text /\ Size(Lower(Empty)) = Size(Empty)
            BY EmptyIs
        <3>3. Size(Empty) \in Nat
            <4>1. 0 \in Nat
                OBVIOUS
            <4> QED BY <4>1, EmptyIs, Zenon
        <3> QED BY <3>1, <3>2, <3>3 DEF Sound
    <2> QED BY <2>1, <2>2
<1> QED BY <1>1, <1>2

\* NormalizePath is the cut of the whole path.
LEMMA NormalizedIsCut ==
    ASSUME NEW u \in Urls
    PROVE  NormalizePath(u) = Cut(Whole(u), MaxPathLen)
<1> DEFINE p == PathOf(u)
<1>1. ~isIdentifier(Empty) /\ Lower(Empty) = Empty /\ Size(Empty) = 0
    BY EmptyIs
<1>2. CASE ~u.parses
    <2>1. FullOf(u) = {}
        BY <1>1, <1>2 DEF FullOf, PathOf
    <2> QED BY <1>2, <2>1 DEF NormalizePath, Whole
<1>3. CASE u.parses
    <2>1. p = u.path
        BY <1>3 DEF PathOf
    <2>2. NormalizePath(u) = Cut([i \in DOMAIN TrimRight(p) |-> Normal(TrimRight(p)[i])], MaxPathLen)
        BY <1>3, <2>1 DEF NormalizePath, Normal, Lower
    <2>3. TrimRight(p) = IF FullOf(u) = {} THEN <<Empty>> ELSE SubSeq(p, 1, Max(FullOf(u)))
        BY DEF TrimRight, FullOf
    <2>4. CASE FullOf(u) = {}
        <3>1. TrimRight(p) = <<Empty>>
            BY <2>3, <2>4
        <3>2. [i \in DOMAIN TrimRight(p) |-> Normal(TrimRight(p)[i])] = <<Empty>>
            BY <1>1, <3>1 DEF Normal
        <3> QED BY <2>2, <2>4, <3>2 DEF Whole
    <2>5. CASE FullOf(u) # {}
        <3>1. Max(FullOf(u)) \in 1 .. Len(p)
            BY <2>5, MaxOf, PathTypes DEF FullOf
        <3>2. TrimRight(p) = [i \in 1 .. Max(FullOf(u)) |-> p[i]]
            BY <2>3, <2>5, <3>1, PathTypes
        <3>3. [i \in DOMAIN TrimRight(p) |-> Normal(TrimRight(p)[i])] = [i \in 1 .. Max(FullOf(u)) |-> Normal(p[i])]
            BY <3>2
        <3> QED BY <2>2, <2>5, <3>3 DEF Whole
    <2> QED BY <2>4, <2>5
<1> QED BY <1>2, <1>3

\* What Page tells of a segment is the text it has in the label.
LEMMA NormalText ==
    ASSUME TextsTell, NEW s, Sound(s)
    PROVE  /\ Normal(s).text = IF s.text \in Opaque THEN Id.text ELSE s.text
           /\ Size(Normal(s)) = 0 <=> Size(s) = 0
<1>1. CASE isIdentifier(s)
    <2>1. s.text \in Opaque
        BY <1>1 DEF TextsTell, Sound
    <2>2. Size(s) # 0
        BY <1>1 DEF isIdentifier
    <2> QED BY <1>1, <2>1, <2>2, IdIs DEF Normal
<1>2. CASE ~isIdentifier(s)
    <2>1. s.text \notin Opaque
        BY <1>2 DEF TextsTell, Sound
    <2> QED BY <1>2, <2>1 DEF Normal, Sound
<1> QED BY <1>1, <1>2

\* Segments with one text in the label are one.
LEMMA NormalTell ==
    ASSUME TextsTell, NEW s, NEW t, Sound(s), Sound(t), Normal(s).text = Normal(t).text
    PROVE  Normal(s) = Normal(t)
<1>1. Id \in Pieces
    BY DEF Pieces
<1>2. ASSUME NEW a, Sound(a) PROVE \E b \in Pieces : Normal(a) = Lower(b) /\ b.text = Normal(a).text
    <2>1. CASE isIdentifier(a)
        BY <1>1, <2>1, IdIs DEF Normal
    <2>2. CASE ~isIdentifier(a)
        BY <1>2, <2>2 DEF Normal, Sound
    <2> QED BY <2>1, <2>2
<1>3. PICK a \in Pieces : Normal(s) = Lower(a) /\ a.text = Normal(s).text
    BY <1>2
<1>4. PICK b \in Pieces : Normal(t) = Lower(b) /\ b.text = Normal(t).text
    BY <1>2
<1>5. Lower(a) = Lower(b)
    BY <1>3, <1>4 DEF TextsTell
<1> QED BY <1>3, <1>4, <1>5

\* A page is the texts of its whole path.
LEMMA PageIs ==
    ASSUME TextsTell, NEW u \in Urls
    PROVE  /\ FullOf(u) = {} => Page(u) = [i \in {} |-> Id.text]
           /\ FullOf(u) # {} =>
                /\ Max(FullOf(u)) \in 1 .. Len(PathOf(u))
                /\ Page(u) = [i \in 1 .. Max(FullOf(u)) |-> Normal(PathOf(u)[i]).text]
<1> DEFINE p == PathOf(u)
           n == {i \in DOMAIN p : p[i].text # ""}
           D == {j \in DOMAIN p : \E k \in n : j <= k}
           tx(i) == IF p[i].text \in Opaque THEN Id.text ELSE p[i].text
<1>1. Page(u) = [i \in D |-> tx(i)]
    BY DEF Page, PathOf
<1>2. /\ DOMAIN p = 1 .. Len(p) /\ Len(p) \in Nat
      /\ \A i \in DOMAIN p : Sound(p[i])
    BY PathTypes
<1>3. \A i \in DOMAIN p : tx(i) = Normal(p[i]).text /\ Size(p[i]) \in Nat
    BY <1>2, NormalText DEF Sound
<1>4. n = FullOf(u)
    <2>1. \A i \in DOMAIN p : p[i].text = "" <=> Size(p[i]) = 0
        BY <1>2 DEF TextsTell, Sound
    <2>2. FullOf(u) = {i \in DOMAIN p : Size(p[i]) > 0}
        BY DEF FullOf
    <2>3. \A i \in DOMAIN p : Size(p[i]) > 0 <=> p[i].text # ""
        <3> SUFFICES ASSUME NEW i \in DOMAIN p PROVE Size(p[i]) > 0 <=> p[i].text # ""
            OBVIOUS
        <3>1. Size(p[i]) \in Nat /\ (p[i].text = "" <=> Size(p[i]) = 0)
            BY <1>3, <2>1
        <3> DEFINE blank == p[i].text = ""
                   size == Size(p[i])
        <3>2. size \in Nat /\ (blank <=> size = 0)
            BY <3>1
        <3> HIDE DEF p, blank, size
        <3>3. size > 0 <=> ~blank
            BY <3>2
        <3> QED BY <3>3 DEF blank, size
    <2> HIDE DEF p
    <2> QED BY <2>2, <2>3
<1> HIDE DEF p, tx
<1>5. CASE n = {}
    <2>1. D = {}
        BY <1>5
    <2> QED BY <1>1, <1>4, <1>5, <2>1
<1>6. CASE n # {}
    <2> DEFINE m == Max(n)
    <2>1. m \in n /\ \A k \in n : m >= k
        BY <1>2, <1>6, MaxOf
    <2>2. m \in 1 .. Len(p)
        BY <1>2, <2>1
    <2> HIDE DEF m
    <2>4. 1 .. m \subseteq DOMAIN p
        BY <1>2, <2>2
    <2>3. D = 1 .. m
        <3>1. ASSUME NEW j \in D PROVE j \in 1 .. m
            <4>1. PICK k \in n : j <= k
                OBVIOUS
            <4>2. k \in 1 .. Len(p) /\ j \in 1 .. Len(p) /\ m >= k
                BY <1>2, <2>1
            <4> HIDE DEF n, D
            <4>3. j \in Nat /\ j >= 1 /\ k \in Nat /\ m \in Nat
                BY <1>2, <2>2, <4>2
            <4> QED BY <4>1, <4>2, <4>3
        <3>2. ASSUME NEW j \in 1 .. m PROVE j \in D
            <4>1. j \in DOMAIN p /\ j <= m
                BY <2>2, <2>4
            <4> QED BY <2>1, <4>1
        <3> QED BY <3>1, <3>2
    <2> HIDE DEF D, n
    <2>5. Page(u) = [i \in 1 .. m |-> Normal(p[i]).text]
        BY <1>1, <1>3, <2>3, <2>4
    <2> QED BY <1>4, <1>6, <2>2, <2>5 DEF m, p
<1> QED BY <1>5, <1>6

\* One page has one whole path, and the other way round.
LEMMA WholeTells ==
    ASSUME TextsTell, NEW u \in Urls, NEW v \in Urls
    PROVE  Page(u) = Page(v) <=> Whole(u) = Whole(v)
<1> DEFINE m(x) == Max(FullOf(x))
<1>1. ASSUME NEW x \in Urls
      PROVE  /\ FullOf(x) = {} => Page(x) = [i \in {} |-> Id.text] /\ Whole(x) = <<Empty>>
             /\ FullOf(x) # {} =>
                 /\ m(x) \in Nat \ {0}
                 /\ Page(x) = [i \in 1 .. m(x) |-> Normal(PathOf(x)[i]).text]
                 /\ Whole(x) = [i \in 1 .. m(x) |-> Normal(PathOf(x)[i])]
                 /\ \A i \in 1 .. m(x) : Sound(PathOf(x)[i])
                 /\ Whole(x) # <<Empty>>
    <2>1. FullOf(x) = {} => Page(x) = [i \in {} |-> Id.text] /\ Whole(x) = <<Empty>>
        BY PageIs DEF Whole
    <2>2. ASSUME FullOf(x) # {}
          PROVE  /\ m(x) \in 1 .. Len(PathOf(x))
                 /\ m(x) \in FullOf(x)
                 /\ Page(x) = [i \in 1 .. m(x) |-> Normal(PathOf(x)[i]).text]
                 /\ Whole(x) = [i \in 1 .. m(x) |-> Normal(PathOf(x)[i])]
        <3>1. m(x) \in FullOf(x)
            BY <2>2, MaxOf, PathTypes DEF FullOf
        <3> QED BY <2>2, <3>1, PageIs DEF Whole
    <2>3. ASSUME FullOf(x) # {}
          PROVE  \A i \in 1 .. m(x) : Sound(PathOf(x)[i])
        <3> HIDE DEF m
        <3>1. 1 .. m(x) \subseteq DOMAIN PathOf(x)
            BY <2>2, <2>3, PathTypes
        <3> QED BY <3>1, PathTypes
    \* The last segment is not empty.
    <2>4. ASSUME FullOf(x) # {} PROVE Whole(x) # <<Empty>>
        <3>1. Size(PathOf(x)[m(x)]) > 0 /\ m(x) \in DOMAIN PathOf(x)
            BY <2>2, <2>4 DEF FullOf
        <3>2. Size(Normal(PathOf(x)[m(x)])) # 0
            BY <3>1, NormalText, PathTypes
        <3> HIDE DEF m
        <3>3. SUFFICES ASSUME Whole(x) = <<Empty>> PROVE FALSE
            OBVIOUS
        <3>4. 1 .. m(x) = 1 .. 1
            BY <2>2, <2>4, <3>3
        <3>5. m(x) = 1
            BY <2>2, <2>4, <3>4, PathTypes
        <3>6. Whole(x)[1] = Normal(PathOf(x)[1]) /\ Whole(x)[1] = Empty
            BY <2>2, <2>4, <3>3, <3>5
        <3> QED BY <3>2, <3>5, <3>6, EmptyIs
    <2>5. ASSUME FullOf(x) # {} PROVE m(x) \in Nat \ {0}
        <3> HIDE DEF m
        <3> QED BY <2>2, <2>5, PathTypes
    <2> QED BY <2>1, <2>2, <2>3, <2>4, <2>5
<1> HIDE DEF m
<1>2. CASE FullOf(u) = {} /\ FullOf(v) = {}
    BY <1>1, <1>2
<1>3. ASSUME NEW x \in Urls, NEW y \in Urls, FullOf(x) = {}, FullOf(y) # {}
      PROVE  Page(x) # Page(y) /\ Whole(x) # Whole(y)
    <2>1. DOMAIN Page(x) = {} /\ DOMAIN Page(y) = 1 .. m(y)
        BY <1>1, <1>3
    <2>2. 1 \in 1 .. m(y)
        BY <1>1, <1>3
    <2> QED BY <1>1, <1>3, <2>1, <2>2
<1>4. CASE FullOf(u) # {} /\ FullOf(v) # {}
    <2>1. /\ m(u) \in Nat /\ m(v) \in Nat
          /\ Page(u) = [i \in 1 .. m(u) |-> Normal(PathOf(u)[i]).text]
          /\ Page(v) = [i \in 1 .. m(v) |-> Normal(PathOf(v)[i]).text]
          /\ Whole(u) = [i \in 1 .. m(u) |-> Normal(PathOf(u)[i])]
          /\ Whole(v) = [i \in 1 .. m(v) |-> Normal(PathOf(v)[i])]
        BY <1>1, <1>4
    <2>2. ASSUME 1 .. m(u) = 1 .. m(v) PROVE m(u) = m(v)
        BY <2>1, <2>2
    <2>3. ASSUME Whole(u) = Whole(v) PROVE Page(u) = Page(v)
        <3>1. m(u) = m(v)
            BY <2>1, <2>2, <2>3
        <3>2. \A i \in 1 .. m(u) : Normal(PathOf(u)[i]) = Normal(PathOf(v)[i])
            BY <2>1, <2>3, <3>1
        <3> QED BY <2>1, <3>1, <3>2
    <2>4. ASSUME Page(u) = Page(v) PROVE Whole(u) = Whole(v)
        <3>1. m(u) = m(v)
            BY <2>1, <2>2, <2>4
        <3>2. \A i \in 1 .. m(u) : Normal(PathOf(u)[i]).text = Normal(PathOf(v)[i]).text
            BY <2>1, <2>4, <3>1
        <3>3. \A i \in 1 .. m(u) : Normal(PathOf(u)[i]) = Normal(PathOf(v)[i])
            BY <1>1, <1>4, <3>1, <3>2, NormalTell
        <3> QED BY <2>1, <3>1, <3>3
    <2> QED BY <2>3, <2>4
<1> QED BY <1>2, <1>3, <1>4

\* A label that does not take all of MaxPathLen is the whole path.
LEMMA NotFullWhole ==
    ASSUME NEW p, p = SubSeq(p, 1, Len(p)), ~Full(Cut(p, MaxPathLen))
    PROVE  Cut(p, MaxPathLen).head = p
<1> DEFINE k == Max({j \in 0 .. Len(p) : PathLen(SubSeq(p, 1, j)) <= MaxPathLen})
           len == PathLen(SubSeq(p, 1, k))
           c == Cut(p, MaxPathLen)
           rest == <<IF len + 1 = MaxPathLen THEN "" ELSE p[k + 1].text, MaxPathLen - len - 1,
                     (MaxPathLen - len - 1) % p[k + 1].rune>>
<1>1. c = [head |-> SubSeq(p, 1, k), tail |-> IF k = Len(p) \/ len = MaxPathLen THEN <<>> ELSE rest]
    BY DEF Cut
<1>2. rest # <<>>
    OBVIOUS
<1> HIDE DEF k, rest, c, len
<1>3. /\ c.head = SubSeq(p, 1, k)
      /\ c.tail = IF k = Len(p) \/ len = MaxPathLen THEN <<>> ELSE rest
    BY <1>1
<1>4. c.tail = <<>> /\ PathLen(c.head) # MaxPathLen
    BY DEF Full, c
<1>5. k = Len(p)
    BY <1>2, <1>3, <1>4 DEF len
<1> QED BY <1>3, <1>5 DEF c

LEMMA WholeIsSeq ==
    ASSUME NEW u \in Urls
    PROVE  Whole(u) = SubSeq(Whole(u), 1, Len(Whole(u)))
<1>1. CASE FullOf(u) = {}
    <2>1. Whole(u) = <<Empty>>
        BY <1>1 DEF Whole
    <2> QED BY <2>1
<1>2. CASE FullOf(u) # {}
    <2>1. Max(FullOf(u)) \in Nat
        <3>1. Max(FullOf(u)) \in FullOf(u)
            BY <1>2, MaxOf, PathTypes DEF FullOf
        <3>2. Max(FullOf(u)) \in 1 .. Len(PathOf(u))
            BY <3>1, PathTypes DEF FullOf
        <3> QED BY <3>2, PathTypes
    <2>2. Whole(u) = [i \in 1 .. Max(FullOf(u)) |-> Normal(PathOf(u)[i])]
        BY <1>2 DEF Whole
    <2> QED BY <2>1, <2>2
<1> QED BY <1>1, <1>2

(***************************************************************************)
(* One label per page: URLs of one page get one label for any segments     *)
(* that their texts stand for, any limit and any rewrites, and two pages   *)
(* share a label only where the path fills MaxPathLen.                     *)
(***************************************************************************)
THEOREM OneLabelCorrect ==
    ASSUME TextsTell
    PROVE  PSpec => []OneLabelPerPage
<1>1. Followed => OneLabelPerPage
    <2> SUFFICES ASSUME Followed, event.pc = "recorded", NEW u \in Urls
                 PROVE  LET label == NormalizePath(u)
                            same == label = NormalizePath(event.req.url)
                        IN  /\ Page(u) = Page(event.req.url) =>
                                same /\ Rewrite(event.site, label) = event.obs.path
                            /\ same /\ ~Full(label) => Page(u) = Page(event.req.url)
        BY DEF OneLabelPerPage
    <2> DEFINE v == event.req.url
    <2>1. v \in Urls
        <3>1. PICK q \in Requests : event.req = Sanitized(q)
            BY DEF Followed
        <3> QED BY <3>1, SanitizedFields DEF Urls
    <2>2. event.obs.path = Rewrite(event.site, NormalizePath(v))
        BY ObservedPath DEF Followed
    <2>3. NormalizePath(u) = Cut(Whole(u), MaxPathLen) /\ NormalizePath(v) = Cut(Whole(v), MaxPathLen)
        BY <2>1, NormalizedIsCut
    <2>4. Page(u) = Page(v) <=> Whole(u) = Whole(v)
        BY <2>1, WholeTells
    <2> HIDE DEF v
    <2>5. NormalizePath(u) = NormalizePath(v) /\ ~Full(NormalizePath(u)) => Whole(u) = Whole(v)
        BY <2>1, <2>3, NotFullWhole, WholeIsSeq
    <2>6. /\ Page(u) = Page(v) =>
                NormalizePath(u) = NormalizePath(v) /\ Rewrite(event.site, NormalizePath(u)) = event.obs.path
          /\ NormalizePath(u) = NormalizePath(v) /\ ~Full(NormalizePath(u)) => Page(u) = Page(v)
        BY <2>2, <2>3, <2>4, <2>5
    <2> QED BY <2>6 DEF v
<1> QED BY <1>1, FollowedAlways, PTL
=============================================================================
