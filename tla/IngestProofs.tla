---------------------------- MODULE IngestProofs ----------------------------
(***************************************************************************)
(* The accounts of the ingest server balance, its shutdown drains the      *)
(* queue, and it knows the site of every event outside a reload, for any   *)
(* number of handlers, workers, sites and reloads and any queue size.      *)
(***************************************************************************)
EXTENDS Ingest, FiniteSetTheorems, TLAPS

\* An event on the queue's books is waiting, at a worker, or recorded.
QueueBooks == sent = Len(queue) + Cardinality(Busy) + recorded + unknown

\* How far main.run has come, and what its stages promise: the queue is
\* closed by Close and by nothing else, a worker ends on a queue that is
\* closed and empty, and after a Shutdown that returned no handler is left
\* and none begins.
Life ==
    /\ main \in {"closing", "exited"} => closed
    /\ closed => main \in {"closing", "exited", "crashed"}
    /\ clean /\ (main = "stopped" \/ closed) =>
        ~open /\ \A h \in Handlers : hpc[h] = "idle"
    /\ \A w \in Workers : wpc[w] = "done" => closed /\ queue = <<>>
    /\ main = "exited" => \A w \in Workers : wpc[w] = "done"

\* The sites Record will be asked for: the registry has them, or has them as
\* soon as Configure is through.
Expected == known \cup config

SitesExpected ==
    /\ ~reloading => config \subseteq known
    /\ \A h \in Handlers : hpc[h] # "idle" => hsite[h] \in Expected
    /\ \A i \in 1 .. Len(queue) : queue[i] \in Expected
    /\ \A w \in Workers : wpc[w] = "busy" => wsite[w] \in Expected

IInv == TypeOK /\ QueueBooks /\ EveryPostCounted /\ Life /\ SitesExpected

-----------------------------------------------------------------------------

(***************************************************************************)
(* Who is at work, counted.                                                *)
(***************************************************************************)
LEMMA BusyFinite == IsFiniteSet(Busy) /\ Cardinality(Busy) \in Nat
BY IngestAssumption, FS_Subset, FS_CardinalityType DEF Busy

LEMMA InFlightFinite == IsFiniteSet(InFlight) /\ Cardinality(InFlight) \in Nat
BY IngestAssumption, FS_Subset, FS_CardinalityType DEF InFlight

LEMMA WorkerStarts ==
    ASSUME TypeOK, NEW w \in Workers, wpc[w] # "busy", wpc' = [wpc EXCEPT ![w] = "busy"]
    PROVE  Cardinality(Busy') = Cardinality(Busy) + 1
<1>1. Busy' = Busy \cup {w} /\ w \notin Busy
  BY DEF Busy, TypeOK
<1> QED
  BY <1>1, BusyFinite, FS_AddElement

LEMMA WorkerEnds ==
    ASSUME TypeOK, NEW w \in Workers, wpc[w] = "busy", wpc' = [wpc EXCEPT ![w] = "idle"]
    PROVE  Cardinality(Busy') = Cardinality(Busy) - 1
<1>1. Busy' = Busy \ {w} /\ w \in Busy
  BY DEF Busy, TypeOK
<1> QED
  BY <1>1, BusyFinite, FS_RemoveElement

LEMMA HandlerStarts ==
    ASSUME TypeOK, NEW h \in Handlers, hpc[h] = "idle", hpc' = [hpc EXCEPT ![h] = "check"]
    PROVE  Cardinality(InFlight') = Cardinality(InFlight) + 1
<1>1. InFlight' = InFlight \cup {h} /\ h \notin InFlight
  BY DEF InFlight, TypeOK
<1> QED
  BY <1>1, InFlightFinite, FS_AddElement

LEMMA HandlerEnds ==
    ASSUME TypeOK, NEW h \in Handlers, hpc[h] # "idle", hpc' = [hpc EXCEPT ![h] = "idle"]
    PROVE  Cardinality(InFlight') = Cardinality(InFlight) - 1
<1>1. InFlight' = InFlight \ {h} /\ h \in InFlight
  BY DEF InFlight, TypeOK
<1> QED
  BY <1>1, InFlightFinite, FS_RemoveElement

LEMMA HandlerGoesOn ==
    ASSUME TypeOK, NEW h \in Handlers, hpc[h] # "idle",
           NEW to \in {"send", "sent"}, hpc' = [hpc EXCEPT ![h] = to]
    PROVE  InFlight' = InFlight
BY DEF InFlight, TypeOK

LEMMA CountsType ==
    ASSUME TypeOK
    PROVE  /\ requests \in Nat /\ accepted \in Nat /\ full \in Nat /\ rejected \in Nat /\ lost \in Nat
           /\ sent \in Nat /\ recorded \in Nat /\ unknown \in Nat /\ reloads \in Nat
BY DEF TypeOK

LEMMA NoSiteType ==
    ASSUME NEW s \in Sites
    PROVE  NoSite \in Sites
BY DEF NoSite

(***************************************************************************)
(* What an action leaves alone, its part of the invariant survives.        *)
(***************************************************************************)
LEMMA QueueBooksFrame ==
    ASSUME QueueBooks, UNCHANGED <<queue, sent, wpc, recorded, unknown>>
    PROVE  QueueBooks'
BY DEF QueueBooks, Busy

LEMMA PostsFrame ==
    ASSUME EveryPostCounted, UNCHANGED <<requests, accepted, full, rejected, lost>>,
           clean' => clean, InFlight' = InFlight
    PROVE  EveryPostCounted'
BY DEF EveryPostCounted

LEMMA SitesFrame ==
    ASSUME SitesExpected, UNCHANGED <<rvars, queue, hpc, hsite, wpc, wsite>>
    PROVE  SitesExpected'
BY DEF SitesExpected, Expected, rvars

-----------------------------------------------------------------------------

LEMMA InitIInv == Init => IInv
<1> SUFFICES ASSUME Init PROVE IInv
  OBVIOUS
<1> USE DEF Init
<1>1. NoSite \in Sites
  <2>1. PICK s \in config : TRUE
    OBVIOUS
  <2> QED
    BY <2>1, NoSiteType
<1>2. TypeOK
  <2>1. config \subseteq Sites /\ known \subseteq Sites
    OBVIOUS
  <2>2. queue \in Seq(Sites)
    OBVIOUS
  <2>3. /\ hpc \in [Handlers -> {"idle", "check", "send", "sent"}]
        /\ hsite \in [Handlers -> Sites]
        /\ wpc \in [Workers -> {"idle", "busy", "done"}]
        /\ wsite \in [Workers -> Sites]
    BY <1>1
  <2>4. \A n \in {reloads, requests, sent, accepted, full, rejected, lost, recorded, unknown} : n \in Nat
    OBVIOUS
  <2> QED
    BY <2>1, <2>2, <2>3, <2>4, Zenon DEF TypeOK
<1>3. Busy = {} /\ InFlight = {}
  BY DEF Busy, InFlight
<1>4. QueueBooks /\ EveryPostCounted
  BY <1>3, FS_EmptySet DEF QueueBooks, EveryPostCounted
<1>5. Life
  BY DEF Life
<1>6. SitesExpected
  BY DEF SitesExpected, Expected
<1> QED
  BY <1>2, <1>4, <1>5, <1>6 DEF IInv

LEMMA PostIInv ==
    ASSUME IInv, NEW h \in Handlers, NEW s \in Sites, Post(h, s)
    PROVE  IInv'
<1> USE DEF IInv, Post
<1>1. UNCHANGED <<lvars, rvars, qvars, accepted, full, lost, kvars>>
  OBVIOUS
<1>2. TypeOK'
  <2>1. /\ hpc' \in [Handlers -> {"idle", "check", "send", "sent"}]
        /\ hsite' \in [Handlers -> Sites]
    BY DEF TypeOK
  <2>2. requests' \in Nat /\ rejected' \in Nat
    BY CountsType
  <2> HIDE DEF Post
  <2> QED
    BY <1>1, <2>1, <2>2 DEF TypeOK, lvars, rvars, qvars, kvars
<1>3. QueueBooks'
  BY <1>1, QueueBooksFrame DEF qvars, kvars
<1>4. EveryPostCounted'
  <2>1. CASE s \in config
    <3>1. Cardinality(InFlight') = Cardinality(InFlight) + 1
      BY <2>1, HandlerStarts
    <3> QED
      BY <1>1, <2>1, <3>1, InFlightFinite, CountsType DEF EveryPostCounted, lvars
  <2>2. CASE s \notin config
    <3>1. InFlight' = InFlight
      BY <2>2 DEF InFlight
    <3> QED
      BY <1>1, <2>2, <3>1, InFlightFinite, CountsType DEF EveryPostCounted, lvars
  <2> QED
    BY <2>1, <2>2
<1>5. Life'
  <2>1. ~(clean /\ (main = "stopped" \/ closed))
    BY DEF Life
  <2> QED
    BY <1>1, <2>1 DEF Life, lvars, qvars, kvars
<1>6. SitesExpected'
  <2>1. \A g \in Handlers : hpc'[g] # "idle" => hsite'[g] \in Expected
    BY DEF SitesExpected, Expected, TypeOK
  <2> QED
    BY <1>1, <2>1 DEF SitesExpected, Expected, rvars, qvars, kvars
<1> QED
  BY <1>2, <1>3, <1>4, <1>5, <1>6

\* A handler that ends: rejected, dropped as full, or counted as accepted.
LEMMA ReturnIInv ==
    ASSUME IInv, NEW h \in Handlers, Reject(h) \/ QueueFull(h) \/ CountAccepted(h)
    PROVE  IInv'
<1> USE DEF IInv
<1>1. UNCHANGED <<lvars, rvars, qvars, requests, lost, kvars>>
  BY DEF Reject, QueueFull, CountAccepted
<1>2. /\ hpc[h] # "idle"
      /\ hpc' = [hpc EXCEPT ![h] = "idle"]
      /\ hsite' = [hsite EXCEPT ![h] = NoSite]
  BY DEF Reject, QueueFull, CountAccepted, Return
<1>3. \/ rejected' = rejected + 1 /\ UNCHANGED <<full, accepted>>
      \/ full' = full + 1 /\ UNCHANGED <<rejected, accepted>>
      \/ accepted' = accepted + 1 /\ UNCHANGED <<rejected, full>>
  BY DEF Reject, QueueFull, CountAccepted
<1>4. TypeOK'
  <2>1. NoSite \in Sites
    BY NoSiteType DEF TypeOK
  <2> QED
    BY <1>1, <1>2, <1>3, <2>1 DEF TypeOK, lvars, rvars, qvars, kvars
<1>5. QueueBooks'
  BY <1>1, QueueBooksFrame DEF qvars, kvars
<1>6. EveryPostCounted'
  <2>1. Cardinality(InFlight') = Cardinality(InFlight) - 1
    BY <1>2, HandlerEnds
  <2>2. accepted + full + rejected + 1 = accepted' + full' + rejected'
    BY <1>3 DEF TypeOK
  <2>3. requests' = requests /\ lost' = lost /\ clean' = clean
    BY <1>1 DEF lvars
  <2>4. \A n \in {requests, accepted, full, rejected, lost} : n \in Nat
    BY DEF TypeOK
  <2>5. \A n \in {accepted', full', rejected'} : n \in Nat
    BY <1>3, <2>4
  <2> QED
    BY <2>1, <2>2, <2>3, <2>4, <2>5, InFlightFinite DEF EveryPostCounted
<1>7. Life'
  BY <1>1, <1>2 DEF Life, TypeOK, lvars, qvars, kvars
<1>8. SitesExpected'
  <2>1. \A g \in Handlers : hpc'[g] # "idle" => hsite'[g] \in Expected
    BY <1>2 DEF SitesExpected, TypeOK
  <2> QED
    BY <1>1, <2>1 DEF SitesExpected, Expected, rvars, qvars, kvars
<1> QED
  BY <1>4, <1>5, <1>6, <1>7, <1>8

\* A handler that panics is one that Shutdown did not wait for.
LEMMA SendPanicsIInv ==
    ASSUME IInv, NEW h \in Handlers, SendPanics(h)
    PROVE  IInv'
<1> USE DEF IInv
<1>1. UNCHANGED <<lvars, rvars, qvars, requests, accepted, full, rejected, kvars>> /\ lost' = lost + 1
  BY DEF SendPanics
<1>2. /\ hpc[h] # "idle"
      /\ closed
      /\ hpc' = [hpc EXCEPT ![h] = "idle"]
      /\ hsite' = [hsite EXCEPT ![h] = NoSite]
  BY DEF SendPanics, Return
<1>3. TypeOK'
  <2>1. NoSite \in Sites
    BY NoSiteType DEF TypeOK
  <2> QED
    BY <1>1, <1>2, <2>1 DEF TypeOK, lvars, rvars, qvars, kvars
<1>4. QueueBooks'
  BY <1>1, QueueBooksFrame DEF qvars, kvars
<1>5. EveryPostCounted'
  <2>1. ~clean
    BY <1>2 DEF Life
  <2>2. Cardinality(InFlight') = Cardinality(InFlight) - 1
    BY <1>2, HandlerEnds
  <2> QED
    BY <1>1, <2>1, <2>2, InFlightFinite, CountsType DEF EveryPostCounted, lvars
<1>6. Life'
  BY <1>1, <1>2 DEF Life, TypeOK, lvars, qvars, kvars
<1>7. SitesExpected'
  <2>1. \A g \in Handlers : hpc'[g] # "idle" => hsite'[g] \in Expected
    BY <1>2 DEF SitesExpected, TypeOK
  <2> QED
    BY <1>1, <2>1 DEF SitesExpected, Expected, rvars, qvars, kvars
<1> QED
  BY <1>3, <1>4, <1>5, <1>6, <1>7

LEMMA PassIInv ==
    ASSUME IInv, NEW h \in Handlers, Pass(h)
    PROVE  IInv'
<1> USE DEF IInv, Pass
<1>1. TypeOK'
  BY DEF TypeOK, lvars, rvars, qvars, kvars
<1>2. QueueBooks'
  BY QueueBooksFrame DEF qvars, kvars
<1>3. EveryPostCounted'
  BY HandlerGoesOn, PostsFrame DEF lvars
<1>4. Life'
  BY DEF Life, TypeOK, lvars, qvars, kvars
<1>5. SitesExpected'
  <2>1. \A g \in Handlers : hpc'[g] # "idle" => hsite'[g] \in Expected
    BY DEF SitesExpected, TypeOK
  <2> QED
    BY <2>1 DEF SitesExpected, Expected, rvars, qvars, kvars
<1> QED
  BY <1>1, <1>2, <1>3, <1>4, <1>5

LEMMA SendIInv ==
    ASSUME IInv, NEW h \in Handlers, Send(h)
    PROVE  IInv'
<1> USE DEF IInv, Send
<1>1. TypeOK'
  BY DEF TypeOK, lvars, rvars, kvars
<1>2. QueueBooks'
  <2>1. Len(queue') = Len(queue) + 1
    BY DEF TypeOK
  <2>2. Busy' = Busy
    BY DEF Busy, kvars
  <2>3. sent' = sent + 1 /\ UNCHANGED <<recorded, unknown>>
    BY DEF kvars
  <2>4. Len(queue) \in Nat /\ sent \in Nat /\ recorded \in Nat /\ unknown \in Nat
    BY CountsType DEF TypeOK
  <2>5. sent = Len(queue) + Cardinality(Busy) + recorded + unknown
    BY DEF QueueBooks
  <2>6. Cardinality(Busy') = Cardinality(Busy) /\ Cardinality(Busy) \in Nat
    BY <2>2, BusyFinite
  <2> HIDE DEF Send, IInv
  <2>7. sent' = Len(queue') + Cardinality(Busy') + recorded' + unknown'
    BY <2>1, <2>3, <2>4, <2>5, <2>6
  <2> QED
    BY <2>7 DEF QueueBooks
<1>3. EveryPostCounted'
  BY HandlerGoesOn, PostsFrame DEF lvars
<1>4. Life'
  BY DEF Life, TypeOK, lvars, kvars
<1>5. SitesExpected'
  <2>1. hsite[h] \in Expected
    BY DEF SitesExpected
  <2>2. \A i \in 1 .. Len(queue') : queue'[i] \in Expected
    BY <2>1 DEF SitesExpected, TypeOK
  <2>3. \A g \in Handlers : hpc'[g] # "idle" => hsite'[g] \in Expected
    BY DEF SitesExpected, TypeOK
  <2> QED
    BY <2>2, <2>3 DEF SitesExpected, Expected, rvars, kvars
<1> QED
  BY <1>1, <1>2, <1>3, <1>4, <1>5

LEMMA TakeIInv ==
    ASSUME IInv, NEW w \in Workers, Take(w)
    PROVE  IInv'
<1> USE DEF IInv, Take
<1>1. Head(queue) \in Sites /\ Tail(queue) \in Seq(Sites) /\ Len(Tail(queue)) = Len(queue) - 1
  BY DEF TypeOK
<1>2. TypeOK'
  BY <1>1 DEF TypeOK, lvars, rvars, hvars
<1>3. QueueBooks'
  <2>1. Cardinality(Busy') = Cardinality(Busy) + 1
    BY WorkerStarts
  <2>2. UNCHANGED <<sent, recorded, unknown>>
    OBVIOUS
  <2> QED
    BY <1>1, <2>1, <2>2, BusyFinite DEF QueueBooks, TypeOK
<1>4. EveryPostCounted'
  BY PostsFrame DEF InFlight, lvars, hvars
<1>5. Life'
  BY DEF Life, TypeOK, lvars, hvars
<1>6. SitesExpected'
  <2>1. Head(queue) = queue[1] /\ 1 \in 1 .. Len(queue)
    BY DEF TypeOK
  <2>2. \A i \in 1 .. Len(queue') : queue'[i] = queue[i + 1] /\ i + 1 \in 1 .. Len(queue)
    BY <1>1 DEF TypeOK
  <2>3. \A v \in Workers : wpc'[v] = "busy" => wsite'[v] \in Expected
    BY <2>1 DEF SitesExpected, TypeOK
  <2> QED
    BY <2>2, <2>3 DEF SitesExpected, Expected, rvars, hvars
<1> QED
  BY <1>2, <1>3, <1>4, <1>5, <1>6

LEMMA RecordIInv ==
    ASSUME IInv, NEW w \in Workers, Record(w)
    PROVE  IInv'
<1> USE DEF IInv, Record
<1>1. NoSite \in Sites
  BY NoSiteType DEF TypeOK
<1>2. recorded' \in Nat /\ unknown' \in Nat /\ recorded' + unknown' = recorded + unknown + 1
  <2>1. recorded \in Nat /\ unknown \in Nat
    BY DEF TypeOK
  <2> QED
    BY <2>1
<1>3. TypeOK'
  BY <1>1, <1>2 DEF TypeOK, lvars, rvars, qvars, hvars
<1>4. QueueBooks'
  <2>1. Cardinality(Busy') = Cardinality(Busy) - 1
    BY WorkerEnds
  <2>2. UNCHANGED <<sent, queue>>
    BY DEF qvars
  <2>3. sent \in Nat /\ Len(queue) \in Nat /\ recorded \in Nat /\ unknown \in Nat
    BY DEF TypeOK
  <2> QED
    BY <1>2, <2>1, <2>2, <2>3, BusyFinite DEF QueueBooks
<1>5. EveryPostCounted'
  BY PostsFrame DEF InFlight, lvars, hvars
<1>6. Life'
  BY DEF Life, TypeOK, lvars, qvars, hvars
<1>7. SitesExpected'
  <2>1. \A v \in Workers : wpc'[v] = "busy" => wsite'[v] \in Expected
    BY DEF SitesExpected, TypeOK
  <2> QED
    BY <2>1 DEF SitesExpected, Expected, rvars, qvars, hvars
<1> QED
  BY <1>3, <1>4, <1>5, <1>6, <1>7

\* The process dies with everything as it was.
LEMMA WorkerPanicsIInv ==
    ASSUME IInv, NEW w \in Workers, WorkerPanics(w)
    PROVE  IInv'
<1> USE DEF IInv, WorkerPanics
<1>1. TypeOK'
  BY DEF TypeOK, rvars, qvars, hvars, kvars
<1>2. QueueBooks'
  BY QueueBooksFrame DEF qvars, kvars
<1>3. EveryPostCounted'
  BY PostsFrame DEF InFlight, hvars
<1>4. Life'
  BY DEF Life, qvars, hvars, kvars
<1>5. SitesExpected'
  BY SitesFrame DEF qvars, hvars, kvars
<1> QED
  BY <1>1, <1>2, <1>3, <1>4, <1>5

LEMMA WorkerDoneIInv ==
    ASSUME IInv, NEW w \in Workers, WorkerDone(w)
    PROVE  IInv'
<1> USE DEF IInv, WorkerDone
<1>1. TypeOK'
  BY DEF TypeOK, lvars, rvars, qvars, hvars
<1>2. QueueBooks'
  <2>1. Busy' = Busy
    BY DEF Busy, TypeOK
  <2> QED
    BY <2>1 DEF QueueBooks, qvars
<1>3. EveryPostCounted'
  BY PostsFrame DEF InFlight, lvars, hvars
<1>4. Life'
  BY DEF Life, TypeOK, lvars, qvars, hvars
<1>5. SitesExpected'
  <2>1. \A v \in Workers : wpc'[v] = "busy" => wsite'[v] \in Expected
    BY DEF SitesExpected, TypeOK
  <2> QED
    BY <2>1 DEF SitesExpected, Expected, rvars, qvars, hvars
<1> QED
  BY <1>1, <1>2, <1>3, <1>4, <1>5

-----------------------------------------------------------------------------

LEMMA ReloadIInv ==
    ASSUME IInv, Configure \/ \E c \in (SUBSET Sites) \ {{}} : StoreReload(c)
    PROVE  IInv'
<1> USE DEF IInv
<1>1. UNCHANGED <<lvars, qvars, hvars, kvars>>
  BY DEF Configure, StoreReload
<1>2. TypeOK'
  <2>1. config' \subseteq Sites /\ known' \subseteq Sites /\ reloads' \in Nat
    BY DEF Configure, StoreReload, TypeOK
  <2>2. reloading' \in BOOLEAN
    BY DEF Configure, StoreReload
  <2> QED
    BY <1>1, <2>1, <2>2 DEF TypeOK, lvars, qvars, hvars, kvars
<1>3. QueueBooks'
  BY <1>1, QueueBooksFrame DEF qvars, kvars
<1>4. EveryPostCounted'
  BY <1>1, PostsFrame DEF InFlight, lvars, hvars
<1>5. Life'
  BY <1>1 DEF Life, lvars, qvars, hvars, kvars
<1>6. SitesExpected'
  <2>1. Expected \subseteq Expected'
    BY DEF Configure, StoreReload, SitesExpected, Expected
  <2>2. (~reloading => config \subseteq known)'
    BY DEF Configure, StoreReload
  <2> QED
    BY <1>1, <2>1, <2>2 DEF SitesExpected, qvars, hvars, kvars
<1> QED
  BY <1>2, <1>3, <1>4, <1>5, <1>6

\* The steps of main.run towards its end.
LEMMA MainIInv ==
    ASSUME IInv,
           Signal \/ ShutdownReturns \/ ShutdownTimesOut \/ ListenerFails \/ CloseQueue \/ Exit
    PROVE  IInv'
<1> USE DEF IInv
<1>1. UNCHANGED <<rvars, queue, sent, hvars, kvars>> /\ (clean' => clean)
  BY DEF Signal, ShutdownReturns, ShutdownTimesOut, ListenerFails, CloseQueue, Exit, qvars
<1>2. TypeOK'
  <2>1. main' \in {"serving", "stopping", "stopped", "closing", "exited", "crashed"}
    BY DEF Signal, ShutdownReturns, ShutdownTimesOut, ListenerFails, CloseQueue, Exit
  <2>2. open' \in BOOLEAN /\ clean' \in BOOLEAN /\ closed' \in BOOLEAN
    BY DEF Signal, ShutdownReturns, ShutdownTimesOut, ListenerFails, CloseQueue, Exit,
           TypeOK, qvars
  <2> QED
    BY <1>1, <2>1, <2>2 DEF TypeOK, rvars, hvars, kvars
<1>3. QueueBooks'
  BY <1>1, QueueBooksFrame DEF kvars
<1>4. EveryPostCounted'
  BY <1>1, PostsFrame DEF InFlight, hvars
<1>5. Life'
  <2>1. CASE Signal
    BY <2>1 DEF Signal, Life, qvars, hvars, kvars
  <2>2. CASE ShutdownReturns
    BY <2>2 DEF ShutdownReturns, Life, qvars, hvars, kvars
  <2>3. CASE ShutdownTimesOut
    BY <2>3 DEF ShutdownTimesOut, Life, qvars, hvars, kvars
  <2>4. CASE ListenerFails
    BY <2>4 DEF ListenerFails, Life, qvars, hvars, kvars
  <2>5. CASE CloseQueue
    BY <2>5 DEF CloseQueue, Life, hvars, kvars
  <2>6. CASE Exit
    BY <2>6 DEF Exit, Life, qvars, hvars, kvars
  <2> QED
    BY <2>1, <2>2, <2>3, <2>4, <2>5, <2>6
<1>6. SitesExpected'
  BY <1>1, SitesFrame DEF hvars, kvars
<1> QED
  BY <1>2, <1>3, <1>4, <1>5, <1>6

-----------------------------------------------------------------------------

(***************************************************************************)
(* The invariant of handleEvent, worker, Close, reload and run together    *)
(* holds in every interleaving.                                            *)
(***************************************************************************)
THEOREM Invariance == Spec => []IInv
<1>1. IInv /\ [Next]_vars => IInv'
  <2> SUFFICES ASSUME IInv, [Next]_vars PROVE IInv'
    OBVIOUS
  <2>1. CASE \E h \in Handlers, s \in Sites : Post(h, s)
    BY <2>1, PostIInv
  <2>2. CASE \E h \in Handlers : Handle(h)
    BY <2>2, ReturnIInv, SendPanicsIInv, PassIInv, SendIInv DEF Handle
  <2>3. CASE \E w \in Workers : Work(w)
    BY <2>3, TakeIInv, RecordIInv, WorkerDoneIInv DEF Work
  <2>7. CASE \E w \in Workers : WorkerPanics(w)
    BY <2>7, WorkerPanicsIInv
  <2>4. CASE Configure \/ \E c \in (SUBSET Sites) \ {{}} : StoreReload(c)
    BY <2>4, ReloadIInv
  <2>5. CASE Signal \/ ShutdownReturns \/ ShutdownTimesOut \/ ListenerFails \/ CloseQueue \/ Exit
    BY <2>5, MainIInv
  <2>6. CASE UNCHANGED vars
    <3>1. UNCHANGED <<lvars, rvars, qvars, hvars, kvars>>
      BY <2>6 DEF vars
    <3>2. TypeOK'
      BY <3>1 DEF IInv, TypeOK, lvars, rvars, qvars, hvars, kvars
    <3>3. QueueBooks' /\ EveryPostCounted' /\ SitesExpected'
      BY <3>1, QueueBooksFrame, PostsFrame, SitesFrame
      DEF IInv, InFlight, lvars, qvars, hvars, kvars
    <3>4. Life'
      BY <3>1 DEF IInv, Life, lvars, qvars, hvars, kvars
    <3> QED
      BY <3>2, <3>3, <3>4 DEF IInv
  <2> QED
    BY <2>1, <2>2, <2>3, <2>4, <2>5, <2>6, <2>7 DEF Next
<1> QED
  BY InitIInv, <1>1, PTL DEF Spec

(***************************************************************************)
(* Every variable of the ingest server keeps its type.                     *)
(***************************************************************************)
THEOREM TypeCorrect == Spec => []TypeOK
BY Invariance, PTL DEF IInv

(***************************************************************************)
(* handleEvent counts every event, once, under the result it had; the      *)
(* events it loses met the closed queue, and there are none unless         *)
(* Shutdown timed out or a listener failed.                                *)
(***************************************************************************)
THEOREM PostsCorrect == Spec => []EveryPostCounted
BY Invariance, PTL DEF IInv

(***************************************************************************)
(* Server.Close drains: main.run does not return before every event put on *)
(* the queue has been through Record, however many handlers still send     *)
(* when Close comes.                                                       *)
(***************************************************************************)
THEOREM DrainedCorrect == Spec => []Drained
<1>1. IInv => Drained
  <2> SUFFICES ASSUME IInv, main = "exited" PROVE sent = recorded + unknown
    BY DEF Drained
  <2>1. \A w \in Workers : wpc[w] = "done"
    BY DEF IInv, Life
  <2>2. queue = <<>>
    BY <2>1, IngestAssumption DEF IInv, Life
  <2>3. Cardinality(Busy) = 0
    <3>1. Busy = {}
      BY <2>1 DEF Busy
    <3> QED
      BY <3>1, FS_EmptySet
  <2>4. Len(queue) = 0
    BY <2>2
  <2>5. recorded \in Nat /\ unknown \in Nat
    BY DEF IInv, TypeOK
  <2> QED
    BY <2>3, <2>4, <2>5 DEF IInv, QueueBooks
<1> QED
  BY <1>1, Invariance, PTL

(***************************************************************************)
(* Record drops an event as unknown_site only between Store.Reload and     *)
(* Configure: a site once configured is never forgotten.                   *)
(***************************************************************************)
THEOREM UnknownCorrect == Spec => UnknownOnlyInReload
<1>1. IInv /\ [Next]_vars => [unknown' # unknown => reloading]_vars
  <2> SUFFICES ASSUME IInv, Next, unknown' # unknown PROVE reloading
    BY DEF vars, kvars
  <2>1. PICK w \in Workers : Record(w)
    <3>1. \E w \in Workers : Work(w)
      BY DEF Next, Post, Handle, Reject, Pass, Send, QueueFull, SendPanics, CountAccepted,
             WorkerPanics, StoreReload, Configure, Signal, ShutdownReturns, ShutdownTimesOut, ListenerFails,
             CloseQueue, Exit, kvars
    <3> QED
      BY <3>1 DEF Work, Take, WorkerDone
  <2>2. wsite[w] \notin known
    BY <2>1 DEF Record, IInv, TypeOK
  <2>3. wsite[w] \in Expected
    BY <2>1 DEF Record, IInv, SitesExpected
  <2> QED
    BY <2>2, <2>3 DEF IInv, SitesExpected, Expected
<1> QED
  BY <1>1, Invariance, PTL DEF Spec, UnknownOnlyInReload
=============================================================================
