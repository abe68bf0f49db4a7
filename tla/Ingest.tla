------------------------------- MODULE Ingest -------------------------------
(***************************************************************************)
(* The ingest pipeline and its life, internal/ingest/handler.go and        *)
(* cmd/ridiculytics/main.go: HTTP handlers check an event and put it on a  *)
(* bounded queue without ever waiting, workers take events off it and      *)
(* record them, SIGHUP reloads the configuration, and a signal or a failed *)
(* listener takes the process down.                                        *)
(*                                                                         *)
(* An event is the site it is for.  net/http (one goroutine per            *)
(* connection, Shutdown returns once the last one is closed or ten seconds *)
(* are over, a handler that panics ends alone) and Go's channels are       *)
(* external.                                                               *)
(***************************************************************************)
EXTENDS Integers, Sequences, FiniteSets

CONSTANTS
    Sites,          \* site domains
    Handlers,       \* requests that may be in progress at a time
    Workers,        \* ingest workers
    QueueSize,      \* cfg.Server.QueueSize
    MaxRequests,    \* bound: requests
    MaxReloads      \* bound: SIGHUPs

ASSUME IngestAssumption ==
    /\ IsFiniteSet(Handlers)
    /\ IsFiniteSet(Workers) /\ Workers # {}
    /\ QueueSize \in Nat
    /\ MaxRequests \in Nat
    /\ MaxReloads \in Nat

VARIABLES
    main,           \* where main.run stands
    open,           \* a client may have a connection to the ingest listener
    clean,          \* history: neither a listener failed nor Shutdown timed out
    config,         \* the sites of the current config: Store.cur
    known,          \* the sites the registry has state for
    reloads,        \* SIGHUPs so far
    reloading,      \* the config is reloaded and Configure is due
    queue,          \* s.queue
    closed,         \* s.queue is closed
    hpc, hsite,     \* per handler: where it stands, the site of its event
    wpc, wsite,     \* per worker: likewise
    requests,       \* events posted
    sent,           \* events put on the queue
    accepted, full, rejected,   \* ingest_events_total, by result
    lost,           \* history: events whose handler found the queue closed
    recorded,       \* events folded into the metrics of their site
    unknown         \* events Record dropped as unknown_site

lvars == <<main, open, clean>>
rvars == <<config, known, reloads, reloading>>
qvars == <<queue, closed, sent>>
hvars == <<hpc, hsite, requests, accepted, full, rejected, lost>>
kvars == <<wpc, wsite, recorded, unknown>>
vars == <<lvars, rvars, qvars, hvars, kvars>>

\* What an idle goroutine has in hand means nothing.
NoSite == CHOOSE s \in Sites : TRUE

\* run: config, registry and workers are up before the listeners are.
Init ==
    /\ main = "serving"
    /\ open = TRUE
    /\ clean = TRUE
    /\ config \in (SUBSET Sites) \ {{}}
    /\ known = config
    /\ reloads = 0
    /\ reloading = FALSE
    /\ queue = <<>>
    /\ closed = FALSE
    /\ hpc = [h \in Handlers |-> "idle"]
    /\ hsite = [h \in Handlers |-> NoSite]
    /\ wpc = [w \in Workers |-> "idle"]
    /\ wsite = [w \in Workers |-> NoSite]
    /\ requests = 0
    /\ sent = 0
    /\ accepted = 0
    /\ full = 0
    /\ rejected = 0
    /\ lost = 0
    /\ recorded = 0
    /\ unknown = 0

Running == main \notin {"exited", "crashed"}

\* handleEvent returns.
Return(h) ==
    /\ hpc' = [hpc EXCEPT ![h] = "idle"]
    /\ hsite' = [hsite EXCEPT ![h] = NoSite]

-----------------------------------------------------------------------------

\* A request begins, on a connection that may be older than a shutdown under
\* way.  handleEvent looks the site up in the config of the moment; an event
\* for a site it does not have is rejected.
Post(h, s) ==
    /\ Running
    /\ open
    /\ hpc[h] = "idle"
    /\ requests < MaxRequests
    /\ requests' = requests + 1
    /\ \/ /\ s \in config
          /\ hsite' = [hsite EXCEPT ![h] = s]
          /\ hpc' = [hpc EXCEPT ![h] = "check"]
          /\ UNCHANGED rejected
       \/ /\ s \notin config
          /\ rejected' = rejected + 1
          /\ UNCHANGED <<hpc, hsite>>
    /\ UNCHANGED <<lvars, rvars, qvars, accepted, full, lost, kvars>>

\* The origin, the signature, the payload, the user agent or the rate limiter
\* has it rejected ...
Reject(h) ==
    /\ Running
    /\ hpc[h] = "check"
    /\ Return(h)
    /\ rejected' = rejected + 1
    /\ UNCHANGED <<lvars, rvars, qvars, requests, accepted, full, lost, kvars>>

\* ... or none of them has.
Pass(h) ==
    /\ Running
    /\ hpc[h] = "check"
    /\ hpc' = [hpc EXCEPT ![h] = "send"]
    /\ UNCHANGED <<lvars, rvars, qvars, hsite, requests, accepted, full, rejected, lost, kvars>>

\* The select of handleEvent: send if there is room, else count and move on.
Send(h) ==
    /\ Running
    /\ hpc[h] = "send"
    /\ ~closed
    /\ Len(queue) < QueueSize
    /\ queue' = Append(queue, hsite[h])
    /\ sent' = sent + 1
    /\ hpc' = [hpc EXCEPT ![h] = "sent"]
    /\ UNCHANGED <<lvars, rvars, closed, hsite, requests, accepted, full, rejected, lost, kvars>>

\* Mutant: an event that finds the queue full is dropped without being counted.
QueueFullSilent(h) ==
    /\ Running
    /\ hpc[h] = "send"
    /\ ~closed
    /\ Len(queue) >= QueueSize
    /\ Return(h)
    /\ UNCHANGED <<lvars, rvars, qvars, requests, accepted, full, rejected, lost, kvars>>

QueueFull(h) ==
    /\ Running
    /\ hpc[h] = "send"
    /\ ~closed
    /\ Len(queue) >= QueueSize
    /\ full' = full + 1
    /\ Return(h)
    /\ UNCHANGED <<lvars, rvars, qvars, requests, accepted, rejected, lost, kvars>>

\* To send on a closed channel is a panic; net/http ends the request.
SendPanics(h) ==
    /\ Running
    /\ hpc[h] = "send"
    /\ closed
    /\ Return(h)
    /\ lost' = lost + 1
    /\ UNCHANGED <<lvars, rvars, qvars, requests, accepted, full, rejected, kvars>>

CountAccepted(h) ==
    /\ Running
    /\ hpc[h] = "sent"
    /\ accepted' = accepted + 1
    /\ Return(h)
    /\ UNCHANGED <<lvars, rvars, qvars, requests, full, rejected, lost, kvars>>

-----------------------------------------------------------------------------

\* worker: take the next event, also after the queue is closed ...
Take(w) ==
    /\ Running
    /\ wpc[w] = "idle"
    /\ queue # <<>>
    /\ wsite' = [wsite EXCEPT ![w] = Head(queue)]
    /\ queue' = Tail(queue)
    /\ wpc' = [wpc EXCEPT ![w] = "busy"]
    /\ UNCHANGED <<lvars, rvars, closed, sent, hvars, recorded, unknown>>

\* ... enrich and record it, if the registry knows its site ...
Record(w) ==
    /\ Running
    /\ wpc[w] = "busy"
    /\ wpc' = [wpc EXCEPT ![w] = "idle"]
    /\ recorded' = recorded + (IF wsite[w] \in known THEN 1 ELSE 0)
    /\ unknown' = unknown + (IF wsite[w] \in known THEN 0 ELSE 1)
    /\ wsite' = [wsite EXCEPT ![w] = NoSite]
    /\ UNCHANGED <<lvars, rvars, qvars, hvars>>

\* ... unless Record panics.  The path of an event may have been cut inside a
\* rune, and WithLabelValues refuses a label that is not UTF-8.  The worker does
\* not recover, so that the process dies.
WorkerPanics(w) ==
    /\ Running
    /\ wpc[w] = "busy"
    /\ wsite[w] \in known
    /\ main' = "crashed"
    /\ UNCHANGED <<open, clean, rvars, qvars, hvars, kvars>>

\* Mutant: a worker stops with events still on the queue.
WorkerStops(w) ==
    /\ Running
    /\ wpc[w] = "idle"
    /\ closed
    /\ wpc' = [wpc EXCEPT ![w] = "done"]
    /\ UNCHANGED <<lvars, rvars, qvars, hvars, wsite, recorded, unknown>>

\* ... and return when the queue is closed and empty.
WorkerDone(w) ==
    /\ Running
    /\ wpc[w] = "idle"
    /\ closed
    /\ queue = <<>>
    /\ wpc' = [wpc EXCEPT ![w] = "done"]
    /\ UNCHANGED <<lvars, rvars, qvars, hvars, wsite, recorded, unknown>>

-----------------------------------------------------------------------------

\* SIGHUP, Store.Reload: the handlers see the new config from here on.  A
\* config that does not load changes nothing.
StoreReload(c) ==
    /\ Running
    /\ ~reloading
    /\ reloads < MaxReloads
    /\ reloads' = reloads + 1
    /\ config' = c
    /\ reloading' = TRUE
    /\ UNCHANGED <<lvars, known, qvars, hvars, kvars>>

\* Mutant: the sites that left the config are forgotten.
ConfigureReplaces ==
    /\ Running
    /\ reloading
    /\ known' = config
    /\ reloading' = FALSE
    /\ UNCHANGED <<lvars, config, reloads, qvars, hvars, kvars>>

\* Registry.Configure: sites are added, never removed.
Configure ==
    /\ Running
    /\ reloading
    /\ known' = known \cup config
    /\ reloading' = FALSE
    /\ UNCHANGED <<lvars, config, reloads, qvars, hvars, kvars>>

-----------------------------------------------------------------------------

\* SIGINT or SIGTERM: Shutdown closes the listener, not the connections ...
Signal ==
    /\ main = "serving"
    /\ main' = "stopping"
    /\ UNCHANGED <<open, clean, rvars, qvars, hvars, kvars>>

\* ... waits until the handlers have answered and the connections are closed ...
ShutdownReturns ==
    /\ main = "stopping"
    /\ \A h \in Handlers : hpc[h] = "idle"
    /\ main' = "stopped"
    /\ open' = FALSE
    /\ UNCHANGED <<clean, rvars, qvars, hvars, kvars>>

\* ... but not for more than ten seconds, after which they go on.
ShutdownTimesOut ==
    /\ main = "stopping"
    /\ main' = "stopped"
    /\ clean' = FALSE
    /\ UNCHANGED <<open, rvars, qvars, hvars, kvars>>

\* A listener fails: run returns at once, without a Shutdown.
ListenerFails ==
    /\ main = "serving"
    /\ main' = "stopped"
    /\ clean' = FALSE
    /\ UNCHANGED <<open, rvars, qvars, hvars, kvars>>

\* Mutant: Close waits for the workers without closing the queue.
CloseForgetsQueue ==
    /\ main = "stopped"
    /\ main' = "closing"
    /\ UNCHANGED <<open, clean, rvars, qvars, hvars, kvars>>

\* The deferred Server.Close: close the queue, wait for the workers.
CloseQueue ==
    /\ main = "stopped"
    /\ main' = "closing"
    /\ closed' = TRUE
    /\ UNCHANGED <<open, clean, rvars, queue, sent, hvars, kvars>>

Exit ==
    /\ main = "closing"
    /\ \A w \in Workers : wpc[w] = "done"
    /\ main' = "exited"
    /\ UNCHANGED <<open, clean, rvars, qvars, hvars, kvars>>

-----------------------------------------------------------------------------

Handle(h) ==
    Reject(h) \/ Pass(h) \/ Send(h) \/ QueueFull(h) \/ SendPanics(h) \/ CountAccepted(h)

Work(w) == Take(w) \/ Record(w) \/ WorkerDone(w)

Next ==
    \/ \E h \in Handlers, s \in Sites : Post(h, s)
    \/ \E h \in Handlers : Handle(h)
    \/ \E w \in Workers : Work(w)
    \/ \E w \in Workers : WorkerPanics(w)
    \/ \E c \in (SUBSET Sites) \ {{}} : StoreReload(c)
    \/ Configure
    \/ Signal \/ ShutdownReturns \/ ShutdownTimesOut \/ ListenerFails \/ CloseQueue \/ Exit

Spec == Init /\ [][Next]_vars

(***************************************************************************)
(* Fairness: every goroutine that can take a step takes one in the end.    *)
(* Requests and signals need not come, and no event need make Record       *)
(* panic.  Shutdown returns or its timer fires.                            *)
(***************************************************************************)
Fairness ==
    /\ \A h \in Handlers : WF_vars(Handle(h))
    /\ \A w \in Workers : WF_vars(Work(w))
    /\ WF_vars(Configure)
    /\ WF_vars(ShutdownReturns \/ ShutdownTimesOut \/ CloseQueue \/ Exit)

FairSpec == Spec /\ Fairness

-----------------------------------------------------------------------------

Busy == {w \in Workers : wpc[w] = "busy"}

InFlight == {h \in Handlers : hpc[h] # "idle"}

\* Every variable holds a value of its type.
TypeOK ==
    /\ main \in {"serving", "stopping", "stopped", "closing", "exited", "crashed"}
    /\ open \in BOOLEAN
    /\ clean \in BOOLEAN
    /\ config \subseteq Sites
    /\ known \subseteq Sites
    /\ reloading \in BOOLEAN
    /\ queue \in Seq(Sites)
    /\ closed \in BOOLEAN
    /\ hpc \in [Handlers -> {"idle", "check", "send", "sent"}]
    /\ hsite \in [Handlers -> Sites]
    /\ wpc \in [Workers -> {"idle", "busy", "done"}]
    /\ wsite \in [Workers -> Sites]
    /\ \A n \in {reloads, requests, sent, accepted, full, rejected, lost, recorded, unknown} : n \in Nat

(***************************************************************************)
(* Close drains the queue: when the process ends by itself, after a signal *)
(* or a failed listener, every event that was ever put on the queue has    *)
(* been through Record.  What is queued when Record panics is lost.        *)
(***************************************************************************)
Drained == main = "exited" => sent = recorded + unknown

(***************************************************************************)
(* handleEvent drops nothing in silence: every event posted is in the      *)
(* hands of a handler, or counted, once, under the result it had, or was   *)
(* lost because its handler met the closed queue.  The last happens only   *)
(* if Shutdown timed out or a listener failed, since Close comes after a   *)
(* Shutdown that returned.                                                 *)
(***************************************************************************)
EveryPostCounted ==
    /\ requests = Cardinality(InFlight) + accepted + full + rejected + lost
    /\ clean => lost = 0

(***************************************************************************)
(* An event a handler let through is dropped as one of an unknown site in  *)
(* one case only: Store.Reload has published a config with a new site and  *)
(* Configure has still to tell the registry.  An event of a site that a    *)
(* reload removed is still recorded.                                       *)
(***************************************************************************)
UnknownOnlyInReload == [][unknown' # unknown => reloading]_vars

(***************************************************************************)
(* An event put on the queue is recorded in the end, even if the process   *)
(* is told to stop in the meantime, unless Record panics before.           *)
(***************************************************************************)
QueuedAreRecorded ==
    \A n \in 1 .. MaxRequests :
        (sent >= n) ~> (recorded + unknown >= n \/ main = "crashed")

(***************************************************************************)
(* A process told to stop, or one that lost a listener, comes to its end:  *)
(* nobody waits for anybody forever.                                       *)
(***************************************************************************)
StopEnds == (main # "serving") ~> ~Running
=============================================================================
