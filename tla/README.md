# Ridiculytics in TLA+

A verification project for ridiculytics, a privacy-friendly web analytics
server that turns page events into Prometheus metrics. The modules here model
the server, its configuration and the tracker script; TLC checks them on small instances and TLAPS
proves the most important properties for every size. `PROJECT.json` lists every
component, run, mutant, hazard, finding and theorem, and says for each
definition which lines of the source it stands for.

## The system

A browser script posts events to an HTTP handler. The handler checks an event
and puts it on a bounded queue without ever waiting. A pool of workers (four by
default) takes events off the queue, enriches them and folds them into metrics.
One goroutine does maintenance every minute, one reloads the configuration on
SIGHUP, and `main` waits for a signal or a failed listener.

| component | state | operations | who calls it |
|---|---|---|---|
| ingest server (`ingest/handler.go`) | queue, workers | `handleEvent`, `worker`, `Close` | HTTP, `main` |
| rate limiter (`ingest/ratelimit.go`) | bucket per client key | `Allow`, `Sweep` | handlers, maintenance |
| visitor identity (`ingest/identity.go`) | current salt | `VisitorID`, `RotateIfDue`, `ClientIP` | workers, maintenance |
| metrics registry (`aggregate/registry.go`) | per site: guards, sessions, windows, path sketches; metric families | `Configure`, `Record`, `Maintain` | workers, maintenance, SIGHUP |
| cardinality guard (`aggregate/guard.go`) | admitted values with their last sighting, a count-min sketch | `Admit`, `Peek`, `Decay` | `Record`, `Maintain` |
| session tracker (`sketch/session.go`) | open session per visitor, evictions | `Touch`, `Extend`, `Sweep` | `Record`, `Maintain` |
| unique-visitor windows (`sketch/hll.go`) | ring of sketches, sketch of the day | `Insert`, `Estimate` | `Record`, scrape |
| GeoIP provider (`geo/geo.go`) | up to three database readers | `Lookup`, `Reload`, `Close` | workers, SIGHUP, `main` |
| configuration (`config/`) | current config | `Get`, `Reload` | handlers, SIGHUP |
| state collector (`aggregate/collector.go`) | none | reads guards, windows, sessions | scrape |
| enrichment (`enrich/`) | none | pure functions on strings | handlers, workers |
| tracker script (`web/counter.js`) | breaker, engagement timer | browser events | the visitor |
| process (`cmd/ridiculytics/main.go`) | life of the process | start, reload, shutdown | operator |

Components share memory under small locks. What is hard here follows from that:

- *Locks are released in the middle of an operation.* `Touch` unlocks to report
  an expired session and again before it evicts; `Admit` counts under one lock
  and decides under another; `Lookup` copies the readers and uses them later;
  `Record` admits first and counts afterwards while `Maintain` decays and
  deletes.
- *Events are applied late and out of order.* An event carries the time at which
  its handler accepted it; the queue holds it back and workers overtake one
  another.
- *Several steps, one of which fails.* A reload that opens three databases, a
  shutdown that times out, a listener that dies.
- *Configuration changes underway.* A reload swaps the config, then the
  registry's; events accepted under one config are enriched and recorded under
  another, and the salt rotates between acceptance and processing.
- *Limits.* Session cap, label caps, key cap, a full queue, counter cells.
- *The network, in the script.* Requests are answered late, in any order, or
  never, while the visitor navigates.

What makes each component correct: sessions are cut at pauses, are counted once
and do not exceed their cap; a value gets a series only when it earned one, within
the cap, and its series go when it goes; windows count exactly the visitors of
their span; a client gets no more than its rate; a reload neither leaks nor
closes what is in use; an accepted event is recorded, and a dropped one is
counted; a setting comes from where the documentation says; one page has one
label and one client one key; a visitor's id cannot outlive its salt; the script
counts a visit once and stops after failures it can see.

## The modules

An action is one critical section, or one call that other goroutines can
observe. Locals that survive an unlock are variables, one per goroutine. Time is
an integer that `Tick` advances; where events can be late the bound is a
constant (`MaxLag`, `MaxDelay`), and a worker picks up an event with any time
between that bound and now. Every other bound is a constant named `Max...` that
appears in a guard.

**Sessions** models `Touch`, `Extend`, `Sweep`, `evictOldest` and the calls of
the sink. `m` is the map, `done` the sessions an actor has taken out and not
reported, `over` the local of that name, `arg` what `Touch` keeps while it is
outside the lock. `Touch` is `TouchLive`, `TouchNew`, or `TouchExpired` followed
by `SessionEnded` and `TouchReopen`; then `SessionStarted` and, if the map was
over its cap, `EvictOldest` and `SessionEnded`. The sink's `SessionEnded`
observes the duration and counts a bounce. Ties between oldest sessions are a
nondeterministic choice, as Go's map order makes them. Of the page count only
"one" or "more" is kept.

**SessionHistory** extends it with the activity of every visitor and the closed
sessions, and compares them with a fold that knows nothing of maps, locks and
sweeps. It is about one worker, events in order and room for all, which is where an
exact reference exists; its next-state relation leaves `EvictOldest` out.

**Guard** models the sketch (`cells`, `adds`) and the guards that share it. An
observation goes through the guards of the sequence `Guards`, one `AdmitCount`
(under the counter's lock) and one `AdmitDecide` (under the guard's) for each.
`Decay` drops quiet values and `reset` follows outside the guard's lock. The
hash is a constant; collisions are chosen in the configuration. `aged` counts
every value exactly and is halved and reset with the sketch, `seen` counts its
sightings and `hits` those of all values of a cell; the three are history
variables.

**Windows** models one `Rolling` ring (`stamps`, `buckets`) and `Daily` (`day`,
`sk`). The five rings of a site differ in `Res` and `N` only. A HyperLogLog
sketch is the set of ids inserted; its estimation error is not the code's. `log`,
`daylog` and `crossed` are history: what the ring and the day were given, and the
days on which an earlier day's event came in between.

**Visitors** extends Windows with the salt, the workers that derive ids with it
(`Enrich`), the ring of the last minutes, and a scrape. `Windows.Insert` is three
steps, each under a lock of its own: the ring of the last minutes
(`InsertActive`), a longer ring (`InsertLonger`), the day (`InsertToday`); other
workers and the scrape, which reads the rings one after the other too, come in
between. `MaintainTick` takes the time of a tick and `RotateIfDue` uses it later,
after the rest of the round. An id is a person and the number of a salt.

**Limiter** models `Allow` and `Sweep`. Tokens are floats in the code; the model
counts units of which one refills per tick, `Cost` make a token and `Full` make
a burst. **TokenBucket** is what the limiter promises: one ideal bucket per key
that starts full and refills steadily, where only a key with a full bucket may be
refused for want of room. A request may reach the lock late, by `MaxLag` at most,
and meet a bucket refilled to a later time than its own; the ideal bucket has that
much slack, and is the textbook one without. `Level` is the refinement mapping.

**Geo** models `Reload` database by database with a failure at each, the swap,
`closeAll`, `Lookup` reader by reader and `Close`. A reader is a database and the
round of `Reload` that opened it. A lookup that finds its reader closed answers
nothing for that database, so the step is the same.

**Registry** models the life of series of one site: `Record` call by call,
`recordEngagement`, `recordPathUnique`, the session sink, and `Maintain` guard by
guard and deletion by deletion. A guard is reduced to its admitted values;
whether a new value has earned a series is left open, so that what holds here
holds whatever the sketch says. Sessions are reduced to exit path and last
sighting. A series is present or absent. `Configure` replaces the config of the
site while Records and Maintain are under way; it is read at each use, as the code
does, so that one Record may count under two configs: for each dimension
`PathLabel` reads it, then `AdmitValue` asks the guard, then `CountCell` counts.
`Touch` and `Reopen` are the two critical sections of `Sessions.Touch`; the second
overwrites whatever another worker has put in meanwhile. `seen` is history: the
latest sighting of every admitted value, which `admitted` forgets when a late event
comes.

**Ingest** models handlers, queue, workers, `Store.Reload` followed by
`Configure`, and the shutdown: signal, `Shutdown` that returns or times out, a
failed listener, `Close`, exit. A request may begin as long as a client may have a
connection (`open`): `Shutdown` closes the listener first and is through when the
last connection is closed; after a time-out or a failed listener they stay open
until the end. `Record` may panic, and the process dies with it (`WorkerPanics`):
`NormalizePath` may cut a path inside a rune, and `WithLabelValues` refuses such a
label. Which events have such paths is left open. The checks of a request after the
site look-up are one choice between `Reject` and `Pass`. net/http and Go's channels
are external.

**Config** holds the configuration as operators on an environment and a file, with
no state of its own: built-in values, the file,
the environment laid over it, sites that the environment lists or creates,
`fillZero` and validation. Tunables the code treats alike share a key (all caps
are one). A domain is its letters, its punctuation and its "www.", because
`siteKey` forgets punctuation and `ReferrerHost` forgets "www.".

**Enrich** holds the functions of `enrich/` and the client address, on structured
values: a path is a sequence of segments described by their bytes (how many make a
rune, too, of which the cut may leave a part), a user agent
the set of markers it contains, an address its family, network and host.

**Pipeline** follows one event from request to observation through Config and
Enrich, while the operator edits the file and SIGHUP reloads it: the checks of
`handleEvent` in their order with the site label of a rejection, `validate`, the
queued event with the site config and trust of its moment, `enrichEvent`.
`Configured` is `Registry.Configure` for all sites. The limiter's answer and the
room in the queue are left open (modules Limiter and Ingest), the location of an
address is module Geo's. Its specification is `PSpec` (`PInit`, `PNext`, `pvars`), so
that one proof module can extend both Geo and Pipeline.

**Tracker** is `web/counter.js`, one action per callback: the script runs, the page
calls it, navigates, is hidden, shown, activated after prerendering, a fetch is
answered. What `post` leaves behind is a set: the beacon was queued, or fetch is
under way, or nothing could be sent; draining the queue of calls made before the
script ran is a recursive function of their number. Time goes by in half seconds because
`Math.round` rounds them up. `views` and `reports` are history.

Each `MC...` module gives the constants of a run their values. Operators whose
comment begins with "Mutant" are deliberately wrong variants of the definition
that follows them; no specification uses them. Putting one in place of its
original breaks the property that `PROJECT.json` names for it, which shows that
the property depends on that piece of code.

## Runs

| run | instance | what it shows |
|---|---|---|
| `Sessions` | 2 visitors, 2 workers, sweep, cap 1, TTL 2, lag 1 | `CapBound`: the map exceeds its cap only by sessions whose worker is on its way to evict. `NoPhantom`: nothing is reported twice. `EvictedAreReported`. `DurationsBounded`: a late event makes a duration negative by its lag at most |
| `SessionHistory` | 2 visitors, 1 worker, sweep, TTL 2, 3 activities each | `CutAtPauses`: sessions are those of the reference, at the exact TTL too. `Accounted`: none is lost. `IdleSessionsEnd`: what is idle is closed and what is closed is reported |
| `SessionsLost` | 1 visitor, 2 workers | *violates* `Accounted` |
| `Guard` | 3 values colliding pairwise, 2 guards with caps 2 and 1, 2 workers, 2x3 sketch | `UpperBound`: no estimate is below the aged count. `NeverSaturates`: ageing keeps cells far below the width of an integer. `WithinCap`. `EarnedTogether`: what was seen in an admitted value's cells |
| `Visitors` | 1 person, 2 workers, rings of 2 slots of 2 and of 1, days of 3, lag 1, salts for 4 | `RollingExact`: the window is exact in any order of arrival. `TodayExact`: so is the day, unless an event of an earlier day came in between. `SaltOfItsTime`: the salt of an id was in use between the event and its lag. `CountedPerSalt`: a person counts once per salt and no more. `ScrapeNested`: whoever is active is in the longer windows of the same scrape, events half inserted excepted. `SaltRetires`: a salt that is due is replaced |
| `Limiter` | 2 keys, room for 1, burst of 2 tokens, lag 1 | `IdealBuckets`: refinement of TokenBucket. `RateBound`: a burst plus the refill from any moment on, plus what late requests gain. `KeysBounded`: no more keys than there is room for |
| `Geo` | 3 databases, 2 workers, 3 reloads | `AlwaysServing`, `NoReaderLeaks`, `ClosedOnce`, `ReplacedAreClosed`. `LookupsOnSnapshot`: a lookup consults one round of databases, the installed one or an earlier one |
| `Registry` | 1 path, 1 value, 2 dimensions, 2 workers, maintenance, 1 reload | `SeriesBacked` (`ViewsBacked`, `CellsBacked`, `UniquesBacked`): no such series outlives the admission of its labels. `InUseKept`: no value is dropped that was seen within `DecayAfter` less the delay of an event |
| `Ingest` | 2 sites, 2 handlers, 2 workers, queue of 1, 3 requests, 1 reload | `EveryPostCounted`: each event is in flight, counted, or met the closed queue, the last only after an unclean stop. `Drained`: `main` returns when what was queued is recorded. `UnknownOnlyInReload`. `QueuedAreRecorded` and `StopEnds`, a panic of `Record` excepted |
| `Pipeline` | 3 environments, 5 files, 84 requests | `Precedence`: where a site's settings come from, in config and registry. `OneLabelPerPage`: a page has one label, and no other page has it unless it fills `MaxPathLen`. `RecordedAsSent`: browsers, sources and sites an event is counted for. `OneKeyPerPrefix`: a client network is one key of the limiter |
| `Tracker` | 2 pages, 3 navigations, 1 custom event, breaker at 2 | `OneViewPerVisit`, `EngagedOnce`. `BreakerStops`: attempts since the last success the script saw are bounded by the breaker's limit and the fetches under way at once, and a tripped breaker stays tripped, whatever late answers say |
| `TrackerEngagement` | the same | *violates* `EngagementOfPageLeft` |

No run is spent on `TypeOK`: where a module states it, it is a theorem or a part of
the inductive invariant of one.

**Bounds.** Two workers and the maintenance goroutine are what every race found
in the code needs; a third worker only repeats the role of one of them, and the
theorems about sessions, guards and readers hold for any number. Clocks run past
the longest interval of the module (TTL, window, `decay_after`, full refill) by at
least the lag, so that each timer expires and something follows. The session cap
of 1, guard caps of 2 and 1, one tracked key and a queue of 1 put every limit
within reach. A sketch of width 3 ages after three additions, so that halving,
reset and collision meet in one behaviour. In `Registry`, two observations are
enough for one to admit and one to count around a decay; `MaxDelay` is half of
`DecayAfter`, the real default being seven days. With `MaxDelay = DecayAfter`
`ViewsBacked` fails: an event that took that long finds its path decayed. The
clock of `Registry` runs to 2, as long as `DecayAfter`; events may bear times from
-1 on, and those decay before it stops. One
reload between the two configs puts a change of every setting modelled there into
the middle of each Record and of each round of Maintain; `decay_after` itself
stays the same.

In `Visitors` a salt lives for 4, as long as the window of 2 slots of 2, so that a
window reaches over one rotation and the bound of `CountedPerSalt` is two; the
clock runs to 7, past one rotation and the window after it. In `Pipeline` the
files and environments give keys at each level and at several at once, a zero, an
empty list, two domains that share their variables, a domain padded with blanks, a
file that does not validate, and a variable that does not parse, with which the
process does not start. Each request
departs from an ordinary one in one respect (a few in two that interact): the
checks and the enrichment look at one respect each. `MaxPathLen` is 20, which
some of the paths exceed, some fill to the last byte and the others do not reach once
identifiers are replaced; one is cut inside a rune of three bytes.
In `Tracker` a breaker at 2 counts a failure, is reset by a success, counts again
and trips within the bounds;
the longest time reported is one second, so that times below, within and above
the range occur before the clock stops. Pages are symmetric: nothing depends on
which is which.

**Fairness.** Weak fairness says that a goroutine in the middle of a call
continues, that the maintenance ticker fires again, that a worker with something
to do does it, and that `main` continues its shutdown. Go's scheduler is
preemptive, no lock is held across a blocking call, and the ticker is never
stopped while the process serves. Nothing obliges clients to send events or
operators to send signals. In `Ingest` a reload that has swapped the config goes
on to `Configure`, and `Shutdown` returns or its timer of ten seconds fires; nothing
obliges `Record` to panic. In `Visitors` the ticker fires again and `maintain` comes to
the salt each time; `Pipeline` and `Tracker` state safety only.

**Deadlock.** It is not checked for `Geo` and `Ingest`, whose process really ends,
and for `Tracker`, where the visit does.
In the other runs `Tick` stops at `MaxClock`, but maintenance or another action
stays possible.

## Proofs

`*Proofs` modules extend their component and TLAPS. They assume no more than the
named `ASSUME`s of the component, which TLC evaluates in the runs; where a theorem
needs a hypothesis on the constants besides, its statement begins with it. The
strengthenings hold on the instances of the runs too, where TLC was asked about them.

- **SessionsProofs**, for any visitors, workers, TTL, cap and lag. `TypeCorrect`
  and `CapCorrect` (every insert over the cap leaves its worker owing an
  eviction, and removals only help). `NoPhantomCorrect` and `EvictedCorrect`
  count: each transition moves one session between map, `done` and `ended`;
  `Reporting` (only an actor in the middle of reporting has anything left in
  `done`) is needed so that an actor adds a session to `done` that was not there.
  `DurationsCorrect` needs `Dates`: no session was last seen before it began by more
  than the lag, and neither these times nor those that a worker keeps while it is
  outside the lock are ahead of the clock.
  `AccountedCorrect` assumes one worker and needs `ReopensAbsent`: the visitor
  whose session is being reopened has none, which is exactly what two workers
  break.
  Then for SessionHistory. `CutCorrect` assumes one worker and no lag. Its
  strengthening `History` adds to the property that a visitor with no session in the
  map has paused for the TTL, by the clock, and so has the one whose session a worker
  is about to reopen, by the time of the event. It rests on what one more activity does to the
  reference; since that is a recursive function, the lemmas first establish that it
  exists and is unique, by the least number at which it would fail. `NothingToEvict`,
  under the hypothesis `RoomForAll`: `Touch` never reaches `evictOldest`, so leaving
  `EvictOldest` out loses nothing. `HistoryImplements`: the history variables only watch.
- **GuardProofs**, for any hash, depth, width and number of workers.
  `SaturationCorrect`: a cell is at most the epoch plus the additions since the
  last halving. `UpperBoundCorrect`: halving is monotone, and conservative update
  raises every cell at the minimum, so no cell falls below the exact count.
  `CapCorrect`: room is tested and used under one lock. `EarnedCorrect`: a cell
  counts each sighting of its values once per guard at most, less what workers in
  the middle of an observation still owe it (`CellsEarned`); ageing and reset only
  lower a cell, and an estimate a worker took before them is still covered by the
  sightings (`EstEarned`).
- **VisitorsProofs**, first for Windows alone. `RollingCorrect` for every
  resolution and ring with
  `MaxLag <= (N - 1) * Res`; the strengthening `RingMatchesLog` says that a bucket
  holds the visitors of the slot it is stamped with and that every slot still in
  the window has kept its position. `TodayCorrect` for every length of the day and
  every lag; its strengthening `DayMatchesLog` adds that neither log nor sketch is
  ahead of the clock.
  Then for the composition, with any workers, people and salts. `WindowsCorrect`
  carries both windows theorems over: ring and day are filled in different steps of
  Visitors as in those of Windows, with ids late by the lag at most.
  The inductive invariant `VInv` says that salts came into use `Interval` apart
  (`Salts`) and that each id in a worker's hand or in the log was signed with a salt
  that was not retired before its event and in use within the lag (`Signed`).
  `SaltCorrect` follows; `CountedCorrect` counts the salts that fit into a window.
  `NestedCorrect`: whatever is in Active, or was read from it, is in the log or in
  the hand of a worker between the rings (`ActiveSeen`, `ScrapeSeen`).
  `LagFits` (`MaxLag <= (N - 1) * Res`) is the hypothesis of the exact window; the
  shortest of the longer rings has 12 slots of five minutes, so an event may wait
  55. `RingsFit` says that the longer ring covers Active and a scrape: Active has
  five slots of a minute.
- **LimiterProofs.** `RateCorrect` for every lag: late requests gain a key at most
  `MaxLag` units, and again each time it was forgotten. The strengthening bounds
  what was spent together with what the stored bucket may still pay.
  `Refinement`, for every lag: every step of `Limiter` is a step of `TokenBucket` or
  a stutter, with the lag as its slack; a swept bucket had refilled, so forgetting it
  gives a key no more than the slack, and without lag nothing.
  `TypeCorrect` and `KeysCorrect` for every lag too.
- **ReloadProofs**, for what a reload touches: Geo, then Pipeline with Config and
  Enrich.
  Geo, for any subset of databases, any number of workers and rounds.
  The inductive invariant adds to the four properties that the readers of the
  current round are those of the databases already passed (`FreshMatchesStage`)
  and that installed readers are neither fresh nor about to be closed (`Apart`).
  `SnapshotCorrect` needs `Snapshots`: a lookup's readers are of one round, older
  than the one under way, and installed unless a newer round has replaced them.
  Pipeline, for any environments, files and requests.
  `PrecedenceCorrect` rests on `InForce`: the
  config is what the last file that loaded gives, with the environment of the start, and the registry has it
  except between `Store.Reload` and `Configure`; the rest is a calculation of what
  `Load` makes of a section, with at most one entry of the file per domain because
  others do not load. The other three rest on `Followed`, what each stage of an event
  has kept of the request that it came from. `OneKeyCorrect` then compares
  addresses. `RecordedCorrect` has the hypothesis `ToldApart`, that the rules find what
  each listed browser is, which is a matter of the list; `ImpostorsYield` says for every
  user agent what the order of the rules guarantees. `OneLabelCorrect` has the
  hypothesis `TextsTell`, that the text of a segment determines its bytes but for
  case, and lists the identifiers: the model writes a segment as both. The proof
  compares paths before the cut, segment by segment, then what the cut leaves of them.
  TLC finds both hypotheses true of the constants of run `Pipeline`.
- **IngestProofs**, for any sites, handlers, workers and queue, with reloads and
  each way of stopping. `DrainedCorrect` keeps the queue's books: what was sent is
  waiting, at a worker, or recorded (`QueueBooks`), and `Life` says what each stage
  of the shutdown has established, above all that a worker ends on a queue that is
  closed and empty. `PostsCorrect` needs of `Life` that no handler is left, and none
  can begin, after a Shutdown that did not time out: only then may the queue be
  closed under nobody's hands. `UnknownCorrect`, an action property, follows from
  `SitesExpected`: whatever is in a handler, on the queue or at a worker is for a
  site of the registry or of the config that `Configure` is about to bring.
- **RegistryProofs**, for any workers, paths, values, dimensions, configs and caps.
  `SeriesCorrect` assumes `Prompt`, that an event is through within half of
  `decay_after` (the default is seven days). Its core is `Hold`: a label that a worker
  has from a guard is still admitted and was sighted within `MaxDelay` of the
  worker's event, so no round of Maintain drops it before the worker is done; and a
  series whose label is not admitted is among those Maintain has still to delete.
  `InUseCorrect` holds for any delay: the time a guard has for a value is behind the
  latest sighting by `MaxDelay` at most (`Recent`), because no event is older than
  that when its Record ends.
- **TrackerProofs**, for any pages and any order of callbacks, whatever becomes of
  the requests. `ViewsCorrect` needs that `lastPath` is the last page counted and
  that a page being prerendered has at most one view per navigation
  (`Remembers`). `EngagedCorrect`: seconds reported and rounding fit into the time
  up to the moment from which the page in view is timed, and a view whose time runs
  has not been reported on (`Timed`). `BreakerCorrect`: each attempt since the last
  success has failed or is under way, and failures stay below the limit until the
  breaker trips (`Breaker`). One post and one answer keep this, hence any number of
  posts in one callback, by the least number of them that would not.

The `Visitors` of Windows are ids, and the assumption of module Visitors makes room
for one salt per tick of the clock, which is more than `Interval` lets come into use.

Only model-checked are the five liveness properties, which are out of the prover's
reach as is `ENABLED`: `IdleSessionsEnd`, `SaltRetires`, `ReplacedAreClosed`,
`QueuedAreRecorded` and `StopEnds`. Every other property of a passing run is
stated by a theorem. Where a proof needs induction over data it takes the least element of a set
of numbers (`WFMin` and `NatLessThanWellFounded` of the library), because the induction
theorems themselves take an operator as a parameter, which the provers cannot instantiate.

The proofs corrected the project in one place. `OneLabelPerPage` once said that two
pages share a label only if something was cut out of a segment; it is false when a path is cut
exactly between two segments, which no path of the run had shown. The property says
now that the label fills `MaxPathLen`, and the run has such paths.

## Where code and documentation disagree

- *A session can be lost* (`SessionsLost`). A worker finds a visitor's session
  expired and takes it out; while it reports it, another finds none and inserts a
  new one; then the first inserts over it, and the session of the other is never
  reported. The test of the cap demands that every session be live or ended.
- *Time on page is reported for the wrong page* (`TrackerEngagement`). In a
  single-page application `pushState` has changed the location when `pageview`
  calls `flush`, and `flush` posts `location.href`: the time of the page left is
  recorded under the page entered, although the comment on `flush` says "time on
  the page we are leaving".

The following disagreements have no run of their own. No passing property asserts
the code's side of them: the properties named here stop short of the case.

- *A worker can take the process down.* `enrich/path.go:1` promises "label-safe
  dimensions", but `NormalizePath` cuts a path at 128 bytes wherever that falls
  (`path.go:47-49`), and a rune of several bytes may be split. A label that is not
  UTF-8 makes `WithLabelValues` panic, `worker` does not recover, and the process
  dies with what is queued. Campaign tags and
  referrers are cut the same way (`clamp`).
  Enrich has the split (`Cut`), Ingest the panic (`WorkerPanics`); `Drained` is
  about a process that ends by itself.
- *A lookup can meet a closed reader.* `geo.go:69-70`: "closing the old readers
  only after the swap so in-flight lookups never touch a closed reader". A lookup
  that took its readers before the swap may consult them after `closeAll`.
  `LookupsOnSnapshot` is about which round they are of, not whether they are open.
- *Series of dropped paths come back.* `docs/cardinality.md:53`: "Values unseen for
  `decay_after` are dropped and their series deleted". An engagement between `Peek`
  and `Observe`, or a session that ends after its exit path decayed, creates a
  `time_on_page` or an `exits` series that no guard holds and Maintain does not
  delete, unless the path is admitted and decays again. `SeriesBacked` leaves these
  two families out.
- *The environment does not always win.* `docs/configuration.md:8`: "Environment
  always wins over the file", and `env.go:139-141` and `env_test.go:210` agree. A
  global variable does not win over a site's own section of the file. A zero is
  never a setting at any level (so `cross_path_cap: 0` means the default), and the
  flags of the defaults never reach a site of the file. `Precedence` leaves these
  cases out. It also says that every bad variable is reported at once; those that
  parse and do not validate (`TIMEZONE`, `PATH_LABELS`) are found one by one, after
  the others.
- *An unreachable collector is not met with silence.* `counter.js:10-12`: "a
  collector that is down or unreachable degrades to silence rather than to console
  noise or a request storm", and 58-61: "After a few consecutive failures we stop
  trying entirely". Where `sendBeacon` works, a beacon that the browser has queued
  is a success (`counter.js:91-93`) and resets the count whatever becomes of it, so
  that the breaker does not trip. `BreakerStops` is about the failures the script
  sees.

Passing properties state precisely how far other statements go.

- `docs/cardinality.md` says a value must be seen `admit_min_count` times before it
  earns a series. The two path guards each add a sighting to the counter they
  share, so a path earns one in about half of them; `EarnedTogether` says what
  does hold.
- Values unseen for `decay_after` are dropped; `InUseKept` shows that a value may go
  earlier by the delay of an event, since a late event puts its time back.
- Caps, `admit_min_count` and `session_ttl` of a site keep the value they had when
  the process first saw the site (`Configured`); by `Precedence` the rest follows
  each reload.
- The comment on `Salt` says a visitor spanning a rotation counts twice;
  `CountedPerSalt` shows that it is once per salt in use since the window began.
- A page that is being prerendered is not counted before it is shown, except when
  the application navigates in the meantime (`OneViewPerVisit`).
- `docs/metrics.md` says the count of today only grows until midnight; `TodayExact`
  shows it does except when an event of yesterday is inserted after one of today,
  which empties it. It also says `site="unknown"` is for unconfigured domains;
  `UnknownOnlyInReload` shows the one other case.

## Not modelled

Metric values, HTTP responses, CORS headers, logging, and `openGeo`'s search for
database files. Parsers of YAML, JSON, URLs and addresses succeed or fail; the
HMACs of ids and signatures never collide. What a GeoIP database answers. The
lengths of campaign tags and referrers. The region and city families have neither
guard nor decay, so nothing bounds them. A reload that changes a site's timezone in
the middle of a day: Windows has one zone. The collector's other reads, of the sizes
of guards and of the session map, are single values under their own locks that no
property relates. Deployment files configure other programs.

## Plan

1. Sessions, Guard, Windows, Limiter, Geo, Registry and Ingest with their runs and
   the first five proof modules: done.
2. Visitors, Config, Enrich, Pipeline and Tracker; Configure in Registry: done.
3. Proofs about Ingest, Registry, Visitors and Tracker, and of the properties of
   Sessions, Guard and Geo that had only been checked: done.
4. Proofs about SessionHistory, Pipeline with Config and Enrich, and the breaker of
   Tracker: done.
5. Possible extensions: Registry with the real Guard in place of an open choice; a
   timezone that changes; a run of its own for each disagreement listed above.
