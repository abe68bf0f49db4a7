-------------------------------- MODULE Geo ---------------------------------
(***************************************************************************)
(* The GeoIP provider, internal/geo/geo.go: up to three database readers,  *)
(* looked up by the ingest workers while the SIGHUP goroutine of main      *)
(* re-opens and swaps them.                                                *)
(*                                                                         *)
(* A reader is the database it was opened for and the round of Reload that *)
(* opened it; nil readers are absent from the sets.  Opening and closing a *)
(* reader, one database lookup and each critical section of MMDB.mu are    *)
(* one step.  There is one SIGHUP goroutine, hence one Reload at a time;   *)
(* Close runs once the workers have stopped, and does not wait for it.     *)
(***************************************************************************)
EXTENDS Integers

CONSTANTS
    Paths,          \* the databases configured
    Workers,        \* ingest workers
    MaxRound        \* bound: rounds of Reload after the first

\* The order in which Reload opens the databases.
Order == <<"city", "country", "asn">>

Kinds == {"city", "country", "asn"}

ASSUME GeoAssumption ==
    /\ Paths \subseteq Kinds
    /\ MaxRound \in Nat

Readers == [kind : Kinds, round : 0 .. MaxRound]

VARIABLES
    open,           \* readers that are open
    installed,      \* m.city, m.country and m.asn
    stage,          \* Reload: the database to open next, 4 to swap, 0 when done
    round,          \* Reload's round
    fresh,          \* Reload's local city, country and asn
    trash,          \* readers Reload has still to close
    todo,           \* per worker: the readers its Lookup has still to consult
    closed          \* Close has run

vars == <<open, installed, stage, round, fresh, trash, todo, closed>>

\* A process that serves has been through Open, the first Reload.
Init ==
    /\ installed = {[kind |-> k, round |-> 0] : k \in Paths}
    /\ open = installed
    /\ stage = 0
    /\ round = 0
    /\ fresh = {}
    /\ trash = {}
    /\ todo = [w \in Workers |-> {}]
    /\ closed = FALSE

-----------------------------------------------------------------------------

\* SIGHUP.  The reload goroutine takes no new one before closeAll is through.
Reload ==
    /\ stage = 0
    /\ trash = {}
    /\ ~closed
    /\ round < MaxRound
    /\ stage' = 1
    /\ round' = round + 1
    /\ fresh' = {}
    /\ UNCHANGED <<open, installed, trash, todo, closed>>

\* A database without a path is left nil, the others are opened.
OpenNext ==
    LET r == [kind |-> Order[stage], round |-> round]
        new == IF r.kind \in Paths THEN {r} ELSE {}
    IN  /\ stage \in 1 .. 3
        /\ fresh' = fresh \cup new
        /\ open' = open \cup new
        /\ stage' = stage + 1
        /\ UNCHANGED <<installed, round, trash, todo, closed>>

\* Mutant: the error path forgets closeAll.
OpenFailsLeaks ==
    /\ stage \in 1 .. 3
    /\ Order[stage] \in Paths
    /\ fresh' = {}
    /\ stage' = 0
    /\ UNCHANGED <<open, installed, round, trash, todo, closed>>

\* A file that is missing or corrupt ends Reload: what it opened is closed.
OpenFails ==
    /\ stage \in 1 .. 3
    /\ Order[stage] \in Paths
    /\ trash' = fresh
    /\ fresh' = {}
    /\ stage' = 0
    /\ UNCHANGED <<open, installed, round, todo, closed>>

\* Mutants: the readers closed are the new ones, or none.
SwapClosesNew ==
    /\ stage = 4
    /\ installed' = fresh
    /\ trash' = fresh
    /\ fresh' = {}
    /\ stage' = 0
    /\ UNCHANGED <<open, round, todo, closed>>

SwapClosesNone ==
    /\ stage = 4
    /\ installed' = fresh
    /\ fresh' = {}
    /\ stage' = 0
    /\ UNCHANGED <<open, round, trash, todo, closed>>

Swap ==
    /\ stage = 4
    /\ installed' = fresh
    /\ trash' = installed
    /\ fresh' = {}
    /\ stage' = 0
    /\ UNCHANGED <<open, round, todo, closed>>

\* Mutant: a reader is closed again.
CloseNextRepeats ==
    /\ \E r \in trash : open' = open \ {r}
    /\ UNCHANGED <<installed, stage, round, fresh, trash, todo, closed>>

\* closeAll, one reader at a time.
CloseNext ==
    /\ \E r \in trash :
        /\ open' = open \ {r}
        /\ trash' = trash \ {r}
    /\ UNCHANGED <<installed, stage, round, fresh, todo, closed>>

-----------------------------------------------------------------------------

\* The readers a Lookup consults: the city database or, without one, the
\* country database, and the ASN database.
Consulted(rs) ==
    LET place == IF \E r \in rs : r.kind = "city" THEN "city" ELSE "country"
    IN  {r \in rs : r.kind \in {place, "asn"}}

\* Mutant: the fields are read while Reload is assigning them.
LookupBeginTorn(w) ==
    /\ ~closed
    /\ todo[w] = {}
    /\ todo' = [todo EXCEPT ![w] = {r \in installed \cup fresh : r.kind \in {"city", "asn"}}]
    /\ UNCHANGED <<open, installed, stage, round, fresh, trash, closed>>

\* Lookup takes its readers under the read lock ...
LookupBegin(w) ==
    /\ ~closed
    /\ todo[w] = {}
    /\ todo' = [todo EXCEPT ![w] = Consulted(installed)]
    /\ UNCHANGED <<open, installed, stage, round, fresh, trash, closed>>

\* ... and uses them after it, the ASN database last.
LookupStep(w) ==
    /\ \E r \in todo[w] :
        /\ r.kind = "asn" => todo[w] = {r}
        /\ todo' = [todo EXCEPT ![w] = @ \ {r}]
    /\ UNCHANGED <<open, installed, stage, round, fresh, trash, closed>>

\* Close, deferred by main until the workers have drained the queue.
Close ==
    /\ ~closed
    /\ \A w \in Workers : todo[w] = {}
    /\ open' = open \ installed
    /\ installed' = {}
    /\ closed' = TRUE
    /\ UNCHANGED <<stage, round, fresh, trash, todo>>

-----------------------------------------------------------------------------

ReloadStep == OpenNext \/ OpenFails \/ Swap \/ CloseNext

Next ==
    \/ Reload
    \/ ReloadStep
    \/ \E w \in Workers : LookupBegin(w) \/ LookupStep(w)
    \/ Close

Spec == Init /\ [][Next]_vars

(***************************************************************************)
(* Fairness: a Reload that has begun runs to its end, and so does a        *)
(* Lookup.  SIGHUP, requests and the shutdown need not come.               *)
(***************************************************************************)
Fairness == WF_vars(ReloadStep) /\ \A w \in Workers : WF_vars(LookupStep(w))

FairSpec == Spec /\ Fairness

-----------------------------------------------------------------------------

\* Every variable holds a value of its type.
TypeOK ==
    /\ open \subseteq Readers
    /\ installed \subseteq Readers
    /\ stage \in 0 .. 4
    /\ round \in 0 .. MaxRound
    /\ fresh \subseteq Readers
    /\ trash \subseteq Readers
    /\ todo \in [Workers -> SUBSET Readers]
    /\ closed \in BOOLEAN

(***************************************************************************)
(* Every database configured has one reader installed, all of one round    *)
(* and all of them open, from the first Reload to Close, whichever reloads *)
(* fail and wherever they fail.                                            *)
(***************************************************************************)
AlwaysServing ==
    ~closed => /\ installed \subseteq open
               /\ \E n \in 0 .. round : installed = {[kind |-> k, round |-> n] : k \in Paths}

(***************************************************************************)
(* No reader leaks: one that is open is installed, or Reload still holds   *)
(* it, to install it or to close it.                                       *)
(***************************************************************************)
NoReaderLeaks == open \subseteq installed \cup fresh \cup trash

(***************************************************************************)
(* A reader is closed once: what closeAll has still to close is open.      *)
(***************************************************************************)
ClosedOnce == trash \subseteq open /\ fresh \cap trash = {}

(***************************************************************************)
(* A Lookup consults databases of one round, never a mixture and never     *)
(* what a failed Reload opened in vain: the readers installed, or those a  *)
(* newer round has replaced since it took them.  Whether the latter are    *)
(* still open is not part of it.  Reload's comment says that they are; the *)
(* code closes them without waiting for a Lookup that holds them, which    *)
(* then answers with zero values.                                          *)
(***************************************************************************)
LookupsOnSnapshot ==
    \A w \in Workers : \A r \in todo[w] :
        /\ \A q \in todo[w] : q.round = r.round
        /\ r \in installed \/ \A q \in installed : r.round < q.round

(***************************************************************************)
(* What a reload replaced, or opened in vain, is closed in the end.        *)
(***************************************************************************)
ReplacedAreClosed ==
    \A r \in Readers : (r \in open /\ r \notin installed) ~> (r \in installed \/ r \notin open)
=============================================================================
