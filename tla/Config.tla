------------------------------- MODULE Config -------------------------------
(***************************************************************************)
(* The configuration: internal/config/config.go and env.go.                *)
(*                                                                         *)
(* A configuration file and the environment are partial functions from     *)
(* keys to values; a key that is not given is not in the domain.  The      *)
(* tunables that the code treats alike are one key each:                   *)
(*   cap     the six caps, admit_min_count and session_ttl: read when the  *)
(*           state of a site is built                                      *)
(*   decay   decay_after: read at every use                                *)
(*   zone    timezone; BadZone is one the zone database does not know      *)
(*   labels  path_labels, nil until given                                  *)
(*   flag    unique_visitors_by_path, region_enabled, city_enabled         *)
(* and of the server section                                               *)
(*   pool    queue_size, workers, rate_per_min, salt_rotate, addresses,    *)
(*           serve_counter_js, and the geo section: read once, at start    *)
(*   trust   trust_proxy                                                   *)
(*   body    max_body_bytes                                                *)
(* Numbers and the zone are 0 where Go's zero value stands.  A value of    *)
(* the environment that does not parse is Bad.  Pure operators, of an      *)
(* environment e (its server, global, listed and site) and a file f.       *)
(***************************************************************************)
EXTENDS Naturals, FiniteSets, Sequences

CONSTANTS
    Dimensions, \* AllDimensions
    Nil, Bad, BadZone

Builtin == [cap |-> 1, decay |-> 1, zone |-> 1, labels |-> Dimensions \ {"asn"}, flag |-> FALSE]

Zero == [cap |-> 0, decay |-> 0, zone |-> 0, labels |-> Nil, flag |-> FALSE]

newServer == [pool |-> 1, trust |-> FALSE, body |-> 1]

\* A site without tunables: no signature key, no rewrites.
Bare(d) == [domain |-> d, origins |-> {}, hmac |-> Nil, rewrites |-> <<>>]

\* f with the keys of g; the keys f lacks are added.
Join(f, g) == [k \in DOMAIN f \cup DOMAIN g |-> IF k \in DOMAIN g THEN g[k] ELSE f[k]]

\* A variable that is set, and parses, replaces the value.
Overlay(d, vars) ==
    [k \in DOMAIN d |-> IF k \in DOMAIN vars /\ vars[k] # Bad THEN vars[k] ELSE d[k]]

fillZero(d, def) ==
    [k \in DOMAIN d |-> IF k \in {"cap", "decay", "zone"} /\ d[k] = 0 THEN def[k] ELSE d[k]]

\* Labels that are nil are inherited as well; an empty list is not nil.
Filled(d, def) ==
    [fillZero(d, def) EXCEPT !.labels = IF @ = Nil THEN def.labels ELSE @]

-----------------------------------------------------------------------------

(***************************************************************************)
(* Domains.  A domain is its letters, its punctuation and whether "www."   *)
(* comes first.  Two that differ in punctuation only have the same         *)
(* environment variables.                                                  *)
(***************************************************************************)
siteKey(d) == <<d.www, d.letters>>

VarsOf(e, d) == IF siteKey(d) \in DOMAIN e.site THEN e.site[siteKey(d)] ELSE <<>>

\* A domain of the file may be padded with blanks, which finalize trims and
\* findSite does not.
Listed(e, s) == s.domain \in e.listed /\ ~s.padded

\* Origins compare without case and one trailing slash.
Origin(d, www, slashes) == [host |-> d, www |-> www, slashes |-> slashes]

Canonical(o) == [o EXCEPT !.slashes = IF @ = 0 THEN 0 ELSE @ - 1]

DefaultOrigins(d) == {Origin(d, FALSE, 0), Origin(d, TRUE, 0)}

WithOrigins(s) == IF s.origins = {} THEN [s EXCEPT !.origins = DefaultOrigins(s.domain)] ELSE s

AllowsOrigin(s, o) == Canonical(o) \in {Canonical(p) : p \in s.origins}

-----------------------------------------------------------------------------

\* The variables read that do not parse; applyEnv reports them all.
BadVars(e) ==
    LET bad(vars) == {k \in DOMAIN vars : vars[k] = Bad} IN
    bad(e.server) \cup bad(e.global) \cup UNION {bad(VarsOf(e, d)) : d \in e.listed}

\* Mutant: the file is laid over the environment.
GlobalsSwapped(e, f) == Overlay(Overlay([Builtin EXCEPT !.labels = Nil], e.global), f.defaults)

\* The defaults section after the file and the environment, before finalize.
Globals(e, f) == Overlay(Overlay([Builtin EXCEPT !.labels = Nil], f.defaults), e.global)

\* applyEnv on the sites of the file, by their place in it, and the sites it
\* creates, which start from the defaults section.
FileSite(e, s) ==
    LET t == Overlay(Join(Bare(s.domain), Zero), s.own) IN
    IF Listed(e, s) THEN WithOrigins(Overlay(t, VarsOf(e, s.domain))) ELSE t

CreatedSite(e, f, d) == WithOrigins(Overlay(Join(Bare(d), Globals(e, f)), VarsOf(e, d)))

Created(e, f) ==
    {d \in e.listed : \A i \in DOMAIN f.sites : ~(f.sites[i].domain = d /\ Listed(e, f.sites[i]))}

SitesOf(e, f) ==
    LET global == Filled(Globals(e, f), Builtin) IN
    {Filled(FileSite(e, f.sites[i]), global) : i \in DOMAIN f.sites}
        \cup {Filled(CreatedSite(e, f, d), global) : d \in Created(e, f)}

\* finalize accepts: some site, none twice, each complete.
Valid(e, f) ==
    /\ SitesOf(e, f) # {}
    /\ \A i, j \in DOMAIN f.sites : i # j => f.sites[i].domain # f.sites[j].domain
    /\ \A i \in DOMAIN f.sites : f.sites[i].domain \notin Created(e, f)
    /\ \A s \in SitesOf(e, f) :
        /\ s.domain.letters # ""
        /\ s.labels \subseteq Dimensions
        /\ s.origins # {}
        /\ s.zone # BadZone
        /\ \A i \in DOMAIN s.rewrites : s.rewrites[i] # Bad

Loads(e, f) == f.parses /\ BadVars(e) = {} /\ Valid(e, f)

Load(e, f) ==
    [server |-> Overlay(Overlay(newServer, f.server), e.server),
     sites |-> [d \in {s.domain : s \in SitesOf(e, f)} |-> CHOOSE s \in SitesOf(e, f) : s.domain = d]]
=============================================================================
