------------------------------ MODULE Pipeline ------------------------------
(***************************************************************************)
(* An event's way from the request to the observation, under a             *)
(* configuration that is reloaded in the meantime: the configuration       *)
(* store, Registry.Configure, the checks of handleEvent and enrichEvent    *)
(* (internal/config, internal/ingest/handler.go).                          *)
(*                                                                         *)
(* One event is followed at a time: handlers share nothing but what the    *)
(* modules Limiter and Ingest are about, so the limiter's answer and the   *)
(* room in the queue are left open here.  Preflights and other methods are *)
(* answered before anything is read and are left out.                      *)
(***************************************************************************)
EXTENDS Config, Enrich

CONSTANTS
    Files,          \* what the configuration file may hold
    Envs,           \* environments the process may be started in
    Requests,       \* the requests
    Browsers,       \* user agents with what they are: [ua, browser, os, device]
    Opaque          \* texts of segments that are identifiers

\* A section that parsed: the values it gives are values, and the domain of a
\* site is not one of them.
Parsed(section) ==
    /\ "domain" \notin DOMAIN section
    /\ \A k \in DOMAIN section : section[k] # Bad /\ (k = "labels" => section[k] # Nil)

\* A variable may fail to parse, but none sets a domain or labels to nil.
Named(section) ==
    /\ "domain" \notin DOMAIN section
    /\ "labels" \in DOMAIN section => section["labels"] # Nil

ASSUME SectionAssumption ==
    /\ \A f \in Files :
        /\ Parsed(f.defaults)
        /\ \A i \in DOMAIN f.sites : Parsed(f.sites[i].own)
    /\ \A e \in Envs :
        /\ Named(e.global)
        /\ \A x \in DOMAIN e.site : Named(e.site[x])

\* A request, as far as it decides what becomes of the event.
Domain == [www : BOOLEAN, letters : STRING, punct : STRING]

Urls == {r.url : r \in Requests}

Request == [body : Nat, json : BOOLEAN, domain : Domain,
            origin : [host : Domain, www : BOOLEAN, slashes : Nat],
            signed : STRING \cup {Nil}, name : STRING, url : Urls, ref : Domain,
            width : Int, engaged : Int, ua : SUBSET STRING,
            forwarded : Seq(Address \cup {NoAddr}), realIP : Address \cup {NoAddr},
            remote : Address \cup {NoAddr}]

ASSUME RequestAssumption ==
    /\ Requests \subseteq Request
    /\ \A u \in Urls : u.parses \in BOOLEAN /\ u.path \in Seq(Segments) \ {<<>>}
    /\ \A r \in Requests : r.ref.letters # "" => hostName(r.ref) # ""
    /\ NoAddr \notin Address
    /\ MaxPathLen \in Nat

VARIABLES
    env,            \* the environment of the process: server, global, listed, site
    file,           \* the configuration file
    cur,            \* Store.cur
    sites,          \* Registry.sites: the config in use and the limits built in
    reloading,      \* the reload goroutine is between Store.Reload and Configure
    event,          \* the event on its way
    source          \* history: the file cur was loaded from

pvars == <<env, file, cur, sites, reloading, event, source>>

NoEvent == [pc |-> "none"]

-----------------------------------------------------------------------------

\* Registry.Configure: a known site gets the new config and keeps its guards
\* and sessions with their limits; a site that is gone stays.
Configured(old, c) == [d \in DOMAIN old \cup DOMAIN c.sites |->
    [cfg |-> IF d \in DOMAIN c.sites THEN c.sites[d] ELSE old[d].cfg,
     limits |-> IF d \in DOMAIN old THEN old[d].limits ELSE c.sites[d].cap]]

\* The process starts only with a configuration that loads.
PInit ==
    /\ env \in Envs
    /\ file \in {f \in Files : Loads(env, f)}
    /\ source = file
    /\ cur = Load(env, file)
    /\ sites = Configured(<<>>, cur)
    /\ reloading = FALSE
    /\ event = NoEvent

\* The operator edits the file.
Edit(f) ==
    /\ file' = f
    /\ UNCHANGED <<env, cur, sites, reloading, event, source>>

\* SIGHUP: Store.Reload keeps the old config when the new one does not load ...
StoreReload ==
    /\ ~reloading
    /\ Loads(env, file)
    /\ cur' = Load(env, file)
    /\ source' = file
    /\ reloading' = TRUE
    /\ UNCHANGED <<env, file, sites, event>>

\* ... and Configure follows.
Configure ==
    /\ reloading
    /\ sites' = Configured(sites, cur)
    /\ reloading' = FALSE
    /\ UNCHANGED <<env, file, cur, event, source>>

-----------------------------------------------------------------------------

\* validate: what it refuses, and what it blanks.
ValidPayload(r) == r.name \notin {"", "overlong"} /\ ~r.url.blank /\ ~r.url.overlong

MaxWidth == 30000

MaxEngaged == 3600

Sanitized(r) ==
    [r EXCEPT !.width = IF @ < 0 \/ @ > MaxWidth THEN 0 ELSE @,
              !.engaged = IF @ < 0 \/ @ > MaxEngaged THEN 0 ELSE @]

\* The checks of handleEvent, in their order, each with what it finds wrong.
Checks(r, c) ==
    LET known == r.domain \in DOMAIN c.sites IN
    << <<"malformed", r.body > c.server.body \/ ~r.json>>,
       <<"unknown_site", ~known>>,
       <<"rejected_origin", known /\ ~AllowsOrigin(c.sites[r.domain], r.origin)>>,
       <<"bad_signature", known /\ c.sites[r.domain].hmac \notin {Nil, r.signed}>>,
       <<"malformed", ~ValidPayload(r)>>,
       <<"bot", ParseUA(r.ua).bot>> >>

Failed(r, c) == {i \in DOMAIN Checks(r, c) : Checks(r, c)[i][2]}

Verdict(r, c) == Checks(r, c)[Min(Failed(r, c))][1]

\* The site label of a rejection: before the site is known, "unknown".
Label(r, c) ==
    IF 1 \in Failed(r, c) \/ 2 \in Failed(r, c) THEN Nil ELSE c.sites[r.domain].domain

Reject(r) ==
    /\ event = NoEvent
    /\ Failed(r, cur) # {}
    /\ event' = [pc |-> "rejected", req |-> r, verdict |-> Verdict(r, cur), label |-> Label(r, cur)]
    /\ UNCHANGED <<env, file, cur, sites, reloading, source>>

\* The event is queued with the site's config of this moment and the address
\* as this config's trust_proxy has it.
Accept(r) ==
    /\ event = NoEvent
    /\ Failed(r, cur) = {}
    /\ event' = [pc |-> "queued", req |-> Sanitized(r), site |-> cur.sites[r.domain],
                 ip |-> ClientIP(r, cur.server.trust), trusted |-> cur.server.trust]
    /\ UNCHANGED <<env, file, cur, sites, reloading, source>>

-----------------------------------------------------------------------------

\* Site.Rewrite: the rules in order, each on what the one before it left.  A
\* rule is a pair of labels.
Rewrite(s, path) ==
    FoldLeft(LAMBDA p, rule : IF p = rule[1] THEN rule[2] ELSE p, path, s.rewrites)

\* A referrer with no campaign tag is itself the source.
Source(utm, ref) == IF utm.source = "" /\ ref # "" THEN ref ELSE utm.source

enrichEvent(e) ==
    LET r == e.req
        path == Rewrite(e.site, NormalizePath(r.url))
        utm == ParseUTM(r.url)
        ref == ReferrerHost(r.ref, e.site.domain)
        client == ParseUA(r.ua)
        base == [kind |-> r.name, site |-> e.site.domain, path |-> path]
    IN  CASE r.name = "engagement" -> Join(base, [time |-> r.engaged])
          [] r.name = "pageview" ->
                Join(base, [source |-> Source(utm, ref), medium |-> utm.medium,
                            campaign |-> utm.campaign, referrer |-> ref,
                            browser |-> client.browser, os |-> client.os,
                            device |-> client.device, screen |-> ScreenClass(r.width)])
          [] OTHER -> base

\* A worker turns the event into an observation, possibly after a reload.
Enriched ==
    /\ event.pc = "queued"
    /\ event' = Join([event EXCEPT !.pc = "recorded"], [obs |-> enrichEvent(event)])
    /\ UNCHANGED <<env, file, cur, sites, reloading, source>>

\* The queue had no room, or the limiter refused, or the event is recorded.
Done ==
    /\ event # NoEvent
    /\ event' = NoEvent
    /\ UNCHANGED <<env, file, cur, sites, reloading, source>>

PNext ==
    \/ \E f \in Files \ {file} : Edit(f)
    \/ StoreReload
    \/ Configure
    \/ \E r \in Requests : Reject(r) \/ Accept(r)
    \/ Enriched
    \/ Done

PSpec == PInit /\ [][PNext]_pvars

-----------------------------------------------------------------------------

Recorded(kind) == event.pc = "recorded" /\ event.req.name = kind

\* The entries of file f for site d; a file that loads has one at most.
Entries(f, d) == {f.sites[i] : i \in {j \in DOMAIN f.sites : f.sites[j].domain = d}}

VarGives(e, d, k) == d \in e.listed /\ k \in DOMAIN VarsOf(e, d)

SiteGives(e, f, d, k) == VarGives(e, d, k) \/ \E s \in Entries(f, d) : k \in DOMAIN s.own

\* What the site's section says of key k, its variables before its entry in
\* the file, and what the global section says.
SiteSays(e, f, d, k, otherwise) ==
    IF VarGives(e, d, k) THEN VarsOf(e, d)[k]
    ELSE LET given == {s \in Entries(f, d) : k \in DOMAIN s.own} IN
         IF given = {} THEN otherwise ELSE (CHOOSE s \in given : TRUE).own[k]

GlobalSays(e, f, k) == Join(Builtin, Join(f.defaults, e.global))[k]

(***************************************************************************)
(* Where a setting comes from, whichever file was loaded last and whatever *)
(* failed to load since: from the site's section if it says anything, else *)
(* from the global one, else it is built in; within a section a variable   *)
(* hides the file's value.  Except in the middle of a reload, the registry *)
(* has the site with these settings.                                       *)
(*                                                                         *)
(* Three cases are left out.  A global variable against the site's section *)
(* of the file: the documentation has the environment win always, and here *)
(* the file does.  A zero, which cannot be told from nothing.  And flags,  *)
(* of which a site that the file names takes none from the global section. *)
(***************************************************************************)
Precedence ==
    \A d \in DOMAIN cur.sites :
        /\ \A k \in {"cap", "decay", "zone", "labels"} :
            LET gives == SiteGives(env, source, d, k)
                said == IF gives THEN SiteSays(env, source, d, k, Nil) ELSE GlobalSays(env, source, k)
                contested == gives /\ ~VarGives(env, d, k) /\ k \in DOMAIN env.global
            IN  ~contested /\ (k = "labels" \/ said # 0) => cur.sites[d][k] = said
        /\ ~reloading => d \in DOMAIN sites /\ sites[d].cfg = cur.sites[d]

\* Two URLs are the same page: same segments but for case, identifiers, empty
\* segments at the end, query and fragment.
Page(u) ==
    LET p == IF u.parses THEN u.path ELSE <<Empty>>
        n == {i \in DOMAIN p : p[i].text # ""}
    IN  [i \in {j \in DOMAIN p : \E k \in n : j <= k} |->
            IF p[i].text \in Opaque THEN Id.text ELSE p[i].text]

\* The label takes all of MaxPathLen: something may have been cut off.
Full(label) == label.tail # <<>> \/ PathLen(label.head) = MaxPathLen

(***************************************************************************)
(* One label per page: two URLs of the same page never get two labels,     *)
(* whichever configuration is in force, and two pages get the same one     *)
(* only if it takes all of MaxPathLen.                                     *)
(***************************************************************************)
OneLabelPerPage ==
    event.pc = "recorded" =>
        \A u \in Urls :
            LET label == NormalizePath(u)
                same == label = NormalizePath(event.req.url)
            IN  /\ Page(u) = Page(event.req.url) =>
                    same /\ Rewrite(event.site, label) = event.obs.path
                /\ same /\ ~Full(label) => Page(u) = Page(event.req.url)

\* Browsers that claim to be others are told apart, with system and device.
ImpostorsToldApart ==
    Recorded("pageview") =>
        \A b \in Browsers : b.ua = event.req.ua =>
            <<event.obs.browser, event.obs.os, event.obs.device>> = <<b.browser, b.os, b.device>>

\* A page view has a source if it was tagged or came from another host, the
\* tag being the stronger; a site is never its own referrer, with www. or
\* without.  Only the tags of a URL that begins with a blank are lost.
Attribution ==
    Recorded("pageview") =>
        LET r == event.req
            outside == r.ref.letters # "" /\
                <<r.ref.letters, r.ref.punct>> # <<event.site.domain.letters, event.site.domain.punct>>
            tags == IF r.url.parses /\ ~r.url.padded
                    THEN {r.url.query[k] : k \in DOMAIN r.url.query \cap {"utm_source", "source", "ref"}} \ {""}
                    ELSE {}
        IN  /\ event.obs.source # "" <=> outside \/ tags # {}
            /\ tags # {} => event.obs.source \in tags
            /\ event.obs.referrer # "" <=> outside

\* The worker's second look at the user agent finds browser, system and device,
\* and numbers out of range have become zero.
NothingHalfKnown ==
    /\ Recorded("pageview") =>
        /\ "" \notin {event.obs.browser, event.obs.os, event.obs.device}
        /\ event.obs.screen # "" => event.req.width \in 1 .. MaxWidth
    /\ Recorded("engagement") => event.obs.time \in 0 .. MaxEngaged

(***************************************************************************)
(* What an event is recorded as: browsers are told apart although they     *)
(* claim to be others, sources are what led to the page, nothing is half   *)
(* known because the handler has turned bots away and checked the payload; *)
(* and a rejected request counts for a configured site or for none.        *)
(***************************************************************************)
RecordedAsSent ==
    /\ ImpostorsToldApart
    /\ Attribution
    /\ NothingHalfKnown
    /\ event.pc = "rejected" => event.label \in {Nil} \cup DOMAIN cur.sites \cup DOMAIN sites

Peers == {[forwarded |-> r.forwarded, realIP |-> r.realIP, remote |-> r.remote] : r \in Requests}

(***************************************************************************)
(* The headers decide nothing unless the proxy is trusted, and one prefix  *)
(* is one key: the limiter sees an IPv4 client under the same key whether  *)
(* the address came mapped into IPv6 or not, and no two prefixes as one.   *)
(***************************************************************************)
OneKeyPerPrefix ==
    event.pc \in {"queued", "recorded"} =>
        \A r \in Peers :
            LET seen(q) == IF event.trusted /\ q.forwarded # <<>> /\ q.forwarded[1] # NoAddr
                           THEN q.forwarded[1]
                           ELSE IF event.trusted /\ q.realIP # NoAddr THEN q.realIP ELSE q.remote
                prefix(a) == IF a = NoAddr THEN <<0, 0>> ELSE <<IF a.family = 6 THEN 6 ELSE 4, a.net>>
            IN  (rateKey(ClientIP(r, event.trusted)) = rateKey(event.ip))
                    <=> (prefix(seen(r)) = prefix(seen(event.req)))
=============================================================================
