---- MODULE MCPipeline ----
EXTENDS Pipeline

\* a.b and a-b have the same variables; w is tracked under its www. name.
Dom(www, letters, punct) == [www |-> www, letters |-> letters, punct |-> punct]
A == Dom(FALSE, "a", ".b")
Dash == Dom(FALSE, "a", "-b")
W == Dom(TRUE, "w", ".x")
Nobody == Dom(FALSE, "", "")

NoVars == [k \in {} |-> 0]
McEnvs == {
    [server |-> NoVars, global |-> NoVars, listed |-> {}, site |-> NoVars],
    [server |-> [trust |-> TRUE, pool |-> 4], global |-> [cap |-> 4, zone |-> 4, flag |-> TRUE],
     listed |-> {A, Dash},
     site |-> (<<FALSE, "a">> :> [decay |-> 5, cap |-> 0, hmac |-> "key", labels |-> {}])],
    [server |-> [body |-> Bad], global |-> NoVars, listed |-> {A}, site |-> NoVars]}

\* Rewrites in a row: the second works on what the first left.
Word == Segment("post", 0, 0, 0, 4)
Label_(p) == [head |-> p, tail |-> <<>>]
Rules == << <<Label_(<<Word>>), Label_(<<Id>>)>>, <<Label_(<<Id>>), Label_(<<Empty>>)>> >>

Entry(d, padded, own) == [domain |-> d, padded |-> padded, own |-> own]
File(defaults, server, entries) ==
    [parses |-> TRUE, defaults |-> defaults, server |-> server, sites |-> entries]
McFiles == {
    File(NoVars, NoVars, <<>>),
    File([decay |-> 2, labels |-> {"country"}], [body |-> 2],
         << Entry(A, FALSE, [origins |-> {Origin(A, FALSE, 1)}, cap |-> 3, zone |-> 3]) >>),
    File([flag |-> TRUE, cap |-> 0], [pool |-> 2, trust |-> TRUE],
         << Entry(A, FALSE, [origins |-> DefaultOrigins(A), rewrites |-> Rules, decay |-> 3]),
            Entry(W, FALSE, [origins |-> DefaultOrigins(W), hmac |-> "key", flag |-> TRUE]) >>),
    File(NoVars, NoVars, << Entry(A, TRUE, [origins |-> DefaultOrigins(A)]) >>),
    File(NoVars, NoVars, << Entry(A, FALSE, [origins |-> DefaultOrigins(A), zone |-> BadZone]) >>)}

-----------------------------------------------------------------------------

Year == [Segment("2024", 4, 0, 0, 0) EXCEPT !.year = TRUE]
Uuid == [Segment("uuid", 20, 12, 4, 0) EXCEPT !.uuid = TRUE]
Fill == Segment("fill", 0, 0, 0, 14)     \* with Word, exactly MaxPathLen
McOpaque == {"uuid", "9999", "hash12"}
Paths == {<<Empty>>, <<Empty, Empty>>, <<Word>>, <<[Word EXCEPT !.capitals = TRUE]>>,
          <<Word, Empty>>, <<Word, Empty, Empty>>, <<Empty, Word>>, <<Word, Uuid>>,
          <<Word, Segment("9999", 4, 0, 0, 0)>>, <<Word, Segment("hash12", 6, 6, 0, 0), Empty>>,
          <<Word, Year>>, <<Word, Segment("999", 3, 0, 0, 0)>>,
          <<Word, Segment("hash11", 6, 5, 0, 0)>>, <<Word, Segment("de-ad", 0, 12, 1, 0)>>,
          <<Word, Segment("long", 0, 0, 0, 30)>>, <<Word, Segment("long", 0, 0, 0, 30), Word>>,
          <<Word, [Segment("wide", 0, 0, 0, 30) EXCEPT !.rune = 3]>>,
          <<Word, Fill>>, <<Word, Fill, Word>>, <<Fill, Word>>, <<Fill, Uuid>>}
Url(path, query) ==
    [parses |-> TRUE, padded |-> FALSE, blank |-> FALSE, overlong |-> FALSE,
     path |-> path, query |-> query]

Edge == {"windows nt 10", "windows nt", "chrome/", "safari/", "edg/"}
McBrowsers ==
    LET B(ua, b, o, d) == [ua |-> ua, browser |-> b, os |-> o, device |-> d] IN {
    B(Edge, "Edge", "Windows", "desktop"),
    B({"mac os x", "macintosh", "chrome/", "safari/"}, "Chrome", "macOS", "desktop"),
    B({"mac os x", "macintosh", "safari/"}, "Safari", "macOS", "desktop"),
    B({"iphone", "mac os x", "mobile", "mobi", "safari/"}, "Safari", "iOS", "mobile"),
    B({"ipad", "mac os x", "mobile", "mobi", "safari/"}, "Safari", "iOS", "tablet"),
    B({"iphone", "mac os x", "mobile", "mobi", "crios/", "safari/"}, "Chrome", "iOS", "mobile"),
    B({"linux", "firefox/"}, "Firefox", "Linux", "desktop"),
    B({"linux", "android", "mobile", "mobi", "chrome/", "safari/"}, "Chrome", "Android", "mobile"),
    B({"linux", "android", "chrome/", "safari/"}, "Chrome", "Android", "tablet"),
    B({"linux", "android", "mobile", "mobi", "samsungbrowser", "chrome/", "safari/"},
      "Samsung Internet", "Android", "mobile"),
    B({"windows nt 10", "windows nt", "chrome/", "safari/", "opr/"}, "Opera", "Windows", "desktop"),
    B({"cros ", "chrome/", "safari/"}, "Chrome", "ChromeOS", "desktop")}

Addrs == {Addr(4, 1, 1), Addr(4, 1, 2), Addr(46, 1, 1), Addr(4, 2, 1), Addr(6, 1, 1)}

Base == [body |-> 1, json |-> TRUE, domain |-> A, origin |-> Origin(A, FALSE, 0), signed |-> "key",
         name |-> "pageview", url |-> Url(<<Word>>, NoVars), ref |-> Nobody, width |-> 1000,
         engaged |-> 0, ua |-> Edge, forwarded |-> <<>>, realIP |-> NoAddr, remote |-> Addr(4, 1, 1)]

\* Each request departs from Base in one respect.
McRequests ==
    {Base}
    \cup {[Base EXCEPT !.url.path = p] : p \in Paths}
    \cup {[Base EXCEPT !.url.query = q] : q \in {
            "ref" :> "tag", "utm_source" :> "" @@ "ref" :> "tag", "source" :> "tag" @@ "medium" :> "m"}}
    \cup {[Base EXCEPT !.url.query = "ref" :> "tag", !.ref = W], [Base EXCEPT !.url.parses = FALSE],
          [Base EXCEPT !.url.padded = TRUE, !.url.query = "ref" :> "tag"]}
    \cup {[Base EXCEPT !.ref = d] : d \in {A, Dash, Dom(TRUE, "a", ".b"), W}}
    \cup {[Base EXCEPT !.ua = b.ua] : b \in McBrowsers}
    \cup {[Base EXCEPT !.ua = u] : u \in {{}, {"bot"}, {"chrome/", "headlesschrome"}, {"vivaldi"}}}
    \cup {[Base EXCEPT !.width = w] : w \in {-1, 0, 575, 576, 30000, 30001}}
    \cup {[Base EXCEPT !.name = n, !.engaged = e] :
            n \in {"engagement", "signup", "", "overlong"}, e \in {-1, 3600, 3601}}
    \cup {[Base EXCEPT !.remote = a] : a \in Addrs \cup {NoAddr}}
    \cup {[Base EXCEPT !.forwarded = f, !.realIP = a] :
            f \in {<<Addr(46, 2, 1), Addr(4, 1, 2)>>, <<NoAddr>>}, a \in {NoAddr, Addr(6, 1, 2)}}
    \cup {[Base EXCEPT !.domain = d, !.origin = Origin(d, FALSE, 0)] : d \in {Dash, W}}
    \cup {[Base EXCEPT !.origin = Origin(A, w, n)] : w \in BOOLEAN, n \in 0 .. 2}
    \cup {[Base EXCEPT !.signed = Nil], [Base EXCEPT !.body = 2], [Base EXCEPT !.json = FALSE],
          [Base EXCEPT !.url.blank = TRUE]}
====
