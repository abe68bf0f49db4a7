------------------------------- MODULE Enrich -------------------------------
(***************************************************************************)
(* From a request to bounded label values: internal/enrich/path.go and     *)
(* ua.go, and the client address of internal/ingest/identity.go.  Pure     *)
(* operators.                                                              *)
(*                                                                         *)
(* A path is the sequence of its segments, each with a slash before it;    *)
(* the root is one empty segment.  A segment is its text in lower case,    *)
(* how many of its bytes are digits, hex letters, separators and others,   *)
(* how many bytes each of its runes takes, whether it is spelled in        *)
(* capitals, and whether it is shaped like a UUID or lies in the range of  *)
(* years.                                                                  *)
(***************************************************************************)
EXTENDS Integers, Sequences, FiniteSets, SequencesExt

CONSTANTS
    MaxPathLen,     \* path.go: MaxPathLen
    NoAddr          \* the zero netip.Addr

Segments == [text : STRING, digits : Nat, hex : Nat, sep : Nat, other : Nat,
             rune : 1 .. 4, capitals : BOOLEAN, uuid : BOOLEAN, year : BOOLEAN]

Size(s) == s.digits + s.hex + s.sep + s.other

PathLen(p) == FoldLeft(LAMBDA n, s : n + 1 + Size(s), 0, p)

Segment(text, digits, hex, sep, other) ==
    [text |-> text, digits |-> digits, hex |-> hex, sep |-> sep, other |-> other,
     rune |-> 1, capitals |-> FALSE, uuid |-> FALSE, year |-> FALSE]

Empty == Segment("", 0, 0, 0, 0)
Id == Segment(":id", 0, 1, 0, 2)

\* Mutant: four digits are an id, whatever the number.
isIdentifierYears(s) ==
    \/ s.uuid /\ Size(s) = 36
    \/ s.other = 0 /\ s.digits = Size(s) /\ Size(s) >= 4
    \/ s.other = 0 /\ s.digits + s.hex = Size(s) /\ Size(s) >= 12

isIdentifier(s) ==
    \/ s.uuid /\ Size(s) = 36
    \/ s.other = 0 /\ s.digits = Size(s) /\ Size(s) >= 4 /\ ~(Size(s) = 4 /\ s.year)
    \/ s.other = 0 /\ s.digits + s.hex = Size(s) /\ Size(s) >= 12

\* All trailing slashes go; the root stays.
TrimRight(p) ==
    LET full == {i \in DOMAIN p : Size(p[i]) > 0} IN
    IF full = {} THEN <<Empty>> ELSE SubSeq(p, 1, Max(full))

\* The first n bytes: whole segments, then what is left for the next one,
\* by its text, the bytes kept, and the bytes of a rune that the cut splits:
\* a label with such bytes at its end is not valid UTF-8.
Cut(p, n) ==
    LET whole == {k \in 0 .. Len(p) : PathLen(SubSeq(p, 1, k)) <= n}
        k == Max(whole)
        len == PathLen(SubSeq(p, 1, k))
    IN  [head |-> SubSeq(p, 1, k),
         tail |-> IF k = Len(p) \/ len = n THEN <<>>
                  ELSE <<IF len + 1 = n THEN "" ELSE p[k + 1].text, n - len - 1,
                         (n - len - 1) % p[k + 1].rune>>]

\* A path without a leading slash gets one, an empty one is the root: both
\* are built into the representation.
NormalizePath(u) ==
    IF ~u.parses THEN Cut(<<Empty>>, MaxPathLen)
    ELSE LET p == TrimRight(u.path) IN
         Cut([i \in DOMAIN p |->
                 IF isIdentifier(p[i]) THEN Id ELSE [p[i] EXCEPT !.capitals = FALSE]], MaxPathLen)

-----------------------------------------------------------------------------

\* The first of the keys with a value that is not blank.  NormalizePath trims
\* the URL and ParseUTM does not: one padded with a blank has a path, no tags.
pick(u, keys) ==
    LET given == {i \in DOMAIN keys : keys[i] \in DOMAIN u.query /\ u.query[keys[i]] # ""} IN
    IF ~u.parses \/ u.padded \/ given = {} THEN "" ELSE u.query[keys[Min(given)]]

ParseUTM(u) ==
    [source |-> pick(u, <<"utm_source", "source", "ref">>),
     medium |-> pick(u, <<"utm_medium", "medium">>),
     campaign |-> pick(u, <<"utm_campaign", "campaign">>)]

hostName(host) == host.letters \o host.punct

\* A referrer is a host, with no letters when there is none, it does not parse
\* or validate blanked it for its length; www. does not count.
ReferrerHost(ref, self) ==
    IF ref.letters = "" \/ [ref EXCEPT !.www = FALSE] = [self EXCEPT !.www = FALSE]
    THEN "" ELSE hostName(ref)

ScreenClass(w) ==
    CASE w <= 0 -> "" [] w \in 1 .. 575 -> "xs" [] w \in 576 .. 767 -> "sm"
      [] w \in 768 .. 991 -> "md" [] w \in 992 .. 1439 -> "lg" [] OTHER -> "xl"

-----------------------------------------------------------------------------

(***************************************************************************)
(* User agents.  A user agent is the set of markers found in it.           *)
(***************************************************************************)
botMarkers == {
    "bot", "crawler", "spider", "crawling", "slurp", "curl/", "wget/", "python-requests",
    "python-urllib", "go-http-client", "java/", "okhttp", "headlesschrome", "phantomjs",
    "puppeteer", "playwright", "selenium", "lighthouse", "pagespeed", "gtmetrix", "pingdom",
    "uptimerobot", "monitoring", "http_request", "libwww-perl", "scrapy", "axios/",
    "node-fetch", "postmanruntime", "insomnia", "facebookexternalhit", "preview",
    "feedfetcher", "apache-httpclient", "dataprovider", "probe", "checker", "validator",
    "archiver", "wappalyzer"}

browserRules == <<
    <<"edg/", "Edge">>, <<"edga/", "Edge">>, <<"edgios/", "Edge">>, <<"opr/", "Opera">>,
    <<"opera", "Opera">>, <<"vivaldi", "Vivaldi">>, <<"brave", "Brave">>,
    <<"yabrowser", "Yandex">>, <<"samsungbrowser", "Samsung Internet">>,
    <<"ucbrowser", "UC Browser">>, <<"duckduckgo", "DuckDuckGo">>, <<"firefox/", "Firefox">>,
    <<"fxios/", "Firefox">>, <<"chromium", "Chromium">>, <<"crios/", "Chrome">>,
    <<"chrome/", "Chrome">>, <<"safari/", "Safari">>, <<"msie ", "Internet Explorer">>,
    <<"trident/", "Internet Explorer">> >>

osRules == <<
    <<"windows nt 10", "Windows">>, <<"windows nt", "Windows">>,
    <<"windows phone", "Windows Phone">>, <<"android", "Android">>, <<"cros ", "ChromeOS">>,
    <<"iphone", "iOS">>, <<"ipad", "iOS">>, <<"ipod", "iOS">>, <<"mac os x", "macOS">>,
    <<"macintosh", "macOS">>, <<"ubuntu", "Linux">>, <<"fedora", "Linux">>,
    <<"debian", "Linux">>, <<"linux", "Linux">>, <<"freebsd", "BSD">>, <<"openbsd", "BSD">> >>

\* Mutant: the last match wins.
matchLast(rules, ua) ==
    LET hits == {i \in DOMAIN rules : rules[i][1] \in ua} IN
    IF hits = {} THEN "Other" ELSE rules[Max(hits)][2]

\* The first rule whose marker is found wins.
match(rules, ua) ==
    LET hits == {i \in DOMAIN rules : rules[i][1] \in ua} IN
    IF hits = {} THEN "Other" ELSE rules[Min(hits)][2]

\* Android phones say "mobile" and Android tablets do not.
deviceClass(ua) ==
    IF \/ ua \cap {"ipad", "tablet", "kindle", "playbook", "silk"} # {}
       \/ "android" \in ua /\ "mobile" \notin ua
    THEN "tablet"
    ELSE IF ua \cap {"mobile", "mobi", "iphone", "ipod", "windows phone", "android"} # {}
         THEN "mobile" ELSE "desktop"

ParseUA(ua) ==
    IF ua = {} THEN [browser |-> "Unknown", os |-> "Unknown", device |-> "desktop", bot |-> FALSE]
    ELSE IF ua \cap botMarkers # {} THEN [browser |-> "", os |-> "", device |-> "", bot |-> TRUE]
    ELSE [browser |-> match(browserRules, ua), os |-> match(osRules, ua),
          device |-> deviceClass(ua), bot |-> FALSE]

-----------------------------------------------------------------------------

(***************************************************************************)
(* Addresses.  An address has a family, 4, 6, or 46 for IPv4 mapped into   *)
(* IPv6, a network (the /24 or /64 it lies in) and a host.  What does not  *)
(* parse is NoAddr.                                                        *)
(***************************************************************************)
Address == [family : {4, 6, 46}, net : Nat, host : Nat]

Addr(family, net, host) == [family |-> family, net |-> net, host |-> host]

\* Mutant: mapped addresses stay mapped.
UnmapNot(a) == a

Unmap(a) == IF a # NoAddr /\ a.family = 46 THEN [a EXCEPT !.family = 4] ELSE a

\* The headers are the lists of their entries; the left-most one of
\* X-Forwarded-For is the client.
ClientIP(r, trustProxy) ==
    IF trustProxy /\ r.forwarded # <<>> /\ r.forwarded[1] # NoAddr THEN Unmap(r.forwarded[1])
    ELSE IF trustProxy /\ r.realIP # NoAddr THEN Unmap(r.realIP)
    ELSE Unmap(r.remote)

\* The prefix; an address that is still mapped would count as IPv6, one /64
\* for all of IPv4.
rateKey(a) ==
    IF a = NoAddr THEN <<0, 0>>
    ELSE IF a.family = 46 THEN <<6, 0>> ELSE <<a.family, a.net>>
=============================================================================
