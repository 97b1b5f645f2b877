------------------------------ MODULE MCStack ------------------------------
(* Instances of Stack for TLC. *)
EXTENDS Stack

Defaults == Append(DefaultInterceptors, "own")
Sample   == SampleInterceptors
Echo     == <<"own">> \o EchoInterceptors
Dev      == <<"own">> \o EchoInterceptorsDev \o <<"reporting", "xsrf-html">>
              \o FramingInterceptors
Angular  == <<"own", "reporting", "static", "hsts-proxy", "coop", "csp-strict", "csp-report",
              "resource-navigate", "xsrf-angular", "framing", "xfo", "host">>
Api      == <<"own", "hsts-proxy", "cors", "resource-report", "csp-strict", "csp-types",
              "csp-frames", "coop", "static", "xfo", "xsrf-block", "host">>
Broken   == [Angular EXCEPT ![4] = "hsts-broken"]
MCStacks == {Defaults, Sample, Echo, Dev, Angular, Broken, Api}

\* The csp interceptors find the closures of the first of them that ran.
MCShares == {<<4, 5>>, <<4, 10>>, <<3, 4>>, <<3, 7>>, <<3, 11>>, <<4, 8>>, <<6, 7>>, <<5, 6>>, <<5, 7>>}

-----------------------------------------------------------------------------
(* Requests, by who sends them, from browsers that send Fetch Metadata and  *)
(* from browsers that do not.                                               *)

Typed == [sender |-> "user", method |-> "GET", host |-> "own", tls |-> TRUE,
          site |-> "none", mode |-> "navigate", dest |-> "document",
          origin |-> "", cookie |-> "none", token |-> "", session |-> "",
          xcors |-> FALSE, contentType |-> "", asksMethod |-> "", asksHeaders |-> {},
          own |-> "none", config |-> "none", handler |-> "template"]

From(site, mode, dest, r) == [r EXCEPT !.site = site, !.mode = mode, !.dest = dest]

Visit   == [Typed EXCEPT !.cookie = "c1", !.session = "ann"]
Submit  == [From("same-origin", "navigate", "document", Visit) EXCEPT
              !.method = "POST", !.token = "c1", !.contentType = "form", !.origin = "friend"]
OwnCall == [From("same-origin", "cors", "empty", Visit) EXCEPT
              !.method = "POST", !.token = "c1", !.contentType = "json", !.xcors = TRUE]

Link    == [From("cross-site", "navigate", "document", Typed) EXCEPT !.sender = "link"]
Forged  == [From("cross-site", "navigate", "document", Visit) EXCEPT !.sender = "form",
              !.method = "POST", !.contentType = "form", !.origin = "foe"]
Framed  == [From("cross-site", "navigate", "iframe", Visit) EXCEPT !.sender = "frame"]
Image   == [From("cross-site", "no-cors", "image", Visit) EXCEPT !.sender = "image"]
Script  == [From("cross-site", "cors", "empty", Typed) EXCEPT !.sender = "script",
              !.method = "POST", !.contentType = "json", !.origin = "foe"]
Friend  == [Script EXCEPT !.origin = "friend", !.xcors = TRUE, !.sender = "friend", !.cookie = "c1"]
\* Forms with a file: browsers add a boundary to the type.
Upload    == [Submit EXCEPT !.contentType = "multipart; boundary"]
ForgedUpload == [Forged EXCEPT !.contentType = "multipart; boundary"]
OwnUpload == [OwnCall EXCEPT !.contentType = "multipart; boundary"]
\* A script whose preflight a cache still allows.
Stranger == [Script EXCEPT !.xcors = TRUE]
Asks    == [Friend EXCEPT !.method = "OPTIONS", !.xcors = FALSE, !.contentType = "",
              !.asksMethod = "POST", !.asksHeaders = {"X-Cors", "X-Known"}, !.cookie = "none"]

Old(r) == From("", "", "", r)
AndOld(S) == S \cup {Old(r) : r \in S}

Everyone == AndOld(
  {Typed, Visit, Submit, OwnCall, Link, Forged, Framed, Image, Script, Friend, Asks,
   Upload, ForgedUpload, OwnUpload, Stranger,
   [OwnCall EXCEPT !.contentType = "multipart"], [OwnCall EXCEPT !.contentType = "form"],
   [Friend EXCEPT !.contentType = "text"],
   [Friend EXCEPT !.cookie = "none", !.session = "ann"],
   [Typed EXCEPT !.host = "other"], [Typed EXCEPT !.tls = FALSE],
   [Typed EXCEPT !.method = "HEAD"], [Typed EXCEPT !.cookie = ""],
   [Submit EXCEPT !.token = ""], [Submit EXCEPT !.token = "c2"], [Submit EXCEPT !.cookie = "none"],
   [Submit EXCEPT !.session = ""],
   [Forged EXCEPT !.token = "c2"], [Forged EXCEPT !.cookie = "none", !.token = "c2"],
   [Asks EXCEPT !.asksMethod = "HEAD"], [Asks EXCEPT !.asksHeaders = {"X-Other"}],
   [Asks EXCEPT !.asksHeaders = {}], [Asks EXCEPT !.origin = "foe"],
   [OwnCall EXCEPT !.method = "GET", !.token = ""]})

Configs == {"coop", "noStrict", "noStrictQuiet", "noTypes", "noTypesQuiet", "noResource", "skip"}
             \cup FramingConfigs
Handlers == (WriteKinds \ {"file"})
              \cup {"error", "nothing", "cookie", "twice", "setCSP", "login", "logout",
                    "fsFile", "fsIndex", "fsHead", "fsCached", "fsMoved", "fsMissing"}
Owns == {"template", "vary", "claim", "panic"}

\* A trusted script without a cookie, whose calls pass the cors of Api.
Called == [Old(Friend) EXCEPT !.method = "GET"]

MCRequests ==
  Everyone
    \cup {[r EXCEPT !.config = c] : r \in {Visit, Typed, Framed, Image, Link}, c \in Configs}
    \cup {[r EXCEPT !.handler = h] : r \in {Visit, Submit, Called}, h \in Handlers}
    \cup {[r EXCEPT !.handler = h, !.config = "skip"] : r \in {Typed}, h \in Handlers}
    \cup {[r EXCEPT !.own = o] : r \in {Typed, Visit, Submit, Called, Old(Asks)}, o \in Owns}

-----------------------------------------------------------------------------

MCNames == PluginNames \cup CorsNames
             \cup {"Set-Cookie", "Content-Type", "Location", "Last-Modified"}

MCValues == {"nosniff", "0", "max-age", "same-origin", "coop-report", "strict", "trusted",
             "frames", "frames-allowed", "SAMEORIGIN", "ALLOWALL", "group", "more", "outer",
             "xsrf-cookie", "session", "friend", "foe", "true", "5", "max", "POST", "asked", "exposed",
             "Origin", "Accept", "Accept, Origin", "Cookie", "then", "location", "none",
             "html", "text"}
CspLists == UNION {[1..n -> {"strict", "trusted", "frames", "frames-allowed", "outer"}] : n \in 1..4}
MCLists  == {<<v>> : v \in MCValues} \cup CspLists

\* The connection as net/http hands it over, and one whose outer handler has already
\* set a policy.
MCInitialHeaders == {NoHeaders, [NoHeaders EXCEPT ![CSP] = <<"outer">>]}
=============================================================================
