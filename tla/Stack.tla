------------------------------- MODULE Stack -------------------------------
(***************************************************************************)
(* One request through the interceptors that programs of this repository    *)
(* install: defaults.ServeMuxConfig, the sample application's and the echo  *)
(* example's NewMuxConfig, and stacks with the plugins these leave out.     *)
(* What was arbitrary code in Flight is now what the plugins do.            *)
(***************************************************************************)
EXTENDS Plugins

CONSTANTS
  Stacks,     \* sequences of N kinds of interceptors
  Requests    \* requests, with the handler they are routed to

InterceptorKinds ==
  {"static", "hsts", "hsts-proxy", "hsts-broken", "coop", "reporting", "csp-strict",
   "csp-types", "csp-report", "csp-frames", "xfo", "host", "resource", "resource-navigate",
   "resource-report", "framing", "xsrf-html", "xsrf-angular", "xsrf-block", "cors",
   "cors-default", "auth", "own"}

HandlerKinds ==
  WriteKinds \cup {"error", "nothing", "cookie", "twice", "setCSP", "login", "logout",
                   "fsFile", "fsIndex", "fsHead", "fsCached", "fsMoved", "fsMissing"}

\* The names and values that interceptors and handlers use.
UsedNames  == PluginNames \cup CorsNames \cup {"Content-Type", "Location", "Last-Modified"}
UsedValues ==
  {"nosniff", "0", "max-age", "same-origin", "coop-report", "strict", "trusted", "frames",
   "frames-allowed", "SAMEORIGIN", "ALLOWALL", "group", "more", "xsrf-cookie", "session",
   "friend", "true", "5", "max", "asked", "exposed", "Origin", "Accept", "Accept, Origin",
   "Cookie", "then", "location", "none", "html", "text"}

ASSUME StackAssumption ==
  /\ N > 0 /\ IsFiniteSet(Names)
  /\ UsedNames \subseteq Names /\ UsedValues \subseteq Values
  /\ Stacks \subseteq [1..N -> InterceptorKinds]
  /\ \A r \in Requests :
       r.handler \in HandlerKinds /\ r.asksMethod \in Values \cup {"", "HEAD"}

\* What browsers do: a form is a POST (one that is a GET counts as a link); of what a
\* page can cause, only a script sets X-Cors, and the browser then names its origin; a
\* page of another site does not know the token of its visitor; and where the browser
\* tells who asks, it says so of what another site has caused.  The sender "friend" is
\* a script of the origin that is trusted.
ASSUME BrowserAssumption ==
  \A r \in Requests :
    /\ r.sender = "form" => r.method = "POST"
    /\ r.sender \in {"form", "image", "frame", "link"} => ~r.xcors
    /\ r.sender = "script" /\ r.xcors => r.origin \notin {"", "friend"}
    /\ r.sender \in {"form", "script"} => r.token = "" \/ r.token # r.cookie
    /\ r.sender \in {"form", "script", "image", "frame"} /\ r.site # "" =>
         r.site = "cross-site" /\ r.mode # ""
    /\ r.sender \in {"script", "image"} => r.mode \notin NavigationalModes
    /\ r.sender = "frame" /\ r.site # "" =>
         r.mode \in NavigationalModes /\ r.dest \in FrameableDests

VARIABLES
  stack,      \* the installed interceptors
  req,        \* the request; req.config and req.handler are its handler's
  dev         \* development mode

context   == <<stack, req, dev>>
stackVars == <<allVars, context>>

\* csp.Default and framing.Interceptors.
CspDefault == <<"csp-strict", "csp-types">>
FramingInterceptors == <<"framing", "csp-frames", "xfo">>

DefaultInterceptors ==
  <<"static", "hsts", "coop">> \o CspDefault
    \o <<"host", "resource", "xsrf-html">> \o FramingInterceptors

SampleInterceptors ==
  <<"coop", "static">> \o CspDefault \o <<"hsts">> \o FramingInterceptors
    \o <<"resource", "xsrf-html", "auth", "host">>

EchoInterceptors ==
  <<"coop", "static">> \o CspDefault \o <<"hsts">> \o FramingInterceptors
    \o <<"resource", "cors-default", "host">>

EchoInterceptorsDev ==
  <<"coop">> \o CspDefault \o <<"resource", "static", "host">>

\* The settings of the cors interceptors: of the echo example, and of a program
\* that trusts one origin.
CorsSettings(kind) ==
  IF kind = "cors-default"
    THEN [origins |-> {}, headers |-> {}, credentials |-> FALSE, maxAge |-> 0, exposes |-> FALSE]
    ELSE [origins |-> {"friend"}, headers |-> {"X-Known"}, credentials |-> TRUE,
          maxAge |-> 60, exposes |-> TRUE]

\* auth of the sample application; r.session is the user its cookie stands for.
AuthBefore(r) ==
  (IF r.session # "" THEN <<PutOf("user")>> ELSE <<>>)
    \o IF r.config = "skip" \/ r.session # "" THEN <<>> ELSE <<WriteOf("error")>>

AuthCommit == IF {"clear", "set"} \cap values # {} THEN <<CookieOf("session")>> ELSE <<>>

\* An interceptor a program has added itself.
OwnBefore(r) ==
  CASE r.own = "template" -> <<WriteOf("template")>>
    [] r.own = "vary"     -> <<AddOf(Vary, "Accept"), AddOf(Vary, "Cookie")>>
    [] r.own = "claim"    -> <<ClaimOf(Vary), SetterOf(Vary, <<"Accept">>)>>
    [] r.own = "panic"    -> <<PanicOf>>
    [] OTHER              -> <<>>

Before(kind, r) ==
  CASE kind = "static"      -> StaticHeaders
    [] kind = "hsts"        -> Hsts(r, dev, FALSE, 1)
    [] kind = "hsts-proxy"  -> Hsts(r, dev, TRUE, 1)
    [] kind = "hsts-broken" -> Hsts(r, dev, TRUE, -1)
    [] kind = "coop"        -> Coop(r.config)
    [] kind = "reporting"   -> Reporting(<<"group", "more">>)
    [] kind = "csp-strict"  -> CspBefore(StrictPolicy(r.config), FALSE)
    [] kind = "csp-types"   -> CspBefore(TrustedTypesPolicy(r.config), FALSE)
    [] kind = "csp-report"  -> CspBefore(TrustedTypesPolicy(r.config), TRUE)
    [] kind = "csp-frames"  -> CspBefore(FramingPolicy(r.config), FALSE)
    [] kind = "xfo"         -> FrameOptions(r.config)
    [] kind = "host"        -> HostCheck(r, {"own"})
    [] kind = "resource"    ->
         FetchMetadata(ResourceAllowed(r), r.config = "noResource", FALSE, FALSE)
    [] kind = "resource-navigate" ->
         FetchMetadata(ResourceAllowed(r), r.config = "noResource", FALSE, TRUE)
    [] kind = "resource-report" ->
         FetchMetadata(ResourceAllowed(r), r.config = "noResource", TRUE, FALSE)
    [] kind = "framing"     ->
         FetchMetadata(FramingAllowed(r), r.config \in FramingConfigs, FALSE, FALSE)
    [] kind = "xsrf-html"    -> XsrfBefore(r)
    [] kind = "xsrf-angular" -> AngularBefore(r)
    [] kind = "xsrf-block"   -> BlockAll(r)
    [] kind \in {"cors", "cors-default"} -> Cors(r, CorsSettings(kind))
    [] kind = "auth"        -> AuthBefore(r)
    [] kind = "own"         -> OwnBefore(r)

Commit(kind, r, response) ==
  CASE kind \in {"csp-strict", "csp-types", "csp-report", "csp-frames"} -> CspCommit(response)
    [] kind = "xsrf-html"    -> XsrfCommit(r, response)
    [] kind = "xsrf-angular" -> AngularCommit(r)
    [] kind = "auth"         -> AuthCommit
    [] OTHER                 -> <<>>

\* What a program's handler may do, the file server's among them: http.FileServer
\* sends a file, an index without a status, nothing for HEAD or what the browser
\* has already, a redirect to a directory, or its own error page.
ServeHTTP(r) ==
  CASE r.handler \in WriteKinds \cup {"error"} -> <<WriteOf(r.handler)>>
    [] r.handler = "nothing"  -> <<>>
    [] r.handler = "cookie"   -> <<CookieOf("session"), WriteOf("html")>>
    [] r.handler = "twice"    -> <<WriteOf("html"), WriteOf("json")>>
    [] r.handler = "setCSP"   -> <<SetOf(CSP, "none"), WriteOf("html")>>
    [] r.handler = "login"    -> <<PutOf("set"), PutOf("user"), WriteOf("redirect")>>
    [] r.handler = "logout"   -> <<PutOf("clear"), WriteOf("redirect")>>
    [] r.handler = "fsFile"   -> <<FSSet("Content-Type", "html"), FSSet("Last-Modified", "then"),
                                   FSStatus(TRUE), FSWrite, FSWrite>>
    [] r.handler = "fsIndex"  -> <<FSSet("Content-Type", "html"), FSWrite>>
    [] r.handler = "fsHead"   -> <<FSSet("Last-Modified", "then"), FSStatus(TRUE)>>
    [] r.handler = "fsCached" -> <<FSSet("Last-Modified", "then"), FSStatus(FALSE)>>
    [] r.handler = "fsMoved"  -> <<FSSet("Location", "location"), FSStatus(FALSE)>>
    [] r.handler = "fsMissing" -> <<FSSet("Content-Type", "text"), FSSet(XCTO, "nosniff"),
                                    FSStatus(FALSE), FSWrite>>

\* The code that runs as actor i when the request comes to it.
BeforeOf(i) == IF i = Handler THEN ServeHTTP(req) ELSE Before(stack[i], req)
CommitOf(i, response) == IF i = 0 THEN <<>> ELSE Commit(stack[i], req, response)

-----------------------------------------------------------------------------

\* N > 0 in every stack, so that the first script is that of an interceptor.
StackInit ==
  /\ stack \in Stacks /\ req \in Requests /\ dev \in BOOLEAN
  /\ Init
  /\ ProgramInit(Before(stack[1], req))

StackStep ==
  \/ HeaderStep \/ PanicStep \/ PutStep \/ FuncStep
  \/ WriteStep(CommitOf(N, Call.kind))
  \/ CommitStep(CommitOf(commitAt - 1, resp))
  \/ DispatchStep
  \/ BeforeStep(BeforeOf(cur + 1))
  \/ HandlerStep \/ EndStep
  \/ FSSetStep \/ FSStatusStep \/ FSWriteStep

StackNext == (StackStep /\ UNCHANGED context) \/ (Over /\ UNCHANGED stackVars)

StackSpec == StackInit /\ [][StackNext]_stackVars

-----------------------------------------------------------------------------
(* Properties.                                                              *)

Has(kinds) == \E i \in 1..N : stack[i] \in kinds

Answered  == wire.by \in {"dispatcher", "filebody", "server"}
InHandler == cur = Handler

\* What the connection must carry if an interceptor's Before has returned.
InHeader(h, n, text) == \E i \in DOMAIN h[n] : h[n][i] = text

CspIn(h, policy, only) ==
  \/ policy.override = "disabled"
  \/ InHeader(h, IF policy.override = "report" \/ only THEN CSPReportOnly ELSE CSP, policy.text)

Protects(kind, h) ==
  CASE kind = "static"     -> h[XCTO] = <<"nosniff">> /\ h[XXP] = <<"0">>
    [] kind \in {"hsts", "hsts-proxy"} -> h[HSTS] # <<>> \/ dev
    [] kind = "coop"       -> h[IF req.config = "coop" THEN COOPReportOnly ELSE COOP] # <<>>
    [] kind = "reporting"  -> \A g \in {"group", "more"} : InHeader(h, ReportTo, g)
    [] kind = "csp-strict" -> CspIn(h, StrictPolicy(req.config), FALSE)
    [] kind = "csp-types"  -> CspIn(h, TrustedTypesPolicy(req.config), FALSE)
    [] kind = "csp-report" -> CspIn(h, TrustedTypesPolicy(req.config), TRUE)
    [] kind = "csp-frames" -> CspIn(h, FramingPolicy(req.config), FALSE)
    [] kind = "xfo"        -> h[XFO] = <<"SAMEORIGIN">> \/ req.config \in FramingConfigs
    [] OTHER               -> TRUE

\* Whatever answers the request, an interceptor in the middle of the chain, a page,
\* an error, the file server with headers of its own, every header that protects the
\* program and that the interceptors before it have set for this handler is on the
\* wire, and the policies of one csp interceptor do not replace those of another.
\* The headers of cors are not among them: they allow, see CorsHonest.
AnswerProtected ==
  Answered => \A i \in 1..N : i < cur => Protects(stack[i], wire.hdr)

\* A handler runs for no request that a page of another site has sent, except a
\* plain link, if the interceptors that stop such requests are installed and not
\* disabled: a change needs its token in every browser; where the browser says who
\* asks, resources and frames are refused too.  Nor does it for another host.
HandlerGuarded ==
  InHandler =>
    /\ Has({"host"}) => req.host = "own"
    /\ req.sender \in {"form", "script"} /\ ~StatePreserving(req) =>
         ~Has({"xsrf-html", "xsrf-angular", "xsrf-block"})
    /\ req.sender \in {"form", "script", "image"} /\ req.site # "" =>
         ~Has({"resource", "resource-navigate"}) \/ req.config = "noResource"
    /\ req.sender = "frame" /\ req.site # "" =>
         ~Has({"framing"}) \/ req.config \in FramingConfigs
    /\ Has({"auth"}) => req.session # "" \/ req.config = "skip"

\* What pages of other sites cause.
Untrusted == {"form", "script", "image", "frame", "link"}

\* An answer names an origin only if it is trusted and the request came from it, and
\* then caches are told that it depends on the origin; credentials are allowed to
\* no other.  Behind cors a handler runs for no preflight, for none of the types of
\* content that are banned by their exact text, and for nothing that a page without
\* the trust of the program has caused, a form whose type has a parameter (which is
\* not banned) included.
CorsHonest ==
  /\ Answered /\ wire.hdr[AllowOrigin] # <<>> =>
       /\ Has({"cors"}) /\ req.origin = "friend" /\ wire.hdr[AllowOrigin] = <<"friend">>
       /\ wire.hdr[Vary] \in {<<"Origin">>, <<"Accept, Origin">>}
  /\ Answered /\ wire.hdr[AllowCreds] # <<>> => Has({"cors"}) /\ req.origin \in {"", "friend"}
  /\ InHandler /\ Has({"cors", "cors-default"}) =>
       /\ req.method \notin {"OPTIONS", "HEAD"} /\ req.contentType \notin BannedTypes
       /\ req.sender \notin Untrusted

\* A page that a handler writes goes out with the nonce of the policy and with the
\* token of the form bound, whichever of them its interceptors provide.
Csp == {"csp-strict", "csp-types", "csp-report", "csp-frames"}

PagesBound ==
  InHandler /\ resp = "template" /\ dispatched > 0 =>
    /\ Has(Csp) => "nonce" \in funcs
    /\ Has({"xsrf-html"}) => "token" \in funcs

\* The commit phase of an answer breaks off only for a page written by an
\* interceptor that runs before every csp interceptor, so that there is no nonce.
CommitsGoThrough ==
  pc \in {"unwind", "crashed"} /\ written /\ dispatched = 0 =>
    resp = "template" /\ Has(Csp) /\ \A i \in 1..N : stack[i] \in Csp => i >= cur

\* A browser gets at most one new cookie to tie tokens to, only if it had none, and
\* never on a request that may change something.
CookieOnce ==
  LET given == {i \in DOMAIN wrapped["Set-Cookie"] : wrapped["Set-Cookie"][i] = "xsrf-cookie"}
  IN  /\ Cardinality(given) <= 1
      /\ given # {} => req.cookie \in {"none", ""} /\ StatePreserving(req)

\* What http.FileServer makes of a request is answered as a file with its headers,
\* or as one error page; of a file that is refused no byte is sent.
FileOrError ==
  /\ fs.errored => ~fs.sent /\ wire.by # "filebody"
  /\ Answered /\ InHandler /\ fs.committed =>
       wire.status = IF fs.errored THEN "error" ELSE "ok"
  /\ Answered /\ InHandler /\ fs.committed =>
       \A n \in Names \ {"Content-Type"} :
         fs.header[n] # <<>> => wire.hdr[n] = fs.header[n]

\* The plugins and handlers keep to what Flight lets interceptors and handlers do,
\* so that all that is proved of a flight holds of these requests.
ImplementsFlight == Steps
=============================================================================
