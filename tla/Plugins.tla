------------------------------ MODULE Plugins ------------------------------
(***************************************************************************)
(* The interceptors that come with the framework (plugins/...), each as the *)
(* calls its Before and its Commit make for a request r, under the          *)
(* configuration c of the handler, in development mode if dev holds.        *)
(*                                                                         *)
(* A request is a record of what the interceptors look at; "" is a header   *)
(* that is not there.  The text of policies and cookies is abstract: one    *)
(* value per policy, and one for whatever is drawn at random.               *)
(***************************************************************************)
EXTENDS Program

\* The names the interceptors claim, set or append to.
XCTO == "X-Content-Type-Options"
XXP  == "X-XSS-Protection"
HSTS == "Strict-Transport-Security"
COOP == "Cross-Origin-Opener-Policy"
COOPReportOnly == "Cross-Origin-Opener-Policy-Report-Only"
CSP  == "Content-Security-Policy"
CSPReportOnly == "Content-Security-Policy-Report-Only"
XFO  == "X-Frame-Options"
ReportTo == "Report-To"

PluginNames == {XCTO, XXP, HSTS, COOP, COOPReportOnly, CSP, CSPReportOnly, XFO, ReportTo}

\* Configurations of a handler, by the override they ask for: "quiet" ones skip
\* reports too.
FramingConfigs == {"frame", "frameQuiet", "frameAllow", "frameAllowReport"}

-----------------------------------------------------------------------------
(* Headers, whatever the request.                                           *)

StaticHeaders ==
  << ClaimOf(XCTO), ClaimOf(XXP), SetterOf(XCTO, <<"nosniff">>), SetterOf(XXP, <<"0">>) >>

\* The override of a handler replaces the policies; a setter given no policies
\* at all gets nil and does nothing.
CoopPolicies(c) ==
  IF c = "coop" THEN [enf |-> <<>>, rep |-> <<"coop-report">>]
                ELSE [enf |-> <<"same-origin">>, rep |-> <<>>]

ClaimAndSet(n, vs) ==
  <<ClaimOf(n)>> \o IF vs = <<>> THEN <<>> ELSE <<SetterOf(n, vs)>>

Coop(c) == ClaimAndSet(COOP, CoopPolicies(c).enf)
             \o ClaimAndSet(COOPReportOnly, CoopPolicies(c).rep)

Reporting(groups) == [i \in DOMAIN groups |-> AddOf(ReportTo, groups[i])]

FrameOptions(c) ==
  <<ClaimOf(XFO), SetterOf(XFO, <<IF c \in FramingConfigs THEN "ALLOWALL" ELSE "SAMEORIGIN">>)>>

\* One of the settings behind a proxy, with a usable or a negative max-age.  A URL
\* that does not parse again (an error too) is left out.
Hsts(r, dev, behindProxy, maxAge) ==
  IF dev THEN <<>>
  ELSE IF maxAge < 0 THEN <<WriteOf("error")>>
  ELSE IF ~behindProxy /\ ~r.tls THEN <<WriteOf("redirect")>>
  ELSE ClaimAndSet(HSTS, <<"max-age">>)

-----------------------------------------------------------------------------
(* csp.                                                                     *)

\* A policy for a configuration: Serialize, as far as a browser would tell the texts
\* apart, and Match with Overridden: whether it is only reported, or disabled.
StrictPolicy(c) ==
  [text |-> "strict",
   override |-> CASE c = "noStrict" -> "report" [] c = "noStrictQuiet" -> "disabled" [] OTHER -> "none"]

TrustedTypesPolicy(c) ==
  [text |-> "trusted",
   override |-> CASE c = "noTypes" -> "report" [] c = "noTypesQuiet" -> "disabled" [] OTHER -> "none"]

FramingPolicy(c) ==
  [text |-> IF c \in {"frameAllow", "frameAllowReport"} THEN "frames-allowed" ELSE "frames",
   override |-> CASE c \in {"frame", "frameAllowReport"} -> "report"
                  [] c = "frameQuiet" -> "disabled" [] OTHER -> "none"]

\* The policies that other csp interceptors left in a header are kept.
CspAlone(n, p)    == <<p>>
CspAppended(n, p) == Append(wrapped[n], p)

\* The nonce is made, and both headers are claimed, by the first of them to run; the
\* others find them in the FlightValues.
Nonce == <<PutOf("csp-nonce")>>

ClaimedHeaders ==
  IF "csp-headers" \in values THEN <<>>
  ELSE <<ClaimOf(CSP), ClaimOf(CSPReportOnly), PutOf("csp-headers")>>

\* processOverride: the header a policy goes to.
HeaderFor(policy, reportOnly) ==
  IF policy.override = "report" \/ reportOnly THEN CSPReportOnly ELSE CSP

CspBefore(policy, reportOnly) ==
  LET name == HeaderFor(policy, reportOnly)
  IN  Nonce \o ClaimedHeaders
        \o IF policy.override = "disabled" THEN <<>>
           ELSE <<SetterOf(name, CspAppended(name, policy.text))>>

\* Only a page needs the nonce; one for which there is none is a panic.
CspCommitAnyKind(kind) ==
  IF "csp-nonce" \notin values THEN <<PanicOf>>
  ELSE IF kind = "template" THEN <<FuncOf("nonce")>> ELSE <<>>

CspCommit(kind) ==
  IF kind # "template" THEN <<>>
  ELSE IF "csp-nonce" \notin values THEN <<PanicOf>>
  ELSE <<FuncOf("nonce")>>

-----------------------------------------------------------------------------
(* Decisions on the sender of a request.                                    *)

HostCheck(r, hosts) == IF r.host \in hosts THEN <<>> ELSE <<WriteOf("error")>>

NavigationalModes == {"navigate", "nested-navigate"}
NavigationalDests == {"document", "nested-document"}
FrameableDests    == {"frame", "iframe", "embed", "object"}

ResourceAllowed(r) ==
  \/ r.site # "cross-site"
  \/ r.mode = "" /\ r.dest = "" /\ r.method = "OPTIONS"
  \/ r.mode \in NavigationalModes /\ r.dest \in NavigationalDests
       /\ r.method \in {"GET", "HEAD"}

FramingAllowed(r) ==
  \/ r.mode = "" \/ r.dest = "" \/ r.site = ""
  \/ r.mode \notin NavigationalModes
  \/ r.dest \notin FrameableDests
  \/ r.site \in {"same-origin", "none"}

\* Policy.Before; a configuration of the handler or ReportOnly lets a request pass.
FetchMetadata(allowed, skip, reportOnly, navigate) ==
  IF allowed \/ skip \/ reportOnly THEN <<>>
  ELSE <<WriteOf(IF navigate THEN "redirect" ELSE "error")>>

-----------------------------------------------------------------------------
(* xsrf.                                                                    *)

StatePreserving(r) == r.method \in {"GET", "HEAD", "OPTIONS"}

\* r.cookie is the value of the cookie, "none" if there is none; r.token is the
\* cookie the token in the form was made for, "" if no form or token was found.
ProvenByCookie(r) == r.cookie # "none"

Proven(r) == r.cookie # "none" /\ r.token # "" /\ r.token = r.cookie

XsrfBefore(r) == IF StatePreserving(r) \/ Proven(r) THEN <<>> ELSE <<WriteOf("error")>>

XsrfCommitCookieOnly(r, kind) ==
  IF r.cookie # "none" THEN IF kind = "template" THEN <<FuncOf("token")>> ELSE <<>>
  ELSE IF StatePreserving(r) THEN <<CookieOf("xsrf-cookie")>> ELSE <<>>

XsrfCommitAnyMethod(r, kind) ==
  (IF r.cookie # "none" THEN <<>> ELSE <<CookieOf("xsrf-cookie")>>)
    \o IF kind = "template" THEN <<FuncOf("token")>> ELSE <<>>

XsrfCommit(r, kind) ==
  LET token == IF kind = "template" THEN <<FuncOf("token")>> ELSE <<>>
  IN  IF r.cookie # "none" THEN token
      ELSE IF StatePreserving(r) THEN <<CookieOf("xsrf-cookie")>> \o token
      ELSE <<>>

\* The token is in a cookie, and in a header (here r.token) of a page of ours.
NoCookie(r) == r.cookie \in {"none", ""}

AngularBefore(r) ==
  IF StatePreserving(r) \/ (~NoCookie(r) /\ r.token = r.cookie)
    THEN <<>> ELSE <<WriteOf("error")>>

AngularCommit(r) ==
  IF NoCookie(r) /\ StatePreserving(r) THEN <<CookieOf("xsrf-cookie")>> ELSE <<>>

BlockAll(r) == IF StatePreserving(r) THEN <<>> ELSE <<WriteOf("error")>>

-----------------------------------------------------------------------------
(* cors, with the settings it, a record.                                    *)

Vary         == "Vary"
AllowOrigin  == "Access-Control-Allow-Origin"
AllowCreds   == "Access-Control-Allow-Credentials"
AllowMethods == "Access-Control-Allow-Methods"
AllowHeaders == "Access-Control-Allow-Headers"
MaxAge       == "Access-Control-Max-Age"
ExposeHeaders == "Access-Control-Expose-Headers"

CorsNames == {Vary, AllowOrigin, AllowCreds, AllowMethods, AllowHeaders, MaxAge,
              ExposeHeaders}

\* preflight, and what it asks for: a method, and header names.
PreflightPasses(r, it) ==
  /\ r.origin # ""
  /\ r.asksMethod \notin {"", "HEAD"}
  /\ r.asksHeaders \subseteq it.headers \cup {"X-Cors"}

PreflightCalls(r, it) ==
  <<ClaimOf(AllowMethods), ClaimOf(AllowHeaders), ClaimOf(MaxAge),
    SetterOf(AllowMethods, <<r.asksMethod>>)>>
    \o (IF r.asksHeaders = {} THEN <<>> ELSE <<SetterOf(AllowHeaders, <<"asked">>)>>)
    \o <<SetterOf(MaxAge, <<IF it.maxAge = 0 THEN "5" ELSE "max">>)>>

\* request: the type is looked up as it stands, so that one with a parameter (the
\* boundary that browsers give a multipart form, a charset) is not banned.
BannedTypes == {"form", "multipart", "text"}

RequestPasses(r) == r.xcors /\ r.contentType # "" /\ r.contentType \notin BannedTypes

RequestCalls(it) ==
  ClaimAndSet(ExposeHeaders, IF it.exposes THEN <<"exposed">> ELSE <<>>)

\* Only the first value of Vary is read, and what is set replaces all of them.
VaryOrigin == SetOf(Vary, IF wrapped[Vary] = <<>> THEN "Origin" ELSE "Accept, Origin")

AnyOrigin(r, it)     == TRUE
OriginTrusted(r, it) == r.origin = "" \/ r.origin \in it.origins

\* Any cookie will do.
SendsCookies(r) == r.cookie # "none" \/ r.session # ""

CorsAnswer(r, it) ==
  (IF r.origin = "" THEN <<>> ELSE <<SetterOf(AllowOrigin, <<r.origin>>), VaryOrigin>>)
    \o IF SendsCookies(r) /\ it.credentials THEN <<SetterOf(AllowCreds, <<"true">>)>>
                                             ELSE <<>>

Cors(r, it) ==
  LET refuse == <<WriteOf("error")>>
      ours   == <<ClaimOf(AllowOrigin), ClaimOf(AllowCreds)>>
  IN  IF ~OriginTrusted(r, it) THEN refuse
      ELSE IF Vary \in claimed THEN <<ClaimOf(AllowOrigin)>> \o refuse
      ELSE IF r.method = "OPTIONS" THEN
        IF PreflightPasses(r, it)
          THEN ours \o PreflightCalls(r, it) \o CorsAnswer(r, it) \o <<WriteOf("nocontent")>>
          ELSE ours \o refuse
      ELSE IF r.method # "HEAD" /\ RequestPasses(r)
        THEN ours \o RequestCalls(it) \o CorsAnswer(r, it)
        ELSE ours \o refuse
=============================================================================
