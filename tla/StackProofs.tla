---------------------------- MODULE StackProofs ----------------------------
(***************************************************************************)
(* Theorems about Stack, for every sequence of the interceptors it knows,   *)
(* every set of requests, and every handler: every step is one of Flight,   *)
(* then which requests get through to the handler, and what answers carry.  *)
(***************************************************************************)
EXTENDS Stack, FlightProofs, FiniteSetTheorems

-----------------------------------------------------------------------------
(* The calls there are, and the names they touch.                           *)

\* The names http.FileServer sets, and those that interceptors claim.
FSNames    == {"Content-Type", "Last-Modified", "Location", XCTO}
OwnedNames == (PluginNames \ {ReportTo}) \cup CorsNames

\* Keys of FlightValues and functions of templates.
Keys == {"csp-nonce", "csp-headers", "user", "set", "clear", "nonce", "token"}

AllCalls ==
  [op : {"claim"}, name : OwnedNames]
    \cup [op : {"setter"}, name : OwnedNames, vals : HeaderValues]
    \cup [op : {"set"}, name : {Vary, CSP}, val : Values]
    \cup [op : {"add"}, name : FSNames \cup {Vary, ReportTo}, val : Values]
    \cup [op : {"del"}, name : FSNames]
    \cup [op : {"cookie"}, val : Values]
    \cup [op : {"put", "func"}, key : Keys]
    \cup [op : {"write"}, kind : Kinds]
    \cup [op : {"fsset"}, name : FSNames, val : Values]
    \cup [op : {"fsstatus"}, ok : BOOLEAN]
    \cup {PanicOf, FSWrite}

\* All these names are names.
LEMMA NamesUsed ==
  /\ OwnedNames \subseteq Names /\ FSNames \subseteq Names
  /\ Vary \in OwnedNames /\ CSP \in OwnedNames /\ ReportTo \in Names
  /\ "Set-Cookie" \notin OwnedNames \cup FSNames \cup {ReportTo}
BY StackAssumption DEF UsedNames, OwnedNames, FSNames, PluginNames, CorsNames, XCTO, XXP, HSTS,
   COOP, COOPReportOnly, CSP, CSPReportOnly, XFO, ReportTo, Vary, AllowOrigin, AllowCreds,
   AllowMethods, AllowHeaders, MaxAge, ExposeHeaders

\* What the constructors make.
LEMMA MakeCalls ==
  /\ \A n \in OwnedNames : ClaimOf(n) \in AllCalls
  /\ \A n \in OwnedNames, vs \in HeaderValues : SetterOf(n, vs) \in AllCalls
  /\ \A n \in {Vary, CSP}, v \in Values : SetOf(n, v) \in AllCalls
  /\ \A n \in FSNames \cup {Vary, ReportTo}, v \in Values : AddOf(n, v) \in AllCalls
  /\ \A n \in FSNames : DelOf(n) \in AllCalls
  /\ \A v \in Values : CookieOf(v) \in AllCalls
  /\ \A k \in Keys : PutOf(k) \in AllCalls /\ FuncOf(k) \in AllCalls
  /\ \A k \in Kinds : WriteOf(k) \in AllCalls
  /\ \A n \in FSNames, v \in Values : FSSet(n, v) \in AllCalls
  /\ \A b \in BOOLEAN : FSStatus(b) \in AllCalls
  /\ PanicOf \in AllCalls /\ FSWrite \in AllCalls
<1>1. \A n \in OwnedNames : ClaimOf(n) \in AllCalls
  BY DEF AllCalls, ClaimOf
<1>2. \A n \in OwnedNames, vs \in HeaderValues : SetterOf(n, vs) \in AllCalls
  BY DEF AllCalls, SetterOf
<1>3. \A n \in {Vary, CSP}, v \in Values : SetOf(n, v) \in AllCalls
  BY DEF AllCalls, SetOf
<1>4. \A n \in FSNames \cup {Vary, ReportTo}, v \in Values : AddOf(n, v) \in AllCalls
  BY DEF AllCalls, AddOf
<1>5. \A n \in FSNames : DelOf(n) \in AllCalls
  BY DEF AllCalls, DelOf
<1>6. \A v \in Values : CookieOf(v) \in AllCalls
  BY DEF AllCalls, CookieOf
<1>7. \A k \in Keys : PutOf(k) \in AllCalls /\ FuncOf(k) \in AllCalls
  BY DEF AllCalls, PutOf, FuncOf
<1>8. \A k \in Kinds : WriteOf(k) \in AllCalls
  BY DEF AllCalls, WriteOf
<1>9. \A n \in FSNames, v \in Values : FSSet(n, v) \in AllCalls
  BY DEF AllCalls, FSSet
<1>10. \A b \in BOOLEAN : FSStatus(b) \in AllCalls
  BY DEF AllCalls, FSStatus
<1>11. PanicOf \in AllCalls /\ FSWrite \in AllCalls
  BY DEF AllCalls
<1> QED
  BY <1>1, <1>2, <1>3, <1>4, <1>5, <1>6, <1>7, <1>8, <1>9, <1>10, <1>11

\* The names and values the scripts mention.
LEMMA Mentioned ==
  /\ {XCTO, XXP, HSTS, COOP, COOPReportOnly, CSP, CSPReportOnly, XFO} \subseteq OwnedNames
  /\ {Vary, AllowOrigin, AllowCreds, AllowMethods, AllowHeaders, MaxAge, ExposeHeaders}
       \subseteq OwnedNames
  /\ {"Content-Type", "Last-Modified", "Location", XCTO} \subseteq FSNames
  /\ UsedValues \subseteq Values
  /\ \A v \in Values : <<v>> \in HeaderValues
  /\ {"error", "redirect", "template", "nocontent", "html", "json"} \subseteq Kinds
  /\ WriteKinds \subseteq Kinds
<1>1. {XCTO, XXP, HSTS, COOP, COOPReportOnly, CSP, CSPReportOnly, XFO} \subseteq OwnedNames
  BY DEF OwnedNames, PluginNames, XCTO, XXP, HSTS, COOP, COOPReportOnly, CSP, CSPReportOnly,
         XFO, ReportTo
<1>2. {Vary, AllowOrigin, AllowCreds, AllowMethods, AllowHeaders, MaxAge, ExposeHeaders}
        \subseteq OwnedNames
  BY DEF OwnedNames, CorsNames
<1>3. UsedValues \subseteq Values /\ \A v \in Values : <<v>> \in HeaderValues
  <2>1. UsedValues \subseteq Values
    BY StackAssumption
  <2>2. \A v \in Values : <<v>> \in HeaderValues
    BY DEF HeaderValues
  <2> QED
    BY <2>1, <2>2
<1> QED
  BY <1>1, <1>2, <1>3 DEF FSNames, Kinds, WriteKinds

\* Sequences of calls are put together from such.
LEMMA Scripts ==
  /\ <<>> \in Seq(AllCalls)
  /\ \A a \in AllCalls : <<a>> \in Seq(AllCalls)
  /\ \A a, b \in AllCalls : <<a, b>> \in Seq(AllCalls)
  /\ \A a, b, c \in AllCalls : <<a, b, c>> \in Seq(AllCalls)
  /\ \A a, b, c, d \in AllCalls : <<a, b, c, d>> \in Seq(AllCalls)
  /\ \A a, b, c, d, e \in AllCalls : <<a, b, c, d, e>> \in Seq(AllCalls)
  /\ \A s, t \in Seq(AllCalls) : s \o t \in Seq(AllCalls)
  /\ \A s \in Seq(AllCalls) : s # <<>> => Head(s) \in AllCalls /\ Tail(s) \in Seq(AllCalls)
BY EmptySeq, HeadTailProperties

\* The calls that interceptors make before their response.
BeforeCalls ==
  [op : {"claim"}, name : OwnedNames]
    \cup [op : {"setter"}, name : OwnedNames, vals : HeaderValues]
    \cup [op : {"set"}, name : {Vary}, val : Values]
    \cup [op : {"add"}, name : {Vary, ReportTo}, val : Values]
    \cup [op : {"put"}, key : Keys]
    \cup [op : {"write"}, kind : Kinds]
    \cup {PanicOf}

\* What the constructors make of those.
LEMMA MakeBefore ==
  /\ \A n \in OwnedNames : ClaimOf(n) \in BeforeCalls
  /\ \A n \in OwnedNames, vs \in HeaderValues : SetterOf(n, vs) \in BeforeCalls
  /\ \A v \in Values : SetOf(Vary, v) \in BeforeCalls
  /\ \A n \in {Vary, ReportTo}, v \in Values : AddOf(n, v) \in BeforeCalls
  /\ \A k \in Keys : PutOf(k) \in BeforeCalls
  /\ \A k \in Kinds : WriteOf(k) \in BeforeCalls
  /\ PanicOf \in BeforeCalls
<1>1. \A n \in OwnedNames : ClaimOf(n) \in BeforeCalls
  BY DEF BeforeCalls, ClaimOf
<1>2. \A n \in OwnedNames, vs \in HeaderValues : SetterOf(n, vs) \in BeforeCalls
  BY DEF BeforeCalls, SetterOf
<1>3. \A v \in Values : SetOf(Vary, v) \in BeforeCalls
  BY DEF BeforeCalls, SetOf
<1>4. \A n \in {Vary, ReportTo}, v \in Values : AddOf(n, v) \in BeforeCalls
  BY DEF BeforeCalls, AddOf
<1>5. \A k \in Keys : PutOf(k) \in BeforeCalls
  BY DEF BeforeCalls, PutOf
<1>6. \A k \in Kinds : WriteOf(k) \in BeforeCalls
  BY DEF BeforeCalls, WriteOf
<1> QED
  BY <1>1, <1>2, <1>3, <1>4, <1>5, <1>6 DEF BeforeCalls

\* Sequences of them.
LEMMA BeforeScripts ==
  /\ <<>> \in Seq(BeforeCalls)
  /\ \A a \in BeforeCalls : <<a>> \in Seq(BeforeCalls)
  /\ \A a, b \in BeforeCalls : <<a, b>> \in Seq(BeforeCalls)
  /\ \A a, b, c, d \in BeforeCalls : <<a, b, c, d>> \in Seq(BeforeCalls)
  /\ \A s, t \in Seq(BeforeCalls) : s \o t \in Seq(BeforeCalls)
  /\ \A s \in Seq(BeforeCalls) : s \in Seq(AllCalls)
<1>1. BeforeCalls \subseteq AllCalls
  BY DEF BeforeCalls, AllCalls
<1>2. \A s \in Seq(BeforeCalls) : s \in Seq(AllCalls)
  BY <1>1
<1> QED
  BY <1>2

\* Claiming a name and setting it.
LEMMA ClaimAndSetType ==
  ASSUME NEW n \in OwnedNames, NEW vs \in HeaderValues
  PROVE  ClaimAndSet(n, vs) \in Seq(BeforeCalls)
BY MakeBefore, BeforeScripts DEF ClaimAndSet

\* The parts of what the cors plugin does.
LEMMA CorsParts ==
  ASSUME NEW r \in Requests, NEW it \in {CorsSettings("cors"), CorsSettings("cors-default")}
  PROVE  /\ <<ClaimOf(AllowOrigin)>> \in Seq(BeforeCalls)
         /\ <<ClaimOf(AllowOrigin), ClaimOf(AllowCreds)>> \in Seq(BeforeCalls)
         /\ PreflightPasses(r, it) => PreflightCalls(r, it) \in Seq(BeforeCalls)
         /\ RequestCalls(it) \in Seq(BeforeCalls)
         /\ OriginTrusted(r, it) => CorsAnswer(r, it) \in Seq(BeforeCalls)
<1>0. \A v \in UsedValues : v \in Values /\ <<v>> \in HeaderValues
  BY Mentioned
<1>1. it.origins \subseteq {"friend"}
  BY DEF CorsSettings
<1>2. \A n \in CorsNames : ClaimOf(n) \in BeforeCalls
  BY MakeBefore DEF OwnedNames, PluginNames, CorsNames
<1>3. <<ClaimOf(AllowOrigin)>> \in Seq(BeforeCalls)
        /\ <<ClaimOf(AllowOrigin), ClaimOf(AllowCreds)>> \in Seq(BeforeCalls)
  BY <1>2, BeforeScripts DEF CorsNames
<1>4. \A n \in CorsNames, v \in Values : SetterOf(n, <<v>>) \in BeforeCalls
  BY MakeBefore, Mentioned DEF OwnedNames, PluginNames, CorsNames
<1>5. PreflightPasses(r, it) => PreflightCalls(r, it) \in Seq(BeforeCalls)
  <2> SUFFICES ASSUME PreflightPasses(r, it) PROVE PreflightCalls(r, it) \in Seq(BeforeCalls)
    OBVIOUS
  <2>1. r.asksMethod \in Values /\ "asked" \in Values /\ "5" \in Values /\ "max" \in Values
    BY <1>0, StackAssumption DEF PreflightPasses, UsedValues
  <2>2. /\ SetterOf(AllowMethods, <<r.asksMethod>>) \in BeforeCalls
        /\ SetterOf(AllowHeaders, <<"asked">>) \in BeforeCalls
        /\ SetterOf(MaxAge, <<IF it.maxAge = 0 THEN "5" ELSE "max">>) \in BeforeCalls
    BY <1>4, <2>1 DEF CorsNames
  <2>3. /\ ClaimOf(AllowMethods) \in BeforeCalls /\ ClaimOf(AllowHeaders) \in BeforeCalls
        /\ ClaimOf(MaxAge) \in BeforeCalls
    BY <1>2 DEF CorsNames
  <2> DEFINE first == <<ClaimOf(AllowMethods), ClaimOf(AllowHeaders), ClaimOf(MaxAge),
                        SetterOf(AllowMethods, <<r.asksMethod>>)>>
             asked == IF r.asksHeaders = {} THEN <<>> ELSE <<SetterOf(AllowHeaders, <<"asked">>)>>
             age   == <<SetterOf(MaxAge, <<IF it.maxAge = 0 THEN "5" ELSE "max">>)>>
  <2>4. first \in Seq(BeforeCalls)
    BY <2>2, <2>3
  <2>5. asked \in Seq(BeforeCalls) /\ age \in Seq(BeforeCalls)
    BY <2>2, BeforeScripts
  <2>6. PreflightCalls(r, it) = first \o asked \o age
    BY DEF PreflightCalls
  <2> HIDE DEF first, asked, age
  <2> QED
    BY <2>4, <2>5, <2>6, BeforeScripts
<1>6. RequestCalls(it) \in Seq(BeforeCalls)
  <2>1. "exposed" \in UsedValues /\ <<>> \in HeaderValues
    BY DEF UsedValues, HeaderValues
  <2> QED
    BY <1>0, <2>1, ClaimAndSetType, Mentioned DEF RequestCalls
<1>7. OriginTrusted(r, it) => CorsAnswer(r, it) \in Seq(BeforeCalls)
  <2> SUFFICES ASSUME OriginTrusted(r, it) PROVE CorsAnswer(r, it) \in Seq(BeforeCalls)
    OBVIOUS
  <2>1. {"friend", "true", "Origin", "Accept, Origin"} \subseteq Values
    BY Mentioned DEF UsedValues
  <2>2. r.origin # "" => r.origin \in Values
    BY <1>1, <2>1 DEF OriginTrusted
  <2>3. r.origin # "" => SetterOf(AllowOrigin, <<r.origin>>) \in BeforeCalls
    BY <1>4, <2>2 DEF CorsNames
  <2>4. VaryOrigin \in BeforeCalls /\ SetterOf(AllowCreds, <<"true">>) \in BeforeCalls
    BY <1>4, <2>1, MakeBefore DEF VaryOrigin, CorsNames
  <2> DEFINE a == IF r.origin = "" THEN <<>> ELSE <<SetterOf(AllowOrigin, <<r.origin>>), VaryOrigin>>
             b == IF SendsCookies(r) /\ it.credentials THEN <<SetterOf(AllowCreds, <<"true">>)>>
                                                         ELSE <<>>
  <2>5. a \in Seq(BeforeCalls)
    <3>1. CASE r.origin = ""
      BY <3>1, BeforeScripts
    <3>2. CASE r.origin # ""
      <4>1. <<SetterOf(AllowOrigin, <<r.origin>>), VaryOrigin>> \in Seq(BeforeCalls)
        BY <2>3, <2>4, <3>2, BeforeScripts
      <4> QED
        BY <3>2, <4>1
    <3> QED
      BY <3>1, <3>2
  <2>7. b \in Seq(BeforeCalls)
    BY <2>4, BeforeScripts
  <2>6. CorsAnswer(r, it) = a \o b
    BY DEF CorsAnswer
  <2> HIDE DEF a, b
  <2> QED
    BY <2>5, <2>6, <2>7, BeforeScripts
<1> QED
  BY <1>3, <1>5, <1>6, <1>7

\* The last part of what a csp interceptor does: the policy is set.
CspSets(policy, only) ==
  LET name == HeaderFor(policy, only)
  IN  IF policy.override = "disabled" THEN <<>>
      ELSE <<SetterOf(name, CspAppended(name, policy.text))>>

\* The parts of what it does.
LEMMA CspParts ==
  ASSUME TypeOK, NEW policy, policy.text \in UsedValues, NEW only \in BOOLEAN
  PROVE  /\ Nonce \in Seq(BeforeCalls) /\ ClaimedHeaders \in Seq(BeforeCalls)
         /\ CspSets(policy, only) \in Seq(BeforeCalls)
         /\ CspBefore(policy, only) = Nonce \o ClaimedHeaders \o CspSets(policy, only)
         /\ HeaderFor(policy, only) \in {CSP, CSPReportOnly}
         /\ \A n \in {CSP, CSPReportOnly} : CspAppended(n, policy.text) \in HeaderValues
<1>1. policy.text \in Values
  BY Mentioned
<1>2. Nonce \in Seq(BeforeCalls) /\ ClaimedHeaders \in Seq(BeforeCalls)
  BY MakeBefore, BeforeScripts, Mentioned DEF Nonce, ClaimedHeaders, Keys
<1>3. HeaderFor(policy, only) \in {CSP, CSPReportOnly}
  BY DEF HeaderFor
<1>4. wrapped \in [Names -> HeaderValues] /\ {CSP, CSPReportOnly} \subseteq Names
  BY Mentioned, NamesUsed DEF TypeOK, HeaderTypeOK
<1>5. \A n \in {CSP, CSPReportOnly} : CspAppended(n, policy.text) \in HeaderValues
  BY <1>1, <1>4, AppendProperties DEF CspAppended, HeaderValues
<1>6. <<SetterOf(HeaderFor(policy, only), CspAppended(HeaderFor(policy, only), policy.text))>>
        \in Seq(BeforeCalls)
  BY <1>3, <1>5, MakeBefore, BeforeScripts, Mentioned
<1>7. CspSets(policy, only) \in Seq(BeforeCalls)
  BY <1>6, BeforeScripts DEF CspSets
<1>8. CspBefore(policy, only) = Nonce \o ClaimedHeaders \o CspSets(policy, only)
  BY DEF CspBefore, CspSets
<1> QED
  BY <1>2, <1>3, <1>5, <1>7, <1>8

\* The texts of policies are values.
LEMMA PolicyTexts ==
  \A c : /\ StrictPolicy(c).text \in UsedValues /\ TrustedTypesPolicy(c).text \in UsedValues
         /\ FramingPolicy(c).text \in UsedValues
BY DEF StrictPolicy, TrustedTypesPolicy, FramingPolicy, UsedValues

\* What interceptors do before their response.
LEMMA BeforeType ==
  ASSUME TypeOK, NEW kind \in InterceptorKinds, NEW r \in Requests
  PROVE  Before(kind, r) \in Seq(BeforeCalls)
<1>1. \A v \in UsedValues : v \in Values /\ <<v>> \in HeaderValues
  BY Mentioned
<1>2. <<WriteOf("error")>> \in Seq(BeforeCalls) /\ <<WriteOf("redirect")>> \in Seq(BeforeCalls)
        /\ <<WriteOf("template")>> \in Seq(BeforeCalls) /\ <<WriteOf("nocontent")>> \in Seq(BeforeCalls)
  BY MakeBefore, BeforeScripts, Mentioned
<1>3. StaticHeaders \in Seq(BeforeCalls)
  <2>1. "nosniff" \in UsedValues /\ "0" \in UsedValues
    BY DEF UsedValues
  <2>2. /\ ClaimOf(XCTO) \in BeforeCalls /\ ClaimOf(XXP) \in BeforeCalls
        /\ SetterOf(XCTO, <<"nosniff">>) \in BeforeCalls /\ SetterOf(XXP, <<"0">>) \in BeforeCalls
    BY <1>1, <2>1, MakeBefore, Mentioned
  <2> QED
    BY <2>2 DEF StaticHeaders
<1>4. /\ Hsts(r, dev, FALSE, 1) \in Seq(BeforeCalls) /\ Hsts(r, dev, TRUE, 1) \in Seq(BeforeCalls)
      /\ Hsts(r, dev, TRUE, -1) \in Seq(BeforeCalls)
  <2>1. "max-age" \in UsedValues
    BY DEF UsedValues
  <2>2. ClaimAndSet(HSTS, <<"max-age">>) \in Seq(BeforeCalls)
    BY <1>1, <2>1, ClaimAndSetType, Mentioned
  <2> QED
    BY <1>2, <2>2, BeforeScripts DEF Hsts
<1>5. Coop(r.config) \in Seq(BeforeCalls)
  <2>1. "coop-report" \in UsedValues /\ "same-origin" \in UsedValues /\ <<>> \in HeaderValues
    BY DEF UsedValues, HeaderValues
  <2>2. CoopPolicies(r.config).enf \in HeaderValues /\ CoopPolicies(r.config).rep \in HeaderValues
    BY <1>1, <2>1 DEF CoopPolicies
  <2> QED
    BY <2>2, ClaimAndSetType, BeforeScripts, Mentioned DEF Coop
<1>6. Reporting(<<"group", "more">>) \in Seq(BeforeCalls)
  <2>1. "group" \in UsedValues /\ "more" \in UsedValues
    BY DEF UsedValues
  <2>2. Reporting(<<"group", "more">>) = <<AddOf(ReportTo, "group"), AddOf(ReportTo, "more")>>
    BY DEF Reporting
  <2>3. AddOf(ReportTo, "group") \in BeforeCalls /\ AddOf(ReportTo, "more") \in BeforeCalls
    BY <1>1, <2>1, MakeBefore
  <2>4. <<AddOf(ReportTo, "group"), AddOf(ReportTo, "more")>> \in Seq(BeforeCalls)
    BY <2>3, BeforeScripts
  <2> QED
    BY <2>2, <2>4
<1>7. FrameOptions(r.config) \in Seq(BeforeCalls)
  <2>1. "ALLOWALL" \in UsedValues /\ "SAMEORIGIN" \in UsedValues
    BY DEF UsedValues
  <2> QED
    BY <1>1, <2>1, MakeBefore, Mentioned DEF FrameOptions
<1>8. ASSUME NEW policy, policy.text \in UsedValues, NEW only \in BOOLEAN
      PROVE  CspBefore(policy, only) \in Seq(BeforeCalls)
  <2>1. /\ Nonce \in Seq(BeforeCalls) /\ ClaimedHeaders \in Seq(BeforeCalls)
        /\ CspSets(policy, only) \in Seq(BeforeCalls)
        /\ CspBefore(policy, only) = Nonce \o ClaimedHeaders \o CspSets(policy, only)
    BY <1>8, CspParts
  <2> QED
    BY <2>1, BeforeScripts
<1>9. /\ StrictPolicy(r.config).text \in UsedValues /\ TrustedTypesPolicy(r.config).text \in UsedValues
      /\ FramingPolicy(r.config).text \in UsedValues
  BY PolicyTexts
<1>10. ASSUME NEW it \in {CorsSettings("cors"), CorsSettings("cors-default")}
       PROVE  Cors(r, it) \in Seq(BeforeCalls)
  <2> DEFINE ours   == <<ClaimOf(AllowOrigin), ClaimOf(AllowCreds)>>
             refuse == <<WriteOf("error")>>
  <2>1. /\ ours \in Seq(BeforeCalls) /\ refuse \in Seq(BeforeCalls)
        /\ <<ClaimOf(AllowOrigin)>> \o refuse \in Seq(BeforeCalls) /\ ours \o refuse \in Seq(BeforeCalls)
    BY <1>2, CorsParts, BeforeScripts
  <2>2. OriginTrusted(r, it) /\ PreflightPasses(r, it) =>
          ours \o PreflightCalls(r, it) \o CorsAnswer(r, it) \o <<WriteOf("nocontent")>>
            \in Seq(BeforeCalls)
    BY <1>2, <2>1, CorsParts, BeforeScripts
  <2>3. OriginTrusted(r, it) =>
          ours \o RequestCalls(it) \o CorsAnswer(r, it) \in Seq(BeforeCalls)
    BY <2>1, CorsParts, BeforeScripts
  <2>4. \/ Cors(r, it) \in {refuse, <<ClaimOf(AllowOrigin)>> \o refuse, ours \o refuse}
        \/ /\ OriginTrusted(r, it) /\ PreflightPasses(r, it)
           /\ Cors(r, it) =
                ours \o PreflightCalls(r, it) \o CorsAnswer(r, it) \o <<WriteOf("nocontent")>>
        \/ OriginTrusted(r, it) /\ Cors(r, it) = ours \o RequestCalls(it) \o CorsAnswer(r, it)
    BY DEF Cors
  <2> QED
    BY <2>1, <2>2, <2>3, <2>4
<1>11. AuthBefore(r) \in Seq(BeforeCalls)
  <2>1. <<PutOf("user")>> \in Seq(BeforeCalls)
    BY MakeBefore, BeforeScripts DEF Keys
  <2> QED
    BY <1>2, <2>1, BeforeScripts DEF AuthBefore
<1>12. OwnBefore(r) \in Seq(BeforeCalls)
  <2>1. "Accept" \in UsedValues /\ "Cookie" \in UsedValues
    BY DEF UsedValues
  <2>2. /\ AddOf(Vary, "Accept") \in BeforeCalls /\ AddOf(Vary, "Cookie") \in BeforeCalls
        /\ ClaimOf(Vary) \in BeforeCalls /\ SetterOf(Vary, <<"Accept">>) \in BeforeCalls
        /\ PanicOf \in BeforeCalls
    BY <1>1, <2>1, MakeBefore, NamesUsed
  <2> QED
    BY <1>2, <2>2, BeforeScripts DEF OwnBefore
<1>13. CASE kind \in {"static", "coop", "reporting", "xfo", "auth", "own"}
  BY <1>3, <1>5, <1>6, <1>7, <1>11, <1>12, <1>13 DEF Before
<1>18. CASE kind \in {"hsts", "hsts-proxy", "hsts-broken"}
  BY <1>4, <1>18 DEF Before
<1>14. CASE kind \in {"csp-strict", "csp-types", "csp-report", "csp-frames"}
  BY <1>8, <1>9, <1>14 DEF Before
<1>15. CASE kind \in {"cors", "cors-default"}
  BY <1>10, <1>15 DEF Before
<1>16. CASE kind \in {"host", "resource", "resource-navigate", "resource-report", "framing"}
  BY <1>2, <1>16, BeforeScripts DEF Before, HostCheck, FetchMetadata
<1>17. CASE kind \in {"xsrf-html", "xsrf-angular", "xsrf-block"}
  BY <1>2, <1>17, BeforeScripts DEF Before, XsrfBefore, AngularBefore, BlockAll
<1> QED
  BY <1>13, <1>14, <1>15, <1>16, <1>17, <1>18 DEF InterceptorKinds

\* What they do when a response is committed.
LEMMA CommitType ==
  ASSUME NEW kind \in InterceptorKinds, NEW r \in Requests, NEW response
  PROVE  Commit(kind, r, response) \in Seq(AllCalls)
<1>1. "xsrf-cookie" \in Values /\ "session" \in Values
  BY Mentioned DEF UsedValues
<1>2. /\ <<PanicOf>> \in Seq(AllCalls) /\ <<FuncOf("nonce")>> \in Seq(AllCalls)
      /\ <<FuncOf("token")>> \in Seq(AllCalls)
      /\ <<CookieOf("xsrf-cookie")>> \in Seq(AllCalls) /\ <<CookieOf("session")>> \in Seq(AllCalls)
  BY <1>1, MakeCalls, Scripts DEF Keys
<1>3. CspCommit(response) \in Seq(AllCalls) /\ AuthCommit \in Seq(AllCalls)
        /\ AngularCommit(r) \in Seq(AllCalls)
  BY <1>2, Scripts DEF CspCommit, AuthCommit, AngularCommit
<1>4. XsrfCommit(r, response) \in Seq(AllCalls)
  BY <1>2, Scripts DEF XsrfCommit
<1>5. CASE kind \in {"csp-strict", "csp-types", "csp-report", "csp-frames"}
  BY <1>3, <1>5 DEF Commit
<1>6. CASE kind \notin {"csp-strict", "csp-types", "csp-report", "csp-frames"}
  BY <1>3, <1>4, <1>6, Scripts DEF Commit
<1> QED
  BY <1>5, <1>6

\* Handlers, one by one.
LEMMA HandlerScripts ==
  ASSUME NEW r
  PROVE  /\ r.handler \in WriteKinds \cup {"error"} => ServeHTTP(r) = <<WriteOf(r.handler)>>
         /\ r.handler = "nothing" => ServeHTTP(r) = <<>>
         /\ r.handler = "cookie" => ServeHTTP(r) = <<CookieOf("session"), WriteOf("html")>>
         /\ r.handler = "twice" => ServeHTTP(r) = <<WriteOf("html"), WriteOf("json")>>
         /\ r.handler = "setCSP" => ServeHTTP(r) = <<SetOf(CSP, "none"), WriteOf("html")>>
         /\ r.handler = "login" =>
              ServeHTTP(r) = <<PutOf("set"), PutOf("user"), WriteOf("redirect")>>
         /\ r.handler = "logout" => ServeHTTP(r) = <<PutOf("clear"), WriteOf("redirect")>>
         /\ r.handler = "fsFile" =>
              ServeHTTP(r) = <<FSSet("Content-Type", "html"), FSSet("Last-Modified", "then"),
                               FSStatus(TRUE), FSWrite, FSWrite>>
         /\ r.handler = "fsIndex" => ServeHTTP(r) = <<FSSet("Content-Type", "html"), FSWrite>>
         /\ r.handler = "fsHead" =>
              ServeHTTP(r) = <<FSSet("Last-Modified", "then"), FSStatus(TRUE)>>
         /\ r.handler = "fsCached" =>
              ServeHTTP(r) = <<FSSet("Last-Modified", "then"), FSStatus(FALSE)>>
         /\ r.handler = "fsMoved" =>
              ServeHTTP(r) = <<FSSet("Location", "location"), FSStatus(FALSE)>>
         /\ r.handler = "fsMissing" =>
              ServeHTTP(r) = <<FSSet("Content-Type", "text"), FSSet(XCTO, "nosniff"),
                               FSStatus(FALSE), FSWrite>>
BY DEF ServeHTTP, WriteKinds

\* What handlers do.
LEMMA HandlerType ==
  ASSUME NEW r \in Requests
  PROVE  ServeHTTP(r) \in Seq(AllCalls)
<1>1. {"session", "none", "html", "then", "location", "text", "nosniff"} \subseteq Values
  BY Mentioned DEF UsedValues
<1>2. \A k \in Kinds : WriteOf(k) \in AllCalls
  BY MakeCalls
<1>3. /\ CookieOf("session") \in AllCalls /\ SetOf(CSP, "none") \in AllCalls
      /\ PutOf("set") \in AllCalls /\ PutOf("user") \in AllCalls /\ PutOf("clear") \in AllCalls
      /\ FSStatus(TRUE) \in AllCalls /\ FSStatus(FALSE) \in AllCalls /\ FSWrite \in AllCalls
  BY <1>1, MakeCalls DEF Keys
<1>4. \A n \in FSNames, v \in Values : FSSet(n, v) \in AllCalls
  BY MakeCalls
<1>5. /\ FSSet("Content-Type", "html") \in AllCalls /\ FSSet("Last-Modified", "then") \in AllCalls
      /\ FSSet("Location", "location") \in AllCalls /\ FSSet("Content-Type", "text") \in AllCalls
      /\ FSSet(XCTO, "nosniff") \in AllCalls
  BY <1>1, <1>4, Mentioned
<1>6. /\ WriteOf("html") \in AllCalls /\ WriteOf("json") \in AllCalls
      /\ WriteOf("redirect") \in AllCalls
  BY <1>2, Mentioned
<1>7. CASE r.handler \in WriteKinds \cup {"error"}
  BY <1>2, <1>7, HandlerScripts, Scripts DEF Kinds
<1>8. CASE r.handler = "nothing"
  BY <1>8, HandlerScripts, Scripts
<1>9. CASE r.handler \in {"cookie", "twice", "setCSP"}
  <2>1. /\ <<CookieOf("session"), WriteOf("html")>> \in Seq(AllCalls)
        /\ <<WriteOf("html"), WriteOf("json")>> \in Seq(AllCalls)
        /\ <<SetOf(CSP, "none"), WriteOf("html")>> \in Seq(AllCalls)
    BY <1>3, <1>6, Scripts
  <2> QED
    BY <1>9, <2>1, HandlerScripts
<1>10. CASE r.handler \in {"login", "logout"}
  <2>1. <<PutOf("set"), PutOf("user"), WriteOf("redirect")>> \in Seq(AllCalls)
    BY <1>3, <1>6, Scripts
  <2>2. <<PutOf("clear"), WriteOf("redirect")>> \in Seq(AllCalls)
    BY <1>3, <1>6, Scripts
  <2> QED
    BY <1>10, <2>1, <2>2, HandlerScripts
<1>11. CASE r.handler = "fsFile"
  <2>1. <<FSSet("Content-Type", "html"), FSSet("Last-Modified", "then"), FSStatus(TRUE), FSWrite,
          FSWrite>> \in Seq(AllCalls)
    BY <1>3, <1>5, Scripts
  <2> QED
    BY <1>11, <2>1, HandlerScripts
<1>12. CASE r.handler \in {"fsIndex", "fsHead"}
  <2>1. /\ <<FSSet("Content-Type", "html"), FSWrite>> \in Seq(AllCalls)
        /\ <<FSSet("Last-Modified", "then"), FSStatus(TRUE)>> \in Seq(AllCalls)
    BY <1>3, <1>5, Scripts
  <2> QED
    BY <1>12, <2>1, HandlerScripts
<1>13. CASE r.handler \in {"fsCached", "fsMoved"}
  <2>1. /\ <<FSSet("Last-Modified", "then"), FSStatus(FALSE)>> \in Seq(AllCalls)
        /\ <<FSSet("Location", "location"), FSStatus(FALSE)>> \in Seq(AllCalls)
    BY <1>3, <1>5, Scripts
  <2> QED
    BY <1>13, <2>1, HandlerScripts
<1>14. CASE r.handler = "fsMissing"
  <2>1. <<FSSet("Content-Type", "text"), FSSet(XCTO, "nosniff"), FSStatus(FALSE), FSWrite>>
          \in Seq(AllCalls)
    BY <1>3, <1>5, Scripts
  <2> QED
    BY <1>14, <2>1, HandlerScripts
<1> QED
  BY <1>7, <1>8, <1>9, <1>10, <1>11, <1>12, <1>13, <1>14, StackAssumption DEF HandlerKinds

-----------------------------------------------------------------------------
(* The invariant about scripts.                                             *)

FSTypes == [header : [Names -> Seq(Values)], committed : BOOLEAN, errored : BOOLEAN,
            sent : BOOLEAN]

ContextOK ==
  stack \in [1..N -> InterceptorKinds] /\ req \in Requests /\ dev \in BOOLEAN

\* Every call still to be made is one of the calls there are, and the file server has
\* only headers of its own.
ScriptOK ==
  /\ script \in Seq(AllCalls) /\ frame \in Seq(AllCalls)
  /\ values \subseteq Keys /\ funcs \subseteq Keys
  /\ fs \in FSTypes /\ \A n \in Names \ FSNames : fs.header[n] = <<>>

\* The names that WriteHeader copies are a sequence.
LEMMA CopyOrderType ==
  ASSUME ScriptOK
  PROVE  /\ CopyOrder \in Seq({n \in Names : Copied(n)})
         /\ \A n \in {m \in Names : Copied(m)} :
              n \in FSNames \ {"Content-Type"} /\ Head(fs.header[n]) \in Values
<1> DEFINE S == {n \in Names : Copied(n)}
<1>1. IsFiniteSet(S)
  BY StackAssumption, FS_Subset
<1>2. PICK n \in Nat : ExistsBijection(1..n, S)
  BY <1>1, FS_NatBijection
<1>3. Cardinality(S) = n
  BY <1>2, FS_CountingElements
<1>4. \E f \in [1..Cardinality(S) -> S] : IsInjective(f)
  BY <1>2, <1>3 DEF ExistsBijection, Bijection, Injection, IsInjective
<1>5. SetToSeq(S) \in [1..Cardinality(S) -> S]
  BY <1>4 DEF SetToSeq
<1>6. CopyOrder \in Seq(S)
  <2>1. CopyOrder = SetToSeq(S)
    BY DEF CopyOrder
  <2> HIDE DEF S
  <2> QED
    BY <1>3, <1>5, <2>1
<1>7. ASSUME NEW m \in S PROVE m \in FSNames \ {"Content-Type"} /\ Head(fs.header[m]) \in Values
  <2>1. fs.header[m] \in Seq(Values) /\ fs.header[m] # <<>>
    BY <1>7 DEF ScriptOK, FSTypes, Copied
  <2> QED
    BY <1>7, <2>1, HeadTailProperties DEF ScriptOK, Copied
<1> QED
  BY <1>6, <1>7

\* The calls that copy them.
LEMMA CopyCallsType ==
  ASSUME ScriptOK
  PROVE  CopyCalls \in Seq(AllCalls)
<1> DEFINE S == {n \in Names : Copied(n)}
           L == Len(CopyOrder)
           call(k) == LET n == CopyOrder[(k + 1) \div 2]
                      IN  IF k % 2 = 1 THEN DelOf(n) ELSE AddOf(n, Head(fs.header[n]))
<1>1. L \in Nat /\ \A i \in 1..L : CopyOrder[i] \in S
  BY CopyOrderType
<1>2. ASSUME NEW k \in 1..2 * L PROVE call(k) \in AllCalls
  <2>1. (k + 1) \div 2 \in 1..L
    BY <1>1
  <2>2. CopyOrder[(k + 1) \div 2] \in S
    BY <1>1, <2>1
  <2> QED
    BY <2>2, CopyOrderType, MakeCalls
<1>3. CopyCalls = [k \in 1..2 * L |-> call(k)]
  BY DEF CopyCalls
<1> HIDE DEF call, L
<1> QED
  BY <1>1, <1>2, <1>3

\* The calls that copy, place by place.
LEMMA CopyPlaces ==
  ASSUME ScriptOK
  PROVE  /\ CopyCalls \in Seq(AllCalls) /\ Len(CopyOrder) \in Nat
         /\ Len(CopyCalls) = 2 * Len(CopyOrder)
         /\ \A i \in 1..Len(CopyOrder) :
              /\ CopyOrder[i] \in {n \in Names : Copied(n)}
              /\ CopyCalls[2 * i - 1] = DelOf(CopyOrder[i])
              /\ CopyCalls[2 * i] = AddOf(CopyOrder[i], Head(fs.header[CopyOrder[i]]))
<1> DEFINE L == Len(CopyOrder)
           call(k) == LET n == CopyOrder[(k + 1) \div 2]
                      IN  IF k % 2 = 1 THEN DelOf(n) ELSE AddOf(n, Head(fs.header[n]))
<1>1. L \in Nat /\ \A i \in 1..L : CopyOrder[i] \in {n \in Names : Copied(n)}
  BY CopyOrderType
<1>2. CopyCalls = [k \in 1..2 * L |-> call(k)]
  BY DEF CopyCalls
<1>3. ASSUME NEW i \in 1..L
      PROVE  /\ call(2 * i - 1) = DelOf(CopyOrder[i])
             /\ call(2 * i) = AddOf(CopyOrder[i], Head(fs.header[CopyOrder[i]]))
  <2>1. /\ ((2 * i - 1) + 1) \div 2 = i /\ (2 * i - 1) % 2 = 1
        /\ (2 * i + 1) \div 2 = i /\ (2 * i) % 2 = 0
    BY <1>1
  <2> QED
    BY <2>1
<1> HIDE DEF call, L
<1>4. CopyCalls \in Seq(AllCalls) /\ Len(CopyCalls) \in Nat /\ DOMAIN CopyCalls = 1..Len(CopyCalls)
  BY CopyCallsType, LenProperties
<1>5. DOMAIN CopyCalls = 1..2 * L
  BY <1>2
<1>6. Len(CopyCalls) = 2 * L
  <2>1. \A m, n \in Nat : 1..m = 1..n => m = n
    <3> SUFFICES ASSUME NEW m \in Nat, NEW n \in Nat, 1..m = 1..n PROVE m = n
      OBVIOUS
    <3>1. m = 0 \/ m \in 1..n
      OBVIOUS
    <3>2. n = 0 \/ n \in 1..m
      OBVIOUS
    <3> QED
      BY <3>1, <3>2
  <2>2. 2 * L \in Nat
    BY <1>1
  <2>3. 1..Len(CopyCalls) = 1..2 * L
    BY <1>4, <1>5, Zenon
  <2> QED
    BY <1>4, <2>1, <2>2, <2>3
<1>7. ASSUME NEW i \in 1..L
      PROVE  /\ CopyCalls[2 * i - 1] = DelOf(CopyOrder[i])
             /\ CopyCalls[2 * i] = AddOf(CopyOrder[i], Head(fs.header[CopyOrder[i]]))
  <2>1. 2 * i - 1 \in 1..2 * L /\ 2 * i \in 1..2 * L
    BY <1>1
  <2> QED
    BY <1>2, <1>3, <2>1
<1> QED
  BY <1>1, <1>4, <1>6, <1>7 DEF L

\* What a call carries.
LEMMA CallShape ==
  ASSUME NEW c \in AllCalls
  PROVE  /\ c.op = "claim" => c.name \in OwnedNames
         /\ c.op = "setter" => c.name \in OwnedNames /\ c.vals \in HeaderValues
         /\ c.op = "set" => c.name \in {Vary, CSP} /\ c.val \in Values
         /\ c.op = "add" => c.name \in FSNames \cup {Vary, ReportTo} /\ c.val \in Values
         /\ c.op = "del" => c.name \in FSNames
         /\ c.op = "cookie" => c.val \in Values
         /\ c.op \in {"put", "func"} => c.key \in Keys
         /\ c.op = "write" => c.kind \in Kinds
         /\ c.op = "fsset" => c.name \in FSNames /\ c.val \in Values
         /\ c.op = "fsstatus" => c.ok \in BOOLEAN
BY DEF AllCalls, PanicOf, FSWrite

StackInv == TypeOK /\ ContextOK /\ ScriptOK

\* The next call is one of the calls there are.
LEMMA NextCall ==
  ASSUME ScriptOK, Ready
  PROVE  Call \in AllCalls /\ Tail(script) \in Seq(AllCalls) /\ script # <<>>
BY Scripts DEF ScriptOK, Ready, Call

\* The code on top of the stack is that of an actor.
LEMMA ActorType ==
  ASSUME TypeOK, Running
  PROVE  /\ Actor \in Actors
         /\ InUser => Actor = cur
         /\ ~InUser => InCommit /\ Actor = commitAt
<1>1. N \in Nat /\ Handler = N + 1 /\ Actors = 1..Handler
  BY HeaderAssumption DEF Handler, Actors
<1> QED
  BY <1>1 DEF TypeOK, Running, Actor, InUser, InCommit, CommitPending

\* A closure is called with some list of values.
Lends ==
  /\ Running /\ UNCHANGED flightVars
  /\ \E b \in Lenders(Actor), n \in OwnedNames, vs \in HeaderValues :
       b \in Actors /\ UseSetter(b, n, vs)

\* A call of a header method is one that Flight lets user code make; only the lists that
\* closures are given may be others.
LEMMA HeaderStepIs ==
  ASSUME StackInv, HeaderStep
  PROVE  UserHeaderCall \/ Lends
<1> USE DEF StackInv
<1>1. Ready /\ UNCHANGED flightVars
  BY DEF HeaderStep
<1>2. Call \in AllCalls
  BY <1>1, NextCall
<1>3. Running
  BY <1>1 DEF Ready
<1>4. Actor \in Actors
  BY <1>3, ActorType
<1>5. OwnedNames \subseteq Names /\ FSNames \cup {Vary, CSP, ReportTo} \subseteq Names
  BY NamesUsed
<1>6. HeaderCall(Actor) => UserHeaderCall
  BY <1>1, <1>3 DEF UserHeaderCall, Running, Actor
<1>7. CASE Call.op = "claim" /\ Claim(Actor, Call.name)
  <2>1. Call.name \in Names
    BY <1>2, <1>5, <1>7, CallShape
  <2> QED
    BY <1>6, <1>7, <2>1 DEF HeaderCall
<1>8. CASE Call.op = "set" /\ Set(Call.name, Call.val)
  <2>1. Call.name \in Names /\ Call.val \in Values
    BY <1>2, <1>5, <1>8, CallShape
  <2> QED
    BY <1>6, <1>8, <2>1 DEF HeaderCall
<1>9. CASE Call.op = "add" /\ Add(Call.name, Call.val)
  <2>1. Call.name \in Names /\ Call.val \in Values
    BY <1>2, <1>5, <1>9, CallShape
  <2> QED
    BY <1>6, <1>9, <2>1 DEF HeaderCall
<1>10. CASE Call.op = "del" /\ Del(Call.name)
  <2>1. Call.name \in Names
    BY <1>2, <1>5, <1>10, CallShape
  <2> QED
    BY <1>6, <1>10, <2>1 DEF HeaderCall
<1>11. CASE Call.op = "cookie" /\ AddCookie(Call.val)
  <2>1. Call.val \in Values
    BY <1>2, <1>11, CallShape
  <2> QED
    BY <1>6, <1>11, <2>1 DEF HeaderCall
<1>12. CASE /\ Call.op = "setter"
            /\ \E b \in Holders(Call.name) : UseSetter(b, Call.name, Call.vals)
  <2>1. Call.name \in OwnedNames /\ Call.vals \in HeaderValues
    BY <1>2, <1>12, CallShape
  <2>2. PICK b \in Holders(Call.name) : UseSetter(b, Call.name, Call.vals)
    BY <1>12
  <2>3. b \in Lenders(Actor) /\ b \in Actors
    BY <2>2 DEF Holders, Lenders
  <2> QED
    BY <1>1, <1>3, <2>1, <2>2, <2>3 DEF Lends
<1> QED
  BY <1>7, <1>8, <1>9, <1>10, <1>11, <1>12 DEF HeaderStep

\* Every step of the stack is a step of a flight, if closures take any list of values.
LEMMA StepIsOfFlight ==
  ASSUME StackInv, [StackNext]_stackVars
  PROVE  [Next]_vars \/ Lends
<1>1. CASE HeaderStep
  BY <1>1, HeaderStepIs DEF Next, UserCode
<1>2. CASE PanicStep
  BY <1>2 DEF PanicStep, Next, UserCode
<1>3. CASE PutStep \/ FuncStep \/ FSSetStep \/ FSStatusStep
  BY <1>3 DEF PutStep, FuncStep, FSSetStep, FSStatusStep
<1>4. CASE WriteStep(CommitOf(N, Call.kind))
  <2>1. WriteError \/ Write(Call.kind)
    BY <1>4 DEF WriteStep
  <2>2. Write(Call.kind) => Call.kind \in WriteKinds
    BY DEF Write
  <2> QED
    BY <2>1, <2>2 DEF Next, UserCode
<1>5. CASE CommitStep(CommitOf(commitAt - 1, resp))
  BY <1>5 DEF CommitStep, Next, Framework
<1>6. CASE DispatchStep
  BY <1>6 DEF DispatchStep, Next, Framework
<1>7. CASE BeforeStep(BeforeOf(cur + 1))
  BY <1>7 DEF BeforeStep, Next, Framework
<1>8. CASE HandlerStep
  BY <1>8 DEF HandlerStep, Next, Framework
<1>9. CASE EndStep
  BY <1>9 DEF EndStep, Next, Framework
<1>10. CASE FSWriteStep
  <2>1. UNCHANGED vars \/ FileBody
    BY <1>10 DEF FSWriteStep
  <2> QED
    BY <2>1 DEF Next, UserCode
<1>11. CASE UNCHANGED stackVars
  BY <1>11 DEF stackVars, allVars
<1> QED
  BY <1>1, <1>2, <1>3, <1>4, <1>5, <1>6, <1>7, <1>8, <1>9, <1>10, <1>11
     DEF StackNext, StackStep

\* A call of a closure keeps the types.
LEMMA LendsType ==
  ASSUME TypeOK, Lends
  PROVE  TypeOK'
<1>1. PICK b \in Actors, n \in OwnedNames, vs \in HeaderValues : UseSetter(b, n, vs)
  BY DEF Lends
<1>2. n \in Names
  BY NamesUsed
<1>3. HeaderTypeOK'
  BY <1>1, <1>2 DEF TypeOK, HeaderTypeOK, UseSetter
<1> QED
  BY <1>3 DEF Lends, flightVars, TypeOK

\* The code that runs next has a script.
LEMMA NextScripts ==
  ASSUME StackInv
  PROVE  /\ \A response : CommitOf(N, response) \in Seq(AllCalls)
         /\ commitAt > 0 => CommitOf(commitAt - 1, resp) \in Seq(AllCalls)
         /\ cur < Handler => BeforeOf(cur + 1) \in Seq(AllCalls)
<1>1. N \in Nat /\ Handler = N + 1 /\ Actors = 1..Handler
  BY HeaderAssumption DEF Handler, Actors
<1>2. /\ cur \in 1..(N + 1) /\ commitAt \in 0..N /\ req \in Requests
      /\ \A i \in 1..N : stack[i] \in InterceptorKinds
  BY <1>1 DEF StackInv, TypeOK, ContextOK
<1>3. \A i \in 0..N : \A response : CommitOf(i, response) \in Seq(AllCalls)
  BY <1>2, CommitType, Scripts DEF CommitOf
<1>4. ASSUME cur < Handler
      PROVE  BeforeOf(cur + 1) \in Seq(AllCalls)
  <2>1. CASE cur + 1 = Handler
    BY <1>2, <2>1, HandlerType DEF BeforeOf
  <2>2. CASE cur + 1 # Handler
    <3>1. cur + 1 \in 1..N
      BY <1>1, <1>2, <1>4, <2>2
    <3> QED
      BY <1>2, <2>2, <3>1, BeforeType, BeforeScripts DEF BeforeOf, StackInv
  <2> QED
    BY <2>1, <2>2
<1> QED
  BY <1>1, <1>2, <1>3, <1>4

\* The scripts stay scripts.
LEMMA ScriptStep ==
  ASSUME StackInv, [StackNext]_stackVars
  PROVE  ScriptOK' /\ ContextOK'
<1> USE DEF ScriptOK
<1>0. ContextOK'
  BY DEF StackNext, stackVars, context, StackInv, ContextOK, StackStep
<1> SUFFICES ScriptOK'
  BY <1>0
<1>1. ScriptOK
  BY DEF StackInv
<1>2. CASE HeaderStep
  BY <1>1, <1>2, NextCall DEF HeaderStep
<1>3. CASE PanicStep
  BY <1>1, <1>3, Scripts DEF PanicStep
<1>4. CASE PutStep \/ FuncStep
  BY <1>1, <1>4, NextCall, CallShape DEF PutStep, FuncStep
<1>5. CASE WriteStep(CommitOf(N, Call.kind))
  BY <1>1, <1>5, NextCall, NextScripts DEF WriteStep
<1>6. CASE CommitStep(CommitOf(commitAt - 1, resp))
  BY <1>1, <1>6, NextScripts DEF CommitStep, CommitReturn, InCommit, CommitPending
<1>7. CASE DispatchStep
  BY <1>1, <1>7, Scripts DEF DispatchStep
<1>8. CASE BeforeStep(BeforeOf(cur + 1))
  BY <1>1, <1>8, Scripts, NextScripts DEF BeforeStep, BeforeReturn, InBefore
<1>9. CASE HandlerStep \/ EndStep
  BY <1>1, <1>9 DEF HandlerStep, EndStep, programVars
<1>10. CASE FSSetStep
  <2>1. /\ Call.name \in FSNames /\ Call.val \in Values /\ Tail(script) \in Seq(AllCalls)
        /\ fs' = [fs EXCEPT !.header[Call.name] = <<Call.val>>] /\ script' = Tail(script)
        /\ UNCHANGED <<frame, values, funcs>>
    BY <1>1, <1>10, NextCall, CallShape DEF FSSetStep
  <2>2. <<Call.val>> \in Seq(Values)
    BY <2>1
  <2>3. /\ fs' = [fs EXCEPT !.header = [fs.header EXCEPT ![Call.name] = <<Call.val>>]]
        /\ fs.header \in [Names -> Seq(Values)]
    BY <1>1, <2>1 DEF FSTypes
  <2>4. fs'.header = [fs.header EXCEPT ![Call.name] = <<Call.val>>]
    BY <1>1, <2>3 DEF FSTypes
  <2>5. fs'.header \in [Names -> Seq(Values)]
    BY <2>2, <2>3, <2>4
  <2>6. fs' \in FSTypes
    BY <1>1, <2>3, <2>4, <2>5 DEF FSTypes
  <2>7. \A n \in Names \ FSNames : fs'.header[n] = <<>>
    BY <1>1, <2>1, <2>3, <2>4
  <2> QED
    BY <1>1, <2>1, <2>6, <2>7
<1>11. CASE FSStatusStep
  <2>1. /\ Tail(script) \in Seq(AllCalls) /\ Call.ok \in BOOLEAN
        /\ WriteOf(IF Call.ok THEN "file" ELSE "error") \in AllCalls
    BY <1>1, <1>11, NextCall, CallShape, MakeCalls DEF FSStatusStep, Kinds, WriteKinds
  <2>2. CASE fs.committed
    BY <1>1, <1>11, <2>1, <2>2 DEF FSStatusStep
  <2>3. CASE ~fs.committed
    <3>1. /\ fs' = [fs EXCEPT !.committed = TRUE, !.errored = ~Call.ok]
          /\ script' = CopyCalls \o <<WriteOf(IF Call.ok THEN "file" ELSE "error")>>
                         \o Tail(script)
          /\ UNCHANGED <<frame, values, funcs>>
      BY <1>11, <2>3 DEF FSStatusStep
    <3>2. fs' \in FSTypes /\ fs'.header = fs.header
      BY <1>1, <2>1, <3>1 DEF FSTypes
    <3>3. script' \in Seq(AllCalls)
      BY <1>1, <2>1, <3>1, CopyCallsType, Scripts
    <3> QED
      BY <1>1, <3>1, <3>2, <3>3
  <2> QED
    BY <2>2, <2>3
<1>12. CASE FSWriteStep
  <2>1. Tail(script) \in Seq(AllCalls) /\ <<FSStatus(TRUE)>> \o script \in Seq(AllCalls)
    BY <1>1, <1>12, NextCall, MakeCalls, Scripts DEF FSWriteStep
  <2>2. CASE ~fs.committed
    BY <1>1, <1>12, <2>1, <2>2 DEF FSWriteStep
  <2>3. CASE fs.committed
    <3>1. /\ fs' = [fs EXCEPT !.sent = fs.sent \/ ~DropsBody] /\ script' = Tail(script)
          /\ UNCHANGED <<frame, values, funcs>>
      BY <1>12, <2>3 DEF FSWriteStep
    <3>2. fs' \in FSTypes /\ fs'.header = fs.header
      BY <1>1, <3>1 DEF FSTypes
    <3> QED
      BY <1>1, <2>1, <3>1, <3>2
  <2> QED
    BY <2>2, <2>3
<1>13. CASE UNCHANGED stackVars
  BY <1>1, <1>13 DEF stackVars, allVars, programVars
<1> QED
  BY <1>2, <1>3, <1>4, <1>5, <1>6, <1>7, <1>8, <1>9, <1>10, <1>11, <1>12, <1>13
     DEF StackNext, StackStep

\* The first script, and the invariant of all.
LEMMA StackTyped == StackSpec => []StackInv
<1>1. StackInit => StackInv
  <2> SUFFICES ASSUME StackInit PROVE StackInv
    OBVIOUS
  <2>1. TypeOK
    BY InitTypes DEF StackInit
  <2>2. ContextOK /\ 1 \in 1..N
    <3>1. stack \in Stacks /\ req \in Requests /\ dev \in BOOLEAN
      BY DEF StackInit
    <3>2. Stacks \subseteq [1..N -> InterceptorKinds]
      BY StackAssumption
    <3>3. N \in Nat /\ N > 0
      BY StackAssumption, HeaderAssumption
    <3> QED
      BY <3>1, <3>2, <3>3 DEF ContextOK
  <2>3. Before(stack[1], req) \in Seq(AllCalls)
    BY <2>1, <2>2, BeforeType, BeforeScripts DEF ContextOK
  <2>4. fs \in FSTypes /\ \A n \in Names : fs.header[n] = <<>>
    BY DEF StackInit, ProgramInit, FSTypes, NoHeaders
  <2> QED
    BY <2>1, <2>2, <2>3, <2>4, Scripts DEF StackInit, ProgramInit, StackInv, ScriptOK
<1>2. StackInv /\ [StackNext]_stackVars => StackInv'
  BY StepIsOfFlight, LendsType, TypeStep, ScriptStep DEF StackInv
<1> QED
  BY <1>1, <1>2, PTL DEF StackSpec

\* A closure may be given any list of values.
EveryList == HeaderValues \subseteq ValueLists

\* The interceptors that come with the framework, the interceptors and handlers of the
\* programs of this repository and its file server do nothing that Flight does not let
\* interceptors and handlers do, so that its theorems hold of these requests.
THEOREM StackRefinesFlight ==
  ASSUME EveryList
  PROVE  StackSpec => ImplementsFlight
<1>1. StackInit => Init
  BY DEF StackInit
<1>2. StackInv /\ [StackNext]_stackVars => [Next]_vars
  <2> SUFFICES ASSUME StackInv, Lends PROVE Next
    BY StepIsOfFlight
  <2>1. Running /\ Actor \in Actors /\ UNCHANGED flightVars
    BY ActorType DEF StackInv, Lends
  <2>2. HeaderCall(Actor)
    BY NamesUsed DEF Lends, HeaderCall, EveryList
  <2>3. UserHeaderCall
    BY <2>1, <2>2 DEF UserHeaderCall, Running, Actor
  <2> QED
    BY <2>3 DEF Next, UserCode
<1> QED
  BY <1>1, <1>2, StackTyped, PTL DEF StackSpec, ImplementsFlight, Steps

\* A flight's own invariants, which a call of a closure keeps too.
LEMMA FlightInv == StackSpec => [](StackInv /\ Order /\ Progress /\ Headers)
<1>1. StackInit => Order /\ Progress /\ Headers
  <2>1. N \in Nat
    BY HeaderAssumption
  <2> QED
    BY <2>1 DEF StackInit, Init, NewHeader, NothingSent, Order, Progress, CommitPrefix, Headers,
                Kept, Exclusive, OfClaimed, NoClaimOnCookies, CrashLeavesNoHeaders, BodyTyped
<1>2. StackInv /\ Order /\ Progress /\ Headers /\ [StackNext]_stackVars
        => (Order /\ Progress /\ Headers)'
  <2> SUFFICES ASSUME StackInv, Order, Progress, Headers, Lends
               PROVE  Order' /\ Progress' /\ Headers'
    BY StepIsOfFlight, OrderStep, HeadersStep DEF StackInv
  <2>1. UNCHANGED flightVars /\ pc # "crashed"
    BY DEF Lends, Running, InUser, InCommit
  <2>2. Order' /\ Progress'
    BY <2>1 DEF Order, Progress, CommitPrefix, flightVars
  <2>3. PICK n \in OwnedNames, vs \in HeaderValues, b \in Actors : UseSetter(b, n, vs)
    BY DEF Lends
  <2>4. wrapped \in [Names -> HeaderValues] /\ promised \in [Names -> HeaderValues]
          /\ claimed \subseteq Names
    BY DEF StackInv, TypeOK, HeaderTypeOK
  <2>5. Kept'
    BY <2>1, <2>3, <2>4 DEF UseSetter, Headers, Kept
  <2>6. Exclusive' /\ OfClaimed' /\ NoClaimOnCookies'
    BY <2>3 DEF UseSetter, Headers, Exclusive, OfClaimed, NoClaimOnCookies
  <2> QED
    BY <2>1, <2>2, <2>5, <2>6 DEF Headers, CrashLeavesNoHeaders, BodyTyped, flightVars
<1> QED
  BY <1>1, <1>2, StackTyped, PTL DEF StackSpec

\* What holds of a flight with arbitrary code holds of the repository's own, of which no
\* part recovers a panic, whatever lists its closures are given: the response is given
\* once and after all commits, claims are honoured, a crash leaves no headers.
THEOREM StackKeepsFlight ==
  StackSpec => [](/\ AnsweredOnce /\ CommitsBeforeDispatch /\ ClaimsHonoured
                  /\ CrashLeavesNoHeaders /\ BodyTyped)
<1>1. StackInv /\ Order /\ Progress => AnsweredOnce
  BY DEF Order, Progress, AnsweredOnce
<1>2. StackInv /\ Order => CommitsBeforeDispatch
  <2>1. N \in Nat
    BY HeaderAssumption
  <2> QED
    BY <2>1 DEF StackInv, TypeOK, Order, CommitPrefix, CommitsBeforeDispatch, AllCommitted
<1>3. Headers => ClaimsHonoured /\ CrashLeavesNoHeaders /\ BodyTyped
  BY DEF Headers, Kept, Exclusive, OfClaimed, ClaimsHonoured
<1> QED
  BY <1>1, <1>2, <1>3, FlightInv, PTL

-----------------------------------------------------------------------------
(* Who gets through to the handler.                                         *)

\* The requests an interceptor that decides on them lets pass.
Lets(kind, r) ==
  /\ kind = "host" => r.host = "own"
  /\ kind \in {"resource", "resource-navigate"} => ResourceAllowed(r) \/ r.config = "noResource"
  /\ kind = "framing" => FramingAllowed(r) \/ r.config \in FramingConfigs
  /\ kind = "xsrf-html" => StatePreserving(r) \/ Proven(r)
  /\ kind = "xsrf-angular" => StatePreserving(r) \/ (~NoCookie(r) /\ r.token = r.cookie)
  /\ kind = "xsrf-block" => StatePreserving(r)
  /\ kind \in {"cors", "cors-default"} =>
       r.method \notin {"OPTIONS", "HEAD"} /\ RequestPasses(r) /\ r.origin \in {"", "friend"}
  /\ kind = "auth" => r.session # "" \/ r.config = "skip"

\* A script that ends in a response.
Stops(s) == s # <<>> /\ s[Len(s)].op = "write"

\* A script ends as its second part does, and as its tail.
LEMMA StopsLemma ==
  /\ ~Stops(<<>>)
  /\ \A k : Stops(<<WriteOf(k)>>)
  /\ \A s, t \in Seq(AllCalls) : Stops(t) => Stops(s \o t)
  /\ \A s \in Seq(AllCalls) : Stops(s) /\ Head(s).op # "write" => Stops(Tail(s))
<1>1. \A k : Stops(<<WriteOf(k)>>)
  BY DEF Stops, WriteOf
<1>2. ASSUME NEW s \in Seq(AllCalls), NEW t \in Seq(AllCalls), Stops(t)
      PROVE  Stops(s \o t)
  <2>1. Len(t) \in Nat \ {0} /\ Len(s) \in Nat /\ Len(s \o t) = Len(s) + Len(t)
    BY <1>2, EmptySeq, LenProperties, ConcatProperties DEF Stops
  <2>2. (s \o t)[Len(s \o t)] = t[Len(t)]
    BY <2>1, ConcatProperties
  <2>3. s \o t # <<>>
    BY <2>1
  <2> QED
    BY <1>2, <2>2, <2>3 DEF Stops
<1>3. ASSUME NEW s \in Seq(AllCalls), Stops(s), Head(s).op # "write"
      PROVE  Stops(Tail(s))
  <2>1. s # <<>> /\ Len(s) \in Nat \ {0} /\ Len(Tail(s)) = Len(s) - 1
          /\ \A i \in 1..Len(Tail(s)) : Tail(s)[i] = s[i + 1]
    BY <1>3, EmptySeq, HeadTailProperties DEF Stops
  <2>2. Len(s) # 1
    BY <1>3, <2>1 DEF Stops
  <2>3. Len(Tail(s)) \in 1..Len(Tail(s)) /\ Len(Tail(s)) + 1 = Len(s)
    BY <2>1, <2>2
  <2>4. Tail(s)[Len(Tail(s))] = s[Len(s)]
    <3> DEFINE t == Tail(s)
    <3>1. Len(t) \in 1..Len(t) /\ Len(t) + 1 = Len(s) /\ \A i \in 1..Len(t) : t[i] = s[i + 1]
      BY <2>1, <2>3
    <3> HIDE DEF t
    <3>2. t[Len(t)] = s[Len(t) + 1]
      BY <3>1
    <3>3. t[Len(t)] = s[Len(s)]
      BY <3>1, <3>2
    <3> QED
      BY <3>3 DEF t
  <2>5. Tail(s) # <<>>
    <3>1. Tail(s) \in Seq(AllCalls) /\ Len(Tail(s)) # 0
      BY <1>3, <2>1, <2>3, HeadTailProperties
    <3> QED
      BY <3>1, EmptySeq
  <2> QED
    BY <1>3, <2>4, <2>5 DEF Stops
<1> QED
  BY <1>1, <1>2, <1>3 DEF Stops

\* An interceptor that does not let a request pass ends with a response.
LEMMA BeforeDecides ==
  ASSUME TypeOK, NEW kind \in InterceptorKinds, NEW r \in Requests
  PROVE  Lets(kind, r) \/ Stops(Before(kind, r))
<1>1. Stops(<<WriteOf("error")>>) /\ Stops(<<WriteOf("redirect")>>)
        /\ Stops(<<WriteOf("nocontent")>>)
  BY StopsLemma
<1>2. CASE kind \in {"host", "resource", "resource-navigate", "framing"}
  BY <1>1, <1>2 DEF Before, HostCheck, FetchMetadata, Lets
<1>3. CASE kind \in {"xsrf-html", "xsrf-angular", "xsrf-block"}
  BY <1>1, <1>3 DEF Before, XsrfBefore, AngularBefore, BlockAll, Lets
<1>4. CASE kind = "auth"
  <2>1. r.session = "" /\ r.config # "skip" => Before(kind, r) = <<>> \o <<WriteOf("error")>>
    BY <1>4 DEF Before, AuthBefore
  <2>2. <<>> \o <<WriteOf("error")>> = <<WriteOf("error")>>
    BY MakeCalls, Mentioned, Scripts, ConcatEmptySeq
  <2> QED
    BY <1>1, <1>4, <2>1, <2>2 DEF Lets
<1>5. ASSUME NEW it \in {CorsSettings("cors"), CorsSettings("cors-default")}
      PROVE  \/ /\ r.method \notin {"OPTIONS", "HEAD"} /\ RequestPasses(r)
                /\ r.origin \in {"", "friend"}
             \/ Stops(Cors(r, it))
  <2> DEFINE ours   == <<ClaimOf(AllowOrigin), ClaimOf(AllowCreds)>>
             refuse == <<WriteOf("error")>>
             passes == ours \o PreflightCalls(r, it) \o CorsAnswer(r, it)
  <2>1. /\ ours \in Seq(AllCalls) /\ refuse \in Seq(AllCalls)
        /\ <<ClaimOf(AllowOrigin)>> \in Seq(AllCalls) /\ <<WriteOf("nocontent")>> \in Seq(AllCalls)
    BY MakeCalls, Mentioned, Scripts
  <2>2. Stops(<<ClaimOf(AllowOrigin)>> \o refuse) /\ Stops(ours \o refuse)
    BY <1>1, <2>1, StopsLemma
  <2>3. OriginTrusted(r, it) /\ PreflightPasses(r, it) =>
          passes \in Seq(AllCalls) /\ Stops(passes \o <<WriteOf("nocontent")>>)
    <3>1. OriginTrusted(r, it) /\ PreflightPasses(r, it) =>
            PreflightCalls(r, it) \in Seq(AllCalls) /\ CorsAnswer(r, it) \in Seq(AllCalls)
      BY CorsParts, BeforeScripts
    <3> QED
      BY <1>1, <2>1, <3>1, Scripts, StopsLemma
  <2>4. \/ Cors(r, it) \in {refuse, <<ClaimOf(AllowOrigin)>> \o refuse, ours \o refuse}
        \/ /\ OriginTrusted(r, it) /\ PreflightPasses(r, it)
           /\ Cors(r, it) = passes \o <<WriteOf("nocontent")>>
        \/ /\ r.method \notin {"OPTIONS", "HEAD"} /\ RequestPasses(r)
           /\ OriginTrusted(r, it)
    BY DEF Cors
  <2>5. it.origins \subseteq {"friend"}
    BY DEF CorsSettings
  <2>6. OriginTrusted(r, it) => r.origin \in {"", "friend"}
    BY <2>5 DEF OriginTrusted
  <2> QED
    BY <1>1, <2>2, <2>3, <2>4, <2>6
<1>6. CASE kind \in {"cors", "cors-default"}
  BY <1>5, <1>6 DEF Before, Lets
<1>7. CASE kind \notin {"host", "resource", "resource-navigate", "framing", "xsrf-html",
                        "xsrf-angular", "xsrf-block", "auth", "cors", "cors-default"}
  BY <1>7 DEF Lets
<1> QED
  BY <1>2, <1>3, <1>4, <1>6, <1>7
-----------------------------------------------------------------------------
(* How a script goes on.                                                    *)

\* Code that has not written goes on with its script, past a call that does not write,
\* or with the calls that the file server's WriteHeader and Write turn into.
LEMMA GoesOn ==
  ASSUME StackInv, Order, [StackNext]_stackVars, pc' = "user", cur' = cur, ~written'
  PROVE  /\ pc = "user" /\ ~written
         /\ \/ script' = script /\ values' = values
            \/ /\ script # <<>> /\ Call.op # "write" /\ script' = Tail(script)
               /\ values' = IF Call.op = "put" THEN values \cup {Call.key} ELSE values
            \/ /\ script # <<>> /\ Call.op \in {"fsstatus", "fswrite"} /\ values' = values
               /\ \E s \in Seq(AllCalls), t \in {script, Tail(script)} : script' = s \o t
<1> USE DEF StackInv
<1>0. ScriptOK /\ cur \in Nat /\ (~written => pc # "commit")
  BY HeaderAssumption DEF TypeOK, Actors, Handler, Order
<1>1. CASE HeaderStep
  BY <1>0, <1>1 DEF HeaderStep, flightVars, Ready, Running, InUser, InCommit, Call
<1>2. CASE PutStep
  BY <1>0, <1>2 DEF PutStep, vars, flightVars, Ready, Running, InUser, InCommit
<1>3. CASE FuncStep \/ FSSetStep
  BY <1>0, <1>3 DEF FuncStep, FSSetStep, vars, flightVars, Ready, Running, InUser, InCommit
<1>4. CASE FSStatusStep
  <2>1. Ready /\ InUser /\ Call.op = "fsstatus" /\ UNCHANGED <<vars, values>>
    BY <1>4 DEF FSStatusStep
  <2>2. CASE fs.committed
    BY <1>4, <2>1, <2>2 DEF FSStatusStep, vars, flightVars, Ready, InUser
  <2>3. CASE ~fs.committed
    <3>1. script' = CopyCalls \o <<WriteOf(IF Call.ok THEN "file" ELSE "error")>> \o Tail(script)
      BY <1>4, <2>3 DEF FSStatusStep
    <3>2. Call.ok \in BOOLEAN
      BY <1>0, <2>1, NextCall, CallShape
    <3>3. CopyCalls \o <<WriteOf(IF Call.ok THEN "file" ELSE "error")>> \in Seq(AllCalls)
      BY <1>0, <3>2, CopyCallsType, MakeCalls, Scripts DEF Kinds, WriteKinds
    <3> QED
      BY <2>1, <3>1, <3>3 DEF vars, flightVars, Ready, InUser
  <2> QED
    BY <2>2, <2>3
<1>5. CASE FSWriteStep
  <2>1. Ready /\ InUser /\ Call.op = "fswrite" /\ UNCHANGED <<written, values>>
    BY <1>5 DEF FSWriteStep, vars, flightVars, FileBody
  <2>2. <<FSStatus(TRUE)>> \in Seq(AllCalls)
    BY MakeCalls, Scripts
  <2> QED
    BY <1>5, <2>1, <2>2 DEF FSWriteStep, Ready, InUser
<1>6. CASE PanicStep \/ HandlerStep \/ EndStep \/ WriteStep(CommitOf(N, Call.kind))
  BY <1>0, <1>6 DEF PanicStep, UserPanic, HandlerStep, HandlerReturnWritten,
     HandlerReturnNothing, EndStep, ClearAndRepanic, ServerFinish, OuterRecover, WriteStep,
     WriteError, Write, EnterWrite
<1>7. CASE CommitStep(CommitOf(commitAt - 1, resp)) \/ DispatchStep
  BY <1>0, <1>7 DEF CommitStep, CommitReturn, InCommit, DispatchStep, DispatchResponse
<1>8. CASE BeforeStep(BeforeOf(cur + 1))
  BY <1>0, <1>8 DEF BeforeStep, BeforeReturn
<1>9. CASE UNCHANGED stackVars
  BY <1>0, <1>9 DEF stackVars, allVars, vars, flightVars, programVars
<1> QED
  BY <1>1, <1>2, <1>3, <1>4, <1>5, <1>6, <1>7, <1>8, <1>9 DEF StackNext, StackStep

\* The next interceptor, or the handler, starts only when the one before it has
\* returned and nothing was written.
LEMMA Advances ==
  ASSUME StackInv, [StackNext]_stackVars, cur' # cur
  PROVE  /\ pc = "user" /\ pc' = "user" /\ ~written /\ ~written'
         /\ script = <<>> /\ cur \in 1..N /\ cur' = cur + 1 /\ script' = BeforeOf(cur + 1)
         /\ values' = values /\ UNCHANGED headerVars
<1>1. cur \in 1..(N + 1) /\ N \in Nat /\ Handler = N + 1
  BY HeaderAssumption DEF StackInv, TypeOK, Actors, Handler
<1>2. BeforeStep(BeforeOf(cur + 1))
  BY DEF StackNext, StackStep, stackVars, allVars, vars, flightVars, HeaderStep, PanicStep,
     UserPanic, PutStep, FuncStep, WriteStep, WriteError, Write, EnterWrite, CommitStep,
     CommitReturn, DispatchStep, DispatchResponse, HandlerStep, HandlerReturnWritten,
     HandlerReturnNothing, EndStep, ClearAndRepanic, ServerFinish, OuterRecover, FSSetStep,
     FSStatusStep, FSWriteStep, FileBody
<1> QED
  BY <1>1, <1>2 DEF BeforeStep, BeforeReturn, InUser, InBefore, EndsChain

\* Every interceptor that has returned lets the request pass, and one that does not will
\* end with a response: the script of an interceptor that refuses does not run out before.
Decided ==
  /\ \A i \in 1..N : i < cur => Lets(stack[i], req)
  /\ InUser /\ ~written /\ cur <= N => Lets(stack[cur], req) \/ Stops(script)

\* The interceptors decide one after another.
LEMMA DecidedStep ==
  ASSUME StackInv, Order, Decided, [StackNext]_stackVars
  PROVE  Decided'
<1>0. /\ ScriptOK /\ cur \in 1..(N + 1) /\ N \in Nat /\ req \in Requests
      /\ \A i \in 1..N : stack[i] \in InterceptorKinds
  BY HeaderAssumption DEF StackInv, ContextOK, TypeOK, Actors, Handler
<1>1. UNCHANGED <<stack, req>>
  BY DEF StackNext, stackVars, context
<1>2. CASE cur' = cur
  <2>1. SUFFICES ASSUME InUser', ~written', cur <= N
                 PROVE  Lets(stack[cur], req) \/ Stops(script')
    BY <1>0, <1>1, <1>2 DEF Decided
  <2>2. CASE script' = script
    BY <1>2, <2>1, <2>2, GoesOn DEF Decided, InUser
  <2>3. CASE script # <<>> /\ Call.op # "write" /\ script' = Tail(script)
    BY <1>0, <1>2, <2>1, <2>3, GoesOn, StopsLemma DEF Decided, InUser, Call, ScriptOK
  <2>4. CASE /\ script # <<>> /\ Call.op \in {"fsstatus", "fswrite"}
             /\ \E s \in Seq(AllCalls), t \in {script, Tail(script)} : script' = s \o t
    <3>1. PICK s \in Seq(AllCalls), t \in {script, Tail(script)} : script' = s \o t
      BY <2>4
    <3>2. script \in Seq(AllCalls) /\ Tail(script) \in Seq(AllCalls)
      BY <1>0, <2>4, Scripts DEF ScriptOK
    <3>3. Stops(script) => Stops(Tail(script))
      BY <2>4, <3>2, StopsLemma DEF Call
    <3>4. Stops(script) => Stops(script')
      BY <3>1, <3>2, <3>3, StopsLemma
    <3> QED
      BY <1>2, <2>1, <3>4, GoesOn DEF Decided, InUser
  <2> QED
    BY <1>2, <2>1, <2>2, <2>3, <2>4, GoesOn DEF InUser
<1>3. CASE cur' # cur
  <2>1. /\ pc = "user" /\ ~written /\ script = <<>> /\ cur \in 1..N /\ cur' = cur + 1
        /\ script' = BeforeOf(cur + 1)
    BY <1>3, Advances
  <2>2. Lets(stack[cur], req)
    BY <2>1, StopsLemma DEF Decided, InUser
  <2>3. \A i \in 1..N : i < cur' => Lets(stack[i], req)
    BY <1>0, <2>1, <2>2 DEF Decided
  <2>4. cur + 1 <= N => Lets(stack[cur + 1], req) \/ Stops(BeforeOf(cur + 1))
    <3> SUFFICES ASSUME cur + 1 <= N
                 PROVE  Lets(stack[cur + 1], req) \/ Stops(Before(stack[cur + 1], req))
      BY <1>0, <2>1 DEF BeforeOf, Handler
    <3>1. stack[cur + 1] \in InterceptorKinds
      BY <1>0, <2>1
    <3> QED
      BY <1>0, <3>1, BeforeDecides DEF StackInv
  <2> QED
    BY <1>1, <2>1, <2>3, <2>4 DEF Decided
<1> QED
  BY <1>2, <1>3

\* At the start the first interceptor decides.
LEMMA DecidedHolds == StackSpec => []Decided
<1>1. StackInit /\ StackInv => Decided
  <2> SUFFICES ASSUME StackInit, StackInv PROVE Decided
    OBVIOUS
  <2>0. N \in Nat /\ N > 0
    BY HeaderAssumption, StackAssumption
  <2>1. N \in Nat /\ 1 \in 1..N /\ cur = 1 /\ script = Before(stack[1], req)
    BY <2>0 DEF StackInit, Init, ProgramInit
  <2>2. stack[1] \in InterceptorKinds /\ req \in Requests
    BY <2>1 DEF StackInv, ContextOK
  <2>3. Lets(stack[1], req) \/ Stops(script)
    BY <2>1, <2>2, BeforeDecides DEF StackInv
  <2> QED
    BY <2>1, <2>3 DEF Decided
<1>2. StackInv /\ Order /\ Decided /\ [StackNext]_stackVars => Decided'
  BY DecidedStep
<1> QED
  BY <1>1, <1>2, FlightInv, PTL DEF StackSpec

\* What browsers do is enough for the decisions: a request that the interceptors let pass
\* was not made by a page of another site.
LEMMA LetsGuards ==
  ASSUME NEW r \in Requests, NEW kind, Lets(kind, r)
  PROVE  /\ r.sender \in {"form", "script"} /\ ~StatePreserving(r) =>
              kind \notin {"xsrf-html", "xsrf-angular", "xsrf-block"}
         /\ r.sender \in {"form", "script", "image"} /\ r.site # "" =>
              kind \notin {"resource", "resource-navigate"} \/ r.config = "noResource"
         /\ r.sender = "frame" /\ r.site # "" =>
              kind # "framing" \/ r.config \in FramingConfigs
<1>1. r.sender \in {"form", "script"} /\ ~StatePreserving(r) =>
        kind \notin {"xsrf-html", "xsrf-angular", "xsrf-block"}
  BY BrowserAssumption DEF Lets, Proven, NoCookie
<1>2. r.sender \in {"form", "script", "image"} /\ r.site # "" =>
        kind \notin {"resource", "resource-navigate"} \/ r.config = "noResource"
  <2> SUFFICES ASSUME r.sender \in {"form", "script", "image"}, r.site # ""
               PROVE  ~ResourceAllowed(r)
    BY DEF Lets
  <2> QED
    BY BrowserAssumption DEF ResourceAllowed
<1>3. r.sender = "frame" /\ r.site # "" => kind # "framing" \/ r.config \in FramingConfigs
  <2> SUFFICES ASSUME r.sender = "frame", r.site # ""
               PROVE  ~FramingAllowed(r)
    BY DEF Lets
  <2> QED
    BY BrowserAssumption DEF FramingAllowed, FrameableDests
<1> QED
  BY <1>1, <1>2, <1>3

\* Whatever else is installed, in whatever order: a handler runs for no request that a page
\* of another site has sent, if an interceptor that stops such requests is installed and
\* not disabled; nor for another host, nor without the session that auth asks for.
THEOREM GuardsHold == StackSpec => []HandlerGuarded
<1>1. StackInv /\ Decided => HandlerGuarded
  <2> SUFFICES ASSUME StackInv, Decided, InHandler PROVE HandlerGuarded
    BY DEF HandlerGuarded
  <2>1. req \in Requests /\ \A i \in 1..N : Lets(stack[i], req)
    BY HeaderAssumption DEF Decided, InHandler, Handler, StackInv, ContextOK
  <2>2. /\ Has({"host"}) => req.host = "own"
        /\ Has({"auth"}) => req.session # "" \/ req.config = "skip"
    BY <2>1 DEF Has, Lets
  <2> QED
    BY <2>1, <2>2, LetsGuards DEF Has, HandlerGuarded
<1> QED
  BY <1>1, DecidedHolds, StackTyped, PTL

-----------------------------------------------------------------------------
(* What a page is given before it goes out.                                 *)

\* A call that a script has still to make.
In(c, s) == \E i \in 1..Len(s) : s[i] = c

\* The calls of scripts that are put together, or of which one was made.
LEMMA InLemma ==
  /\ \A c : ~In(c, <<>>)
  /\ \A c, d : In(c, <<d>>) <=> c = d
  /\ \A s, t \in Seq(AllCalls) : \A c : In(c, s \o t) <=> In(c, s) \/ In(c, t)
  /\ \A s \in Seq(AllCalls) : \A c : s # <<>> => (In(c, s) <=> c = Head(s) \/ In(c, Tail(s)))
<1>1. \A c : ~In(c, <<>>)
  BY DEF In
<1>2. \A c, d : In(c, <<d>>) <=> c = d
  BY DEF In
<1>3. ASSUME NEW s \in Seq(AllCalls), NEW t \in Seq(AllCalls), NEW c
      PROVE  In(c, s \o t) <=> In(c, s) \/ In(c, t)
  <2>1. /\ Len(s) \in Nat /\ Len(t) \in Nat /\ Len(s \o t) = Len(s) + Len(t)
        /\ \A i \in 1..Len(s) + Len(t) :
             (s \o t)[i] = IF i <= Len(s) THEN s[i] ELSE t[i - Len(s)]
    BY LenProperties, ConcatProperties
  <2>2. ASSUME NEW i \in 1..Len(s), s[i] = c PROVE In(c, s \o t)
    <3>1. i \in 1..Len(s \o t) /\ (s \o t)[i] = c
      BY <2>1, <2>2
    <3> QED
      BY <3>1 DEF In
  <2>3. ASSUME NEW i \in 1..Len(t), t[i] = c PROVE In(c, s \o t)
    <3>1. Len(s) + i \in 1..Len(s \o t) /\ (s \o t)[Len(s) + i] = c
      BY <2>1, <2>3
    <3> QED
      BY <3>1 DEF In
  <2>4. ASSUME NEW i \in 1..Len(s \o t), (s \o t)[i] = c PROVE In(c, s) \/ In(c, t)
    <3>1. CASE i <= Len(s)
      BY <2>1, <2>4, <3>1 DEF In
    <3>2. CASE i > Len(s)
      <4>1. i - Len(s) \in 1..Len(t) /\ t[i - Len(s)] = c
        BY <2>1, <2>4, <3>2
      <4> QED
        BY <4>1 DEF In
    <3> QED
      BY <2>1, <3>1, <3>2
  <2> QED
    BY <2>2, <2>3, <2>4 DEF In
<1>4. ASSUME NEW s \in Seq(AllCalls), NEW c, s # <<>>
      PROVE  In(c, s) <=> c = Head(s) \/ In(c, Tail(s))
  <2> DEFINE t == Tail(s)
  <2>1. /\ Len(s) \in Nat \ {0} /\ Len(t) = Len(s) - 1 /\ Head(s) = s[1]
        /\ \A i \in 1..Len(t) : t[i] = s[i + 1]
    BY <1>4, EmptySeq, HeadTailProperties
  <2> HIDE DEF t
  <2>2. ASSUME NEW i \in 1..Len(s), s[i] = c PROVE c = Head(s) \/ In(c, t)
    <3>1. CASE i = 1
      BY <2>1, <2>2, <3>1
    <3>2. CASE i # 1
      <4>1. i - 1 \in 1..Len(t) /\ t[i - 1] = c
        BY <2>1, <2>2, <3>2
      <4> QED
        BY <4>1 DEF In
    <3> QED
      BY <3>1, <3>2
  <2>3. c = Head(s) => In(c, s)
    BY <2>1 DEF In
  <2>4. ASSUME NEW i \in 1..Len(t), t[i] = c PROVE In(c, s)
    <3>1. i + 1 \in 1..Len(s) /\ s[i + 1] = c
      BY <2>1, <2>4
    <3> QED
      BY <3>1 DEF In
  <2>5. In(c, s) <=> c = Head(s) \/ In(c, t)
    BY <2>2, <2>3, <2>4 DEF In
  <2> QED
    BY <2>5 DEF t
<1> QED
  BY <1>1, <1>2, <1>3, <1>4

\* The nonce is there as soon as a csp interceptor has returned.
Nonced ==
  /\ \A i \in 1..N : i < cur /\ stack[i] \in Csp => "csp-nonce" \in values
  /\ InUser /\ ~written /\ cur <= N =>
       (stack[cur] \in Csp => "csp-nonce" \in values \/ In(PutOf("csp-nonce"), script))

\* Each of them makes it, or finds it.
LEMMA BeforeNonces ==
  ASSUME TypeOK, NEW kind \in Csp, NEW r \in Requests
  PROVE  In(PutOf("csp-nonce"), Before(kind, r))
<1>1. ASSUME NEW policy, policy.text \in UsedValues, NEW only \in BOOLEAN
      PROVE  In(PutOf("csp-nonce"), CspBefore(policy, only))
  <2>1. /\ Nonce \in Seq(AllCalls) /\ ClaimedHeaders \in Seq(AllCalls)
        /\ CspSets(policy, only) \in Seq(AllCalls)
        /\ CspBefore(policy, only) = Nonce \o ClaimedHeaders \o CspSets(policy, only)
    BY <1>1, CspParts, BeforeScripts
  <2> DEFINE first == Nonce \o ClaimedHeaders
             sets  == CspSets(policy, only)
  <2>2. In(PutOf("csp-nonce"), Nonce)
    BY InLemma DEF Nonce
  <2>3. first \in Seq(AllCalls) /\ In(PutOf("csp-nonce"), first)
    BY <2>1, <2>2, InLemma, Scripts
  <2>4. CspBefore(policy, only) = first \o sets
    BY <2>1
  <2> HIDE DEF first, sets
  <2>5. sets \in Seq(AllCalls)
    BY <2>1 DEF sets
  <2> QED
    BY <2>3, <2>4, <2>5, InLemma
<1>2. /\ Before("csp-strict", r) = CspBefore(StrictPolicy(r.config), FALSE)
      /\ Before("csp-types", r) = CspBefore(TrustedTypesPolicy(r.config), FALSE)
      /\ Before("csp-report", r) = CspBefore(TrustedTypesPolicy(r.config), TRUE)
      /\ Before("csp-frames", r) = CspBefore(FramingPolicy(r.config), FALSE)
  BY DEF Before
<1>3. \A k \in Csp : In(PutOf("csp-nonce"), Before(k, r))
  BY <1>1, <1>2, PolicyTexts DEF Csp
<1> QED
  BY <1>3

\* Keys are only ever added to the values of a flight.
LEMMA ValuesGrow ==
  ASSUME [StackNext]_stackVars
  PROVE  values \subseteq values' /\ UNCHANGED context
BY DEF StackNext, StackStep, stackVars, context, allVars, programVars, HeaderStep, PanicStep,
   PutStep, FuncStep, WriteStep, CommitStep, DispatchStep, BeforeStep, HandlerStep, EndStep,
   FSSetStep, FSStatusStep, FSWriteStep

\* One step.
LEMMA NoncedStep ==
  ASSUME StackInv, Order, Nonced, [StackNext]_stackVars
  PROVE  Nonced'
<1>0. /\ script \in Seq(AllCalls) /\ cur \in 1..(N + 1) /\ N \in Nat /\ req \in Requests
      /\ \A i \in 1..N : stack[i] \in InterceptorKinds
  BY HeaderAssumption DEF StackInv, ScriptOK, ContextOK, TypeOK, Actors, Handler
<1>1. UNCHANGED <<stack, req>> /\ values \subseteq values'
  BY ValuesGrow DEF context
<1>2. CASE cur' = cur
  <2>1. SUFFICES ASSUME InUser', ~written', cur <= N, stack[cur] \in Csp,
                        In(PutOf("csp-nonce"), script)
                 PROVE  "csp-nonce" \in values' \/ In(PutOf("csp-nonce"), script')
    BY <1>0, <1>1, <1>2, GoesOn DEF Nonced, InUser
  <2>2. CASE /\ script # <<>> /\ script' = Tail(script)
             /\ values' = IF Call.op = "put" THEN values \cup {Call.key} ELSE values
    <3>1. PutOf("csp-nonce") = Call \/ In(PutOf("csp-nonce"), Tail(script))
      BY <1>0, <2>1, <2>2, InLemma DEF Call
    <3> QED
      BY <2>2, <3>1 DEF PutOf
  <2>3. CASE /\ script # <<>> /\ Call.op \in {"fsstatus", "fswrite"}
             /\ \E s \in Seq(AllCalls), t \in {script, Tail(script)} : script' = s \o t
    <3>1. PutOf("csp-nonce") # Call
      BY <2>3 DEF PutOf
    <3>2. Tail(script) \in Seq(AllCalls) /\ In(PutOf("csp-nonce"), Tail(script))
      BY <1>0, <2>1, <2>3, <3>1, InLemma, Scripts DEF Call
    <3>3. PICK s \in Seq(AllCalls), t \in {script, Tail(script)} : script' = s \o t
      BY <2>3
    <3>4. t \in Seq(AllCalls) /\ In(PutOf("csp-nonce"), t)
      BY <1>0, <2>1, <3>2
    <3> QED
      BY <3>3, <3>4, InLemma
  <2> QED
    BY <1>2, <2>1, <2>2, <2>3, GoesOn DEF InUser
<1>3. CASE cur' # cur
  <2>1. /\ pc = "user" /\ ~written /\ script = <<>> /\ cur \in 1..N /\ cur' = cur + 1
        /\ script' = BeforeOf(cur + 1)
    BY <1>3, Advances
  <2>2. stack[cur] \in Csp => "csp-nonce" \in values
    BY <2>1, InLemma DEF Nonced, InUser
  <2>3. \A i \in 1..N : i < cur' /\ stack[i] \in Csp => "csp-nonce" \in values
    BY <1>0, <2>1, <2>2 DEF Nonced
  <2>4. cur + 1 <= N /\ stack[cur + 1] \in Csp => In(PutOf("csp-nonce"), BeforeOf(cur + 1))
    BY <1>0, <2>1, BeforeNonces DEF BeforeOf, Handler, StackInv
  <2> QED
    BY <1>1, <2>1, <2>3, <2>4 DEF Nonced
<1> QED
  BY <1>2, <1>3

\* At the start.
LEMMA NoncedHolds == StackSpec => []Nonced
<1>1. StackInit /\ StackInv => Nonced
  <2> SUFFICES ASSUME StackInit, StackInv PROVE Nonced
    OBVIOUS
  <2>1. N \in Nat /\ N > 0
    BY HeaderAssumption, StackAssumption
  <2>2. cur = 1 /\ script = Before(stack[1], req) /\ req \in Requests
    BY DEF StackInit, Init, ProgramInit
  <2>3. stack[1] \in Csp => In(PutOf("csp-nonce"), script)
    BY <2>2, BeforeNonces DEF StackInv
  <2> QED
    BY <2>1, <2>2, <2>3 DEF Nonced
<1>2. StackInv /\ Order /\ Nonced /\ [StackNext]_stackVars => Nonced'
  BY NoncedStep
<1> QED
  BY <1>1, <1>2, FlightInv, PTL DEF StackSpec

\* What an interceptor may do when a response is committed.
CommitCalls ==
  {PanicOf, FuncOf("nonce"), FuncOf("token"), CookieOf("xsrf-cookie"), CookieOf("session")}

\* Whether an interceptor of a kind provides a function of templates.
Gives(kind, f) == (f = "nonce" /\ kind \in Csp) \/ (f = "token" /\ kind = "xsrf-html")
Functions      == {"nonce", "token"}

\* A page for which a csp interceptor is installed, and there is no nonce.
NoNonce == resp = "template" /\ Has(Csp) /\ "csp-nonce" \notin values

\* The page of a handler.
HandlersPage == resp = "template" /\ cur = Handler /\ written

\* While a page of the handler is committed, what the interceptors that have committed
\* provide is bound, and what the committing one provides is bound or will be.  A panic
\* is due only if there is no nonce.
Committing ==
  pc = "commit" =>
    /\ \A c : In(c, script) => c \in CommitCalls
    /\ In(PanicOf, script) => NoNonce
    /\ HandlersPage =>
         \A i \in 1..N, f \in Functions : i >= commitAt /\ Gives(stack[i], f) =>
           f \in funcs \/ (i = commitAt /\ In(FuncOf(f), script))

\* A page that was dispatched has all of it; a response that was written and broke off is
\* a page without a nonce; any other is on its way.
AllBound ==
  /\ HandlersPage /\ dispatched > 0 =>
       \A i \in 1..N, f \in Functions : Gives(stack[i], f) => f \in funcs
  /\ pc \in {"unwind", "crashed"} /\ written /\ dispatched = 0 => NoNonce
  /\ written /\ dispatched = 0 => pc \in {"commit", "unwind", "crashed"}

\* What each interceptor does when a response is committed.
LEMMA CommitDoes ==
  ASSUME NEW kind \in InterceptorKinds, NEW r \in Requests, NEW response
  PROVE  /\ \A c : In(c, Commit(kind, r, response)) => c \in CommitCalls
         /\ In(PanicOf, Commit(kind, r, response)) =>
              response = "template" /\ kind \in Csp /\ "csp-nonce" \notin values
         /\ response = "template" /\ kind \in Csp /\ "csp-nonce" \in values =>
              In(FuncOf("nonce"), Commit(kind, r, response))
         /\ response = "template" /\ kind = "xsrf-html" /\ Lets(kind, r) =>
              In(FuncOf("token"), Commit(kind, r, response))
<1> DEFINE s == Commit(kind, r, response)
<1>1. /\ FuncOf("nonce") # PanicOf /\ FuncOf("token") # PanicOf
      /\ CookieOf("xsrf-cookie") # PanicOf /\ CookieOf("session") # PanicOf
  BY DEF FuncOf, CookieOf, PanicOf
<1>2. CASE kind \in Csp
  <2>1. s = CspCommit(response)
    BY <1>2 DEF Commit, Csp
  <2>2. \/ s = <<>> /\ response # "template"
        \/ s = <<PanicOf>> /\ response = "template" /\ "csp-nonce" \notin values
        \/ s = <<FuncOf("nonce")>> /\ "csp-nonce" \in values
    BY <2>1 DEF CspCommit
  <2> HIDE DEF s
  <2>3. kind # "xsrf-html"
    BY <1>2 DEF Csp
  <2>4. \A c : In(c, s) => c \in CommitCalls
    BY <2>2, InLemma DEF CommitCalls
  <2>5. In(PanicOf, s) => response = "template" /\ "csp-nonce" \notin values
    BY <1>1, <2>2, InLemma
  <2>6. response = "template" /\ "csp-nonce" \in values => In(FuncOf("nonce"), s)
    BY <2>2, InLemma
  <2> QED
    BY <1>2, <2>3, <2>4, <2>5, <2>6 DEF s
<1>3. CASE kind = "xsrf-html"
  <2> DEFINE token  == IF response = "template" THEN <<FuncOf("token")>> ELSE <<>>
             cookie == <<CookieOf("xsrf-cookie")>>
  <2>1. s = IF r.cookie # "none" THEN token
            ELSE IF StatePreserving(r) THEN cookie \o token ELSE <<>>
    BY <1>3 DEF Commit, XsrfCommit, Csp
  <2>2. token \in Seq(AllCalls) /\ cookie \in Seq(AllCalls)
    BY MakeCalls, Scripts, Mentioned DEF Keys, UsedValues
  <2>3. \A c : In(c, cookie \o token) <=> In(c, cookie) \/ In(c, token)
    BY <2>2, InLemma
  <2>4. \A c : In(c, token) => c = FuncOf("token")
    BY InLemma
  <2>5. response = "template" => In(FuncOf("token"), token)
    BY InLemma
  <2>6. \A c : In(c, cookie) <=> c = CookieOf("xsrf-cookie")
    BY InLemma
  <2> HIDE DEF token, cookie, s
  <2>7. \A c : In(c, s) => c \in {FuncOf("token"), CookieOf("xsrf-cookie")}
    BY <2>1, <2>3, <2>4, <2>6, InLemma
  <2>8. response = "template" /\ Lets(kind, r) => In(FuncOf("token"), s)
    BY <1>3, <2>1, <2>3, <2>5 DEF Lets, Proven
  <2>9. kind \notin Csp
    BY <1>3 DEF Csp
  <2> QED
    BY <1>1, <2>7, <2>8, <2>9 DEF s, CommitCalls
<1>4. CASE kind \notin Csp \cup {"xsrf-html"}
  <2>1. s \in {<<>>, <<CookieOf("xsrf-cookie")>>, <<CookieOf("session")>>}
    BY <1>4 DEF Commit, Csp, AngularCommit, AuthCommit
  <2> HIDE DEF s
  <2>2. \A c : In(c, s) => c \in {CookieOf("xsrf-cookie"), CookieOf("session")}
    BY <2>1, InLemma
  <2> QED
    BY <1>1, <1>4, <2>2 DEF s, CommitCalls
<1> QED
  BY <1>2, <1>3, <1>4

\* The script of the next Commit is good for what Committing says of it.
LEMMA CommitOfDoes ==
  ASSUME StackInv, Nonced, Decided, NEW i \in 0..N, NEW response
  PROVE  /\ \A c : In(c, CommitOf(i, response)) => c \in CommitCalls
         /\ In(PanicOf, CommitOf(i, response)) =>
              response = "template" /\ Has(Csp) /\ "csp-nonce" \notin values
         /\ i > 0 /\ response = "template" /\ cur = Handler =>
              \A f \in Functions : Gives(stack[i], f) => In(FuncOf(f), CommitOf(i, response))
<1>0. N \in Nat /\ Handler = N + 1 /\ req \in Requests
        /\ \A j \in 1..N : stack[j] \in InterceptorKinds
  BY HeaderAssumption DEF Handler, StackInv, ContextOK
<1>1. CASE i = 0
  BY <1>1, InLemma DEF CommitOf
<1>2. CASE i # 0
  <2>1. i \in 1..N /\ CommitOf(i, response) = Commit(stack[i], req, response)
    BY <1>0, <1>2 DEF CommitOf
  <2>2. stack[i] \in InterceptorKinds
    BY <1>0, <2>1
  <2>3. cur = Handler => Lets(stack[i], req) /\ (stack[i] \in Csp => "csp-nonce" \in values)
    BY <1>0, <2>1 DEF Nonced, Decided
  <2>4. stack[i] \in Csp => Has(Csp)
    BY <2>1 DEF Has
  <2> QED
    BY <1>0, <2>1, <2>2, <2>3, <2>4, CommitDoes DEF Gives
<1> QED
  BY <1>1, <1>2

\* One step.
LEMMA BoundStep ==
  ASSUME StackInv, Order, Nonced, Decided, Committing, AllBound, [StackNext]_stackVars
  PROVE  Committing' /\ AllBound'
<1>0. /\ script \in Seq(AllCalls) /\ cur \in 1..(N + 1) /\ N \in Nat /\ commitAt \in 0..N
      /\ dispatched \in Nat /\ written \in BOOLEAN
  BY HeaderAssumption DEF StackInv, ScriptOK, TypeOK, Actors, Handler
<1>1. UNCHANGED <<stack, req>> /\ values \subseteq values'
  BY ValuesGrow DEF context
<1>2. Ready => /\ Call = Head(script) /\ script # <<>>
               /\ \A c : In(c, script) <=> c = Call \/ In(c, Tail(script))
  BY <1>0, InLemma DEF Ready, Call
<1>3. Ready /\ pc = "commit" => Call \in CommitCalls
  BY <1>2 DEF Committing
<1> DEFINE Same == UNCHANGED <<cur, resp, written, dispatched>>
<1>4. CASE HeaderStep
  <2>1. /\ Ready /\ script' = Tail(script) /\ Same /\ pc' = pc /\ commitAt' = commitAt
        /\ values' = values /\ funcs' = funcs /\ Call.op # "func"
    BY <1>4 DEF HeaderStep, flightVars
  <2>2. \A f : Call # FuncOf(f)
    BY <2>1 DEF FuncOf
  <2>3. Committing'
    BY <1>1, <1>2, <2>1, <2>2 DEF Committing, NoNonce, HandlersPage, Has
  <2> QED
    BY <1>1, <2>1, <2>3 DEF AllBound, NoNonce, HandlersPage, Has
<1>5. CASE PanicStep
  <2>1. Ready /\ Refuses(Call) /\ pc' = "unwind" /\ Same /\ values' = values /\ funcs' = funcs
    BY <1>5 DEF PanicStep, UserPanic
  <2>2. pc = "commit" => Call = PanicOf
    BY <1>3, <2>1 DEF CommitCalls, Refuses, FuncOf, CookieOf
  <2>3. pc = "commit" => NoNonce
    BY <1>2, <2>1, <2>2 DEF Committing
  <2>4. pc = "user" => ~(written /\ dispatched = 0)
    BY DEF AllBound
  <2>5. pc \in {"user", "commit"}
    BY <2>1 DEF Ready, Running, InUser, InCommit
  <2> QED
    BY <1>1, <2>1, <2>3, <2>4, <2>5 DEF AllBound, Committing, NoNonce, HandlersPage, Has
<1>6. CASE PutStep
  <2>1. Ready /\ Call.op = "put" /\ Same /\ pc' = pc /\ funcs' = funcs
    BY <1>6 DEF PutStep, vars, flightVars
  <2>2. pc = "user"
    BY <1>3, <2>1 DEF CommitCalls, FuncOf, CookieOf, PanicOf, Ready, Running, InUser, InCommit
  <2> QED
    BY <1>1, <2>1, <2>2 DEF AllBound, Committing, HandlersPage
<1>7. CASE FuncStep
  <2>1. /\ Ready /\ Call.op = "func" /\ script' = Tail(script) /\ Same /\ pc' = pc
        /\ commitAt' = commitAt /\ values' = values /\ funcs' = funcs \cup {Call.key}
    BY <1>7 DEF FuncStep, vars, flightVars
  <2>2. \A f : Call = FuncOf(f) => f \in funcs'
    BY <2>1 DEF FuncOf
  <2>3. Committing'
    BY <1>1, <1>2, <2>1, <2>2 DEF Committing, NoNonce, HandlersPage, Has
  <2> QED
    BY <1>1, <2>1, <2>3 DEF AllBound, NoNonce, HandlersPage, Has
<1>8. CASE WriteStep(CommitOf(N, Call.kind))
  <2>1. /\ ~written /\ written' = TRUE /\ resp' = Call.kind /\ pc = "user" /\ pc' = "commit"
        /\ commitAt' = N /\ script' = CommitOf(N, Call.kind)
        /\ UNCHANGED <<cur, dispatched, values, funcs>>
    BY <1>8 DEF WriteStep, WriteError, Write, EnterWrite, MayWrite, InUser
  <2>0. N > 0
    BY StackAssumption
  <2>2. N > 0 /\ N \in 0..N
    BY <1>0, <2>0
  <2>3. /\ \A c : In(c, script') => c \in CommitCalls
        /\ In(PanicOf, script') =>
             resp' = "template" /\ Has(Csp) /\ "csp-nonce" \notin values
        /\ resp' = "template" /\ cur = Handler =>
             \A f \in Functions : Gives(stack[N], f) => In(FuncOf(f), script')
    BY <2>1, <2>2, CommitOfDoes
  <2>4. \A i \in 1..N : i >= N => i = N
    BY <1>0
  <2>5. Committing'
    BY <1>1, <2>1, <2>3, <2>4 DEF Committing, NoNonce, HandlersPage, Has
  <2>6. dispatched = 0
    BY <2>1 DEF Order
  <2> QED
    BY <2>1, <2>5, <2>6 DEF AllBound
<1>9. CASE CommitStep(CommitOf(commitAt - 1, resp))
  <2>1. /\ script = <<>> /\ pc = "commit" /\ pc' = pc /\ commitAt > 0 /\ commitAt' = commitAt - 1
        /\ script' = CommitOf(commitAt - 1, resp) /\ Same /\ UNCHANGED <<values, funcs>>
    BY <1>9 DEF CommitStep, CommitReturn, InCommit, CommitPending
  <2>2. commitAt - 1 \in 0..N
    BY <1>0, <2>1
  <2>3. /\ \A c : In(c, script') => c \in CommitCalls
        /\ In(PanicOf, script') =>
             resp = "template" /\ Has(Csp) /\ "csp-nonce" \notin values
        /\ commitAt - 1 > 0 /\ resp = "template" /\ cur = Handler =>
             \A f \in Functions : Gives(stack[commitAt - 1], f) => In(FuncOf(f), script')
    BY <2>1, <2>2, CommitOfDoes
  <2>4. HandlersPage => \A i \in 1..N, f \in Functions :
                          i >= commitAt /\ Gives(stack[i], f) => f \in funcs
    BY <2>1, InLemma DEF Committing
  <2>5. \A i \in 1..N : i >= commitAt - 1 => i >= commitAt \/ (i = commitAt - 1 /\ commitAt - 1 > 0)
    BY <1>0
  <2>6. Committing'
    BY <1>1, <2>1, <2>3, <2>4, <2>5 DEF Committing, NoNonce, HandlersPage, Has
  <2> QED
    BY <1>1, <2>1, <2>6 DEF AllBound, NoNonce, HandlersPage, Has
<1>10. CASE DispatchStep
  <2>1. /\ script = <<>> /\ pc = "commit" /\ commitAt = 0 /\ pc' \in {"user", "unwind"}
        /\ UNCHANGED <<cur, resp, written, values, funcs>>
    BY <1>0, <1>10 DEF DispatchStep, DispatchResponse, CommitPending
  <2>2. dispatched' = dispatched + 1
    BY <1>10 DEF DispatchStep, DispatchResponse, Handed
  <2>3. HandlersPage => \A i \in 1..N, f \in Functions : Gives(stack[i], f) => f \in funcs
    BY <1>0, <2>1, InLemma DEF Committing
  <2> QED
    BY <1>0, <1>1, <2>1, <2>2, <2>3 DEF AllBound, Committing, HandlersPage
<1>11. CASE BeforeStep(BeforeOf(cur + 1))
  <2>1. /\ pc = "user" /\ pc' \in {"user", "done"} /\ (written => cur' = cur)
        /\ UNCHANGED <<resp, written, dispatched, values, funcs>>
    BY <1>11 DEF BeforeStep, BeforeReturn, InUser, EndsChain
  <2> QED
    BY <1>0, <1>1, <2>1 DEF AllBound, Committing, HandlersPage
<1>12. CASE HandlerStep
  <2>1. /\ pc = "user" /\ pc' = "done"
        /\ UNCHANGED <<cur, resp, written, values, funcs>>
        /\ (written => dispatched' = dispatched)
    BY <1>12 DEF HandlerStep, HandlerReturnWritten, HandlerReturnNothing, InUser, programVars
  <2> QED
    BY <1>0, <1>1, <2>1 DEF AllBound, Committing, HandlersPage
<1>13. CASE EndStep
  <2>1. /\ \/ pc = "unwind" /\ pc' = "crashed"
           \/ pc' = pc /\ pc \in {"done", "crashed"}
        /\ Same /\ UNCHANGED <<values, funcs>>
    BY <1>13 DEF EndStep, ClearAndRepanic, ServerFinish, OuterRecover, programVars
  <2> QED
    BY <1>0, <1>1, <2>1 DEF AllBound, Committing, HandlersPage, NoNonce, Has
<1>14. CASE FSSetStep \/ FSStatusStep \/ FSWriteStep
  <2>1. pc = "user" /\ pc' = pc /\ Same /\ UNCHANGED <<values, funcs>>
    BY <1>14 DEF FSSetStep, FSStatusStep, FSWriteStep, FileBody, vars, flightVars, InUser
  <2> QED
    BY <1>0, <1>1, <2>1 DEF AllBound, Committing, HandlersPage
<1>15. CASE UNCHANGED stackVars
  BY <1>15 DEF stackVars, context, allVars, vars, flightVars, programVars, AllBound, Committing,
     HandlersPage, NoNonce, Has
<1> QED
  BY <1>4, <1>5, <1>6, <1>7, <1>8, <1>9, <1>10, <1>11, <1>12, <1>13, <1>14, <1>15
     DEF StackNext, StackStep

\* Throughout a request.
LEMMA BoundHolds == StackSpec => [](Committing /\ AllBound)
<1>1. StackInit => Committing /\ AllBound
  BY DEF StackInit, Init, Committing, AllBound, HandlersPage
<1>2. StackInv /\ Order /\ Nonced /\ Decided /\ Committing /\ AllBound /\ [StackNext]_stackVars
        => (Committing /\ AllBound)'
  BY BoundStep
<1> QED
  BY <1>1, <1>2, FlightInv, NoncedHolds, DecidedHolds, PTL DEF StackSpec

\* A page that a handler writes goes out with the nonce of the policy bound if any csp
\* interceptor is installed, and with the token of the form if xsrf is.
THEOREM PagesAreBound == StackSpec => []PagesBound
<1>1. Order /\ AllBound => PagesBound
  <2> SUFFICES ASSUME Order, AllBound, InHandler, resp = "template", dispatched > 0
               PROVE  PagesBound
    BY DEF PagesBound
  <2>1. HandlersPage
    BY DEF Order, HandlersPage, InHandler
  <2> QED
    BY <2>1 DEF AllBound, Gives, Functions, Has, PagesBound
<1> QED
  BY <1>1, FlightInv, BoundHolds, PTL

\* The commit phase of an answer breaks off only for a page that is written before every
\* csp interceptor that is installed: no other panic is possible in it.
THEOREM CommitsComplete == StackSpec => []CommitsGoThrough
<1>1. StackInv /\ Nonced /\ AllBound => CommitsGoThrough
  <2>1. N \in Nat /\ (StackInv => cur \in Nat)
    BY HeaderAssumption DEF StackInv, TypeOK, Actors, Handler
  <2> QED
    BY <2>1 DEF Nonced, AllBound, NoNonce, CommitsGoThrough
<1> QED
  BY <1>1, StackTyped, NoncedHolds, BoundHolds, PTL

-----------------------------------------------------------------------------
(* What a step does to the headers and to the connection.                   *)

\* The name a call writes, and the value it leaves there.
Target(c)   == IF c.op = "cookie" THEN "Set-Cookie" ELSE c.name
NewValue(c) ==
  IF c.op = "setter" THEN c.vals
  ELSE IF c.op = "set" THEN <<c.val>>
  ELSE IF c.op \in {"add", "cookie"} THEN Append(wrapped[Target(c)], c.val)
  ELSE <<>>

\* A call claims a name that is free, or writes one name: a claimed one if it is the
\* call of a closure, and else one that is not claimed.
LEMMA HeaderStepDoes ==
  ASSUME StackInv, Headers, HeaderStep
  PROVE  /\ Ready /\ Call \in AllCalls /\ script' = Tail(script)
         /\ UNCHANGED flightVars /\ UNCHANGED <<frame, values, funcs, fs>>
         /\ \/ /\ Call.op = "claim" /\ Call.name \notin claimed
               /\ claimed' = claimed \cup {Call.name} /\ wrapped' = wrapped
            \/ /\ Call.op \in {"setter", "set", "add", "del", "cookie"} /\ claimed' = claimed
               /\ Target(Call) \in Names /\ NewValue(Call) \in HeaderValues
               /\ wrapped' = [wrapped EXCEPT ![Target(Call)] = NewValue(Call)]
               /\ Call.op = "setter" => Call.name \in claimed
               /\ Call.op \in {"set", "add", "del"} => Call.name \notin claimed
<1>1. /\ Ready /\ script' = Tail(script)
      /\ UNCHANGED flightVars /\ UNCHANGED <<frame, values, funcs, fs>>
  BY DEF HeaderStep
<1>2. Call \in AllCalls
  BY <1>1, NextCall DEF StackInv
<1>3. /\ wrapped \in [Names -> HeaderValues] /\ "Set-Cookie" \in Names
      /\ OwnedNames \subseteq Names /\ FSNames \cup {Vary, CSP, ReportTo} \subseteq Names
  BY NamesUsed, HeaderAssumption DEF StackInv, TypeOK, HeaderTypeOK
<1>4. \A v \in Values : <<v>> \in HeaderValues
        /\ \A h \in HeaderValues : Append(h, v) \in HeaderValues
  BY AppendProperties DEF HeaderValues
<1>5. CASE Call.op = "claim" /\ Claim(Actor, Call.name)
  BY <1>1, <1>2, <1>5 DEF Claim, WritableHeader
<1>6. CASE Call.op = "set" /\ Set(Call.name, Call.val)
  <2>1. Call.name \in Names /\ Call.val \in Values
    BY <1>2, <1>3, <1>6, CallShape
  <2> QED
    BY <1>1, <1>2, <1>4, <1>6, <2>1 DEF Set, WritableHeader, Target, NewValue
<1>7. CASE Call.op = "add" /\ Add(Call.name, Call.val)
  <2>1. Call.name \in Names /\ Call.val \in Values
    BY <1>2, <1>3, <1>7, CallShape
  <2>2. wrapped' = [wrapped EXCEPT ![Call.name] = Append(wrapped[Call.name], Call.val)]
    BY <1>7 DEF Add
  <2>3. Append(wrapped[Call.name], Call.val) \in HeaderValues
    BY <1>3, <1>4, <2>1
  <2> QED
    BY <1>1, <1>2, <1>7, <2>1, <2>2, <2>3 DEF Add, WritableHeader, Target, NewValue
<1>8. CASE Call.op = "del" /\ Del(Call.name)
  <2>1. Call.name \in Names /\ <<>> \in HeaderValues
    BY <1>2, <1>3, <1>8, CallShape DEF HeaderValues
  <2> QED
    BY <1>1, <1>2, <1>8, <2>1 DEF Del, WritableHeader, Target, NewValue
<1>9. CASE Call.op = "cookie" /\ AddCookie(Call.val)
  <2>1. Call.val \in Values
    BY <1>2, <1>9, CallShape
  <2>2. wrapped' = [wrapped EXCEPT !["Set-Cookie"] = Append(wrapped["Set-Cookie"], Call.val)]
    BY <1>9 DEF AddCookie
  <2>3. Append(wrapped["Set-Cookie"], Call.val) \in HeaderValues
    BY <1>3, <1>4, <2>1
  <2> QED
    BY <1>1, <1>2, <1>3, <1>9, <2>1, <2>2, <2>3 DEF AddCookie, Target, NewValue
<1>10. CASE /\ Call.op = "setter"
            /\ \E b \in Holders(Call.name) : UseSetter(b, Call.name, Call.vals)
  <2>1. Call.name \in Names /\ Call.vals \in HeaderValues
    BY <1>2, <1>3, <1>10, CallShape
  <2>2. PICK b \in Holders(Call.name) : UseSetter(b, Call.name, Call.vals)
    BY <1>10
  <2>3. Call.name \in claimed
    BY <2>2 DEF Holders, Lenders, Headers, OfClaimed
  <2> QED
    BY <1>1, <1>2, <1>10, <2>1, <2>2, <2>3 DEF UseSetter, Target, NewValue
<1> QED
  BY <1>5, <1>6, <1>7, <1>8, <1>9, <1>10 DEF HeaderStep

\* The dispatcher writes its own names only, and X-Content-Type-Options only as the
\* static interceptor does.
LEMMA DispatcherWrites ==
  ASSUME NEW kind \in Kinds, NEW h \in [Names -> HeaderValues], NEW o \in Dispatch(kind, h)
  PROVE  /\ \A n \in Names \ DispatcherNames : o.hdr[n] = h[n]
         /\ o.hdr[XCTO] = h[XCTO] \/ o.hdr[XCTO] = <<"nosniff">>
<1> SUFFICES o.hdr[XCTO] = h[XCTO] \/ o.hdr[XCTO] = <<"nosniff">>
  BY DispatchOutcome
<1>1. XCTO \in Names /\ DOMAIN h = Names
  BY NamesUsed, StackAssumption DEF UsedNames, PluginNames
<1>2. ASSUME NEW g, DOMAIN g = Names, NEW n, NEW v
      PROVE  /\ DOMAIN With(g, n, v) = Names
             /\ n # XCTO => With(g, n, v)[XCTO] = g[XCTO]
             /\ n = XCTO => With(g, n, v)[XCTO] = <<v>>
  BY <1>1, <1>2 DEF With
<1>3. XCTO # "Content-Type" /\ XCTO # "Location" /\ XCTO = "X-Content-Type-Options"
  BY DEF XCTO
<1>4. CASE kind \in {"json", "html", "file"}
  <2>1. PICK v : o.hdr = With(h, "Content-Type", v)
    BY <1>4 DEF Dispatch, WriteJSON, WriteHTML, WriteFile, Outcome
  <2> QED
    BY <1>1, <1>2, <1>3, <2>1
<1>5. CASE kind \in {"nocontent", "unsafe"}
  BY <1>5 DEF Dispatch, WriteNoContent, WriteUnsafe, Outcome
<1>6. CASE kind = "template"
  <2>1. o.hdr \in {h, With(h, "Content-Type", "html")}
    BY <1>6 DEF Dispatch, WriteTemplate, Outcome
  <2> QED
    BY <1>1, <1>2, <1>3, <2>1
<1>7. CASE kind = "redirect"
  <2> DEFINE located == With(h, "Location", "location")
  <2>1. located[XCTO] = h[XCTO] /\ DOMAIN located = Names
    BY <1>1, <1>2, <1>3
  <2>3. o.hdr \in {h, located, With(located, "Content-Type", "html")}
    BY <1>7 DEF Dispatch, WriteRedirect, Outcome
  <2> HIDE DEF located
  <2>2. With(located, "Content-Type", "html")[XCTO] = h[XCTO]
    BY <1>2, <1>3, <2>1
  <2> QED
    BY <2>1, <2>2, <2>3
<1>8. CASE kind = "error"
  <2> DEFINE typed == With(h, "Content-Type", "text")
  <2>1. DOMAIN typed = Names
    BY <1>1, <1>2
  <2>2. With(typed, XCTO, "nosniff")[XCTO] = <<"nosniff">>
    BY <1>2, <2>1
  <2>3. o.hdr = With(typed, XCTO, "nosniff")
    BY <1>8 DEF Dispatch, WriteTextError, Outcome, XCTO
  <2> QED
    BY <2>2, <2>3
<1> QED
  BY <1>4, <1>5, <1>6, <1>7, <1>8 DEF Kinds, WriteKinds

\* When the dispatcher is called.
Dispatches ==
  /\ UNCHANGED <<cur, claimed>>
  /\ \/ pc = "commit" /\ commitAt = 0
     \/ pc = "user" /\ pc' = "done" /\ ~written
  /\ \A n \in Names \ DispatcherNames : wrapped'[n] = wrapped[n]
  /\ wrapped'[XCTO] = wrapped[XCTO] \/ wrapped'[XCTO] = <<"nosniff">>

\* Every other step leaves the headers alone, or is a call of the dispatcher, or the end
\* of a crash.
LEMMA OtherStepDoes ==
  ASSUME StackInv, Order, [StackNext]_stackVars
  PROVE  \/ HeaderStep
         \/ UNCHANGED <<wrapped, claimed>>
         \/ Dispatches
         \/ pc' = "crashed" /\ claimed' = claimed
<1>1. ASSUME NEW kind \in Kinds, NEW o, Handed(kind, o)
      PROVE  /\ claimed' = claimed
             /\ \A n \in Names \ DispatcherNames : wrapped'[n] = wrapped[n]
             /\ wrapped'[XCTO] = wrapped[XCTO] \/ wrapped'[XCTO] = <<"nosniff">>
  <2>1. o \in Dispatch(kind, wrapped) /\ wrapped \in [Names -> HeaderValues]
    BY <1>1 DEF Handed, StackInv, TypeOK, HeaderTypeOK
  <2> QED
    BY <1>1, <2>1, DispatcherWrites DEF Handed
<1>2. CASE DispatchStep
  <2>1. pc = "commit" /\ commitAt = 0 /\ cur' = cur /\ resp \in Kinds
    BY <1>2, HeaderAssumption DEF DispatchStep, DispatchResponse, CommitPending, StackInv,
       TypeOK, Order
  <2>2. PICK o : Handed(resp, o)
    BY <1>2 DEF DispatchStep, DispatchResponse
  <2> QED
    BY <1>1, <2>1, <2>2 DEF Dispatches
<1>3. CASE HandlerStep
  <2>1. CASE HandlerReturnWritten
    BY <2>1 DEF HandlerReturnWritten, headerVars
  <2>2. CASE HandlerReturnNothing
    <3>1. PICK o : Handed("nocontent", o)
      BY <2>2 DEF HandlerReturnNothing
    <3>2. "nocontent" \in Kinds
      BY DEF Kinds, WriteKinds
    <3> QED
      BY <1>1, <2>2, <3>1, <3>2 DEF HandlerReturnNothing, Dispatches, InUser
  <2> QED
    BY <1>3, <2>1, <2>2 DEF HandlerStep
<1>4. CASE EndStep
  BY <1>4 DEF EndStep, ClearAndRepanic, ServerFinish, OuterRecover, headerVars
<1>5. CASE PanicStep \/ WriteStep(CommitOf(N, Call.kind)) \/ BeforeStep(BeforeOf(cur + 1))
             \/ CommitStep(CommitOf(commitAt - 1, resp))
  BY <1>5 DEF PanicStep, UserPanic, WriteStep, WriteError, Write, EnterWrite, CommitStep,
     CommitReturn, BeforeStep, BeforeReturn, headerVars
<1>6. CASE PutStep \/ FuncStep \/ FSSetStep \/ FSStatusStep \/ FSWriteStep
  BY <1>6 DEF PutStep, FuncStep, FSSetStep, FSStatusStep, FSWriteStep, FileBody, vars, headerVars
<1>7. CASE UNCHANGED stackVars
  BY <1>7 DEF stackVars, allVars, vars, headerVars
<1> QED
  BY <1>2, <1>3, <1>4, <1>5, <1>6, <1>7 DEF StackNext, StackStep

\* What is sent has the headers of the moment, and is sent once; the actor that has
\* written, or ends the chain, stays the last to have run.
LEMMA WireStep ==
  ASSUME StackInv, [StackNext]_stackVars
  PROVE  \/ wire' = wire
         \/ /\ wire.by = "none" /\ wire'.hdr = wrapped' /\ cur' = cur
            /\ pc' = "crashed" => wire'.by = "outer"
<1>1. \A by, status, hdr :
        \/ Send(by, status, hdr) = wire
        \/ /\ wire.by = "none" /\ Send(by, status, hdr).hdr = hdr
           /\ Send(by, status, hdr).by = by
  BY DEF Send
<1>2. CASE DispatchStep \/ HandlerStep
  BY <1>1, <1>2 DEF DispatchStep, DispatchResponse, HandlerStep, HandlerReturnWritten,
     HandlerReturnNothing, Handed
<1>3. CASE EndStep
  BY <1>1, <1>3 DEF EndStep, ClearAndRepanic, ServerFinish, OuterRecover, headerVars
<1>4. CASE FSWriteStep
  BY <1>1, <1>4 DEF FSWriteStep, FileBody, headerVars, vars, flightVars, InUser
<1>5. CASE HeaderStep \/ PutStep \/ FuncStep \/ FSSetStep \/ FSStatusStep
  BY <1>5 DEF HeaderStep, PutStep, FuncStep, FSSetStep, FSStatusStep, vars, flightVars
<1>6. CASE PanicStep \/ WriteStep(CommitOf(N, Call.kind)) \/ BeforeStep(BeforeOf(cur + 1))
             \/ CommitStep(CommitOf(commitAt - 1, resp))
  BY <1>6 DEF PanicStep, UserPanic, WriteStep, WriteError, Write, EnterWrite, CommitStep,
     CommitReturn, BeforeStep, BeforeReturn
<1>7. CASE UNCHANGED stackVars
  BY <1>7 DEF stackVars, allVars, vars, flightVars
<1> QED
  BY <1>2, <1>3, <1>4, <1>5, <1>6, <1>7 DEF StackNext, StackStep

-----------------------------------------------------------------------------
(* Who makes which calls.                                                   *)

\* Handlers, the file server's among them, claim nothing, give out no tokens, and leave the
\* closures of the csp interceptors and the Vary header alone.
HandlerCalls ==
  {c \in AllCalls : /\ c.op \notin {"claim", "setter", "func"}
                    /\ c.op = "cookie" => c.val = "session"
                    /\ c.op = "put" => c.key # "csp-headers"
                    /\ c.op \in {"set", "add", "del"} => c.name # Vary}

CallsOf(i) == IF i = Handler THEN HandlerCalls ELSE BeforeCalls

\* The running code, and the code below a commit phase, keep to the calls of their kind.
WhoCalls ==
  /\ pc = "user" => \A c : In(c, script) => c \in CallsOf(cur)
  /\ pc = "commit" => \A c : In(c, frame) => c \in CallsOf(cur)

\* What is in a sequence of calls is one of them.
LEMMA InSeq ==
  /\ \A s \in Seq(AllCalls) : \A c : In(c, s) => c \in AllCalls
  /\ \A s \in Seq(BeforeCalls) : \A c : In(c, s) => c \in BeforeCalls
BY DEF In

\* What handlers do.
LEMMA HandlerDoes ==
  ASSUME NEW r \in Requests, NEW c, In(c, ServeHTTP(r))
  PROVE  c \in HandlerCalls
<1>1. c \in AllCalls
  BY HandlerType, InSeq
<1>2. \/ c \in {FSWrite, PanicOf} \/ \E b : c = FSStatus(b)
      \/ \E k : c = WriteOf(k) \/ (k # "csp-headers" /\ c = PutOf(k))
      \/ \E n, v : c = SetOf(CSP, v) \/ c = FSSet(n, v)
      \/ c = CookieOf("session")
  <2> DEFINE Aim == \/ c \in {FSWrite, PanicOf} \/ \E b : c = FSStatus(b)
                     \/ \E k : c = WriteOf(k) \/ (k # "csp-headers" /\ c = PutOf(k))
                     \/ \E n, v : c = SetOf(CSP, v) \/ c = FSSet(n, v)
                     \/ c = CookieOf("session")
  <2>1. CASE r.handler \in WriteKinds \cup {"error"}
    <3>1. In(c, <<WriteOf(r.handler)>>)
      BY <2>1, HandlerScripts
    <3> QED
      BY <3>1 DEF In
  <2>2. CASE r.handler = "nothing"
    <3>1. In(c, <<>>)
      BY <2>2, HandlerScripts
    <3> QED
      BY <3>1 DEF In
  <2>3. CASE r.handler = "cookie"
    <3>1. In(c, <<CookieOf("session"), WriteOf("html")>>)
      BY <2>3, HandlerScripts
    <3> QED
      BY <3>1 DEF In
  <2>4. CASE r.handler = "twice"
    <3>1. In(c, <<WriteOf("html"), WriteOf("json")>>)
      BY <2>4, HandlerScripts
    <3> QED
      BY <3>1 DEF In
  <2>5. CASE r.handler = "setCSP"
    <3>1. In(c, <<SetOf(CSP, "none"), WriteOf("html")>>)
      BY <2>5, HandlerScripts
    <3>2. c \in {SetOf(CSP, "none"), WriteOf("html")}
      BY <3>1 DEF In
    <3> QED
      BY <3>2
  <2>6. CASE r.handler = "login"
    <3>1. In(c, <<PutOf("set"), PutOf("user"), WriteOf("redirect")>>)
      BY <2>6, HandlerScripts
    <3> QED
      BY <3>1 DEF In
  <2>7. CASE r.handler = "logout"
    <3>1. In(c, <<PutOf("clear"), WriteOf("redirect")>>)
      BY <2>7, HandlerScripts
    <3> QED
      BY <3>1 DEF In
  <2>8. CASE r.handler = "fsFile"
    <3>1. In(c, <<FSSet("Content-Type", "html"), FSSet("Last-Modified", "then"),
                  FSStatus(TRUE), FSWrite, FSWrite>>)
      BY <2>8, HandlerScripts
    <3>2. c \in {FSSet("Content-Type", "html"), FSSet("Last-Modified", "then"),
               FSStatus(TRUE), FSWrite}
      BY <3>1 DEF In, FSStatus
    <3> QED
      BY <3>2
  <2>9. CASE r.handler = "fsIndex"
    <3>1. In(c, <<FSSet("Content-Type", "html"), FSWrite>>)
      BY <2>9, HandlerScripts
    <3>2. c \in {FSSet("Content-Type", "html"), FSWrite}
      BY <3>1 DEF In
    <3> QED
      BY <3>2
  <2>10. CASE r.handler = "fsHead"
    <3>1. In(c, <<FSSet("Last-Modified", "then"), FSStatus(TRUE)>>)
      BY <2>10, HandlerScripts
    <3>2. c \in {FSSet("Last-Modified", "then"), FSStatus(TRUE)}
      BY <3>1 DEF In, FSStatus
    <3> QED
      BY <3>2
  <2>11. CASE r.handler = "fsCached"
    <3>1. In(c, <<FSSet("Last-Modified", "then"), FSStatus(FALSE)>>)
      BY <2>11, HandlerScripts
    <3>2. c \in {FSSet("Last-Modified", "then"), FSStatus(FALSE)}
      BY <3>1 DEF In, FSStatus
    <3> QED
      BY <3>2
  <2>12. CASE r.handler = "fsMoved"
    <3>1. In(c, <<FSSet("Location", "location"), FSStatus(FALSE)>>)
      BY <2>12, HandlerScripts
    <3>2. c \in {FSSet("Location", "location"), FSStatus(FALSE)}
      BY <3>1 DEF In, FSStatus
    <3> QED
      BY <3>2
  <2>13. CASE r.handler = "fsMissing"
    <3>1. In(c, <<FSSet("Content-Type", "text"), FSSet(XCTO, "nosniff"), FSStatus(FALSE),
                  FSWrite>>)
      BY <2>13, HandlerScripts
    <3>2. c \in {FSSet("Content-Type", "text"), FSSet(XCTO, "nosniff"), FSStatus(FALSE),
               FSWrite}
      BY <3>1 DEF In, FSStatus
    <3> QED
      BY <3>2
  <2> QED
    BY <2>1, <2>2, <2>3, <2>4, <2>5, <2>6, <2>7, <2>8, <2>9, <2>10, <2>11, <2>12, <2>13,
       StackAssumption DEF HandlerKinds
<1>3. /\ c.op \notin {"claim", "setter", "func"} /\ (c.op = "cookie" => c.val = "session")
      /\ c.op = "put" => c.key # "csp-headers"
      /\ c.op \in {"set", "add", "del"} => c.name # Vary
  BY <1>2 DEF FSWrite, PanicOf, FSStatus, WriteOf, PutOf, SetOf, FSSet, CookieOf, CSP, Vary
<1> QED
  BY <1>1, <1>3 DEF HandlerCalls

\* What each actor does.
LEMMA BeforeOfDoes ==
  ASSUME StackInv, NEW i \in 1..Handler
  PROVE  \A c : In(c, BeforeOf(i)) => c \in CallsOf(i)
<1>0. N \in Nat /\ Handler = N + 1
  BY HeaderAssumption DEF Handler
<1>1. CASE i = Handler
  BY <1>1, HandlerDoes DEF BeforeOf, CallsOf, StackInv, ContextOK
<1>2. CASE i # Handler
  <2>1. i \in 1..N
    BY <1>0, <1>2
  <2>2. Before(stack[i], req) \in Seq(BeforeCalls)
    BY <2>1, BeforeType DEF StackInv, ContextOK
  <2> QED
    BY <1>2, <2>2, InSeq DEF BeforeOf, CallsOf
<1> QED
  BY <1>1, <1>2

\* The file server's calls are the handler's: an interceptor makes none of them.
LEMMA OnlyHandlerServes ==
  ASSUME StackInv, WhoCalls, FSSetStep \/ FSStatusStep \/ FSWriteStep
  PROVE  cur = Handler
<1>1. pc = "user" /\ Ready /\ Call.op \in {"fsset", "fsstatus", "fswrite"}
  BY DEF FSSetStep, FSStatusStep, FSWriteStep, InUser
<1>2. In(Call, script)
  BY <1>1, InLemma DEF Ready, Call, StackInv, ScriptOK
<1>3. \A c \in BeforeCalls : c.op \notin {"fsset", "fsstatus", "fswrite"}
  BY DEF BeforeCalls, PanicOf
<1> QED
  BY <1>1, <1>2, <1>3 DEF WhoCalls, CallsOf

\* The headers that WriteHeader copies.
LEMMA CopyDoes ==
  ASSUME ScriptOK
  PROVE  \A c : In(c, CopyCalls) => c \in HandlerCalls
<1> SUFFICES ASSUME NEW c, In(c, CopyCalls) PROVE c \in HandlerCalls
  OBVIOUS
<1>1. c \in AllCalls
  BY CopyCallsType, InSeq
<1>2. Len(CopyOrder) \in Nat /\ Len(CopyCalls) = 2 * Len(CopyOrder)
  BY CopyPlaces
<1>3. PICK k \in 1..2 * Len(CopyOrder) : CopyCalls[k] = c
  BY <1>2 DEF In
<1>4. PICK i \in 1..Len(CopyOrder) : k = 2 * i - 1 \/ k = 2 * i
  <2>1. (k + 1) \div 2 \in 1..Len(CopyOrder)
          /\ (k = 2 * ((k + 1) \div 2) - 1 \/ k = 2 * ((k + 1) \div 2))
    BY <1>2
  <2> QED
    BY <2>1
<1>5. CopyOrder[i] \in FSNames
  BY CopyPlaces, CopyOrderType
<1>6. c.op \in {"del", "add"} /\ c.name = CopyOrder[i]
  <2>1. \A n, v : /\ DelOf(n).op = "del" /\ DelOf(n).name = n
                  /\ AddOf(n, v).op = "add" /\ AddOf(n, v).name = n
    BY DEF DelOf, AddOf
  <2>2. /\ CopyCalls[2 * i - 1] = DelOf(CopyOrder[i])
        /\ CopyCalls[2 * i] = AddOf(CopyOrder[i], Head(fs.header[CopyOrder[i]]))
    BY CopyPlaces
  <2>3. CASE k = 2 * i - 1
    BY <1>3, <2>1, <2>2, <2>3
  <2>4. CASE k = 2 * i
    BY <1>3, <2>1, <2>2, <2>4
  <2> QED
    BY <1>4, <2>3, <2>4
<1>7. Vary \notin FSNames
  BY DEF FSNames, Vary, XCTO
<1> QED
  BY <1>1, <1>5, <1>6, <1>7 DEF HandlerCalls

\* One step.
LEMMA WhoCallsStep ==
  ASSUME StackInv, Order, WhoCalls, [StackNext]_stackVars
  PROVE  WhoCalls'
<1>0. /\ script \in Seq(AllCalls) /\ N \in Nat /\ Handler = N + 1 /\ cur \in 1..Handler
      /\ ScriptOK
  BY HeaderAssumption DEF StackInv, ScriptOK, TypeOK, Actors, Handler
<1>1. Ready => /\ Call = Head(script) /\ script # <<>> /\ Tail(script) \in Seq(AllCalls)
               /\ \A c : In(c, Tail(script)) => In(c, script)
  BY <1>0, InLemma, Scripts DEF Ready, Call
<1>2. CASE HeaderStep \/ PutStep \/ FuncStep \/ FSSetStep
  <2>1. Ready /\ script' = Tail(script) /\ frame' = frame /\ pc' = pc /\ cur' = cur
    BY <1>2 DEF HeaderStep, PutStep, FuncStep, FSSetStep, vars, flightVars
  <2> QED
    BY <1>1, <2>1 DEF WhoCalls, CallsOf
<1>3. CASE PanicStep \/ HandlerStep \/ EndStep
  <2>1. pc' \notin {"user", "commit"}
    BY <1>3 DEF PanicStep, UserPanic, HandlerStep, HandlerReturnWritten, HandlerReturnNothing,
       EndStep, ClearAndRepanic, ServerFinish, OuterRecover
  <2> QED
    BY <2>1 DEF WhoCalls
<1>4. CASE WriteStep(CommitOf(N, Call.kind))
  <2>1. Ready /\ frame' = Tail(script) /\ pc = "user" /\ pc' = "commit" /\ cur' = cur
    BY <1>4 DEF WriteStep, WriteError, Write, EnterWrite, InUser
  <2> QED
    BY <1>1, <2>1 DEF WhoCalls, CallsOf
<1>5. CASE CommitStep(CommitOf(commitAt - 1, resp))
  BY <1>5 DEF CommitStep, CommitReturn, InCommit, WhoCalls, CallsOf
<1>6. CASE DispatchStep
  BY <1>6 DEF DispatchStep, DispatchResponse, WhoCalls, CallsOf
<1>7. CASE BeforeStep(BeforeOf(cur + 1))
  <2>1. /\ pc' \in {"user", "done"}
        /\ pc' = "user" => script' = BeforeOf(cur + 1) /\ cur' = cur + 1 /\ cur < Handler
    BY <1>7 DEF BeforeStep, BeforeReturn, InUser, InBefore
  <2>2. cur < Handler => cur + 1 \in 1..Handler
    BY <1>0
  <2> QED
    BY <2>1, <2>2, BeforeOfDoes DEF WhoCalls, CallsOf
<1>8. CASE FSStatusStep
  <2>1. /\ Ready /\ pc = "user" /\ pc' = pc /\ cur' = cur /\ cur = Handler
        /\ Call.op = "fsstatus"
    BY <1>8, OnlyHandlerServes DEF FSStatusStep, InUser, vars, flightVars
  <2>2. CASE fs.committed
    BY <1>1, <1>8, <2>1, <2>2 DEF FSStatusStep, WhoCalls, CallsOf
  <2>3. CASE ~fs.committed
    <3> DEFINE w == WriteOf(IF Call.ok THEN "file" ELSE "error")
    <3>1. script' = CopyCalls \o <<w>> \o Tail(script)
      BY <1>8, <2>3 DEF FSStatusStep
    <3>2. Call \in AllCalls /\ Call.ok \in BOOLEAN
      BY <1>0, <2>1, NextCall, CallShape
    <3>3. w \in AllCalls /\ w.op = "write"
      BY <3>2, MakeCalls DEF Kinds, WriteKinds, WriteOf
    <3> HIDE DEF w
    <3>4. w \in HandlerCalls
      BY <3>3 DEF HandlerCalls
    <3>5. <<w>> \in Seq(AllCalls) /\ CopyCalls \in Seq(AllCalls)
            /\ CopyCalls \o <<w>> \in Seq(AllCalls)
      BY <1>0, <3>3, CopyCallsType, Scripts
    <3>6. ASSUME NEW c, In(c, CopyCalls \o <<w>>) PROVE c \in HandlerCalls
      <4>1. In(c, CopyCalls) \/ In(c, <<w>>)
        BY <3>5, <3>6, InLemma
      <4>2. In(c, <<w>>) => c = w
        BY InLemma
      <4>3. In(c, CopyCalls) => c \in HandlerCalls
        BY <1>0, CopyDoes
      <4> QED
        BY <3>4, <4>1, <4>2, <4>3
    <3>7. \A c : In(c, script') => In(c, CopyCalls \o <<w>>) \/ In(c, Tail(script))
      BY <1>1, <2>1, <3>1, <3>5, InLemma
    <3> QED
      BY <1>1, <2>1, <3>6, <3>7 DEF WhoCalls, CallsOf
  <2> QED
    BY <2>2, <2>3
<1>9. CASE FSWriteStep
  <2>1. Ready /\ pc = "user" /\ pc' = pc /\ cur' = cur /\ cur = Handler
    BY <1>9, OnlyHandlerServes DEF FSWriteStep, FileBody, InUser, vars, flightVars
  <2>2. script' = Tail(script) \/ script' = <<FSStatus(TRUE)>> \o script
    BY <1>9 DEF FSWriteStep
  <2>3. FSStatus(TRUE) \in HandlerCalls
    BY MakeCalls DEF HandlerCalls, FSStatus
  <2>4. <<FSStatus(TRUE)>> \in Seq(AllCalls)
    BY MakeCalls, Scripts
  <2>5. \A c : In(c, <<FSStatus(TRUE)>> \o script) => c = FSStatus(TRUE) \/ In(c, script)
    BY <1>0, <2>4, InLemma
  <2> QED
    BY <1>1, <2>1, <2>2, <2>3, <2>5 DEF WhoCalls, CallsOf
<1>10. CASE UNCHANGED stackVars
  BY <1>10 DEF stackVars, allVars, vars, flightVars, programVars, WhoCalls, CallsOf
<1> QED
  BY <1>2, <1>3, <1>4, <1>5, <1>6, <1>7, <1>8, <1>9, <1>10 DEF StackNext, StackStep

\* Throughout a request.
LEMMA WhoCallsHolds == StackSpec => []WhoCalls
<1>1. StackInit /\ StackInv => WhoCalls
  <2> SUFFICES ASSUME StackInit, StackInv PROVE WhoCalls
    OBVIOUS
  <2>0. N > 0
    BY StackAssumption
  <2>1. N \in Nat /\ 1 # Handler /\ 1 \in 1..Handler
    BY <2>0, HeaderAssumption DEF Handler
  <2>2. cur = 1 /\ pc = "user" /\ script = Before(stack[1], req)
    BY DEF StackInit, Init, ProgramInit
  <2>3. script = BeforeOf(1)
    BY <2>1, <2>2 DEF BeforeOf
  <2> QED
    BY <2>1, <2>2, <2>3, BeforeOfDoes DEF WhoCalls
<1>2. StackInv /\ Order /\ WhoCalls /\ [StackNext]_stackVars => WhoCalls'
  BY WhoCallsStep
<1> QED
  BY <1>1, <1>2, FlightInv, PTL DEF StackSpec

-----------------------------------------------------------------------------
(* Cookies that tokens are tied to.                                         *)

\* The interceptors that give them out.  A program installs one of them at most, and what
\* runs around its ServeMux does not use the name of their cookie.
Tying     == {"xsrf-html", "xsrf-angular"}
OneTying  == \A s \in Stacks : \A i, j \in 1..N : s[i] \in Tying /\ s[j] \in Tying => i = j
NoneGiven == \A h \in InitialHeaders :
               \A i \in DOMAIN h["Set-Cookie"] : h["Set-Cookie"][i] # "xsrf-cookie"

TyingCookie == CookieOf("xsrf-cookie")
Given(i)    == i \in DOMAIN wrapped["Set-Cookie"] /\ wrapped["Set-Cookie"][i] = "xsrf-cookie"
SomeGiven   == \E i : Given(i)
MayGive     == req.cookie \in {"none", ""} /\ StatePreserving(req)

\* No cookie was given before the commit phase; in it none is due if one was given, and
\* the interceptor that gives it has yet to return or has committed.
Cookies ==
  /\ stack \in Stacks
  /\ \A i, j : Given(i) /\ Given(j) => i = j
  /\ SomeGiven => MayGive /\ written
  /\ pc = "commit" =>
       /\ SomeGiven => \A k \in 1..N : stack[k] \in Tying => k >= commitAt
       /\ In(TyingCookie, script) =>
            /\ ~SomeGiven /\ MayGive /\ commitAt \in 1..N /\ stack[commitAt] \in Tying
            /\ ~In(TyingCookie, Tail(script))

\* What an interceptor that commits gives.
LEMMA CommitGives ==
  ASSUME StackInv, NEW i \in 0..N, NEW response, In(TyingCookie, CommitOf(i, response))
  PROVE  /\ i \in 1..N /\ stack[i] \in Tying /\ MayGive
         /\ ~In(TyingCookie, Tail(CommitOf(i, response)))
<1>0. N \in Nat /\ req \in Requests /\ \A j \in 1..N : stack[j] \in InterceptorKinds
  BY HeaderAssumption DEF StackInv, ContextOK
<1>1. i # 0
  BY InLemma DEF CommitOf
<1>2. i \in 1..N /\ CommitOf(i, response) = Commit(stack[i], req, response)
  BY <1>0, <1>1 DEF CommitOf
<1>3. \A f : FuncOf(f) # TyingCookie
  BY DEF FuncOf, CookieOf, TyingCookie
<1>4. PanicOf # TyingCookie /\ CookieOf("session") # TyingCookie
  BY DEF PanicOf, CookieOf, TyingCookie
<1> DEFINE s == Commit(stack[i], req, response)
<1>5. CASE stack[i] = "xsrf-html"
  <2> DEFINE token == IF response = "template" THEN <<FuncOf("token")>> ELSE <<>>
  <2>1. s = IF req.cookie # "none" THEN token
            ELSE IF StatePreserving(req) THEN <<TyingCookie>> \o token ELSE <<>>
    BY <1>5 DEF Commit, XsrfCommit, Csp, TyingCookie
  <2>2. token \in Seq(AllCalls) /\ <<TyingCookie>> \in Seq(AllCalls)
    BY MakeCalls, Scripts, Mentioned DEF Keys, UsedValues, TyingCookie
  <2>3. ~In(TyingCookie, token) /\ ~In(TyingCookie, <<>>)
    BY <1>3, InLemma
  <2>4. <<TyingCookie>> \o token # <<>> /\ Tail(<<TyingCookie>> \o token) = token
    <3>1. Len(<<TyingCookie>>) = 1 /\ <<TyingCookie>>[1] = TyingCookie
      OBVIOUS
    <3> DEFINE one == <<TyingCookie>>  both == one \o token
    <3> HIDE DEF token, one
    <3>2. /\ one \in Seq(AllCalls) /\ token \in Seq(AllCalls) /\ Len(one) = 1
      BY <2>2, <3>1 DEF one
    <3>3. /\ both \in Seq(AllCalls) /\ Len(both) = 1 + Len(token)
          /\ \A k \in 1..Len(token) : both[k + 1] = token[k]
      <4>1. both \in Seq(AllCalls) /\ Len(both) = Len(one) + Len(token)
        BY <3>2, ConcatProperties DEF both
      <4>2. Len(token) \in Nat
        BY <3>2
      <4>3. ASSUME NEW k \in 1..Len(token) PROVE both[k + 1] = token[k]
        <5>1. k + 1 \in 1..Len(both) /\ k + 1 > Len(one) /\ (k + 1) - Len(one) = k
          BY <3>2, <4>1, <4>2
        <5> QED
          BY <3>2, <4>1, <5>1, ConcatProperties DEF both
      <4> QED
        BY <3>2, <4>1, <4>3
    <3> HIDE DEF both
    <3>4. Len(token) \in Nat /\ both # <<>>
      BY <3>2, <3>3
    <3>5. /\ Tail(both) \in Seq(AllCalls) /\ Len(Tail(both)) = Len(token)
          /\ \A k \in 1..Len(token) : Tail(both)[k] = both[k + 1]
      BY <3>3, <3>4
    <3>6. Tail(both) = token
      BY <3>2, <3>3, <3>5
    <3> QED
      BY <3>4, <3>6 DEF both, one
  <2> HIDE DEF token, s
  <2>5. s = <<TyingCookie>> \o token /\ req.cookie = "none" /\ StatePreserving(req)
    BY <1>2, <2>1, <2>3 DEF s
  <2> QED
    BY <1>2, <1>5, <2>3, <2>4, <2>5 DEF s, Tying, MayGive
<1>6. CASE stack[i] = "xsrf-angular"
  <2>1. s = IF NoCookie(req) /\ StatePreserving(req) THEN <<TyingCookie>> ELSE <<>>
    BY <1>6 DEF Commit, AngularCommit, Csp, TyingCookie
  <2>2. ~In(TyingCookie, <<>>) /\ Tail(<<TyingCookie>>) = <<>>
    BY InLemma
  <2> HIDE DEF s
  <2>3. s = <<TyingCookie>> /\ NoCookie(req) /\ StatePreserving(req)
    BY <1>2, <2>1, <2>2 DEF s
  <2> QED
    BY <1>2, <1>6, <2>2, <2>3 DEF s, Tying, MayGive, NoCookie
<1>7. CASE stack[i] \notin Tying
  <2>1. s \in {<<>>, <<PanicOf>>, <<FuncOf("nonce")>>, <<CookieOf("session")>>}
    BY <1>7 DEF Commit, CspCommit, AuthCommit, Tying
  <2> HIDE DEF s
  <2>2. ~In(TyingCookie, s)
    BY <1>3, <1>4, <2>1, InLemma
  <2> QED
    BY <1>2, <2>2 DEF s
<1> QED
  BY <1>5, <1>6, <1>7 DEF Tying

\* Outside the commit phase nobody gives one.
LEMMA NobodyElseGives ==
  ASSUME StackInv, WhoCalls, pc = "user"
  PROVE  ~In(TyingCookie, script)
<1>1. TyingCookie.op = "cookie" /\ TyingCookie.val # "session"
  BY DEF TyingCookie, CookieOf
<1>2. TyingCookie \notin HandlerCalls
  BY <1>1 DEF HandlerCalls
<1>3. \A c \in BeforeCalls : c.op # "cookie"
  BY DEF BeforeCalls, PanicOf
<1> QED
  BY <1>1, <1>2, <1>3 DEF WhoCalls, CallsOf

\* What happens to the cookies of the connection.
LEMMA CookieMoves ==
  ASSUME StackInv, Order, Headers, Headers', [StackNext]_stackVars
  PROVE  \/ wrapped'["Set-Cookie"] = wrapped["Set-Cookie"]
         \/ /\ HeaderStep /\ Call.op = "cookie"
            /\ wrapped'["Set-Cookie"] = Append(wrapped["Set-Cookie"], Call.val)
         \/ pc' = "crashed" /\ wrapped'["Set-Cookie"] = <<>>
<1>1. "Set-Cookie" \in Names \ DispatcherNames /\ wrapped \in [Names -> HeaderValues]
  BY HeaderAssumption DEF DispatcherNames, StackInv, TypeOK, HeaderTypeOK
<1>2. CASE HeaderStep
  <2>1. /\ Call \in AllCalls
        /\ \/ wrapped' = wrapped
           \/ /\ Call.op \in {"setter", "set", "add", "del", "cookie"}
              /\ wrapped' = [wrapped EXCEPT ![Target(Call)] = NewValue(Call)]
    BY <1>2, HeaderStepDoes
  <2>2. Call.op \in {"setter", "set", "add", "del"} => Target(Call) # "Set-Cookie"
    BY <2>1, CallShape, NamesUsed DEF Target
  <2>3. Call.op = "cookie" =>
          Target(Call) = "Set-Cookie" /\ NewValue(Call) = Append(wrapped["Set-Cookie"], Call.val)
    BY DEF Target, NewValue
  <2> QED
    BY <1>1, <1>2, <2>1, <2>2, <2>3
<1>3. CASE pc' = "crashed"
  BY <1>1, <1>3 DEF Headers, CrashLeavesNoHeaders, NoHeaders
<1> QED
  BY <1>1, <1>2, <1>3, OtherStepDoes DEF Dispatches

\* One step, in a program that installs one of the interceptors.
LEMMA CookiesStep ==
  ASSUME OneTying, StackInv, Order, Headers, Headers', WhoCalls, Cookies,
         [StackNext]_stackVars
  PROVE  Cookies'
<1>0. /\ script \in Seq(AllCalls) /\ N \in Nat /\ commitAt \in 0..N
      /\ wrapped["Set-Cookie"] \in HeaderValues
  BY HeaderAssumption DEF StackInv, ScriptOK, TypeOK, HeaderTypeOK
<1>1. UNCHANGED <<stack, req>>
  BY ValuesGrow DEF context
<1>2. Ready => /\ Call = Head(script) /\ script # <<>>
               /\ \A c : In(c, script) <=> c = Call \/ In(c, Tail(script))
  BY <1>0, InLemma DEF Ready, Call
<1>3. CASE HeaderStep /\ Call = TyingCookie
  <2>1. Ready /\ script' = Tail(script) /\ UNCHANGED flightVars /\ Call.op = "cookie"
    BY <1>3, HeaderStepDoes DEF TyingCookie, CookieOf
  <2>2. In(TyingCookie, script)
    BY <1>2, <1>3, <2>1
  <2>3. pc = "commit"
    BY <2>1, <2>2, NobodyElseGives DEF Ready, Running, InUser, InCommit
  <2>4. /\ ~SomeGiven /\ MayGive /\ commitAt \in 1..N /\ stack[commitAt] \in Tying
        /\ ~In(TyingCookie, script')
    BY <2>1, <2>2, <2>3 DEF Cookies
  <2>5. wrapped'["Set-Cookie"] = Append(wrapped["Set-Cookie"], "xsrf-cookie")
    <3>1. /\ wrapped' = [wrapped EXCEPT !["Set-Cookie"] = NewValue(Call)]
          /\ NewValue(Call) = Append(wrapped["Set-Cookie"], Call.val)
      BY <1>3, <2>1, HeaderStepDoes DEF Target, NewValue
    <3>2. "Set-Cookie" \in Names /\ wrapped \in [Names -> HeaderValues]
            /\ Call.val = "xsrf-cookie"
      BY <1>3, HeaderAssumption DEF StackInv, TypeOK, HeaderTypeOK, TyingCookie, CookieOf
    <3> QED
      BY <3>1, <3>2
  <2>6. \A i : Given(i)' => i = Len(wrapped["Set-Cookie"]) + 1
    <3>1. ASSUME NEW i \in DOMAIN Append(wrapped["Set-Cookie"], "xsrf-cookie"),
                 i # Len(wrapped["Set-Cookie"]) + 1
          PROVE  /\ i \in DOMAIN wrapped["Set-Cookie"]
                 /\ Append(wrapped["Set-Cookie"], "xsrf-cookie")[i] = wrapped["Set-Cookie"][i]
      BY <1>0, <3>1 DEF HeaderValues
    <3> QED
      BY <2>4, <2>5, <3>1 DEF Given, SomeGiven
  <2>7. \A k \in 1..N : stack[k] \in Tying => k >= commitAt
    <3>1. \A k \in 1..N : stack[k] \in Tying => k = commitAt
      BY <2>4 DEF OneTying, Cookies
    <3> QED
      BY <1>0, <3>1
  <2>8. written
    BY <2>3 DEF Order, StackInv, TypeOK
  <2> QED
    BY <1>1, <2>1, <2>4, <2>6, <2>7, <2>8 DEF Cookies, SomeGiven, MayGive, flightVars
<1>4. CASE ~(HeaderStep /\ Call = TyingCookie)
  <2>1. \/ \A i : Given(i)' <=> Given(i)
        \/ \A i : ~Given(i)'
    <3>1. CASE wrapped'["Set-Cookie"] = wrapped["Set-Cookie"]
      BY <3>1 DEF Given
    <3>2. CASE /\ HeaderStep /\ Call.op = "cookie"
               /\ wrapped'["Set-Cookie"] = Append(wrapped["Set-Cookie"], Call.val)
      <4>1. Call.val # "xsrf-cookie"
        <5>1. Call \in [op : {"cookie"}, val : Values]
          BY <3>2, HeaderStepDoes DEF AllCalls, PanicOf, FSWrite
        <5> QED
          BY <1>4, <3>2, <5>1 DEF TyingCookie, CookieOf
      <4>2. ASSUME NEW i
            PROVE  Given(i)' <=> Given(i)
        <5> DEFINE old == wrapped["Set-Cookie"]
                   new == Append(old, Call.val)
        <5>1. /\ Len(old) \in Nat /\ DOMAIN old = 1..Len(old) /\ DOMAIN new = 1..Len(old) + 1
              /\ new[Len(old) + 1] = Call.val /\ \A j \in 1..Len(old) : new[j] = old[j]
          BY <1>0 DEF HeaderValues
        <5>2. (i \in DOMAIN new /\ new[i] = "xsrf-cookie")
                <=> (i \in DOMAIN old /\ old[i] = "xsrf-cookie")
          <6> HIDE DEF old, new
          <6> QED
            BY <4>1, <5>1
        <5> QED
          BY <3>2, <5>2 DEF Given
      <4> QED
        BY <4>2
    <3>3. CASE wrapped'["Set-Cookie"] = <<>>
      BY <3>3 DEF Given
    <3> QED
      BY <3>1, <3>2, <3>3, CookieMoves
  <2>2. SomeGiven' => SomeGiven
    BY <2>1 DEF SomeGiven
  <2>3. stack' \in Stacks /\ (\A i, j : Given(i)' /\ Given(j)' => i = j)
    BY <1>1, <2>1 DEF Cookies
  <2>4. SomeGiven' => MayGive' /\ written'
    <3>1. written => written'
      BY DEF StackNext, StackStep, stackVars, allVars, vars, flightVars, HeaderStep, PanicStep,
         UserPanic, PutStep, FuncStep, WriteStep, WriteError, Write, EnterWrite, CommitStep,
         CommitReturn, DispatchStep, DispatchResponse, BeforeStep, BeforeReturn, HandlerStep,
         HandlerReturnWritten, HandlerReturnNothing, EndStep, ClearAndRepanic, ServerFinish,
         OuterRecover, FSSetStep, FSStatusStep, FSWriteStep, FileBody
    <3> QED
      BY <1>1, <2>2, <3>1 DEF Cookies, MayGive
  <2>5. ASSUME pc' = "commit"
        PROVE  /\ SomeGiven' => \A k \in 1..N : stack[k] \in Tying => k >= commitAt'
               /\ In(TyingCookie, script') =>
                    /\ ~SomeGiven' /\ MayGive /\ commitAt' \in 1..N
                    /\ stack[commitAt'] \in Tying /\ ~In(TyingCookie, Tail(script'))
    <3>1. CASE pc = "user"
      <4>1. WriteStep(CommitOf(N, Call.kind))
        BY <2>5, <3>1 DEF StackNext, StackStep, stackVars, allVars, vars, flightVars,
           HeaderStep, PanicStep, UserPanic, PutStep, FuncStep, CommitStep,
           CommitReturn, DispatchStep, DispatchResponse, BeforeStep, BeforeReturn, HandlerStep,
           HandlerReturnWritten, HandlerReturnNothing, EndStep, ClearAndRepanic, ServerFinish,
           OuterRecover, FSSetStep, FSStatusStep, FSWriteStep, FileBody, InCommit, InUser
      <4>2. commitAt' = N /\ script' = CommitOf(N, Call.kind) /\ ~written
        BY <4>1 DEF WriteStep, WriteError, Write, EnterWrite, MayWrite
      <4>3. ~SomeGiven' /\ N \in 0..N
        BY <1>0, <2>2, <4>2 DEF Cookies
      <4> QED
        BY <4>2, <4>3, CommitGives
    <3>2. CASE pc = "commit" /\ CommitStep(CommitOf(commitAt - 1, resp))
      <4>1. commitAt > 0 /\ commitAt' = commitAt - 1 /\ script' = CommitOf(commitAt - 1, resp)
        BY <3>2 DEF CommitStep, CommitReturn, InCommit, CommitPending
      <4>2. commitAt - 1 \in 0..N /\ \A k \in 1..N : k >= commitAt => k >= commitAt - 1
        BY <1>0, <4>1
      <4>3. SomeGiven => \A k \in 1..N : stack[k] \in Tying => k >= commitAt
        BY <3>2 DEF Cookies
      <4>4. SomeGiven => commitAt - 1 \notin 1..N \/ stack[commitAt - 1] \notin Tying
        BY <1>0, <4>1, <4>3
      <4> QED
        BY <2>2, <4>1, <4>2, <4>3, <4>4, CommitGives
    <3>3. CASE pc = "commit" /\ ~CommitStep(CommitOf(commitAt - 1, resp))
      <4>1. /\ commitAt' = commitAt
            /\ script' = script \/ (Ready /\ script' = Tail(script))
        BY <2>5, <3>3 DEF StackNext, StackStep, stackVars, allVars, vars, flightVars,
           programVars, HeaderStep, PanicStep, UserPanic, PutStep, FuncStep, WriteStep,
           WriteError, Write, EnterWrite, DispatchStep, DispatchResponse, BeforeStep,
           BeforeReturn, HandlerStep, HandlerReturnWritten, HandlerReturnNothing, EndStep,
           ClearAndRepanic, ServerFinish, OuterRecover, FSSetStep, FSStatusStep, FSWriteStep,
           InUser
      <4>2. Ready /\ In(TyingCookie, Tail(script)) => FALSE
        BY <1>2, <3>3 DEF Cookies
      <4>3. In(TyingCookie, script') => script' = script
        BY <4>1, <4>2
      <4> QED
        BY <2>2, <3>3, <4>1, <4>3 DEF Cookies
    <3>4. pc \in {"user", "commit"}
      BY <2>5 DEF StackNext, StackStep, stackVars, allVars, vars, flightVars, HeaderStep, Ready,
         Running, PanicStep, UserPanic, PutStep, FuncStep, WriteStep, CommitStep, CommitReturn,
         DispatchStep, DispatchResponse, BeforeStep, BeforeReturn, HandlerStep,
         HandlerReturnWritten, HandlerReturnNothing, EndStep, ClearAndRepanic, ServerFinish,
         OuterRecover, FSSetStep, FSStatusStep, FSWriteStep, InCommit, InUser
    <3> QED
      BY <3>1, <3>2, <3>3, <3>4
  <2> QED
    BY <1>1, <2>3, <2>4, <2>5 DEF Cookies, MayGive
<1> QED
  BY <1>3, <1>4

\* A browser gets one new cookie at most, only if it had none, and never on a request that
\* may change something.
THEOREM OneCookieGiven ==
  ASSUME OneTying, NoneGiven
  PROVE  StackSpec => []CookieOnce
<1>1. StackInit => Cookies
  BY DEF StackInit, Init, NewHeader, NoneGiven, Cookies, Given, SomeGiven
<1>2. StackInv /\ Order /\ Headers /\ Headers' /\ WhoCalls /\ Cookies /\ [StackNext]_stackVars
        => Cookies'
  BY CookiesStep
<1>3. Cookies => CookieOnce
  <2> SUFFICES ASSUME Cookies PROVE CookieOnce
    OBVIOUS
  <2> DEFINE given == {i \in DOMAIN wrapped["Set-Cookie"] :
                         wrapped["Set-Cookie"][i] = "xsrf-cookie"}
  <2>1. \A i : i \in given <=> Given(i)
    BY DEF Given
  <2> HIDE DEF given
  <2>2. given = {} \/ \E i : given = {i}
    <3>1. \A i, j : Given(i) /\ Given(j) => i = j
      BY DEF Cookies
    <3>2. \A i, j : i \in given /\ j \in given => i = j
      BY <2>1, <3>1
    <3> QED
      BY <3>2
  <2>3. Cardinality(given) \in {0, 1}
    BY <2>2, FS_EmptySet, FS_Singleton
  <2>4. given # {} => MayGive
    BY <2>1 DEF Cookies, SomeGiven
  <2>5. Cardinality(given) <= 1
    BY <2>3
  <2> QED
    BY <2>4, <2>5 DEF given, CookieOnce, MayGive
<1> QED
  BY <1>1, <1>2, <1>3, FlightInv, WhoCallsHolds, PTL DEF StackSpec

-----------------------------------------------------------------------------
(* What the answer carries.                                                 *)

\* What an interceptor wants of the answer: a value of a header, alone or among others.
Goal(n, v) == [name |-> n, val |-> v]

PolicyGoals(policy, only) ==
  IF policy.override = "disabled" THEN {} ELSE {Goal(HeaderFor(policy, only), policy.text)}

Goals(kind, r, d) ==
  CASE kind = "static" -> {Goal(XCTO, "nosniff"), Goal(XXP, "0")}
    [] kind \in {"hsts", "hsts-proxy"} -> IF d THEN {} ELSE {Goal(HSTS, "max-age")}
    [] kind = "coop" -> {IF r.config = "coop" THEN Goal(COOPReportOnly, "coop-report")
                                                ELSE Goal(COOP, "same-origin")}
    [] kind = "reporting"  -> {Goal(ReportTo, "group"), Goal(ReportTo, "more")}
    [] kind = "csp-strict" -> PolicyGoals(StrictPolicy(r.config), FALSE)
    [] kind = "csp-types"  -> PolicyGoals(TrustedTypesPolicy(r.config), FALSE)
    [] kind = "csp-report" -> PolicyGoals(TrustedTypesPolicy(r.config), TRUE)
    [] kind = "csp-frames" -> PolicyGoals(FramingPolicy(r.config), FALSE)
    [] kind = "xfo" -> IF r.config \in FramingConfigs THEN {} ELSE {Goal(XFO, "SAMEORIGIN")}
    [] OTHER -> {}

\* What the installed interceptors want of the answer to this request.
Wants == [i \in 1..N |-> Goals(stack[i], req, dev)]

\* Names to which several interceptors contribute.
CspNames    == {CSP, CSPReportOnly}
SharedNames == CspNames \cup {ReportTo}

Good(g, vs) ==
  IF g.name \in SharedNames THEN \E i \in DOMAIN vs : vs[i] = g.val ELSE vs = <<g.val>>

\* A call that reaches a goal.
Brings(c, g) ==
  /\ c.op \in {"setter", "add"} /\ c.name = g.name
  /\ c.op = "setter" => Good(g, c.vals)
  /\ c.op = "add" => g.name = ReportTo /\ c.val = g.val

\* A goal is reached, or will be; so is the claim that keeps others from undoing it.
\* Nobody claims Report-To, to which everybody adds.
Reached(g, h, cl) == Good(g, h[g.name]) /\ (g.name = ReportTo \/ g.name \in cl)
Coming(g, s, h, cl) ==
  /\ Good(g, h[g.name]) \/ \E k \in 1..Len(s) : Brings(s[k], g)
  /\ g.name = ReportTo \/ g.name \in cl \/ In(ClaimOf(g.name), s)

\* No interceptor before actor a wants anything of a header.
Fresh(w, a, n) == \A i \in 1..N : i < a => \A g \in w[i] : g.name # n

\* What precedes a call in a script, and the setter of a policy, which extends what is there
\* when it is called.
Earlier(c, s, k) == \E j \in 1..(k - 1) : s[j] = c
Extends(s, k, h) ==
  /\ s[k].name \in CspNames /\ \E v \in UsedValues : s[k].vals = Append(h[s[k].name], v)
  /\ \A j \in 1..(k - 1) : s[j].op \in {"claim", "put"}

\* A script undoes nothing: it sets headers that it claims itself, or those of the csp
\* interceptors, whose closures it finds only if they were claimed.
Tidy(w, a, s, h, cl) ==
  \A k \in 1..Len(s) :
    /\ s[k].op = "setter" =>
         /\ Fresh(w, a, s[k].name) \/ Earlier(ClaimOf(s[k].name), s, k) \/ Extends(s, k, h)
         /\ \A g \in w[a] : g.name = s[k].name => Good(g, s[k].vals)
    /\ s[k] = PutOf("csp-headers") =>
         \A n \in CspNames : n \in cl \/ Earlier(ClaimOf(n), s, k)

\* Whose closures the first csp interceptor leaves in the values of the flight, it has claimed.
Shared == "csp-headers" \in values => CspNames \subseteq claimed

\* What is left to do of an interceptor's Before.
Body == IF pc = "commit" THEN frame ELSE script

Upheld ==
  /\ pc # "crashed" => \A i \in 1..N : i < cur => \A g \in Wants[i] : Reached(g, wrapped, claimed)
  /\ pc = "user" /\ ~written /\ cur <= N =>
       Stops(script) \/ \A g \in Wants[cur] : Coming(g, script, wrapped, claimed)
  /\ pc \in {"user", "commit"} /\ cur <= N => Tidy(Wants, cur, Body, wrapped, claimed)
  /\ Shared

\* The connection, once something was sent.
Carried ==
  /\ wire.by \in {"server", "outer"} => Over
  /\ Answered => \A i \in 1..N : i < cur => \A g \in Wants[i] : Good(g, wire.hdr[g.name])

\* What scripts that are put together have at each place.
LEMMA Places2 ==
  ASSUME NEW s \in Seq(AllCalls), NEW t \in Seq(AllCalls)
  PROVE  /\ s \o t \in Seq(AllCalls) /\ Len(s \o t) = Len(s) + Len(t)
         /\ Len(s) \in Nat /\ Len(t) \in Nat
         /\ \A k \in 1..Len(s) : (s \o t)[k] = s[k]
         /\ \A k \in 1..Len(t) : (s \o t)[Len(s) + k] = t[k]
<1>1. /\ Len(s) \in Nat /\ Len(t) \in Nat /\ Len(s \o t) = Len(s) + Len(t)
      /\ s \o t \in Seq(AllCalls)
      /\ \A k \in 1..Len(s) + Len(t) : (s \o t)[k] = IF k <= Len(s) THEN s[k] ELSE t[k - Len(s)]
  BY LenProperties, ConcatProperties
<1>2. ASSUME NEW k \in 1..Len(t) PROVE (s \o t)[Len(s) + k] = t[k]
  <2>1. Len(s) + k \in 1..Len(s) + Len(t) /\ ~(Len(s) + k <= Len(s)) /\ (Len(s) + k) - Len(s) = k
    BY <1>1
  <2> QED
    BY <1>1, <2>1
<1> QED
  BY <1>1, <1>2

\* The names that goals are about are claimed by interceptors or Report-To, and no name of
\* the cors plugin.
LEMMA GoalNames ==
  ASSUME NEW kind, NEW r, NEW d, NEW g \in Goals(kind, r, d)
  PROVE  /\ g.name \in PluginNames /\ g.name \notin CorsNames /\ g.name # "Set-Cookie"
         /\ g.name \notin DispatcherNames \/ (g.name = XCTO /\ g.val = "nosniff")
         /\ g.val \in UsedValues
<1> DEFINE fits(x) == /\ x.name \in PluginNames \ CorsNames /\ x.name # "Set-Cookie"
                      /\ x.name \notin DispatcherNames \/ (x.name = XCTO /\ x.val = "nosniff")
                      /\ x.val \in UsedValues
<1>0. \A n, v : Goal(n, v).name = n /\ Goal(n, v).val = v
  BY DEF Goal
<1>1. \A n \in PluginNames : n # "Set-Cookie" /\ n \notin CorsNames
                            /\ (n # XCTO => n \notin DispatcherNames)
  BY DEF PluginNames, CorsNames, XCTO, XXP, HSTS, COOP, COOPReportOnly, CSP, CSPReportOnly, XFO,
     ReportTo, Vary, AllowOrigin, AllowCreds, AllowMethods, AllowHeaders, MaxAge, ExposeHeaders,
     DispatcherNames
<1>2. \A n \in PluginNames \ {XCTO}, v \in UsedValues : fits(Goal(n, v))
  BY <1>0, <1>1
<1>3. {"nosniff", "0", "max-age", "coop-report", "same-origin", "group", "more", "SAMEORIGIN"}
        \subseteq UsedValues
  BY DEF UsedValues
<1>4. fits(Goal(XCTO, "nosniff"))
  BY <1>0, <1>1, <1>3 DEF PluginNames
<1>5. {XXP, HSTS, COOP, COOPReportOnly, CSP, CSPReportOnly, XFO, ReportTo}
        \subseteq PluginNames \ {XCTO}
  BY DEF PluginNames, XCTO, XXP, HSTS, COOP, COOPReportOnly, CSP, CSPReportOnly, XFO, ReportTo
<1>6. ASSUME NEW policy, policy.text \in UsedValues, NEW only
      PROVE  \A x \in PolicyGoals(policy, only) : fits(x)
  <2>1. HeaderFor(policy, only) \in {CSP, CSPReportOnly}
    BY DEF HeaderFor
  <2>2. fits(Goal(HeaderFor(policy, only), policy.text))
    BY <1>2, <1>5, <1>6, <2>1
  <2> QED
    BY <2>2 DEF PolicyGoals
<1> HIDE DEF fits
<1>7. CASE kind \in {"csp-strict", "csp-types", "csp-report", "csp-frames"}
  <2>1. Goals(kind, r, d) \in {PolicyGoals(StrictPolicy(r.config), FALSE),
                        PolicyGoals(TrustedTypesPolicy(r.config), FALSE),
                        PolicyGoals(TrustedTypesPolicy(r.config), TRUE),
                        PolicyGoals(FramingPolicy(r.config), FALSE)}
    BY <1>7 DEF Goals
  <2> QED
    BY <1>6, <2>1, PolicyTexts DEF fits
<1>8. \/ Goals(kind, r, d) \subseteq {Goal(XCTO, "nosniff"), Goal(XXP, "0"), Goal(HSTS, "max-age")}
      \/ Goals(kind, r, d) \subseteq {Goal(COOPReportOnly, "coop-report"), Goal(COOP, "same-origin"),
                               Goal(ReportTo, "group"), Goal(ReportTo, "more"),
                               Goal(XFO, "SAMEORIGIN")}
      \/ kind \in {"csp-strict", "csp-types", "csp-report", "csp-frames"}
  BY DEF Goals
<1>9. fits(g)
  BY <1>2, <1>3, <1>4, <1>5, <1>7, <1>8 DEF fits
<1> QED
  BY <1>9 DEF fits

\* What is wanted is what protects the answer.
LEMMA GoalsProtect ==
  ASSUME StackInv, NEW kind, NEW h, \A g \in Goals(kind, req, dev) : Good(g, h[g.name])
  PROVE  Protects(kind, h)
<1>1. ASSUME NEW policy, NEW only, \A g \in PolicyGoals(policy, only) : Good(g, h[g.name])
      PROVE  CspIn(h, policy, only)
  BY <1>1 DEF PolicyGoals, Goal, HeaderFor, CspIn, InHeader, Good, SharedNames, CspNames
<1>2. CASE kind = "csp-strict"
  BY <1>1, <1>2 DEF Goals, Protects
<1>3. CASE kind = "csp-types"
  BY <1>1, <1>3 DEF Goals, Protects
<1>4. CASE kind = "csp-frames"
  BY <1>1, <1>4 DEF Goals, Protects
<1>5. CASE kind = "static"
  BY <1>5 DEF Goals, Protects, Goal, Good, SharedNames, CspNames, XCTO, XXP, CSP, CSPReportOnly,
     ReportTo
<1>6. ASSUME NEW n \in {HSTS, COOP, COOPReportOnly}, NEW v, Good(Goal(n, v), h[n])
      PROVE  h[n] # <<>>
  <2>1. h[n] = <<v>>
    BY <1>6 DEF Goal, Good, SharedNames, CspNames, HSTS, COOP, COOPReportOnly, CSP,
       CSPReportOnly, ReportTo
  <2> QED
    BY <2>1
<1>10. \A n, v : Goal(n, v).name = n
  BY DEF Goal
<1>12. CASE kind = "csp-report"
  BY <1>1, <1>12 DEF Goals, Protects
<1>11. CASE kind \in {"hsts", "hsts-proxy"}
  <2>1. ~dev => Goal(HSTS, "max-age") \in Goals(kind, req, dev)
    BY <1>11 DEF Goals
  <2>2. ~dev => h[HSTS] # <<>>
    BY <1>6, <1>10, <2>1
  <2> QED
    BY <1>11, <2>2 DEF Protects
<1>7. CASE kind = "coop"
  <2> DEFINE n == IF req.config = "coop" THEN COOPReportOnly ELSE COOP
  <2>1. \E v : Goal(n, v) \in Goals(kind, req, dev)
    BY <1>7 DEF Goals
  <2>2. n \in {HSTS, COOP, COOPReportOnly}
    OBVIOUS
  <2> HIDE DEF n
  <2>3. h[n] # <<>>
    BY <1>6, <1>10, <2>1, <2>2
  <2> QED
    BY <1>7, <2>3 DEF Protects, n
<1>8. CASE kind = "reporting"
  BY <1>8 DEF Goals, Protects, Goal, Good, SharedNames, InHeader
<1>9. CASE kind = "xfo"
  BY <1>9 DEF Goals, Protects, Goal, Good, SharedNames, CspNames, XFO, CSP, CSPReportOnly,
     ReportTo
<1> QED
  BY <1>2, <1>3, <1>4, <1>5, <1>7, <1>8, <1>9, <1>11, <1>12 DEF Protects

\* A call that touches no goal.
Harmless(c) == (c.op = "setter" => c.name \in CorsNames) /\ c # PutOf("csp-headers")

\* The calls of pairs, and of three and four scripts put together.
LEMMA InMore ==
  /\ \A c, d, e : In(c, <<d, e>>) => c = d \/ c = e
  /\ \A s, t, u \in Seq(AllCalls) : \A c :
       /\ s \o t \o u \in Seq(AllCalls)
       /\ In(c, s \o t \o u) => In(c, s) \/ In(c, t) \/ In(c, u)
  /\ \A s, t, u, v \in Seq(AllCalls) : \A c :
       In(c, s \o t \o u \o v) => In(c, s) \/ In(c, t) \/ In(c, u) \/ In(c, v)
<1>1. \A c, d, e : In(c, <<d, e>>) => c = d \/ c = e
  BY DEF In
<1>2. ASSUME NEW s \in Seq(AllCalls), NEW t \in Seq(AllCalls), NEW u \in Seq(AllCalls), NEW c
      PROVE  /\ s \o t \o u \in Seq(AllCalls)
             /\ In(c, s \o t \o u) => In(c, s) \/ In(c, t) \/ In(c, u)
  <2> DEFINE st == s \o t
  <2>1. st \in Seq(AllCalls) /\ (In(c, st) <=> In(c, s) \/ In(c, t))
    BY InLemma, Scripts
  <2> HIDE DEF st
  <2>2. st \o u \in Seq(AllCalls) /\ (In(c, st \o u) <=> In(c, st) \/ In(c, u))
    BY <2>1, InLemma, Scripts
  <2> QED
    BY <2>1, <2>2 DEF st
<1>3. ASSUME NEW s \in Seq(AllCalls), NEW t \in Seq(AllCalls), NEW u \in Seq(AllCalls),
             NEW v \in Seq(AllCalls), NEW c, In(c, s \o t \o u \o v)
      PROVE  In(c, s) \/ In(c, t) \/ In(c, u) \/ In(c, v)
  <2> DEFINE stu == s \o t \o u
  <2>1. stu \in Seq(AllCalls) /\ (In(c, stu) => In(c, s) \/ In(c, t) \/ In(c, u))
    BY <1>2
  <2>2. In(c, stu \o v)
    BY <1>3
  <2> HIDE DEF stu
  <2> QED
    BY <2>1, <2>2, InLemma
<1> QED
  BY <1>1, <1>2, <1>3

\* What the cors plugin does for a preflight, and for any other request, beside answering
\* about the origin.
LEMMA CorsCallsAre ==
  ASSUME NEW r \in Requests, NEW it \in {CorsSettings("cors"), CorsSettings("cors-default")}, NEW c
  PROVE  /\ PreflightPasses(r, it) /\ In(c, PreflightCalls(r, it)) =>
              \/ \E n \in {AllowMethods, AllowHeaders, MaxAge} : c = ClaimOf(n)
              \/ \E n \in {AllowMethods, AllowHeaders, MaxAge} : \E vs : c = SetterOf(n, vs)
         /\ In(c, RequestCalls(it)) =>
              c = ClaimOf(ExposeHeaders) \/ \E vs : c = SetterOf(ExposeHeaders, vs)
<1>1. ASSUME PreflightPasses(r, it), In(c, PreflightCalls(r, it))
      PROVE  \/ \E n \in {AllowMethods, AllowHeaders, MaxAge} : c = ClaimOf(n)
             \/ \E n \in {AllowMethods, AllowHeaders, MaxAge} : \E vs : c = SetterOf(n, vs)
  <2> DEFINE first == <<ClaimOf(AllowMethods), ClaimOf(AllowHeaders), ClaimOf(MaxAge),
                        SetterOf(AllowMethods, <<r.asksMethod>>)>>
             asked == IF r.asksHeaders = {} THEN <<>> ELSE <<SetterOf(AllowHeaders, <<"asked">>)>>
             age   == <<SetterOf(MaxAge, <<IF it.maxAge = 0 THEN "5" ELSE "max">>)>>
  <2>1. r.asksMethod \in Values /\ {"asked", "5", "max"} \subseteq Values
    BY <1>1, StackAssumption, Mentioned DEF PreflightPasses, UsedValues
  <2>2. /\ ClaimOf(AllowMethods) \in AllCalls /\ ClaimOf(AllowHeaders) \in AllCalls
        /\ ClaimOf(MaxAge) \in AllCalls
        /\ SetterOf(AllowMethods, <<r.asksMethod>>) \in AllCalls
        /\ SetterOf(AllowHeaders, <<"asked">>) \in AllCalls
        /\ SetterOf(MaxAge, <<IF it.maxAge = 0 THEN "5" ELSE "max">>) \in AllCalls
    BY <2>1, MakeCalls, Mentioned
  <2>3. first \in Seq(AllCalls) /\ asked \in Seq(AllCalls) /\ age \in Seq(AllCalls)
    BY <2>2, Scripts
  <2>4. /\ In(c, first) => c \in {ClaimOf(AllowMethods), ClaimOf(AllowHeaders), ClaimOf(MaxAge),
                                  SetterOf(AllowMethods, <<r.asksMethod>>)}
        /\ In(c, asked) => c = SetterOf(AllowHeaders, <<"asked">>)
        /\ In(c, age) => \E vs : c = SetterOf(MaxAge, vs)
    <3>1. In(c, first) => c \in {ClaimOf(AllowMethods), ClaimOf(AllowHeaders), ClaimOf(MaxAge),
                                 SetterOf(AllowMethods, <<r.asksMethod>>)}
      BY DEF In
    <3>2. /\ In(c, asked) => c = SetterOf(AllowHeaders, <<"asked">>)
          /\ In(c, age) => \E vs : c = SetterOf(MaxAge, vs)
      BY InLemma
    <3> QED
      BY <3>1, <3>2
  <2>5. PreflightCalls(r, it) = first \o asked \o age
    BY DEF PreflightCalls
  <2> HIDE DEF first, asked, age
  <2>6. In(c, first \o asked \o age)
    BY <1>1, <2>5
  <2>7. In(c, first) \/ In(c, asked) \/ In(c, age)
    BY <2>3, <2>6, InMore
  <2> QED
    BY <2>4, <2>7
<1>2. ASSUME In(c, RequestCalls(it))
      PROVE  c = ClaimOf(ExposeHeaders) \/ \E vs : c = SetterOf(ExposeHeaders, vs)
  <2> DEFINE claims == <<ClaimOf(ExposeHeaders)>>
             sets   == <<SetterOf(ExposeHeaders, <<"exposed">>)>>
  <2>1. "exposed" \in UsedValues /\ <<"exposed">> # <<>>
    BY DEF UsedValues
  <2>2. claims \in Seq(AllCalls) /\ sets \in Seq(AllCalls) /\ <<>> \in Seq(AllCalls)
    BY <2>1, MakeCalls, Mentioned, Scripts
  <2>3. In(c, claims \o <<>>) \/ In(c, claims \o sets)
    BY <1>2, <2>1 DEF RequestCalls, ClaimAndSet
  <2>4. In(c, claims) => c = ClaimOf(ExposeHeaders)
    BY InLemma
  <2>5. In(c, sets) => c = SetterOf(ExposeHeaders, <<"exposed">>)
    BY InLemma
  <2>6. ~In(c, <<>>)
    BY InLemma
  <2> HIDE DEF claims, sets
  <2>7. In(c, claims) \/ In(c, sets)
    BY <2>2, <2>3, <2>6, InLemma
  <2> QED
    BY <2>4, <2>5, <2>7
<1> QED
  BY <1>1, <1>2

\* The calls of the cors plugin touch none.
LEMMA CorsHarmless ==
  ASSUME NEW r \in Requests, NEW it \in {CorsSettings("cors"), CorsSettings("cors-default")},
         NEW c, In(c, Cors(r, it))
  PROVE  Harmless(c)
<1> DEFINE ours   == <<ClaimOf(AllowOrigin), ClaimOf(AllowCreds)>>
           refuse == <<WriteOf("error")>>
           origin == IF r.origin = "" THEN <<>>
                     ELSE <<SetterOf(AllowOrigin, <<r.origin>>), VaryOrigin>>
           creds == IF SendsCookies(r) /\ it.credentials THEN <<SetterOf(AllowCreds, <<"true">>)>>
                                                           ELSE <<>>
<1>1. /\ \A n : Harmless(ClaimOf(n))
      /\ \A n \in CorsNames : \A vs : Harmless(SetterOf(n, vs))
      /\ \A n, v : Harmless(SetOf(n, v))
      /\ \A k : Harmless(WriteOf(k))
  BY DEF Harmless, ClaimOf, SetterOf, SetOf, WriteOf, PutOf
<1>2. {AllowOrigin, AllowCreds, AllowMethods, AllowHeaders, MaxAge, ExposeHeaders} \subseteq CorsNames
  BY DEF CorsNames
<1>3. In(c, ours) \/ In(c, refuse) \/ In(c, <<WriteOf("nocontent")>>)
        \/ In(c, <<ClaimOf(AllowOrigin)>>) => Harmless(c)
  BY <1>1 DEF In
<1>5. In(c, origin) \/ In(c, creds) => Harmless(c)
  <2>1. \E v : VaryOrigin = SetOf(Vary, v)
    BY DEF VaryOrigin
  <2>2. In(c, origin) => \/ c = SetterOf(AllowOrigin, <<r.origin>>)
                         \/ c = VaryOrigin
    <3>1. CASE r.origin = ""
      BY <3>1, InLemma
    <3>2. CASE r.origin # ""
      <4>1. In(c, <<SetterOf(AllowOrigin, <<r.origin>>), VaryOrigin>>) =>
              c = SetterOf(AllowOrigin, <<r.origin>>) \/ c = VaryOrigin
        BY InMore
      <4> QED
        BY <3>2, <4>1
    <3> QED
      BY <3>1, <3>2
  <2>3. In(c, creds) => c = SetterOf(AllowCreds, <<"true">>)
    BY InLemma
  <2> QED
    BY <1>1, <1>2, <2>1, <2>2, <2>3
<1>6. PreflightPasses(r, it) /\ In(c, PreflightCalls(r, it)) => Harmless(c)
  BY <1>1, <1>2, CorsCallsAre
<1>7. OriginTrusted(r, it) /\ In(c, CorsAnswer(r, it)) => Harmless(c)
  <2> SUFFICES ASSUME OriginTrusted(r, it), In(c, CorsAnswer(r, it)) PROVE Harmless(c)
    OBVIOUS
  <2>1. {"friend", "true", "Origin", "Accept, Origin"} \subseteq Values
    BY Mentioned DEF UsedValues
  <2>9. it.origins \subseteq {"friend"}
    BY DEF CorsSettings
  <2>2. r.origin # "" => r.origin \in Values
    BY <2>1, <2>9 DEF OriginTrusted
  <2>3. r.origin # "" => SetterOf(AllowOrigin, <<r.origin>>) \in AllCalls
    BY <2>2, MakeCalls, Mentioned
  <2>4. VaryOrigin \in AllCalls /\ SetterOf(AllowCreds, <<"true">>) \in AllCalls
    BY <2>1, MakeCalls, Mentioned DEF VaryOrigin
  <2>5. origin \in Seq(AllCalls)
    <3>1. CASE r.origin = ""
      BY <3>1, Scripts
    <3>2. CASE r.origin # ""
      <4>1. <<SetterOf(AllowOrigin, <<r.origin>>), VaryOrigin>> \in Seq(AllCalls)
        BY <2>3, <2>4, <3>2, Scripts
      <4> QED
        BY <3>2, <4>1
    <3> QED
      BY <3>1, <3>2
  <2>6. creds \in Seq(AllCalls)
    BY <2>4, Scripts
  <2>7. CorsAnswer(r, it) = origin \o creds
    BY DEF CorsAnswer
  <2> HIDE DEF origin, creds
  <2> QED
    BY <1>5, <2>5, <2>6, <2>7, InLemma
<1>8. In(c, RequestCalls(it)) => Harmless(c)
  BY <1>1, <1>2, CorsCallsAre
<1>9. /\ ours \in Seq(AllCalls) /\ refuse \in Seq(AllCalls)
      /\ <<ClaimOf(AllowOrigin)>> \in Seq(AllCalls) /\ <<WriteOf("nocontent")>> \in Seq(AllCalls)
  BY MakeCalls, Mentioned, Scripts
<1>10. \/ Cors(r, it) \in {refuse, <<ClaimOf(AllowOrigin)>> \o refuse, ours \o refuse}
       \/ /\ OriginTrusted(r, it) /\ PreflightPasses(r, it)
          /\ Cors(r, it) =
               ours \o PreflightCalls(r, it) \o CorsAnswer(r, it) \o <<WriteOf("nocontent")>>
       \/ OriginTrusted(r, it) /\ Cors(r, it) = ours \o RequestCalls(it) \o CorsAnswer(r, it)
  BY DEF Cors
<1>11. CASE Cors(r, it) \in {refuse, <<ClaimOf(AllowOrigin)>> \o refuse, ours \o refuse}
  <2> DEFINE claim == <<ClaimOf(AllowOrigin)>>
  <2>1. \/ In(c, refuse) \/ In(c, claim \o refuse) \/ In(c, ours \o refuse)
    BY <1>11
  <2>2. claim \in Seq(AllCalls)
    BY <1>9
  <2>3. In(c, claim) => Harmless(c)
    BY <1>3
  <2> HIDE DEF ours, refuse, claim
  <2>4. In(c, refuse) \/ In(c, claim) \/ In(c, ours)
    BY <1>9, <2>1, <2>2, InLemma
  <2> QED
    BY <1>3, <2>3, <2>4
<1>12. CASE /\ OriginTrusted(r, it) /\ PreflightPasses(r, it)
            /\ Cors(r, it) =
                 ours \o PreflightCalls(r, it) \o CorsAnswer(r, it) \o <<WriteOf("nocontent")>>
  <2>1. PreflightCalls(r, it) \in Seq(AllCalls) /\ CorsAnswer(r, it) \in Seq(AllCalls)
    BY <1>12, CorsParts, BeforeScripts
  <2> DEFINE last == <<WriteOf("nocontent")>>
             preflight == PreflightCalls(r, it)
             answer == CorsAnswer(r, it)
  <2>2. In(c, ours \o preflight \o answer \o last)
    BY <1>12
  <2>3. last \in Seq(AllCalls) /\ preflight \in Seq(AllCalls) /\ answer \in Seq(AllCalls)
    BY <1>9, <2>1
  <2>4. /\ In(c, last) => Harmless(c)
        /\ In(c, preflight) => Harmless(c)
        /\ In(c, answer) => Harmless(c)
    BY <1>3, <1>6, <1>7, <1>12
  <2> HIDE DEF ours, last, preflight, answer
  <2>5. In(c, ours) \/ In(c, preflight) \/ In(c, answer) \/ In(c, last)
    BY <1>9, <2>2, <2>3, InMore
  <2> QED
    BY <1>3, <2>4, <2>5
<1>13. CASE OriginTrusted(r, it) /\ Cors(r, it) = ours \o RequestCalls(it) \o CorsAnswer(r, it)
  <2>1. RequestCalls(it) \in Seq(AllCalls) /\ CorsAnswer(r, it) \in Seq(AllCalls)
    BY <1>13, CorsParts, BeforeScripts
  <2> DEFINE answer == CorsAnswer(r, it)
             request == RequestCalls(it)
  <2>2. In(c, ours \o request \o answer)
    BY <1>13
  <2>3. request \in Seq(AllCalls) /\ answer \in Seq(AllCalls)
    BY <2>1
  <2>4. In(c, request) \/ In(c, answer) => Harmless(c)
    BY <1>7, <1>8, <1>13
  <2> HIDE DEF ours, answer, request
  <2>5. In(c, ours) \/ In(c, request) \/ In(c, answer)
    BY <1>9, <2>2, <2>3, InMore
  <2> QED
    BY <1>3, <2>4, <2>5
<1> QED
  BY <1>10, <1>11, <1>12, <1>13

\* A script of such calls is tidy.
LEMMA HarmlessTidy ==
  ASSUME NEW a \in 1..N, NEW s, \A c : In(c, s) => Harmless(c)
  PROVE  Tidy(Wants, a, s, wrapped, claimed)
<1>1. \A k \in 1..Len(s) : Harmless(s[k])
  BY DEF In
<1>2. \A n \in CorsNames : Fresh(Wants, a, n)
  BY GoalNames DEF Fresh, Wants
<1>3. \A g \in Wants[a] : g.name \notin CorsNames
  BY GoalNames DEF Wants
<1> QED
  BY <1>1, <1>2, <1>3 DEF Tidy, Harmless

\* What is shown of the script of an interceptor.
Fine(a, s) ==
  /\ Tidy(Wants, a, s, wrapped, claimed)
  /\ Stops(s) \/ \A g \in Wants[a] : Coming(g, s, wrapped, claimed)

\* A name is claimed, and set to what is wanted.
SetsWanted(a, s, k, n, v) ==
  /\ s[k] = SetterOf(n, <<v>>) /\ Earlier(ClaimOf(n), s, k) /\ n \notin SharedNames
  /\ \A g \in Wants[a] : g.name = n => g.val = v

\* Such is one that does this with all its names.
LEMMA ClaimsAndSets ==
  ASSUME NEW a, NEW s,
         \A k \in 1..Len(s) : s[k].op = "claim" \/ \E n, v : SetsWanted(a, s, k, n, v),
         \A g \in Wants[a] : \E k \in 1..Len(s) : s[k] = SetterOf(g.name, <<g.val>>),
         Len(s) \in Nat
  PROVE  Fine(a, s)
<1>1. \A n, v : /\ SetterOf(n, v).op = "setter" /\ SetterOf(n, v).name = n
                /\ SetterOf(n, v).vals = v
  BY DEF SetterOf
<1>2. \A k \in 1..Len(s) : s[k].op = "setter" => \E n, v : SetsWanted(a, s, k, n, v)
  OBVIOUS
<1>3. ASSUME NEW k \in 1..Len(s), s[k].op = "setter"
      PROVE  /\ Earlier(ClaimOf(s[k].name), s, k)
             /\ s[k].name \notin SharedNames
             /\ \A g \in Wants[a] : g.name = s[k].name => Good(g, s[k].vals)
  <2>1. PICK n, v : SetsWanted(a, s, k, n, v)
    BY <1>2, <1>3
  <2>2. s[k].name = n /\ s[k].vals = <<v>>
    BY <1>1, <2>1 DEF SetsWanted
  <2> QED
    BY <2>1, <2>2 DEF SetsWanted, Good
<1>4. ASSUME NEW k \in 1..Len(s) PROVE s[k].op \in {"claim", "setter"}
  <2>1. CASE s[k].op = "claim"
    BY <2>1
  <2>2. ASSUME NEW n, NEW v, SetsWanted(a, s, k, n, v) PROVE s[k].op = "setter"
    BY <1>1, <2>2 DEF SetsWanted
  <2> QED
    BY <2>1, <2>2
<1>5. Tidy(Wants, a, s, wrapped, claimed)
  BY <1>3, <1>4 DEF Tidy, PutOf
<1>6. ASSUME NEW g \in Wants[a] PROVE Coming(g, s, wrapped, claimed)
  <2>1. PICK k \in 1..Len(s) : s[k] = SetterOf(g.name, <<g.val>>)
    OBVIOUS
  <2>2. s[k].op = "setter" /\ s[k].name = g.name /\ s[k].vals = <<g.val>>
    BY <1>1, <2>1
  <2>3. g.name \notin SharedNames /\ Earlier(ClaimOf(g.name), s, k)
    BY <1>3, <2>2
  <2>4. Brings(s[k], g)
    BY <2>2, <2>3 DEF Brings, Good
  <2>5. PICK j \in 1..(k - 1) : s[j] = ClaimOf(g.name)
    BY <2>3 DEF Earlier
  <2>6. j \in 1..Len(s)
    OBVIOUS
  <2>7. In(ClaimOf(g.name), s)
    BY <2>5, <2>6 DEF In
  <2> QED
    BY <2>4, <2>7 DEF Coming
<1> QED
  BY <1>5, <1>6 DEF Fine

\* So are the static headers, HSTS, X-Frame-Options, and COOP.
LEMMA StaticFine ==
  ASSUME StackInv, NEW a \in 1..N, stack[a] = "static"
  PROVE  Fine(a, StaticHeaders)
<1> DEFINE s == StaticHeaders
<1>1. /\ Len(s) = 4 /\ s[1] = ClaimOf(XCTO) /\ s[2] = ClaimOf(XXP)
      /\ s[3] = SetterOf(XCTO, <<"nosniff">>) /\ s[4] = SetterOf(XXP, <<"0">>)
  BY DEF StaticHeaders
<1> HIDE DEF s
<1>2. Wants[a] = {Goal(XCTO, "nosniff"), Goal(XXP, "0")}
  BY DEF Goals, Wants
<1>3. XCTO # XXP /\ XCTO \notin SharedNames /\ XXP \notin SharedNames
  BY DEF XCTO, XXP, SharedNames, CspNames, CSP, CSPReportOnly, ReportTo
<1>4. ClaimOf(XCTO).op = "claim" /\ ClaimOf(XXP).op = "claim"
  BY DEF ClaimOf
<1>5. Earlier(ClaimOf(XCTO), s, 3) /\ Earlier(ClaimOf(XXP), s, 4)
  BY <1>1 DEF Earlier
<1>6. \A g \in Wants[a] : /\ g.name = XCTO => g.val = "nosniff"
                          /\ g.name = XXP => g.val = "0"
                          /\ g.name \in {XCTO, XXP}
  BY <1>2, <1>3 DEF Goal
<1>7. \A k \in 1..Len(s) : s[k].op = "claim" \/ \E n, v : SetsWanted(a, s, k, n, v)
  <2>1. SetsWanted(a, s, 3, XCTO, "nosniff") /\ SetsWanted(a, s, 4, XXP, "0")
    <3>1. /\ s[3] = SetterOf(XCTO, <<"nosniff">>) /\ XCTO \notin SharedNames
          /\ Earlier(ClaimOf(XCTO), s, 3) /\ \A g \in Wants[a] : g.name = XCTO => g.val = "nosniff"
      BY <1>1, <1>3, <1>5, <1>6
    <3>2. /\ s[4] = SetterOf(XXP, <<"0">>) /\ XXP \notin SharedNames
          /\ Earlier(ClaimOf(XXP), s, 4) /\ \A g \in Wants[a] : g.name = XXP => g.val = "0"
      BY <1>1, <1>3, <1>5, <1>6
    <3> QED
      BY <3>1, <3>2 DEF SetsWanted
  <2>2. s[1].op = "claim" /\ s[2].op = "claim"
    BY <1>1, <1>4
  <2>3. \A k \in 1..Len(s) : k = 1 \/ k = 2 \/ k = 3 \/ k = 4
    BY <1>1
  <2> QED
    BY <2>1, <2>2, <2>3
<1>8. ASSUME NEW g \in Wants[a] PROVE \E k \in 1..Len(s) : s[k] = SetterOf(g.name, <<g.val>>)
  <2>1. CASE g.name = XCTO
    <3>1. g.val = "nosniff" /\ 3 \in 1..Len(s)
      BY <1>1, <1>6, <2>1
    <3> QED
      BY <1>1, <2>1, <3>1
  <2>2. CASE g.name = XXP
    <3>1. g.val = "0" /\ 4 \in 1..Len(s)
      BY <1>1, <1>6, <2>2
    <3> QED
      BY <1>1, <2>2, <3>1
  <2> QED
    BY <1>6, <2>1, <2>2
<1>9. Fine(a, s)
  <2>1. Len(s) \in Nat
    BY <1>1
  <2> QED
    BY <1>7, <1>8, <2>1, ClaimsAndSets
<1> QED
  BY <1>9 DEF s

\* One setter, after the claim of its name.
LEMMA SetterFine ==
  ASSUME NEW a, NEW s, NEW n, NEW v, n \notin SharedNames, Wants[a] \subseteq {Goal(n, v)},
         NEW k \in 1..Len(s), NEW j \in 1..(k - 1), Len(s) \in Nat,
         s[j] = ClaimOf(n), s[k] = SetterOf(n, <<v>>),
         \A l \in 1..Len(s) : l # k => s[l].op = "claim"
  PROVE  Fine(a, s)
<1>1. \A g \in Wants[a] : g.name = n /\ g.val = v
  BY DEF Goal
<1>2. Earlier(ClaimOf(n), s, k)
  BY DEF Earlier
<1>3. SetsWanted(a, s, k, n, v)
  BY <1>1, <1>2 DEF SetsWanted
<1>5. \A l \in 1..Len(s) : s[l].op = "claim" \/ \E m, w : SetsWanted(a, s, l, m, w)
  BY <1>3
<1>4. \A g \in Wants[a] : \E l \in 1..Len(s) : s[l] = SetterOf(g.name, <<g.val>>)
  BY <1>1
<1> QED
  BY <1>4, <1>5, ClaimsAndSets

\* Claiming a name and setting it, in two scripts and in one.
LEMMA ClaimAndSetIs ==
  ASSUME NEW n \in OwnedNames, NEW v \in Values
  PROVE  /\ ClaimAndSet(n, <<v>>) \in Seq(AllCalls) /\ Len(ClaimAndSet(n, <<v>>)) = 2
         /\ ClaimAndSet(n, <<v>>)[1] = ClaimOf(n) /\ ClaimAndSet(n, <<v>>)[2] = SetterOf(n, <<v>>)
         /\ ClaimAndSet(n, <<>>) \in Seq(AllCalls) /\ Len(ClaimAndSet(n, <<>>)) = 1
         /\ ClaimAndSet(n, <<>>)[1] = ClaimOf(n)
<1> DEFINE s == <<ClaimOf(n)>>
           t == <<SetterOf(n, <<v>>)>>
           e == <<>>
<1>1. s \in Seq(AllCalls) /\ t \in Seq(AllCalls) /\ e \in Seq(AllCalls)
  BY MakeCalls, Mentioned, Scripts
<1>2. /\ Len(s) = 1 /\ s[1] = ClaimOf(n) /\ Len(t) = 1 /\ t[1] = SetterOf(n, <<v>>) /\ Len(e) = 0
  OBVIOUS
<1>3. ClaimAndSet(n, <<v>>) = s \o t /\ ClaimAndSet(n, <<>>) = s \o e
  BY DEF ClaimAndSet
<1> HIDE DEF s, t, e
<1>4. /\ s \o t \in Seq(AllCalls) /\ Len(s \o t) = 2
      /\ (s \o t)[1] = ClaimOf(n) /\ (s \o t)[2] = SetterOf(n, <<v>>)
  <2> DEFINE st == s \o t
  <2>1. /\ st \in Seq(AllCalls) /\ Len(st) = Len(s) + Len(t)
        /\ \A k \in 1..Len(s) : st[k] = s[k]
        /\ \A k \in 1..Len(t) : st[Len(s) + k] = t[k]
    BY <1>1, Places2
  <2> HIDE DEF st
  <2>2. Len(st) = 2 /\ st[1] = s[1] /\ st[2] = t[1]
    BY <1>2, <2>1
  <2> QED
    BY <1>2, <2>1, <2>2 DEF st
<1>5. /\ s \o e \in Seq(AllCalls) /\ Len(s \o e) = 1 /\ (s \o e)[1] = ClaimOf(n)
  <2> DEFINE se == s \o e
  <2>1. /\ se \in Seq(AllCalls) /\ Len(se) = Len(s) + Len(e)
        /\ \A k \in 1..Len(s) : se[k] = s[k]
    BY <1>1, Places2
  <2> HIDE DEF se
  <2>2. Len(se) = 1 /\ se[1] = s[1]
    BY <1>2, <2>1
  <2> QED
    BY <1>2, <2>1, <2>2 DEF se
<1>6. /\ ClaimAndSet(n, <<v>>) \in Seq(AllCalls) /\ Len(ClaimAndSet(n, <<v>>)) = 2
      /\ ClaimAndSet(n, <<v>>)[1] = ClaimOf(n) /\ ClaimAndSet(n, <<v>>)[2] = SetterOf(n, <<v>>)
  BY <1>3, <1>4
<1>7. /\ ClaimAndSet(n, <<>>) \in Seq(AllCalls) /\ Len(ClaimAndSet(n, <<>>)) = 1
      /\ ClaimAndSet(n, <<>>)[1] = ClaimOf(n)
  BY <1>3, <1>5
<1> QED
  BY <1>6, <1>7

\* Strict-Transport-Security, unless there is no use in it or the request is redirected.
LEMMA HstsFine ==
  ASSUME StackInv, NEW a \in 1..N, stack[a] \in {"hsts", "hsts-proxy", "hsts-broken"}
  PROVE  Fine(a, Before(stack[a], req))
<1> DEFINE s == Before(stack[a], req)
           t == ClaimAndSet(HSTS, <<"max-age">>)
<1>1. \/ dev /\ s = <<>>
      \/ s \in {<<WriteOf("error")>>, <<WriteOf("redirect")>>}
      \/ s = t
  BY DEF Before, Hsts
<1>2. CASE s \in {<<WriteOf("error")>>, <<WriteOf("redirect")>>}
  <2>1. Stops(s)
    BY <1>2, StopsLemma
  <2>2. \A c : In(c, s) => c \in {WriteOf("error"), WriteOf("redirect")}
    BY <1>2, InLemma
  <2> HIDE DEF s
  <2>3. \A c : In(c, s) => Harmless(c)
    BY <2>2 DEF Harmless, WriteOf, PutOf
  <2>4. Fine(a, s)
    BY <2>1, <2>3, HarmlessTidy DEF Fine
  <2> QED
    BY <2>4 DEF s
<1>3. CASE dev /\ s = <<>>
  <2>1. Wants[a] = {}
    BY <1>3 DEF Goals, Wants
  <2>2. Tidy(Wants, a, s, wrapped, claimed)
    BY <1>3, InLemma, HarmlessTidy
  <2> QED
    BY <2>1, <2>2 DEF Fine
<1>4. CASE s = t
  <2>1. HSTS \in OwnedNames /\ "max-age" \in Values
    BY Mentioned DEF UsedValues
  <2>2. t \in Seq(AllCalls) /\ Len(t) = 2 /\ t[1] = ClaimOf(HSTS) /\ t[2] = SetterOf(HSTS, <<"max-age">>)
    BY <2>1, ClaimAndSetIs
  <2>3. Wants[a] \subseteq {Goal(HSTS, "max-age")}
    BY DEF Goals, Wants
  <2>4. HSTS \notin SharedNames /\ ClaimOf(HSTS).op = "claim"
    BY DEF HSTS, SharedNames, CspNames, CSP, CSPReportOnly, ReportTo, ClaimOf
  <2> HIDE DEF t, s
  <2>5. 2 \in 1..Len(t) /\ 1 \in 1..(2 - 1) /\ \A l \in 1..Len(t) : l # 2 => t[l].op = "claim"
    BY <2>2, <2>4
  <2>6. Fine(a, t)
    <3>1. /\ Len(t) \in Nat /\ t[1] = ClaimOf(HSTS) /\ t[2] = SetterOf(HSTS, <<"max-age">>)
      BY <2>2
    <3> QED
      BY <2>3, <2>4, <2>5, <3>1, SetterFine
  <2> QED
    BY <1>4, <2>6 DEF s
<1> QED
  BY <1>1, <1>2, <1>3, <1>4

\* Cross-Origin-Opener-Policy, enforced or reported.
LEMMA CoopFine ==
  ASSUME StackInv, NEW a \in 1..N, stack[a] = "coop"
  PROVE  Fine(a, Coop(req.config))
<1>1. /\ COOP \in OwnedNames /\ COOPReportOnly \in OwnedNames
      /\ "coop-report" \in Values /\ "same-origin" \in Values
  BY Mentioned DEF UsedValues
<1>2. /\ COOP \notin SharedNames /\ COOPReportOnly \notin SharedNames
      /\ \A n : ClaimOf(n).op = "claim"
  BY DEF COOP, COOPReportOnly, SharedNames, CspNames, CSP, CSPReportOnly, ReportTo, ClaimOf
<1>3. CASE req.config = "coop"
  <2> DEFINE s == ClaimAndSet(COOP, <<>>)
             t == ClaimAndSet(COOPReportOnly, <<"coop-report">>)
  <2>1. Coop(req.config) = s \o t /\ Wants[a] \subseteq {Goal(COOPReportOnly, "coop-report")}
    BY <1>3 DEF Coop, CoopPolicies, Goals, Wants
  <2>2. /\ s \in Seq(AllCalls) /\ Len(s) = 1 /\ s[1] = ClaimOf(COOP)
        /\ t \in Seq(AllCalls) /\ Len(t) = 2 /\ t[1] = ClaimOf(COOPReportOnly)
        /\ t[2] = SetterOf(COOPReportOnly, <<"coop-report">>)
    BY <1>1, ClaimAndSetIs
  <2> HIDE DEF s, t
  <2> DEFINE u == s \o t
  <2>3. /\ Len(u) = 3 /\ u[1] = ClaimOf(COOP) /\ u[2] = ClaimOf(COOPReportOnly)
        /\ u[3] = SetterOf(COOPReportOnly, <<"coop-report">>)
    <3>1. /\ Len(u) = Len(s) + Len(t) /\ \A k \in 1..Len(s) : u[k] = s[k]
          /\ \A k \in 1..Len(t) : u[Len(s) + k] = t[k]
      BY <2>2, Places2
    <3> HIDE DEF u
    <3> QED
      BY <2>2, <3>1
  <2> HIDE DEF u
  <2>4. /\ Len(u) \in Nat /\ 3 \in 1..Len(u) /\ 2 \in 1..(3 - 1)
        /\ \A l \in 1..Len(u) : l # 3 => u[l].op = "claim"
    BY <1>2, <2>3
  <2>5. Fine(a, u)
    BY <1>2, <2>1, <2>3, <2>4, SetterFine
  <2> QED
    BY <2>1, <2>5 DEF u
<1>4. CASE req.config # "coop"
  <2> DEFINE s == ClaimAndSet(COOP, <<"same-origin">>)
             t == ClaimAndSet(COOPReportOnly, <<>>)
  <2>1. Coop(req.config) = s \o t /\ Wants[a] \subseteq {Goal(COOP, "same-origin")}
    BY <1>4 DEF Coop, CoopPolicies, Goals, Wants
  <2>2. /\ s \in Seq(AllCalls) /\ Len(s) = 2 /\ s[1] = ClaimOf(COOP)
        /\ s[2] = SetterOf(COOP, <<"same-origin">>)
        /\ t \in Seq(AllCalls) /\ Len(t) = 1 /\ t[1] = ClaimOf(COOPReportOnly)
    BY <1>1, ClaimAndSetIs
  <2> HIDE DEF s, t
  <2> DEFINE u == s \o t
  <2>3. /\ Len(u) = 3 /\ u[1] = ClaimOf(COOP) /\ u[3] = ClaimOf(COOPReportOnly)
        /\ u[2] = SetterOf(COOP, <<"same-origin">>)
    <3>1. /\ Len(u) = Len(s) + Len(t) /\ \A k \in 1..Len(s) : u[k] = s[k]
          /\ \A k \in 1..Len(t) : u[Len(s) + k] = t[k]
      BY <2>2, Places2
    <3> HIDE DEF u
    <3> QED
      BY <2>2, <3>1
  <2> HIDE DEF u
  <2>4. /\ Len(u) \in Nat /\ 2 \in 1..Len(u) /\ 1 \in 1..(2 - 1)
        /\ \A l \in 1..Len(u) : l # 2 => u[l].op = "claim"
    BY <1>2, <2>3
  <2>5. Fine(a, u)
    BY <1>2, <2>1, <2>3, <2>4, SetterFine
  <2> QED
    BY <2>1, <2>5 DEF u
<1> QED
  BY <1>3, <1>4

\* X-Frame-Options.
LEMMA FrameOptionsFine ==
  ASSUME StackInv, NEW a \in 1..N, stack[a] = "xfo"
  PROVE  Fine(a, FrameOptions(req.config))
<1> DEFINE s == FrameOptions(req.config)
           v == IF req.config \in FramingConfigs THEN "ALLOWALL" ELSE "SAMEORIGIN"
<1>1. /\ Len(s) = 2 /\ s[1] = ClaimOf(XFO) /\ s[2] = SetterOf(XFO, <<v>>)
  BY DEF FrameOptions
<1>2. Wants[a] \subseteq {Goal(XFO, v)}
  BY DEF Goals, Wants
<1>3. XFO \notin SharedNames /\ ClaimOf(XFO).op = "claim"
  BY DEF XFO, SharedNames, CspNames, CSP, CSPReportOnly, ReportTo, ClaimOf
<1> HIDE DEF s, v
<1>4. /\ Len(s) \in Nat /\ 2 \in 1..Len(s) /\ 1 \in 1..(2 - 1)
      /\ \A l \in 1..Len(s) : l # 2 => s[l].op = "claim"
  BY <1>1, <1>3
<1>5. Fine(a, s)
  BY <1>1, <1>2, <1>3, <1>4, SetterFine
<1> QED
  BY <1>5 DEF s

\* Report-To, to which is added.
LEMMA ReportingFine ==
  ASSUME StackInv, NEW a \in 1..N, stack[a] = "reporting"
  PROVE  Fine(a, Reporting(<<"group", "more">>))
<1> DEFINE s == Reporting(<<"group", "more">>)
<1>1. Len(s) = 2 /\ s[1] = AddOf(ReportTo, "group") /\ s[2] = AddOf(ReportTo, "more")
  BY DEF Reporting
<1> HIDE DEF s
<1>2. \A v : /\ AddOf(ReportTo, v).op = "add" /\ AddOf(ReportTo, v).name = ReportTo
             /\ AddOf(ReportTo, v).val = v
  BY DEF AddOf
<1>3. Wants[a] = {Goal(ReportTo, "group"), Goal(ReportTo, "more")}
  BY DEF Goals, Wants
<1>4. \A g \in Wants[a] : g.name = ReportTo /\ g.val \in {"group", "more"}
  BY <1>3 DEF Goal
<1>5. ASSUME NEW g \in Wants[a] PROVE \E k \in 1..Len(s) : Brings(s[k], g)
  <2>1. CASE g.val = "group"
    <3>1. Brings(s[1], g) /\ 1 \in 1..Len(s)
      BY <1>1, <1>2, <1>4, <2>1 DEF Brings
    <3> QED
      BY <3>1
  <2>2. CASE g.val = "more"
    <3>1. Brings(s[2], g) /\ 2 \in 1..Len(s)
      BY <1>1, <1>2, <1>4, <2>2 DEF Brings
    <3> QED
      BY <3>1
  <2> QED
    BY <1>4, <2>1, <2>2
<1>6. \A c : In(c, s) => Harmless(c)
  <2>1. \A c : In(c, s) => c.op = "add"
    BY <1>1, <1>2 DEF In
  <2> QED
    BY <2>1 DEF Harmless, PutOf
<1>7. Fine(a, s)
  BY <1>4, <1>5, <1>6, HarmlessTidy DEF Fine, Coming
<1> QED
  BY <1>7 DEF s

\* A csp interceptor starts with the nonce, and with the claims that are missing.
LEMMA CspStarts ==
  ASSUME StackInv, Shared
  PROVE  /\ Nonce \o ClaimedHeaders \in Seq(AllCalls)
         /\ \A k \in 1..Len(Nonce \o ClaimedHeaders) :
              /\ (Nonce \o ClaimedHeaders)[k].op \in {"claim", "put"}
              /\ (Nonce \o ClaimedHeaders)[k] = PutOf("csp-headers") =>
                   \A n \in CspNames : Earlier(ClaimOf(n), Nonce \o ClaimedHeaders, k)
         /\ \A n \in CspNames : n \in claimed \/ In(ClaimOf(n), Nonce \o ClaimedHeaders)
<1> DEFINE s == Nonce
           t == ClaimedHeaders
           u == s \o t
           none == <<>>
           claims == <<ClaimOf(CSP), ClaimOf(CSPReportOnly), PutOf("csp-headers")>>
<1>1. /\ s \in Seq(AllCalls) /\ Len(s) = 1 /\ s[1] = PutOf("csp-nonce")
      /\ none \in Seq(AllCalls) /\ Len(none) = 0
      /\ claims \in Seq(AllCalls) /\ Len(claims) = 3 /\ claims[1] = ClaimOf(CSP)
      /\ claims[2] = ClaimOf(CSPReportOnly) /\ claims[3] = PutOf("csp-headers")
  BY MakeCalls, Mentioned, Scripts DEF Nonce, Keys
<1>2. /\ "csp-headers" \in values => t = none
      /\ "csp-headers" \notin values => t = claims
  BY DEF ClaimedHeaders
<1>3. /\ PutOf("csp-nonce").op = "put" /\ PutOf("csp-headers").op = "put"
      /\ PutOf("csp-nonce") # PutOf("csp-headers")
      /\ \A n : ClaimOf(n).op = "claim" /\ ClaimOf(n) # PutOf("csp-headers")
  BY DEF PutOf, ClaimOf
<1> HIDE DEF s, t, none, claims
<1>4. CASE "csp-headers" \in values
  <2>1. u \in Seq(AllCalls) /\ Len(u) = 1 /\ u[1] = PutOf("csp-nonce")
    <3>1. t \in Seq(AllCalls) /\ Len(t) = 0
      BY <1>1, <1>2, <1>4
    <3>2. /\ u \in Seq(AllCalls) /\ Len(u) = Len(s) + Len(t)
          /\ \A k \in 1..Len(s) : u[k] = s[k]
      BY <1>1, <3>1, Places2
    <3> HIDE DEF u
    <3> QED
      BY <1>1, <3>1, <3>2
  <2> HIDE DEF u
  <2>2. \A k \in 1..Len(u) : u[k].op = "put" /\ u[k] # PutOf("csp-headers")
    BY <1>3, <2>1
  <2>3. \A n \in CspNames : n \in claimed
    BY <1>4 DEF Shared
  <2> QED
    BY <2>1, <2>2, <2>3 DEF u, s, t
<1>5. CASE "csp-headers" \notin values
  <2>1. /\ u \in Seq(AllCalls) /\ Len(u) = 4 /\ u[1] = PutOf("csp-nonce")
        /\ u[2] = ClaimOf(CSP) /\ u[3] = ClaimOf(CSPReportOnly) /\ u[4] = PutOf("csp-headers")
    <3>1. t = claims /\ t \in Seq(AllCalls)
      BY <1>1, <1>2, <1>5
    <3>2. /\ u \in Seq(AllCalls) /\ Len(u) = Len(s) + Len(t)
          /\ \A k \in 1..Len(s) : u[k] = s[k]
          /\ \A k \in 1..Len(t) : u[Len(s) + k] = t[k]
      BY <1>1, <3>1, Places2
    <3> HIDE DEF u
    <3> QED
      BY <1>1, <3>1, <3>2
  <2> HIDE DEF u
  <2>2. \A k \in 1..Len(u) : /\ u[k].op \in {"claim", "put"}
                             /\ u[k] = PutOf("csp-headers") => k = 4
    <3>1. \A k \in 1..Len(u) : k = 1 \/ k = 2 \/ k = 3 \/ k = 4
      BY <2>1
    <3> QED
      BY <1>3, <2>1, <3>1
  <2>3. Earlier(ClaimOf(CSP), u, 4) /\ Earlier(ClaimOf(CSPReportOnly), u, 4)
    BY <2>1 DEF Earlier
  <2>4. In(ClaimOf(CSP), u) /\ In(ClaimOf(CSPReportOnly), u)
    BY <2>1 DEF In
  <2> QED
    BY <2>1, <2>2, <2>3, <2>4 DEF u, s, t, CspNames
<1> QED
  BY <1>4, <1>5

\* Then it adds its policy to what it finds.
LEMMA CspFine ==
  ASSUME StackInv, Shared, NEW a \in 1..N, NEW policy, policy.text \in UsedValues,
         NEW only \in BOOLEAN,
         Wants[a] = PolicyGoals(policy, only)
  PROVE  Fine(a, CspBefore(policy, only))
<1> DEFINE first == Nonce \o ClaimedHeaders
           sets  == CspSets(policy, only)
           s     == first \o sets
           name  == HeaderFor(policy, only)
           set   == SetterOf(name, CspAppended(name, policy.text))
<1>1. CspBefore(policy, only) = s /\ sets \in Seq(AllCalls) /\ name \in CspNames
  BY CspParts, BeforeScripts DEF StackInv, CspNames
<1>2. /\ first \in Seq(AllCalls)
      /\ \A k \in 1..Len(first) :
           /\ first[k].op \in {"claim", "put"}
           /\ first[k] = PutOf("csp-headers") => \A n \in CspNames : Earlier(ClaimOf(n), first, k)
      /\ \A n \in CspNames : n \in claimed \/ In(ClaimOf(n), first)
  BY CspStarts
<1>3. \/ policy.override = "disabled" /\ Len(sets) = 0
      \/ policy.override # "disabled" /\ Len(sets) = 1 /\ sets[1] = set
  BY DEF CspSets
<1>4. /\ set.op = "setter" /\ set.name = name
      /\ set.vals = Append(wrapped[name], policy.text) /\ set # PutOf("csp-headers")
  BY DEF SetterOf, CspAppended, PutOf
<1>5. \A g \in Wants[a] : /\ g.name = name /\ g.val = policy.text /\ g.name \in CspNames
                          /\ policy.override # "disabled"
  <2>1. \A g \in PolicyGoals(policy, only) : /\ g.name = HeaderFor(policy, only)
                                             /\ g.val = policy.text
                                             /\ policy.override # "disabled"
    <3>1. \A n, v : Goal(n, v).name = n /\ Goal(n, v).val = v
      BY DEF Goal
    <3> DEFINE n == HeaderFor(policy, only)
    <3>2. policy.override # "disabled" => PolicyGoals(policy, only) = {Goal(n, policy.text)}
      BY DEF PolicyGoals
    <3>3. policy.override = "disabled" => PolicyGoals(policy, only) = {}
      BY DEF PolicyGoals
    <3> HIDE DEF n
    <3>4. \A g \in PolicyGoals(policy, only) : /\ g.name = n /\ g.val = policy.text
                                               /\ policy.override # "disabled"
      BY <3>1, <3>2, <3>3
    <3> QED
      BY <3>4 DEF n
  <2> QED
    BY <1>1, <2>1
<1>6. wrapped[name] \in HeaderValues
  BY <1>1, Mentioned, NamesUsed DEF StackInv, TypeOK, HeaderTypeOK, CspNames
<1>7. \E i \in DOMAIN Append(wrapped[name], policy.text) :
        Append(wrapped[name], policy.text)[i] = policy.text
  <2>1. policy.text \in Values \cup DispatcherValues
    BY Mentioned
  <2>2. /\ Len(wrapped[name]) \in Nat
        /\ DOMAIN Append(wrapped[name], policy.text) = 1..Len(wrapped[name]) + 1
        /\ Append(wrapped[name], policy.text)[Len(wrapped[name]) + 1] = policy.text
    BY <1>6, <2>1, AppendProperties DEF HeaderValues
  <2> QED
    BY <2>2
<1> HIDE DEF first, sets, name, set
<1>8. /\ Len(s) = Len(first) + Len(sets) /\ Len(first) \in Nat
      /\ \A k \in 1..Len(first) : s[k] = first[k]
      /\ \A k \in 1..Len(sets) : s[Len(first) + k] = sets[k]
  BY <1>1, <1>2, Places2
<1> HIDE DEF s
<1>9. ASSUME NEW k \in 1..Len(s)
      PROVE  \/ k \in 1..Len(first) /\ s[k] = first[k]
             \/ /\ policy.override # "disabled" /\ k = Len(first) + 1 /\ s[k] = set
                /\ \A j \in 1..(k - 1) : s[j].op \in {"claim", "put"}
  <2>1. CASE k <= Len(first)
    BY <1>8, <2>1
  <2>2. CASE k > Len(first)
    <3>1. Len(sets) = 1 /\ k = Len(first) + 1 /\ 1 \in 1..Len(sets)
      BY <1>3, <1>8, <2>2
    <3>2. s[k] = set /\ policy.override # "disabled"
      BY <1>3, <1>8, <3>1
    <3>3. \A j \in 1..(k - 1) : s[j].op \in {"claim", "put"}
      BY <1>2, <1>8, <3>1
    <3> QED
      BY <3>1, <3>2, <3>3
  <2> QED
    BY <1>8, <2>1, <2>2
<1>10. Tidy(Wants, a, s, wrapped, claimed)
  <2>1. ASSUME NEW k \in 1..Len(s), s[k].op = "setter"
        PROVE  Extends(s, k, wrapped) /\ \A g \in Wants[a] : g.name = s[k].name => Good(g, s[k].vals)
    <3>1. s[k] = set /\ \A j \in 1..(k - 1) : s[j].op \in {"claim", "put"}
      BY <1>2, <1>9, <2>1
    <3>2. Extends(s, k, wrapped)
      BY <1>1, <1>4, <3>1 DEF Extends
    <3>3. \A g \in Wants[a] : Good(g, set.vals)
      BY <1>4, <1>5, <1>7 DEF Good, SharedNames
    <3> QED
      BY <3>1, <3>2, <3>3
  <2>2. ASSUME NEW k \in 1..Len(s), s[k] = PutOf("csp-headers"), NEW n \in CspNames
        PROVE  Earlier(ClaimOf(n), s, k)
    <3>1. k \in 1..Len(first) /\ s[k] = first[k]
      BY <1>4, <1>9, <2>2
    <3>2. PICK j \in 1..(k - 1) : first[j] = ClaimOf(n)
      BY <1>2, <2>2, <3>1 DEF Earlier
    <3>3. s[j] = ClaimOf(n)
      BY <1>8, <3>1, <3>2
    <3> QED
      BY <3>3 DEF Earlier
  <2> QED
    BY <2>1, <2>2 DEF Tidy
<1>11. ASSUME NEW g \in Wants[a] PROVE Coming(g, s, wrapped, claimed)
  <2>1. /\ Len(first) + 1 \in 1..Len(s) /\ s[Len(first) + 1] = set
    <3>1. Len(sets) = 1 /\ sets[1] = set
      BY <1>3, <1>5
    <3> QED
      BY <1>8, <3>1
  <2>2. Good(g, set.vals)
    BY <1>4, <1>5, <1>7 DEF Good, SharedNames
  <2>3. Brings(set, g)
    BY <1>4, <1>5, <2>2 DEF Brings
  <2>4. g.name \in claimed \/ In(ClaimOf(g.name), s)
    <3>1. In(ClaimOf(g.name), first) => In(ClaimOf(g.name), s)
      BY <1>8, <2>1 DEF In
    <3> QED
      BY <1>2, <1>5, <3>1
  <2> QED
    BY <2>1, <2>3, <2>4 DEF Coming
<1> QED
  BY <1>1, <1>10, <1>11 DEF Fine

\* The scripts of the other interceptors touch no goal.
LEMMA OthersHarmless ==
  ASSUME StackInv, NEW a \in 1..N,
         stack[a] \notin {"static", "hsts", "hsts-proxy", "hsts-broken", "coop", "reporting", "xfo"},
         stack[a] \notin Csp, NEW c, In(c, Before(stack[a], req))
  PROVE  Harmless(c)
<1>0. stack[a] \in InterceptorKinds /\ req \in Requests
  BY DEF StackInv, ContextOK
<1>1. /\ \A k : Harmless(WriteOf(k))
      /\ Harmless(PutOf("user")) /\ Harmless(PanicOf)
      /\ \A n, v : Harmless(AddOf(n, v))
      /\ \A n : Harmless(ClaimOf(n))
      /\ \A n \in CorsNames : \A vs : Harmless(SetterOf(n, vs))
  BY DEF Harmless, WriteOf, PutOf, PanicOf, AddOf, ClaimOf, SetterOf
<1>2. CASE stack[a] \in {"host", "resource", "resource-navigate", "resource-report", "framing",
                         "xsrf-html", "xsrf-angular", "xsrf-block"}
  <2>1. Before(stack[a], req) \in {<<>>, <<WriteOf("error")>>, <<WriteOf("redirect")>>}
    BY <1>2 DEF Before, HostCheck, FetchMetadata, XsrfBefore, AngularBefore, BlockAll
  <2>2. c \in {WriteOf("error"), WriteOf("redirect")}
    BY <2>1, InLemma
  <2> QED
    BY <1>1, <2>2
<1>3. CASE stack[a] \in {"cors", "cors-default"}
  <2>1. \E it \in {CorsSettings("cors"), CorsSettings("cors-default")} :
          Before(stack[a], req) = Cors(req, it)
    BY <1>3 DEF Before
  <2> QED
    BY <1>0, <2>1, CorsHarmless
<1>4. CASE stack[a] = "auth"
  <2> DEFINE user    == <<PutOf("user")>>
             refusal == <<WriteOf("error")>>
             none    == <<>>
  <2>1. user \in Seq(AllCalls) /\ refusal \in Seq(AllCalls) /\ none \in Seq(AllCalls)
    BY MakeCalls, Mentioned, Scripts DEF Keys
  <2>2. \E s \in {user, none}, t \in {refusal, none} : Before(stack[a], req) = s \o t
    BY <1>4 DEF Before, AuthBefore
  <2>3. /\ In(c, user) => c = PutOf("user")
        /\ In(c, refusal) => c = WriteOf("error")
        /\ ~In(c, none)
    BY InLemma
  <2> HIDE DEF user, refusal, none
  <2>4. PICK s \in {user, none}, t \in {refusal, none} : Before(stack[a], req) = s \o t
    BY <2>2
  <2>5. In(c, s) \/ In(c, t)
    BY <2>1, <2>4, InLemma
  <2> QED
    BY <1>1, <2>3, <2>4, <2>5
<1>5. CASE stack[a] = "own"
  <2>1. \/ Before(stack[a], req) \in {<<>>, <<WriteOf("template")>>, <<PanicOf>>}
        \/ Before(stack[a], req) = <<AddOf(Vary, "Accept"), AddOf(Vary, "Cookie")>>
        \/ Before(stack[a], req) = <<ClaimOf(Vary), SetterOf(Vary, <<"Accept">>)>>
    BY <1>5 DEF Before, OwnBefore
  <2>2. \/ c \in {WriteOf("template"), PanicOf}
        \/ c = AddOf(Vary, "Accept") \/ c = AddOf(Vary, "Cookie")
        \/ c = ClaimOf(Vary) \/ c = SetterOf(Vary, <<"Accept">>)
    <3>1. CASE Before(stack[a], req) \in {<<>>, <<WriteOf("template")>>, <<PanicOf>>}
      BY <3>1, InLemma
    <3>2. CASE Before(stack[a], req) = <<AddOf(Vary, "Accept"), AddOf(Vary, "Cookie")>>
      <4>1. In(c, <<AddOf(Vary, "Accept"), AddOf(Vary, "Cookie")>>)
        BY <3>2
      <4> QED
        BY <4>1, InMore
    <3>3. CASE Before(stack[a], req) = <<ClaimOf(Vary), SetterOf(Vary, <<"Accept">>)>>
      <4>1. In(c, <<ClaimOf(Vary), SetterOf(Vary, <<"Accept">>)>>)
        BY <3>3
      <4> QED
        BY <4>1, InMore
    <3> QED
      BY <2>1, <3>1, <3>2, <3>3
  <2>3. Vary \in CorsNames
    BY DEF CorsNames
  <2> QED
    BY <1>1, <2>2, <2>3
<1> QED
  BY <1>0, <1>2, <1>3, <1>4, <1>5 DEF InterceptorKinds, Csp

\* Every interceptor's script is fine.
LEMMA BeforeFine ==
  ASSUME StackInv, Shared, NEW a \in 1..N
  PROVE  Fine(a, Before(stack[a], req))
<1>1. CASE stack[a] \in {"hsts", "hsts-proxy", "hsts-broken"}
  BY <1>1, HstsFine
<1>2. CASE stack[a] = "static"
  BY <1>2, StaticFine DEF Before
<1>3. CASE stack[a] = "coop"
  BY <1>3, CoopFine DEF Before
<1>4. CASE stack[a] = "reporting"
  BY <1>4, ReportingFine DEF Before
<1>5. CASE stack[a] = "xfo"
  BY <1>5, FrameOptionsFine DEF Before
<1>6. CASE stack[a] = "csp-strict"
  <2>1. Wants[a] = PolicyGoals(StrictPolicy(req.config), FALSE)
        /\ Before(stack[a], req) = CspBefore(StrictPolicy(req.config), FALSE)
    BY <1>6 DEF Goals, Wants, Before
  <2>2. Fine(a, CspBefore(StrictPolicy(req.config), FALSE))
    BY <2>1, CspFine, PolicyTexts
  <2> QED
    BY <2>1, <2>2
<1>7. CASE stack[a] = "csp-types"
  <2>1. Wants[a] = PolicyGoals(TrustedTypesPolicy(req.config), FALSE)
        /\ Before(stack[a], req) = CspBefore(TrustedTypesPolicy(req.config), FALSE)
    BY <1>7 DEF Goals, Wants, Before
  <2>2. Fine(a, CspBefore(TrustedTypesPolicy(req.config), FALSE))
    BY <2>1, CspFine, PolicyTexts
  <2> QED
    BY <2>1, <2>2
<1>8. CASE stack[a] = "csp-frames"
  <2>1. Wants[a] = PolicyGoals(FramingPolicy(req.config), FALSE)
        /\ Before(stack[a], req) = CspBefore(FramingPolicy(req.config), FALSE)
    BY <1>8 DEF Goals, Wants, Before
  <2>2. Fine(a, CspBefore(FramingPolicy(req.config), FALSE))
    BY <2>1, CspFine, PolicyTexts
  <2> QED
    BY <2>1, <2>2
<1>9. CASE stack[a] = "csp-report"
  <2>1. Wants[a] = PolicyGoals(TrustedTypesPolicy(req.config), TRUE)
        /\ Before(stack[a], req) = CspBefore(TrustedTypesPolicy(req.config), TRUE)
    BY <1>9 DEF Goals, Wants, Before
  <2>2. Fine(a, CspBefore(TrustedTypesPolicy(req.config), TRUE))
    BY <2>1, CspFine, PolicyTexts
  <2> QED
    BY <2>1, <2>2
<1>10. CASE /\ stack[a] \notin {"static", "hsts", "hsts-proxy", "hsts-broken", "coop",
                               "reporting", "xfo"}
            /\ stack[a] \notin Csp
  <2>1. Wants[a] = {}
    BY <1>10 DEF Goals, Wants, Csp
  <2>2. \A c : In(c, Before(stack[a], req)) => Harmless(c)
    BY <1>10, OthersHarmless
  <2>3. Tidy(Wants, a, Before(stack[a], req), wrapped, claimed)
    BY <2>2, HarmlessTidy
  <2> QED
    BY <2>1, <2>3 DEF Fine
<1> QED
  BY <1>1, <1>2, <1>3, <1>4, <1>5, <1>6, <1>7, <1>8, <1>9, <1>10 DEF Csp

-----------------------------------------------------------------------------
(* How goals and tidy scripts fare in a step.                               *)

\* The rest of a tidy script is tidy after its first call, which leaves the policies alone
\* if it is a claim, and claims a name that is fresh.
LEMMA TidyTail ==
  ASSUME NEW w, NEW a, NEW s \in Seq(AllCalls), s # <<>>, NEW h, NEW new, NEW cl, NEW more,
         Tidy(w, a, s, h, cl), cl \subseteq more,
         Head(s).op \in {"claim", "put"} => \A n \in CspNames : new[n] = h[n],
         Head(s).op = "claim" => Head(s).name \in more /\ Fresh(w, a, Head(s).name)
  PROVE  Tidy(w, a, Tail(s), new, more)
<1> DEFINE t == Tail(s)
<1>1. /\ Len(s) \in Nat \ {0} /\ Len(t) = Len(s) - 1 /\ s[1] = Head(s)
      /\ \A k \in 1..Len(t) : t[k] = s[k + 1]
  BY EmptySeq, HeadTailProperties
<1> HIDE DEF t
<1>2. \A n : ClaimOf(n).op = "claim" /\ ClaimOf(n).name = n
  BY DEF ClaimOf
<1>3. ASSUME NEW k \in 1..Len(t), NEW n, Earlier(ClaimOf(n), s, k + 1)
      PROVE  (n \in more /\ Fresh(w, a, n)) \/ Earlier(ClaimOf(n), t, k)
  <2>1. PICK j \in 1..k : s[j] = ClaimOf(n)
    BY <1>1, <1>3 DEF Earlier
  <2>2. CASE j = 1
    BY <1>1, <1>2, <2>1, <2>2
  <2>3. CASE j # 1
    <3>1. j - 1 \in 1..(k - 1) /\ j - 1 \in 1..Len(t) /\ (j - 1) + 1 = j
      BY <1>1, <2>3
    <3>2. t[j - 1] = ClaimOf(n)
      BY <1>1, <2>1, <3>1
    <3> QED
      BY <3>1, <3>2 DEF Earlier
  <2> QED
    BY <2>2, <2>3
<1>4. ASSUME NEW k \in 1..Len(t), Extends(s, k + 1, h)
      PROVE  Extends(t, k, new)
  <2>1. k + 1 \in 1..Len(s) /\ t[k] = s[k + 1] /\ 1 \in 1..k
    BY <1>1
  <2>2. \A j \in 1..k : s[j].op \in {"claim", "put"}
    BY <1>1, <1>4 DEF Extends
  <2>3. \A n \in CspNames : new[n] = h[n]
    BY <1>1, <2>1, <2>2
  <2>4. \A j \in 1..(k - 1) : t[j].op \in {"claim", "put"}
    <3>1. ASSUME NEW j \in 1..(k - 1) PROVE j \in 1..Len(t) /\ j + 1 \in 1..k
      BY <1>1
    <3> QED
      BY <1>1, <2>2, <3>1
  <2>5. t[k].name \in CspNames /\ \E v \in UsedValues : t[k].vals = Append(h[t[k].name], v)
    BY <1>4, <2>1 DEF Extends
  <2>6. new[t[k].name] = h[t[k].name]
    BY <2>3, <2>5
  <2> QED
    BY <2>4, <2>5, <2>6 DEF Extends
<1>5. ASSUME NEW k \in 1..Len(t)
      PROVE  /\ t[k].op = "setter" =>
                  /\ \/ Fresh(w, a, t[k].name) \/ Earlier(ClaimOf(t[k].name), t, k)
                     \/ Extends(t, k, new)
                  /\ \A g \in w[a] : g.name = t[k].name => Good(g, t[k].vals)
             /\ t[k] = PutOf("csp-headers") =>
                  \A n \in CspNames : n \in more \/ Earlier(ClaimOf(n), t, k)
  <2>1. k + 1 \in 1..Len(s) /\ t[k] = s[k + 1]
    BY <1>1
  <2>2. t[k].op = "setter" =>
          /\ \/ Fresh(w, a, t[k].name) \/ Earlier(ClaimOf(t[k].name), s, k + 1)
             \/ Extends(s, k + 1, h)
          /\ \A g \in w[a] : g.name = t[k].name => Good(g, t[k].vals)
    BY <2>1 DEF Tidy
  <2>3. t[k] = PutOf("csp-headers") =>
          \A n \in CspNames : n \in cl \/ Earlier(ClaimOf(n), s, k + 1)
    BY <2>1 DEF Tidy
  <2> QED
    BY <1>3, <1>4, <2>2, <2>3
<1>6. Tidy(w, a, t, new, more)
  BY <1>5 DEF Tidy
<1> QED
  BY <1>6 DEF t

\* A script that waits stays tidy if the policies are left alone.
LEMMA TidySame ==
  ASSUME NEW w, NEW a, NEW s, NEW h, NEW new, NEW cl, NEW more,
         Tidy(w, a, s, h, cl), cl \subseteq more, \A n \in CspNames : new[n] = h[n]
  PROVE  Tidy(w, a, s, new, more)
<1>1. \A k \in 1..Len(s) : Extends(s, k, h) => Extends(s, k, new)
  BY DEF Extends
<1> QED
  BY <1>1 DEF Tidy

\* What is coming comes, as the calls are made.
LEMMA ComingTail ==
  ASSUME NEW g, NEW s \in Seq(AllCalls), s # <<>>, NEW h, NEW new, NEW cl, NEW more,
         Coming(g, s, h, cl), cl \subseteq more,
         Good(g, h[g.name]) \/ Brings(Head(s), g) => Good(g, new[g.name]),
         Head(s) = ClaimOf(g.name) => g.name \in more
  PROVE  Coming(g, Tail(s), new, more)
<1> DEFINE t == Tail(s)
           c == ClaimOf(g.name)
<1>1. /\ Len(s) \in Nat \ {0} /\ Len(t) = Len(s) - 1 /\ s[1] = Head(s)
      /\ \A k \in 1..Len(t) : t[k] = s[k + 1]
  BY EmptySeq, HeadTailProperties
<1>2. In(c, s) => c = Head(s) \/ In(c, t)
  BY InLemma
<1> HIDE DEF t, c
<1>3. Good(g, new[g.name]) \/ \E k \in 1..Len(t) : Brings(t[k], g)
  <2>1. CASE Good(g, h[g.name])
    BY <2>1
  <2>2. CASE ~Good(g, h[g.name])
    <3>1. PICK k \in 1..Len(s) : Brings(s[k], g)
      BY <2>2 DEF Coming
    <3>2. CASE k = 1
      BY <1>1, <3>1, <3>2
    <3>3. CASE k # 1
      <4>1. k - 1 \in 1..Len(t) /\ (k - 1) + 1 = k
        BY <1>1, <3>3
      <4>2. t[k - 1] = s[k]
        BY <1>1, <4>1
      <4> QED
        BY <3>1, <4>1, <4>2
    <3> QED
      BY <3>2, <3>3
  <2> QED
    BY <2>1, <2>2
<1>4. g.name = ReportTo \/ g.name \in more \/ In(c, t)
  BY <1>2 DEF Coming, c
<1>5. Coming(g, t, new, more)
  BY <1>3, <1>4 DEF Coming, c
<1> QED
  BY <1>5 DEF t

\* A value that others are added to is still there, and so is the one that was added.
LEMMA AppendKeeps ==
  ASSUME NEW g, g.name \in SharedNames, NEW h \in HeaderValues, NEW v \in Values
  PROVE  Good(g, h) \/ v = g.val => Good(g, Append(h, v))
<1> DEFINE new == Append(h, v)
<1>1. /\ Len(h) \in Nat /\ DOMAIN h = 1..Len(h) /\ DOMAIN new = 1..(Len(h) + 1)
      /\ \A i \in 1..Len(h) : new[i] = h[i]
      /\ new[Len(h) + 1] = v
  BY AppendProperties DEF HeaderValues
<1> HIDE DEF new
<1>2. Good(g, h) => Good(g, new)
  BY <1>1 DEF Good
<1>3. v = g.val => Good(g, new)
  BY <1>1 DEF Good
<1> QED
  BY <1>2, <1>3 DEF new

\* The goals of the interceptors, as names and values of headers.
LEMMA WantsAre ==
  ASSUME NEW i \in 1..N, NEW g \in Wants[i]
  PROVE  /\ g.name \in Names /\ g.name # "Set-Cookie" /\ g.name \notin CorsNames
         /\ g.name \notin DispatcherNames \/ (g.name = XCTO /\ g.val = "nosniff")
<1>1. g \in Goals(stack[i], req, dev)
  BY DEF Wants
<1>2. PluginNames \subseteq Names
  BY StackAssumption DEF UsedNames
<1> QED
  BY <1>1, <1>2, GoalNames

\* Who makes the call of a header method: while a response is committed only cookies are
\* added; a handler claims nothing and calls no closure.
LEMMA WhoseCall ==
  ASSUME StackInv, WhoCalls, Committing, Ready
  PROVE  /\ pc = "user" \/ (pc = "commit" /\ Call \in CommitCalls)
         /\ pc = "user" => Call \in CallsOf(cur)
         /\ pc = "user" /\ cur \in 1..N => Call \in BeforeCalls
         /\ Call.op \in {"claim", "setter"} => pc = "user" /\ cur \in 1..N
<1>0. N \in Nat /\ Handler = N + 1 /\ cur \in 1..Handler
  BY HeaderAssumption DEF Handler, StackInv, TypeOK, Actors
<1>1. In(Call, script) /\ pc \in {"user", "commit"}
  BY InLemma DEF Ready, Running, InUser, InCommit, Call, StackInv, ScriptOK
<1>2. pc = "commit" => Call \in CommitCalls
  BY <1>1 DEF Committing
<1>3. pc = "user" => Call \in CallsOf(cur)
  BY <1>1 DEF WhoCalls
<1>4. cur \in 1..N => CallsOf(cur) = BeforeCalls
  BY <1>0 DEF CallsOf
<1>5. \A c \in CommitCalls : c.op \notin {"claim", "setter"}
  BY DEF CommitCalls, PanicOf, FuncOf, CookieOf
<1>6. cur \notin 1..N => cur = Handler
  BY <1>0
<1>7. cur = Handler => \A c \in CallsOf(cur) : c.op \notin {"claim", "setter"}
  BY DEF CallsOf, HandlerCalls
<1> QED
  BY <1>1, <1>2, <1>3, <1>4, <1>5, <1>6, <1>7

\* The call of a closure is one that the script of an interceptor makes in a tidy way.
LEMMA TidyCall ==
  ASSUME StackInv, WhoCalls, Committing, Upheld, Ready, Call.op = "setter"
  PROVE  /\ pc = "user" /\ cur \in 1..N
         /\ \/ Fresh(Wants, cur, Call.name)
            \/ Call.name \in CspNames /\ \E v \in UsedValues : Call.vals = Append(wrapped[Call.name], v)
         /\ \A g \in Wants[cur] : g.name = Call.name => Good(g, Call.vals)
<1>1. pc = "user" /\ cur \in 1..N
  BY WhoseCall
<1>2. Tidy(Wants, cur, script, wrapped, claimed)
  BY <1>1 DEF Upheld, Body
<1>3. script[1] = Call /\ 1 \in 1..Len(script)
  BY EmptySeq, HeadTailProperties DEF Ready, Call, StackInv, ScriptOK
<1>4. ~Earlier(ClaimOf(Call.name), script, 1)
  BY DEF Earlier
<1> QED
  BY <1>1, <1>2, <1>3, <1>4 DEF Tidy, Extends

\* A call of a header method undoes nothing that interceptors before have reached.
LEMMA OthersKept ==
  ASSUME StackInv, Headers, WhoCalls, Committing, Upheld, HeaderStep,
         NEW i \in 1..N, i < cur, NEW g \in Wants[i]
  PROVE  Reached(g, wrapped', claimed')
<1> DEFINE n == g.name
<1>1. /\ n \in Names /\ n # "Set-Cookie" /\ n \notin CorsNames
      /\ wrapped \in [Names -> HeaderValues] /\ Call \in AllCalls /\ Ready
  BY WantsAre, HeaderStepDoes DEF StackInv, TypeOK, HeaderTypeOK
<1>2. Good(g, wrapped[n]) /\ (n = ReportTo \/ n \in claimed)
  <2>1. pc # "crashed"
    BY <1>1 DEF Ready, Running, InUser, InCommit
  <2> QED
    BY <2>1 DEF Upheld, Reached
<1>3. CASE wrapped' = wrapped /\ claimed \subseteq claimed'
  BY <1>2, <1>3 DEF Reached
<1>4. CASE /\ Call.op \in {"setter", "set", "add", "del", "cookie"} /\ claimed' = claimed
           /\ wrapped' = [wrapped EXCEPT ![Target(Call)] = NewValue(Call)]
           /\ Call.op = "setter" => Call.name \in claimed
           /\ Call.op \in {"set", "add", "del"} => Call.name \notin claimed
  <2>1. CASE Target(Call) # n
    <3>1. wrapped'[n] = wrapped[n]
      BY <1>1, <1>4, <2>1
    <3> QED
      BY <1>2, <1>4, <3>1 DEF Reached
  <2>2. CASE Target(Call) = n
    <3>1. Call.op # "cookie" /\ Call.name = n /\ wrapped'[n] = NewValue(Call)
      BY <1>1, <1>4, <2>2 DEF Target
    <3>2. CASE Call.op = "setter"
      <4>1. ~Fresh(Wants, cur, n)
        BY DEF Fresh
      <4>2. PICK v \in UsedValues : Call.vals = Append(wrapped[n], v) /\ n \in CspNames
        BY <1>1, <3>1, <3>2, <4>1, TidyCall
      <4>3. Good(g, Append(wrapped[n], v))
        BY <1>1, <1>2, <4>2, AppendKeeps, Mentioned DEF SharedNames
      <4>4. wrapped'[n] = Append(wrapped[n], v)
        BY <3>1, <3>2, <4>2 DEF NewValue
      <4> QED
        BY <1>2, <1>4, <4>3, <4>4 DEF Reached
    <3>3. CASE Call.op \in {"set", "add", "del"}
      <4>1. n = ReportTo
        BY <1>2, <1>4, <3>1, <3>3
      <4>2. ReportTo \notin {Vary, CSP} \cup FSNames
        BY DEF ReportTo, Vary, CSP, FSNames, XCTO
      <4>3. Call.op = "add" /\ Call.val \in Values
        BY <1>1, <3>1, <3>3, <4>1, <4>2, CallShape
      <4>4. wrapped'[n] = Append(wrapped[n], Call.val)
        BY <3>1, <4>3 DEF NewValue, Target
      <4>5. Good(g, Append(wrapped[n], Call.val))
        BY <1>1, <1>2, <4>1, <4>3, AppendKeeps DEF SharedNames
      <4> QED
        BY <1>2, <1>4, <4>4, <4>5 DEF Reached
    <3> QED
      BY <1>4, <3>1, <3>2, <3>3
  <2> QED
    BY <2>1, <2>2
<1> QED
  BY <1>3, <1>4, HeaderStepDoes

\* A name that is free to claim is none that an interceptor before wants anything of.
LEMMA ClaimsFresh ==
  ASSUME StackInv, Headers, WhoCalls, Committing, Upheld, HeaderStep, Call.op = "claim"
  PROVE  Fresh(Wants, cur, Call.name) /\ Call.name \in claimed' /\ wrapped' = wrapped
<1>1. Ready /\ Call \in AllCalls /\ Call.name \notin claimed /\ wrapped' = wrapped
        /\ Call.name \in claimed'
  BY HeaderStepDoes
<1>2. Call.name \in OwnedNames /\ pc # "crashed"
  BY <1>1, CallShape DEF Ready, Running, InUser, InCommit
<1>3. ReportTo \notin OwnedNames
  BY DEF OwnedNames, CorsNames, ReportTo, AllowOrigin, AllowCreds, AllowMethods, AllowHeaders,
     MaxAge, ExposeHeaders, Vary
<1>4. ASSUME NEW i \in 1..N, i < cur, NEW g \in Wants[i] PROVE g.name # Call.name
  BY <1>1, <1>2, <1>3, <1>4 DEF Upheld, Reached
<1> QED
  BY <1>1, <1>4 DEF Fresh

\* What the running interceptor wants is reached by its calls, or is still coming.
LEMMA OwnComes ==
  ASSUME StackInv, Headers, WhoCalls, Committing, Upheld, HeaderStep, pc = "user",
         cur \in 1..N, NEW g \in Wants[cur], Coming(g, script, wrapped, claimed)
  PROVE  Coming(g, Tail(script), wrapped', claimed')
<1> DEFINE n == g.name
<1>1. /\ n \in Names /\ n # "Set-Cookie" /\ n \notin CorsNames
      /\ wrapped \in [Names -> HeaderValues] /\ Call \in BeforeCalls /\ Ready
      /\ Call \in AllCalls
  BY WantsAre, WhoseCall, HeaderStepDoes DEF StackInv, TypeOK, HeaderTypeOK
<1>2. claimed \subseteq claimed' /\ (Call.op = "claim" => Call.name \in claimed')
  BY HeaderStepDoes
<1>3. Good(g, wrapped[n]) \/ Brings(Call, g) => Good(g, wrapped'[n])
  <2>1. CASE Call.op = "claim"
    BY <2>1, ClaimsFresh DEF Brings
  <2>2. CASE /\ Call.op \in {"setter", "set", "add", "del", "cookie"} /\ claimed' = claimed
             /\ wrapped' = [wrapped EXCEPT ![Target(Call)] = NewValue(Call)]
    <3>1. CASE Target(Call) # n
      <4>1. wrapped'[n] = wrapped[n] /\ ~Brings(Call, g)
        BY <1>1, <2>2, <3>1 DEF Brings, Target
      <4> QED
        BY <4>1
    <3>2. CASE Target(Call) = n
      <4>1. Call.op # "cookie" /\ Call.name = n /\ wrapped'[n] = NewValue(Call)
        BY <1>1, <2>2, <3>2 DEF Target
      <4>2. Call.op \notin {"set", "del"}
        <5>1. Vary \in CorsNames
          BY DEF CorsNames
        <5>2. \A c \in BeforeCalls : c.op # "del" /\ (c.op = "set" => c.name = Vary)
          BY DEF BeforeCalls, PanicOf
        <5> QED
          BY <1>1, <4>1, <5>1, <5>2
      <4>3. CASE Call.op = "setter"
        <5>1. Good(g, Call.vals)
          BY <1>1, <4>1, <4>3, TidyCall
        <5> QED
          BY <4>1, <4>3, <5>1 DEF NewValue
      <4>4. CASE Call.op = "add"
        <5>1. \A c \in BeforeCalls : c.op = "add" => c.name \in {Vary, ReportTo}
          BY DEF BeforeCalls, PanicOf
        <5>2. Vary \in CorsNames
          BY DEF CorsNames
        <5>3. n = ReportTo /\ Call.val \in Values
          BY <1>1, <4>1, <4>4, <5>1, <5>2, CallShape
        <5>4. wrapped'[n] = Append(wrapped[n], Call.val)
          BY <4>1, <4>4 DEF NewValue, Target
        <5>5. Good(g, wrapped[n]) \/ Call.val = g.val => Good(g, Append(wrapped[n], Call.val))
          BY <1>1, <5>3, AppendKeeps DEF SharedNames
        <5> QED
          BY <4>4, <5>4, <5>5 DEF Brings
      <4> QED
        BY <2>2, <4>1, <4>2, <4>3, <4>4
    <3> QED
      BY <3>1, <3>2
  <2> QED
    BY <2>1, <2>2, HeaderStepDoes
<1>4. Call = ClaimOf(n) => n \in claimed'
  BY <1>2 DEF ClaimOf
<1>5. script \in Seq(AllCalls) /\ script # <<>> /\ Call = Head(script)
  BY <1>1 DEF StackInv, ScriptOK, Ready, Call
<1> HIDE DEF n
<1> DEFINE old == wrapped
           new == wrapped'
           cl == claimed
           more == claimed'
<1>6. /\ Coming(g, script, old, cl) /\ cl \subseteq more
      /\ Good(g, old[g.name]) \/ Brings(Head(script), g) => Good(g, new[g.name])
      /\ Head(script) = ClaimOf(g.name) => g.name \in more
  BY <1>2, <1>3, <1>4, <1>5 DEF n
<1> HIDE DEF old, new, cl, more
<1>7. Coming(g, Tail(script), new, more)
  BY <1>5, <1>6, ComingTail
<1> QED
  BY <1>7 DEF new, more

\* A call of a header method keeps what interceptors want.
LEMMA UpheldHeaders ==
  ASSUME StackInv, Headers, WhoCalls, Committing, Upheld, HeaderStep, UNCHANGED context
  PROVE  Upheld'
<1>1. /\ Ready /\ Call \in AllCalls /\ script' = Tail(script) /\ claimed \subseteq claimed'
      /\ UNCHANGED <<pc, cur, written, frame, values>> /\ wrapped \in [Names -> HeaderValues]
  BY HeaderStepDoes DEF flightVars, StackInv, TypeOK, HeaderTypeOK
<1>2. script \in Seq(AllCalls) /\ script # <<>> /\ Call = Head(script)
  BY <1>1 DEF StackInv, ScriptOK, Ready, Call
<1>3. Wants' = Wants
  BY DEF context, Wants
<1>4. \A i \in 1..N : i < cur => \A g \in Wants[i] : Reached(g, wrapped', claimed')
  BY OthersKept
<1>5. ASSUME pc = "user", ~written, cur \in 1..N
      PROVE  Stops(Tail(script)) \/ \A g \in Wants[cur] : Coming(g, Tail(script), wrapped', claimed')
  <2>1. Stops(script) \/ \A g \in Wants[cur] : Coming(g, script, wrapped, claimed)
    BY <1>5 DEF Upheld
  <2>2. Stops(script) => Stops(Tail(script))
    <3>1. Call.op # "write"
      BY DEF HeaderStep
    <3> QED
      BY <1>2, <3>1, StopsLemma
  <2>3. \A g \in Wants[cur] : Coming(g, script, wrapped, claimed)
                                => Coming(g, Tail(script), wrapped', claimed')
    BY <1>5, OwnComes
  <2> QED
    BY <2>1, <2>2, <2>3
<1>6. ASSUME pc = "user", cur \in 1..N
      PROVE  Tidy(Wants, cur, Tail(script), wrapped', claimed')
  <2> DEFINE old == wrapped
             new == wrapped'
             cl == claimed
             more == claimed'
             w == Wants
             a == cur
  <2>1. Tidy(w, a, script, old, cl) /\ cl \subseteq more
    BY <1>1, <1>6 DEF Upheld, Body
  <2>2. Head(script).op # "put"
    BY <1>2 DEF HeaderStep
  <2>3. Head(script).op = "claim" =>
          Head(script).name \in more /\ Fresh(w, a, Head(script).name) /\ new = old
    BY <1>2, ClaimsFresh
  <2> HIDE DEF old, new, cl, more, w, a
  <2>4. Tidy(w, a, Tail(script), new, more)
    BY <1>2, <2>1, <2>2, <2>3, TidyTail
  <2> QED
    BY <2>4 DEF new, more, w, a
<1>7. ASSUME pc = "commit", cur \in 1..N
      PROVE  Tidy(Wants, cur, frame, wrapped', claimed')
  <2> DEFINE old == wrapped
             new == wrapped'
             cl == claimed
             more == claimed'
             w == Wants
             a == cur
  <2>1. Tidy(w, a, frame, old, cl) /\ cl \subseteq more
    BY <1>1, <1>7 DEF Upheld, Body
  <2>2. Call.op = "cookie"
    <3>1. Call \in CommitCalls
      BY <1>1, <1>7, WhoseCall
    <3>2. \A c \in CommitCalls : c.op \in {"panic", "func", "cookie"}
      BY DEF CommitCalls, PanicOf, FuncOf, CookieOf
    <3> QED
      BY <3>1, <3>2 DEF HeaderStep
  <2>3. \A n \in CspNames : new[n] = old[n]
    <3>1. wrapped' = [wrapped EXCEPT !["Set-Cookie"] = NewValue(Call)]
      BY <2>2, HeaderStepDoes DEF Target
    <3>2. CspNames \subseteq Names /\ "Set-Cookie" \notin CspNames
      BY Mentioned, NamesUsed DEF CspNames
    <3> QED
      BY <1>1, <3>1, <3>2
  <2> HIDE DEF old, new, cl, more, w, a
  <2>4. Tidy(w, a, frame, new, more)
    BY <2>1, <2>3, TidySame
  <2> QED
    BY <2>4 DEF new, more, w, a
<1>8. cur \in 1..(N + 1) /\ N \in Nat
  BY HeaderAssumption DEF StackInv, TypeOK, Actors, Handler
<1>9. Shared'
  BY <1>1 DEF Upheld, Shared
<1> QED
  BY <1>1, <1>3, <1>4, <1>5, <1>6, <1>7, <1>8, <1>9 DEF Upheld, Body

\* So does a step that makes another call, and leaves the headers alone.
LEMMA UpheldCalls ==
  ASSUME StackInv, WhoCalls, Committing, Upheld, Ready, UNCHANGED <<wrapped, claimed, cur, context>>,
         Call.op \notin {"claim", "setter", "add", "write"},
         pc' = pc, written' = written, frame' = frame, script' = Tail(script),
         values' = IF Call.op = "put" THEN values \cup {Call.key} ELSE values
  PROVE  Upheld'
<1>1. script \in Seq(AllCalls) /\ script # <<>> /\ Call = Head(script) /\ Call \in AllCalls
  BY NextCall DEF StackInv, ScriptOK, Ready, Call
<1>2. Wants' = Wants
  BY DEF context, Wants
<1>3. cur \in 1..(N + 1) /\ N \in Nat /\ Handler = N + 1
  BY HeaderAssumption DEF StackInv, TypeOK, Actors, Handler
<1>4. ASSUME pc = "user", ~written, cur \in 1..N
      PROVE  Stops(Tail(script)) \/ \A g \in Wants[cur] : Coming(g, Tail(script), wrapped, claimed)
  <2>1. Stops(script) \/ \A g \in Wants[cur] : Coming(g, script, wrapped, claimed)
    BY <1>4 DEF Upheld
  <2>2. Stops(script) => Stops(Tail(script))
    BY <1>1, StopsLemma
  <2>3. ASSUME NEW g \in Wants[cur], Coming(g, script, wrapped, claimed)
        PROVE  Coming(g, Tail(script), wrapped, claimed)
    <3>1. Call # ClaimOf(g.name)
      BY DEF ClaimOf
    <3>2. ~Brings(Call, g)
      BY DEF Brings
    <3> QED
      BY <1>1, <2>3, <3>1, <3>2, ComingTail
  <2> QED
    BY <2>1, <2>2, <2>3
<1>5. ASSUME pc = "user", cur \in 1..N
      PROVE  Tidy(Wants, cur, Tail(script), wrapped, claimed)
  <2>1. Tidy(Wants, cur, script, wrapped, claimed)
    BY <1>5 DEF Upheld, Body
  <2> QED
    BY <1>1, <2>1, TidyTail
<1>6. Shared'
  <2>1. CASE values' = values
    BY <2>1 DEF Upheld, Shared
  <2>2. CASE Call.op = "put" /\ Call.key = "csp-headers"
    <3>1. Call = PutOf("csp-headers")
      BY <1>1, <2>2 DEF AllCalls, PutOf, PanicOf, FSWrite
    <3>2. pc = "user" /\ cur \in 1..N
      <4>1. \A c \in CommitCalls : c.op # "put"
        BY DEF CommitCalls, PanicOf, FuncOf, CookieOf
      <4>2. \A c \in HandlerCalls : ~(c.op = "put" /\ c.key = "csp-headers")
        BY DEF HandlerCalls
      <4> QED
        BY <1>3, <2>2, <4>1, <4>2, WhoseCall DEF CallsOf
    <3>3. Tidy(Wants, cur, script, wrapped, claimed)
      BY <3>2 DEF Upheld, Body
    <3>4. script[1] = Call /\ 1 \in 1..Len(script)
      BY <1>1, EmptySeq, HeadTailProperties
    <3>5. \A n \in CspNames : n \in claimed
      BY <3>1, <3>3, <3>4 DEF Tidy, Earlier
    <3> QED
      BY <3>5 DEF Shared
  <2>3. CASE Call.op = "put" /\ Call.key # "csp-headers"
    BY <2>3 DEF Upheld, Shared
  <2> QED
    BY <2>1, <2>2, <2>3
<1>7. pc \in {"user", "commit"}
  BY DEF Ready, Running, InUser, InCommit
<1> QED
  BY <1>2, <1>3, <1>4, <1>5, <1>6, <1>7 DEF Upheld, Body

\* And the step of the dispatcher, which writes no policy.
LEMMA UpheldDispatches ==
  ASSUME StackInv, Upheld, Dispatches, UNCHANGED context, values' = values, pc # "crashed",
         pc' = "user" => pc = "commit" /\ script' = frame /\ written',
         pc' # "commit"
  PROVE  Upheld'
<1>1. /\ UNCHANGED <<cur, claimed>> /\ Wants' = Wants
      /\ \A n \in Names \ DispatcherNames : wrapped'[n] = wrapped[n]
      /\ wrapped'[XCTO] = wrapped[XCTO] \/ wrapped'[XCTO] = <<"nosniff">>
  BY DEF Dispatches, context, Wants
<1>2. ASSUME NEW i \in 1..N, i < cur, NEW g \in Wants[i]
      PROVE  Reached(g, wrapped', claimed')
  <2>1. Reached(g, wrapped, claimed)
    BY <1>2 DEF Upheld
  <2>2. CASE g.name \in Names \ DispatcherNames
    BY <1>1, <2>1, <2>2 DEF Reached
  <2>3. CASE g.name = XCTO /\ g.val = "nosniff"
    <3>1. XCTO \notin SharedNames
      BY DEF XCTO, SharedNames, CspNames, CSP, CSPReportOnly, ReportTo
    <3> QED
      BY <1>1, <2>1, <2>3, <3>1 DEF Reached, Good
  <2> QED
    BY <2>2, <2>3, WantsAre
<1>3. ASSUME pc' = "user", cur <= N PROVE Tidy(Wants, cur, frame, wrapped', claimed)
  <2> DEFINE old == wrapped
             new == wrapped'
             cl == claimed
             w == Wants
             a == cur
  <2>1. Tidy(w, a, frame, old, cl)
    BY <1>3 DEF Upheld, Body
  <2>2. CspNames \subseteq Names \ DispatcherNames
    BY Mentioned, NamesUsed DEF CspNames, DispatcherNames, CSP, CSPReportOnly
  <2>3. \A n \in CspNames : new[n] = old[n]
    BY <1>1, <2>2
  <2> HIDE DEF old, new, cl, w, a
  <2>4. Tidy(w, a, frame, new, cl)
    BY <2>1, <2>3, TidySame
  <2> QED
    BY <2>4 DEF new, cl, w, a
<1>4. Shared'
  BY <1>1 DEF Upheld, Shared
<1> QED
  BY <1>1, <1>2, <1>3, <1>4 DEF Upheld, Body

\* When an interceptor returns without a response, all that it wants is reached; the script
\* of the next one is fine.
LEMMA UpheldNext ==
  ASSUME StackInv, Upheld, [StackNext]_stackVars, UNCHANGED context, cur' # cur
  PROVE  Upheld'
<1>1. /\ pc = "user" /\ pc' = "user" /\ ~written /\ ~written' /\ script = <<>>
      /\ cur \in 1..N /\ cur' = cur + 1 /\ script' = BeforeOf(cur + 1) /\ values' = values
      /\ UNCHANGED <<wrapped, claimed>> /\ Wants' = Wants
  BY Advances DEF headerVars, context, Wants
<1>2. N \in Nat /\ Handler = N + 1
  BY HeaderAssumption DEF Handler
<1>3. \A g \in Wants[cur] : Reached(g, wrapped, claimed)
  <2>1. \A g \in Wants[cur] : Coming(g, script, wrapped, claimed)
    BY <1>1, <1>2, StopsLemma DEF Upheld
  <2>2. \A c : ~In(c, script)
    BY <1>1, InLemma
  <2>3. Len(script) = 0
    BY <1>1
  <2> QED
    BY <2>1, <2>2, <2>3 DEF Coming, Reached
<1>4. \A i \in 1..N : i < cur + 1 => \A g \in Wants[i] : Reached(g, wrapped, claimed)
  BY <1>1, <1>2, <1>3 DEF Upheld
<1>5. cur + 1 <= N => Fine(cur + 1, script')
  <2> SUFFICES ASSUME cur + 1 <= N PROVE Fine(cur + 1, Before(stack[cur + 1], req))
    BY <1>1, <1>2 DEF BeforeOf
  <2>1. cur + 1 \in 1..N /\ Shared
    BY <1>1, <1>2 DEF Upheld
  <2> QED
    BY <2>1, BeforeFine
<1>6. Shared'
  BY <1>1 DEF Upheld, Shared
<1> QED
  BY <1>1, <1>4, <1>5, <1>6 DEF Upheld, Body, Fine

\* One step.
LEMMA UpheldStep ==
  ASSUME StackInv, Order, Headers, WhoCalls, Committing, Upheld, [StackNext]_stackVars
  PROVE  Upheld'
<1>0. /\ UNCHANGED context /\ Wants' = Wants
      /\ N \in Nat /\ Handler = N + 1 /\ cur \in 1..(N + 1) /\ ScriptOK
  BY ValuesGrow, HeaderAssumption DEF context, Wants, StackInv, TypeOK, Actors, Handler
<1>1. CASE HeaderStep
  BY <1>0, <1>1, UpheldHeaders
<1>2. CASE PutStep \/ FuncStep
  <2>1. /\ Ready /\ Call.op \in {"put", "func"} /\ script' = Tail(script) /\ frame' = frame
        /\ UNCHANGED vars
        /\ values' = IF Call.op = "put" THEN values \cup {Call.key} ELSE values
    BY <1>2 DEF PutStep, FuncStep
  <2> QED
    BY <1>0, <2>1, UpheldCalls DEF vars, headerVars, flightVars
<1>3. CASE FSSetStep \/ FSStatusStep \/ FSWriteStep
  <2>1. UNCHANGED <<pc, cur, wrapped, claimed, values>>
    BY <1>3 DEF FSSetStep, FSStatusStep, FSWriteStep, FileBody, vars, headerVars, flightVars
  <2>2. cur = Handler
    BY <1>3, OnlyHandlerServes
  <2> QED
    BY <1>0, <2>1, <2>2 DEF Upheld, Shared
<1>4. CASE WriteStep(CommitOf(N, Call.kind))
  <2>1. /\ Ready /\ pc = "user" /\ pc' = "commit" /\ frame' = Tail(script)
        /\ UNCHANGED <<cur, wrapped, claimed, values>> /\ Call.op = "write"
    BY <1>4 DEF WriteStep, WriteError, Write, EnterWrite, InUser, headerVars
  <2>2. script \in Seq(AllCalls) /\ script # <<>> /\ Call = Head(script)
    BY <1>0, <2>1 DEF ScriptOK, Ready, Call
  <2>3. cur <= N => Tidy(Wants, cur, Tail(script), wrapped, claimed)
    BY <2>1, <2>2, TidyTail DEF Upheld, Body
  <2> QED
    BY <1>0, <2>1, <2>3 DEF Upheld, Body, Shared
<1>5. CASE CommitStep(CommitOf(commitAt - 1, resp))
  <2>1. pc = "commit" /\ UNCHANGED <<pc, cur, wrapped, claimed, values, frame>>
    BY <1>5 DEF CommitStep, CommitReturn, InCommit, headerVars
  <2> QED
    BY <1>0, <2>1 DEF Upheld, Body, Shared
<1>6. CASE DispatchStep
  <2>1. /\ pc = "commit" /\ pc' \in {"user", "unwind"} /\ written' = written /\ values' = values
        /\ pc' = "user" => script' = frame
    BY <1>6 DEF DispatchStep, DispatchResponse
  <2>2. written
    BY <2>1 DEF Order
  <2>3. ~HeaderStep
    BY <2>1 DEF HeaderStep, flightVars
  <2>4. Dispatches
    <3>1. ~UNCHANGED <<wrapped, claimed>> => Dispatches
      BY <2>1, <2>3, OtherStepDoes
    <3>2. cur' = cur /\ commitAt = 0
      BY <1>6, HeaderAssumption DEF DispatchStep, DispatchResponse, CommitPending, StackInv, TypeOK
    <3>3. UNCHANGED <<wrapped, claimed>> => Dispatches
      BY <2>1, <3>2 DEF Dispatches
    <3> QED
      BY <3>1, <3>3
  <2> QED
    BY <1>0, <2>1, <2>2, <2>4, UpheldDispatches
<1>7. CASE BeforeStep(BeforeOf(cur + 1))
  <2>1. CASE cur' = cur
    <3>1. pc' = "done" /\ UNCHANGED <<wrapped, claimed, values>> /\ pc = "user"
      BY <1>0, <1>7, <2>1 DEF BeforeStep, BeforeReturn, headerVars, InUser
    <3> QED
      BY <1>0, <2>1, <3>1 DEF Upheld, Shared
  <2> QED
    BY <1>0, <2>1, UpheldNext
<1>8. CASE HandlerStep
  <2>1. CASE HandlerReturnWritten
    <3>1. pc' = "done" /\ UNCHANGED <<cur, wrapped, claimed, values>> /\ pc = "user"
      BY <1>8, <2>1 DEF HandlerStep, HandlerReturnWritten, headerVars, programVars, InUser
    <3> QED
      BY <1>0, <3>1 DEF Upheld, Shared
  <2>2. CASE HandlerReturnNothing
    <3>1. pc = "user" /\ pc' = "done" /\ ~written /\ cur' = cur /\ values' = values
      BY <1>8, <2>2 DEF HandlerStep, HandlerReturnNothing, programVars, InUser
    <3>2. ~HeaderStep
      BY <3>1 DEF HeaderStep, flightVars
    <3>3. Dispatches
      <4>1. ~UNCHANGED <<wrapped, claimed>> => Dispatches
        BY <3>1, <3>2, OtherStepDoes
      <4> QED
        BY <3>1, <4>1 DEF Dispatches
    <3> QED
      BY <1>0, <3>1, <3>3, UpheldDispatches
  <2> QED
    BY <1>8, <2>1, <2>2 DEF HandlerStep
<1>9. CASE PanicStep
  <2>1. /\ pc' = "unwind" /\ pc # "crashed" /\ UNCHANGED <<cur, wrapped, claimed, values>>
    BY <1>9 DEF PanicStep, UserPanic, InUser, InCommit, headerVars
  <2> QED
    BY <1>0, <2>1 DEF Upheld, Shared
<1>10. CASE EndStep
  <2>1. CASE ClearAndRepanic
    <3>1. pc' = "crashed" /\ claimed' = claimed /\ values' = values
      BY <1>10, <2>1 DEF EndStep, ClearAndRepanic, programVars
    <3> QED
      BY <3>1 DEF Upheld, Shared
  <2>2. CASE ServerFinish \/ OuterRecover
    <3>1. /\ pc \in {"done", "crashed"} /\ UNCHANGED <<pc, cur, wrapped, claimed, values>>
      BY <1>10, <2>2 DEF EndStep, ServerFinish, OuterRecover, headerVars, programVars
    <3> QED
      BY <1>0, <3>1 DEF Upheld, Shared
  <2> QED
    BY <1>10, <2>1, <2>2 DEF EndStep
<1>11. CASE UNCHANGED stackVars
  <2>1. UNCHANGED <<pc, cur, written, script, frame, values, wrapped, claimed>>
    BY <1>11 DEF stackVars, allVars, vars, flightVars, headerVars, programVars
  <2> QED
    BY <1>0, <2>1 DEF Upheld, Body, Shared
<1> QED
  BY <1>1, <1>2, <1>3, <1>4, <1>5, <1>6, <1>7, <1>8, <1>9, <1>10, <1>11
     DEF StackNext, StackStep

\* Throughout a request.
LEMMA UpheldHolds == StackSpec => []Upheld
<1>1. StackInit /\ StackInv => Upheld
  <2> SUFFICES ASSUME StackInit, StackInv PROVE Upheld
    OBVIOUS
  <2>0. N > 0
    BY StackAssumption
  <2>1. N \in Nat /\ 1 \in 1..N
    BY <2>0, HeaderAssumption
  <2>2. cur = 1 /\ pc = "user" /\ values = {} /\ script = Before(stack[1], req)
    BY DEF StackInit, Init, ProgramInit
  <2>3. Shared
    BY <2>2 DEF Shared
  <2>4. Fine(1, script)
    BY <2>1, <2>2, <2>3, BeforeFine
  <2> QED
    BY <2>1, <2>2, <2>3, <2>4 DEF Upheld, Body, Fine
<1>2. StackInv /\ Order /\ Headers /\ WhoCalls /\ Committing /\ Upheld /\ [StackNext]_stackVars
        => Upheld'
  BY UpheldStep
<1> QED
  BY <1>1, <1>2, FlightInv, WhoCallsHolds, BoundHolds, PTL DEF StackSpec

\* What is sent carries what was upheld when it was sent.
LEMMA CarriedHolds == StackSpec => []Carried
<1>1. StackInit => Carried
  BY DEF StackInit, Init, NothingSent, Carried, Answered
<1>2. StackInv /\ StackInv' /\ Order /\ Order' /\ Upheld' /\ Carried /\ [StackNext]_stackVars
        => Carried'
  <2> SUFFICES ASSUME StackInv, StackInv', Order, Order', Upheld', Carried, [StackNext]_stackVars
               PROVE  Carried'
    OBVIOUS
  <2>0. UNCHANGED context /\ Wants' = Wants
    BY ValuesGrow DEF context, Wants
  <2>1. wire'.by \in {"server", "outer"} => Over'
    <3>1. CASE wire.by \in {"server", "outer"}
      <4>1. pc \in {"done", "crashed"}
        BY <3>1 DEF Carried, Over
      <4>2. pc' \in {"done", "crashed"}
        BY <4>1 DEF StackNext, StackStep, stackVars, allVars, vars, flightVars, HeaderStep,
           PanicStep, UserPanic, PutStep, FuncStep, WriteStep, WriteError, Write, EnterWrite,
           CommitStep, CommitReturn, InCommit, DispatchStep, DispatchResponse, BeforeStep,
           BeforeReturn, InUser, HandlerStep, HandlerReturnWritten, HandlerReturnNothing,
           EndStep, ClearAndRepanic, ServerFinish, OuterRecover, FSSetStep, FSStatusStep,
           FSWriteStep, FileBody, Ready, Running
      <4> QED
        BY <4>2 DEF Over
    <3>2. CASE wire'.by \in {"server", "outer"} /\ wire' # wire
      <4>1. \A by, status, hdr :
              Send(by, status, hdr) = wire \/ Send(by, status, hdr).by = by
        BY DEF Send
      <4>2. /\ DispatchStep \/ HandlerStep \/ FSWriteStep =>
                  wire' = wire \/ wire'.by \in {"dispatcher", "filebody"}
            /\ HeaderStep \/ PutStep \/ FuncStep \/ FSSetStep \/ FSStatusStep => wire' = wire
            /\ PanicStep \/ WriteStep(CommitOf(N, Call.kind)) \/ BeforeStep(BeforeOf(cur + 1))
                 \/ CommitStep(CommitOf(commitAt - 1, resp)) => wire' = wire
            /\ UNCHANGED stackVars => wire' = wire
        <5>1. DispatchStep \/ HandlerStep =>
                wire' = wire \/ wire'.by \in {"dispatcher", "filebody"}
          BY <4>1 DEF DispatchStep, DispatchResponse, Handed, HandlerStep, HandlerReturnWritten,
             HandlerReturnNothing
        <5>2. FSWriteStep => wire' = wire \/ wire'.by \in {"dispatcher", "filebody"}
          BY <4>1 DEF FSWriteStep, FileBody, vars, flightVars
        <5>3. HeaderStep \/ PutStep \/ FuncStep \/ FSSetStep \/ FSStatusStep => wire' = wire
          BY DEF HeaderStep, PutStep, FuncStep, FSSetStep, FSStatusStep, vars, flightVars
        <5>4. PanicStep \/ WriteStep(CommitOf(N, Call.kind)) \/ BeforeStep(BeforeOf(cur + 1))
                \/ CommitStep(CommitOf(commitAt - 1, resp)) => wire' = wire
          BY DEF PanicStep, UserPanic, WriteStep, WriteError, Write, EnterWrite, CommitStep,
             CommitReturn, BeforeStep, BeforeReturn
        <5>5. UNCHANGED stackVars => wire' = wire
          BY DEF stackVars, allVars, vars, flightVars
        <5> QED
          BY <5>1, <5>2, <5>3, <5>4, <5>5
      <4>3. EndStep
        BY <3>2, <4>2 DEF StackNext, StackStep
      <4>4. ServerFinish \/ OuterRecover
        BY <3>2, <4>3 DEF EndStep, ClearAndRepanic
      <4> QED
        BY <4>4 DEF ServerFinish, OuterRecover, Over
    <3> QED
      BY <3>1, <3>2
  <2>2. ASSUME Answered', NEW i \in 1..N, i < cur', NEW g \in Wants[i]
        PROVE  Good(g, wire'.hdr[g.name])
    <3>1. CASE wire' = wire
      <4>1. Answered
        BY <2>2, <3>1 DEF Answered
      <4>2. cur' = cur
        <5> SUFFICES ASSUME cur' # cur PROVE FALSE
          OBVIOUS
        <5>1. pc = "user" /\ ~written
          BY Advances
        <5>2. dispatched = 0
          BY <5>1 DEF Order
        <5> QED
          BY <4>1, <5>1, <5>2 DEF Answered, Order, Carried, Over
      <4> QED
        BY <2>2, <3>1, <4>1, <4>2 DEF Carried
    <3>2. CASE wire' # wire
      <4>1. /\ wire'.hdr = wrapped' /\ cur' = cur
            /\ pc' = "crashed" => wire'.by = "outer"
        BY <3>2, WireStep
      <4>2. pc' # "crashed"
        BY <2>2, <4>1 DEF Answered
      <4>3. Reached(g, wrapped', claimed')
        BY <2>0, <2>2, <4>2 DEF Upheld
      <4> QED
        BY <4>1, <4>3 DEF Reached
    <3> QED
      BY <3>1, <3>2
  <2> QED
    BY <2>0, <2>1, <2>2 DEF Carried
<1> QED
  BY <1>1, <1>2, FlightInv, UpheldHolds, PTL DEF StackSpec

\* Whatever answers the request, every header that the interceptors before it have set for
\* its handler is on the wire, whichever they are, in whatever order they are installed, and
\* whatever handlers, later interceptors and the dispatcher write.
THEOREM AnswersAreProtected == StackSpec => []AnswerProtected
<1>1. StackInv /\ Carried => AnswerProtected
  <2> SUFFICES ASSUME StackInv, Carried, Answered, NEW i \in 1..N, i < cur
               PROVE  Protects(stack[i], wire.hdr)
    BY DEF AnswerProtected
  <2>1. Wants[i] = Goals(stack[i], req, dev)
    BY DEF Wants
  <2>2. \A g \in Goals(stack[i], req, dev) : Good(g, wire.hdr[g.name])
    BY <2>1 DEF Carried
  <2> QED
    BY <2>2, GoalsProtect
<1> QED
  BY <1>1, CarriedHolds, StackTyped, PTL

-----------------------------------------------------------------------------
(* Which origins an answer names.                                           *)

\* What runs around a ServeMux allows no origin, and the interceptors a program adds itself,
\* which may rewrite Vary, run before those that name an origin.
NoneAllowed == \A h \in InitialHeaders : h[AllowOrigin] = <<>> /\ h[AllowCreds] = <<>>
OwnFirst    == \A s \in Stacks : \A i, j \in 1..N : s[i] = "cors" /\ s[j] = "own" => j < i

\* The names at stake; whether a call writes one; and the call that names the origin
\* among what an answer depends on.
OriginNames == {AllowOrigin, AllowCreds, Vary}
Writes(c, n) == c.op \in {"setter", "set", "add", "del"} /\ c.name = n
Announces(c) == c.op = "set" /\ c.name = Vary /\ c.val \in {"Origin", "Accept, Origin"}
Dependent(v) == v \in {<<"Origin">>, <<"Accept, Origin">>}

\* A script that names only an origin that is trusted, and announces at once that the
\* answer depends on it.
Honest(kind, r, s) ==
  \A k \in 1..Len(s) :
    /\ Writes(s[k], AllowOrigin) =>
         /\ kind = "cors" /\ r.origin = "friend" /\ s[k].op = "setter" /\ s[k].vals = <<"friend">>
         /\ k + 1 \in 1..Len(s) /\ Announces(s[k + 1])
    /\ Writes(s[k], AllowCreds) => kind = "cors" /\ r.origin \in {"", "friend"}
    /\ Writes(s[k], Vary) => kind = "own" \/ Announces(s[k])

\* A call that has nothing to do with origins.
Quiet(c) == \A n \in OriginNames : ~Writes(c, n)

\* The names are three, and belong to interceptors.
LEMMA OriginNamesAre ==
  /\ AllowOrigin # AllowCreds /\ AllowOrigin # Vary /\ AllowCreds # Vary
  /\ OriginNames \subseteq Names \ DispatcherNames
  /\ OriginNames \cap (FSNames \cup {ReportTo, CSP, "Set-Cookie"}) = {}
  /\ OriginNames \cap PluginNames = {}
<1>1. OriginNames \subseteq Names
  BY Mentioned, NamesUsed DEF OriginNames
<1>2. OriginNames \cap DispatcherNames = {}
  BY DEF OriginNames, DispatcherNames, AllowOrigin, AllowCreds, Vary
<1>3. OriginNames \cap (FSNames \cup {ReportTo, CSP, "Set-Cookie"}) = {}
  BY DEF OriginNames, AllowOrigin, AllowCreds, Vary, FSNames, XCTO, ReportTo, CSP
<1>4. OriginNames \cap PluginNames = {}
  BY DEF OriginNames, AllowOrigin, AllowCreds, Vary, PluginNames, XCTO, XXP, HSTS, COOP,
     COOPReportOnly, CSP, CSPReportOnly, XFO, ReportTo
<1>5. AllowOrigin # AllowCreds /\ AllowOrigin # Vary /\ AllowCreds # Vary
  BY DEF AllowOrigin, AllowCreds, Vary
<1> QED
  BY <1>1, <1>2, <1>3, <1>4, <1>5

\* Scripts of quiet calls, scripts that are put together, and what is left of one.
LEMMA HonestLemma ==
  ASSUME NEW kind, NEW r
  PROVE  /\ \A s : (\A c : In(c, s) => Quiet(c)) => Honest(kind, r, s)
         /\ \A s, t \in Seq(AllCalls) :
              Honest(kind, r, s) /\ Honest(kind, r, t) => Honest(kind, r, s \o t)
         /\ \A s \in Seq(AllCalls) : s # <<>> /\ Honest(kind, r, s) => Honest(kind, r, Tail(s))
<1>1. ASSUME NEW s, \A c : In(c, s) => Quiet(c)
      PROVE  Honest(kind, r, s)
  <2>1. \A k \in 1..Len(s) : Quiet(s[k])
    BY <1>1 DEF In
  <2> QED
    BY <2>1 DEF Honest, Quiet, OriginNames
<1>2. ASSUME NEW s \in Seq(AllCalls), NEW t \in Seq(AllCalls),
             Honest(kind, r, s), Honest(kind, r, t)
      PROVE  Honest(kind, r, s \o t)
  <2> DEFINE u == s \o t
  <2>1. /\ Len(s) \in Nat /\ Len(t) \in Nat /\ Len(u) = Len(s) + Len(t)
        /\ \A k \in 1..Len(s) : u[k] = s[k]
        /\ \A k \in 1..Len(t) : u[Len(s) + k] = t[k]
    BY Places2
  <2> HIDE DEF u
  <2>2. ASSUME NEW k \in 1..Len(u)
        PROVE  \/ /\ k \in 1..Len(s) /\ u[k] = s[k]
                  /\ k + 1 \in 1..Len(s) => k + 1 \in 1..Len(u) /\ u[k + 1] = s[k + 1]
               \/ \E j \in 1..Len(t) :
                    /\ u[k] = t[j]
                    /\ j + 1 \in 1..Len(t) => k + 1 \in 1..Len(u) /\ u[k + 1] = t[j + 1]
    <3>1. CASE k \in 1..Len(s)
      BY <2>1, <3>1
    <3>2. CASE k \notin 1..Len(s)
      <4>1. k - Len(s) \in 1..Len(t) /\ Len(s) + (k - Len(s)) = k
              /\ Len(s) + (k - Len(s) + 1) = k + 1
        BY <2>1, <3>2
      <4>2. u[k] = t[k - Len(s)]
        BY <2>1, <4>1
      <4>3. (k - Len(s)) + 1 \in 1..Len(t) =>
              k + 1 \in 1..Len(u) /\ u[k + 1] = t[(k - Len(s)) + 1]
        BY <2>1, <4>1
      <4> QED
        BY <4>1, <4>2, <4>3
    <3> QED
      BY <3>1, <3>2
  <2>3. Honest(kind, r, u)
    <3> SUFFICES ASSUME NEW k \in 1..Len(u)
                 PROVE  /\ Writes(u[k], AllowOrigin) =>
                             /\ kind = "cors" /\ r.origin = "friend" /\ u[k].op = "setter"
                             /\ u[k].vals = <<"friend">>
                             /\ k + 1 \in 1..Len(u) /\ Announces(u[k + 1])
                        /\ Writes(u[k], AllowCreds) => kind = "cors" /\ r.origin \in {"", "friend"}
                        /\ Writes(u[k], Vary) => kind = "own" \/ Announces(u[k])
      BY DEF Honest
    <3>1. CASE /\ k \in 1..Len(s) /\ u[k] = s[k]
               /\ k + 1 \in 1..Len(s) => k + 1 \in 1..Len(u) /\ u[k + 1] = s[k + 1]
      BY <1>2, <3>1 DEF Honest
    <3>2. CASE \E j \in 1..Len(t) :
                 /\ u[k] = t[j]
                 /\ j + 1 \in 1..Len(t) => k + 1 \in 1..Len(u) /\ u[k + 1] = t[j + 1]
      BY <1>2, <3>2 DEF Honest
    <3> QED
      BY <2>2, <3>1, <3>2
  <2> QED
    BY <2>3 DEF u
<1>3. ASSUME NEW s \in Seq(AllCalls), s # <<>>, Honest(kind, r, s)
      PROVE  Honest(kind, r, Tail(s))
  <2> DEFINE t == Tail(s)
  <2>1. /\ Len(s) \in Nat \ {0} /\ Len(t) = Len(s) - 1
        /\ \A k \in 1..Len(t) : t[k] = s[k + 1]
    BY <1>3, EmptySeq, HeadTailProperties
  <2> HIDE DEF t
  <2>2. ASSUME NEW k \in 1..Len(t)
        PROVE  /\ k + 1 \in 1..Len(s) /\ t[k] = s[k + 1]
               /\ (k + 1) + 1 \in 1..Len(s) => k + 1 \in 1..Len(t) /\ t[k + 1] = s[(k + 1) + 1]
    BY <2>1
  <2>3. Honest(kind, r, t)
    <3> SUFFICES ASSUME NEW k \in 1..Len(t)
                 PROVE  /\ Writes(t[k], AllowOrigin) =>
                             /\ kind = "cors" /\ r.origin = "friend" /\ t[k].op = "setter"
                             /\ t[k].vals = <<"friend">>
                             /\ k + 1 \in 1..Len(t) /\ Announces(t[k + 1])
                        /\ Writes(t[k], AllowCreds) => kind = "cors" /\ r.origin \in {"", "friend"}
                        /\ Writes(t[k], Vary) => kind = "own" \/ Announces(t[k])
      BY DEF Honest
    <3> QED
      BY <1>3, <2>2 DEF Honest
  <2> QED
    BY <2>3 DEF t
<1> QED
  BY <1>1, <1>2, <1>3
\* Calls that have nothing to do with origins.
LEMMA QuietCalls ==
  /\ \A n : Quiet(ClaimOf(n))
  /\ \A n \in Names : n \notin OriginNames => \A vs : Quiet(SetterOf(n, vs))
  /\ \A k : Quiet(WriteOf(k)) /\ Quiet(PutOf(k))
  /\ Quiet(PanicOf)
  /\ \A v : Quiet(AddOf(ReportTo, v))
<1>1. ReportTo \notin OriginNames
  BY OriginNamesAre
<1> QED
  BY <1>1 DEF Quiet, Writes, ClaimOf, SetterOf, WriteOf, PutOf, PanicOf, AddOf

\* The cors plugin names the origin of a request only if it is trusted, and says at once
\* that the answer depends on it.
LEMMA AnswerIsHonest ==
  ASSUME NEW r \in Requests, NEW kind \in {"cors", "cors-default"},
         OriginTrusted(r, CorsSettings(kind))
  PROVE  /\ CorsAnswer(r, CorsSettings(kind)) \in Seq(AllCalls)
         /\ Honest(kind, r, CorsAnswer(r, CorsSettings(kind)))
<1> DEFINE it == CorsSettings(kind)
           origin == IF r.origin = "" THEN <<>>
                     ELSE <<SetterOf(AllowOrigin, <<r.origin>>), VaryOrigin>>
           creds == IF SendsCookies(r) /\ it.credentials THEN <<SetterOf(AllowCreds, <<"true">>)>>
                                                           ELSE <<>>
<1>1. {"friend", "true", "Origin", "Accept, Origin"} \subseteq Values
  BY Mentioned DEF UsedValues
<1>2. /\ kind = "cors" => it.origins = {"friend"}
      /\ kind = "cors-default" => it.origins = {} /\ ~it.credentials
  BY DEF CorsSettings
<1>3. r.origin # "" => kind = "cors" /\ r.origin = "friend"
  BY <1>2 DEF OriginTrusted
<1>4. /\ SetterOf(AllowOrigin, <<"friend">>) \in AllCalls /\ VaryOrigin \in AllCalls
      /\ SetterOf(AllowCreds, <<"true">>) \in AllCalls
  BY <1>1, MakeCalls, Mentioned DEF VaryOrigin
<1>5. Announces(VaryOrigin) /\ Writes(VaryOrigin, Vary) /\ ~Writes(VaryOrigin, AllowOrigin)
        /\ ~Writes(VaryOrigin, AllowCreds)
  BY OriginNamesAre DEF VaryOrigin, SetOf, Announces, Writes
<1>6. Honest(kind, r, <<>>)
  BY InLemma, HonestLemma
<1>7. Honest(kind, r, origin)
  <2>1. CASE r.origin = ""
    BY <1>6, <2>1
  <2>2. CASE r.origin # ""
    <3> DEFINE s == <<SetterOf(AllowOrigin, <<r.origin>>), VaryOrigin>>
    <3>1. Len(s) = 2 /\ s[1] = SetterOf(AllowOrigin, <<r.origin>>) /\ s[2] = VaryOrigin
      OBVIOUS
    <3> HIDE DEF s
    <3>2. s[1].op = "setter" /\ s[1].name = AllowOrigin /\ s[1].vals = <<"friend">>
      <4>1. r.origin = "friend"
        BY <1>3, <2>2
      <4>2. s[1] = SetterOf(AllowOrigin, <<"friend">>)
        BY <3>1, <4>1, Zenon
      <4> QED
        BY <4>2 DEF SetterOf
    <3>3. ~Writes(s[1], AllowCreds) /\ ~Writes(s[1], Vary)
      BY <3>2, OriginNamesAre DEF Writes
    <3>4. \A k \in 1..Len(s) : k = 1 \/ k = 2
      BY <3>1
    <3>5. 1 + 1 = 2 /\ 2 \in 1..Len(s) /\ Announces(s[2])
      BY <1>5, <3>1
    <3>6. /\ ~Writes(s[2], AllowOrigin) /\ ~Writes(s[2], AllowCreds)
          /\ kind = "cors" /\ r.origin = "friend"
      BY <1>3, <1>5, <2>2, <3>1
    <3>7. Honest(kind, r, s)
      BY <3>2, <3>3, <3>4, <3>5, <3>6 DEF Honest
    <3> QED
      BY <2>2, <3>7 DEF s
  <2> QED
    BY <2>1, <2>2
<1>8. Honest(kind, r, creds)
  <2>1. CASE SendsCookies(r) /\ it.credentials
    <3> DEFINE s == <<SetterOf(AllowCreds, <<"true">>)>>
    <3>1. Len(s) = 1 /\ s[1] = SetterOf(AllowCreds, <<"true">>)
      OBVIOUS
    <3> HIDE DEF s
    <3>2. ~Writes(s[1], AllowOrigin) /\ ~Writes(s[1], Vary)
      BY <3>1, OriginNamesAre DEF Writes, SetterOf
    <3>3. kind = "cors" /\ r.origin \in {"", "friend"}
      BY <1>2, <1>3, <2>1
    <3>4. \A k \in 1..Len(s) : k = 1
      BY <3>1
    <3>5. Honest(kind, r, s)
      BY <3>2, <3>3, <3>4 DEF Honest
    <3> QED
      BY <2>1, <3>5 DEF s
  <2>2. CASE ~(SendsCookies(r) /\ it.credentials)
    BY <1>6, <2>2
  <2> QED
    BY <2>1, <2>2
<1>9. origin \in Seq(AllCalls)
  <2>1. CASE r.origin = ""
    BY <2>1, Scripts
  <2>2. CASE r.origin # ""
    <3>1. <<SetterOf(AllowOrigin, <<"friend">>), VaryOrigin>> \in Seq(AllCalls)
      BY <1>4, Scripts
    <3> QED
      BY <1>3, <2>2, <3>1
  <2> QED
    BY <2>1, <2>2
<1>10. creds \in Seq(AllCalls)
  BY <1>4, Scripts
<1>11. CorsAnswer(r, it) = origin \o creds
  BY DEF CorsAnswer
<1> HIDE DEF it, origin, creds
<1>12. origin \o creds \in Seq(AllCalls) /\ Honest(kind, r, origin \o creds)
  BY <1>7, <1>8, <1>9, <1>10, HonestLemma, Scripts
<1> QED
  BY <1>11, <1>12 DEF it

\* All of what it does.
LEMMA CorsIsHonest ==
  ASSUME NEW r \in Requests, NEW kind \in {"cors", "cors-default"}
  PROVE  Honest(kind, r, Cors(r, CorsSettings(kind)))
<1> DEFINE it      == CorsSettings(kind)
           ours    == <<ClaimOf(AllowOrigin), ClaimOf(AllowCreds)>>
           claim   == <<ClaimOf(AllowOrigin)>>
           refuse  == <<WriteOf("error")>>
           last    == <<WriteOf("nocontent")>>
           preflight == PreflightCalls(r, it)
           request == RequestCalls(it)
           answer  == CorsAnswer(r, it)
<1>0. it \in {CorsSettings("cors"), CorsSettings("cors-default")}
  OBVIOUS
<1>1. /\ ours \in Seq(AllCalls) /\ refuse \in Seq(AllCalls) /\ claim \in Seq(AllCalls)
      /\ last \in Seq(AllCalls)
  BY MakeCalls, Mentioned, Scripts
<1>2. /\ Honest(kind, r, ours) /\ Honest(kind, r, refuse) /\ Honest(kind, r, claim)
      /\ Honest(kind, r, last)
  <2>1. \A c : In(c, ours) => Quiet(c)
    BY InMore, QuietCalls
  <2>2. \A c : In(c, refuse) \/ In(c, claim) \/ In(c, last) => Quiet(c)
    BY InLemma, QuietCalls
  <2> HIDE DEF ours, refuse, claim, last
  <2> QED
    BY <2>1, <2>2, HonestLemma
<1>3. /\ {AllowMethods, AllowHeaders, MaxAge, ExposeHeaders} \subseteq Names
      /\ {AllowMethods, AllowHeaders, MaxAge, ExposeHeaders} \cap OriginNames = {}
  <2>1. {AllowMethods, AllowHeaders, MaxAge, ExposeHeaders} \subseteq Names
    BY Mentioned, NamesUsed DEF CorsNames
  <2>2. {AllowMethods, AllowHeaders, MaxAge, ExposeHeaders} \cap OriginNames = {}
    BY DEF AllowMethods, AllowHeaders, MaxAge, ExposeHeaders, OriginNames, AllowOrigin,
       AllowCreds, Vary
  <2> QED
    BY <2>1, <2>2
<1>4. PreflightPasses(r, it) => preflight \in Seq(AllCalls) /\ Honest(kind, r, preflight)
  <2> SUFFICES ASSUME PreflightPasses(r, it)
               PROVE  preflight \in Seq(AllCalls) /\ Honest(kind, r, preflight)
    OBVIOUS
  <2>1. \A c : In(c, preflight) => Quiet(c)
    BY <1>0, <1>3, CorsCallsAre, QuietCalls
  <2>2. preflight \in Seq(AllCalls)
    BY <1>0, CorsParts, BeforeScripts
  <2> HIDE DEF preflight
  <2> QED
    BY <2>1, <2>2, HonestLemma
<1>5. request \in Seq(AllCalls) /\ Honest(kind, r, request)
  <2>1. \A c : In(c, request) => Quiet(c)
    BY <1>0, <1>3, CorsCallsAre, QuietCalls
  <2>2. request \in Seq(AllCalls)
    BY <1>0, CorsParts, BeforeScripts
  <2> HIDE DEF request
  <2> QED
    BY <2>1, <2>2, HonestLemma
<1>6. OriginTrusted(r, it) => answer \in Seq(AllCalls) /\ Honest(kind, r, answer)
  BY AnswerIsHonest
<1>7. \/ Cors(r, it) \in {refuse, claim \o refuse, ours \o refuse}
      \/ /\ OriginTrusted(r, it) /\ PreflightPasses(r, it)
         /\ Cors(r, it) = ours \o preflight \o answer \o last
      \/ OriginTrusted(r, it) /\ Cors(r, it) = ours \o request \o answer
  BY DEF Cors
<1>8. \A s, t \in Seq(AllCalls) :
        Honest(kind, r, s) /\ Honest(kind, r, t) => s \o t \in Seq(AllCalls) /\ Honest(kind, r, s \o t)
  BY HonestLemma, Scripts
<1> HIDE DEF it, ours, claim, refuse, last, preflight, request, answer
<1>9. Honest(kind, r, Cors(r, it))
  <2>1. CASE Cors(r, it) \in {refuse, claim \o refuse, ours \o refuse}
    BY <1>1, <1>2, <1>8, <2>1
  <2>2. CASE /\ OriginTrusted(r, it) /\ PreflightPasses(r, it)
             /\ Cors(r, it) = ours \o preflight \o answer \o last
    <3>1. ours \o preflight \in Seq(AllCalls) /\ Honest(kind, r, ours \o preflight)
      BY <1>1, <1>2, <1>4, <1>8, <2>2
    <3>2. /\ (ours \o preflight) \o answer \in Seq(AllCalls)
          /\ Honest(kind, r, (ours \o preflight) \o answer)
      BY <1>6, <1>8, <2>2, <3>1
    <3>3. Honest(kind, r, ((ours \o preflight) \o answer) \o last)
      BY <1>1, <1>2, <1>8, <3>2
    <3> QED
      BY <2>2, <3>3
  <2>3. CASE OriginTrusted(r, it) /\ Cors(r, it) = ours \o request \o answer
    <3>1. ours \o request \in Seq(AllCalls) /\ Honest(kind, r, ours \o request)
      BY <1>1, <1>2, <1>5, <1>8
    <3>2. Honest(kind, r, (ours \o request) \o answer)
      BY <1>6, <1>8, <2>3, <3>1
    <3> QED
      BY <2>3, <3>2
  <2> QED
    BY <1>7, <2>1, <2>2, <2>3
<1> QED
  BY <1>9 DEF it

\* The csp interceptors have nothing to do with origins.
LEMMA CspQuiet ==
  ASSUME StackInv, NEW policy, policy.text \in UsedValues, NEW only \in BOOLEAN,
         NEW c, In(c, CspBefore(policy, only))
  PROVE  Quiet(c)
<1> DEFINE first == Nonce
           claims == ClaimedHeaders
           sets == CspSets(policy, only)
<1>1. /\ first \in Seq(AllCalls) /\ claims \in Seq(AllCalls) /\ sets \in Seq(AllCalls)
      /\ CspBefore(policy, only) = first \o claims \o sets
  <2>1. /\ first \in Seq(BeforeCalls) /\ claims \in Seq(BeforeCalls) /\ sets \in Seq(BeforeCalls)
        /\ CspBefore(policy, only) = first \o claims \o sets
    BY CspParts DEF StackInv
  <2> HIDE DEF first, claims, sets
  <2> QED
    BY <2>1, BeforeScripts
<1>2. In(c, first) => c = PutOf("csp-nonce")
  BY InLemma DEF Nonce
<1>3. In(c, claims) => c \in {ClaimOf(CSP), ClaimOf(CSPReportOnly), PutOf("csp-headers")}
  <2>1. In(c, <<ClaimOf(CSP), ClaimOf(CSPReportOnly), PutOf("csp-headers")>>) =>
          c \in {ClaimOf(CSP), ClaimOf(CSPReportOnly), PutOf("csp-headers")}
    BY DEF In
  <2>2. ~In(c, <<>>)
    BY InLemma
  <2> QED
    BY <2>1, <2>2 DEF ClaimedHeaders
<1>4. In(c, sets) => \E n \in CspNames : \E vs : c = SetterOf(n, vs)
  <2>1. /\ sets = <<>> \/ \E n \in CspNames : \E vs : sets = <<SetterOf(n, vs)>>
    BY DEF CspSets, HeaderFor, CspNames
  <2> HIDE DEF sets
  <2> QED
    BY <2>1, InLemma
<1>5. CspNames \subseteq Names /\ CspNames \cap OriginNames = {}
  BY Mentioned, NamesUsed, OriginNamesAre DEF CspNames, PluginNames
<1> HIDE DEF first, claims, sets
<1>6. In(c, first) \/ In(c, claims) \/ In(c, sets)
  BY <1>1, InMore
<1> QED
  BY <1>2, <1>3, <1>4, <1>5, <1>6, QuietCalls

\* Nor have those that write headers of their own.
LEMMA HeadersQuiet ==
  ASSUME StackInv, NEW a \in 1..N,
         stack[a] \in {"static", "hsts", "hsts-proxy", "hsts-broken", "coop", "reporting", "xfo"},
         NEW c, In(c, Before(stack[a], req))
  PROVE  Quiet(c)
<1> DEFINE own == {XCTO, XXP, HSTS, COOP, COOPReportOnly, XFO}
<1>1. own \subseteq OwnedNames /\ own \subseteq Names /\ own \cap OriginNames = {}
  <2>1. own \subseteq PluginNames /\ ReportTo \notin own
    BY DEF PluginNames, XCTO, XXP, HSTS, COOP, COOPReportOnly, XFO, ReportTo
  <2> QED
    BY <2>1, NamesUsed, OriginNamesAre DEF OwnedNames
<1>2. \A n \in own : Quiet(ClaimOf(n)) /\ \A vs : Quiet(SetterOf(n, vs))
  BY <1>1, QuietCalls
<1>3. ASSUME NEW n \in own, NEW vs \in HeaderValues, In(c, ClaimAndSet(n, vs))
      PROVE  Quiet(c)
  <2> DEFINE claims == <<ClaimOf(n)>>
             sets == <<SetterOf(n, vs)>>
             none == <<>>
  <2>1. claims \in Seq(AllCalls) /\ sets \in Seq(AllCalls) /\ none \in Seq(AllCalls)
    BY <1>1, MakeCalls, Scripts
  <2>2. /\ In(c, claims) => c = ClaimOf(n)
        /\ In(c, sets) => c = SetterOf(n, vs)
        /\ ~In(c, none)
    BY InLemma
  <2>3. In(c, claims \o none) \/ In(c, claims \o sets)
    BY <1>3 DEF ClaimAndSet
  <2> HIDE DEF claims, sets, none
  <2>4. In(c, claims) \/ In(c, sets)
    BY <2>1, <2>2, <2>3, InLemma
  <2> QED
    BY <1>2, <2>2, <2>4
<1>4. \A v \in UsedValues : <<v>> \in HeaderValues
  BY Mentioned
<1>5. CASE stack[a] = "static"
  <2>1. In(c, StaticHeaders)
    BY <1>5 DEF Before
  <2>2. c \in {ClaimOf(XCTO), ClaimOf(XXP), SetterOf(XCTO, <<"nosniff">>), SetterOf(XXP, <<"0">>)}
    BY <2>1 DEF In, StaticHeaders
  <2> QED
    BY <1>2, <2>2
<1>6. CASE stack[a] \in {"hsts", "hsts-proxy", "hsts-broken"}
  <2>1. Before(stack[a], req) \in {<<>>, <<WriteOf("error")>>, <<WriteOf("redirect")>>,
                                   ClaimAndSet(HSTS, <<"max-age">>)}
    BY <1>6 DEF Before, Hsts
  <2>2. CASE Before(stack[a], req) \in {<<>>, <<WriteOf("error")>>, <<WriteOf("redirect")>>}
    BY <2>2, InLemma, QuietCalls
  <2>3. CASE Before(stack[a], req) = ClaimAndSet(HSTS, <<"max-age">>)
    <3>1. <<"max-age">> \in HeaderValues /\ HSTS \in own
      BY <1>4 DEF UsedValues
    <3> QED
      BY <1>3, <2>3, <3>1
  <2> QED
    BY <2>1, <2>2, <2>3
<1>7. CASE stack[a] = "coop"
  <2> DEFINE enf == ClaimAndSet(COOP, CoopPolicies(req.config).enf)
             rep == ClaimAndSet(COOPReportOnly, CoopPolicies(req.config).rep)
  <2>1. CoopPolicies(req.config).enf \in HeaderValues /\ CoopPolicies(req.config).rep \in HeaderValues
    <3>1. <<"coop-report">> \in HeaderValues /\ <<"same-origin">> \in HeaderValues
      BY <1>4 DEF UsedValues
    <3>2. <<>> \in HeaderValues
      BY DEF HeaderValues
    <3> QED
      BY <3>1, <3>2 DEF CoopPolicies
  <2>2. COOP \in OwnedNames /\ COOPReportOnly \in OwnedNames
    BY <1>1
  <2>3. enf \in Seq(AllCalls) /\ rep \in Seq(AllCalls)
    BY <2>1, <2>2, ClaimAndSetType, BeforeScripts
  <2>4. (In(c, enf) => Quiet(c)) /\ (In(c, rep) => Quiet(c))
    BY <1>3, <2>1
  <2>5. In(c, enf \o rep)
    BY <1>7 DEF Before, Coop
  <2> HIDE DEF enf, rep
  <2> QED
    BY <2>3, <2>4, <2>5, InLemma
<1>8. CASE stack[a] = "reporting"
  <2>1. Before(stack[a], req) = <<AddOf(ReportTo, "group"), AddOf(ReportTo, "more")>>
    BY <1>8 DEF Before, Reporting
  <2>2. In(c, <<AddOf(ReportTo, "group"), AddOf(ReportTo, "more")>>)
    BY <2>1
  <2>3. c = AddOf(ReportTo, "group") \/ c = AddOf(ReportTo, "more")
    BY <2>2, InMore
  <2> QED
    BY <2>3, QuietCalls
<1>9. CASE stack[a] = "xfo"
  <2>1. \E vs : In(c, <<ClaimOf(XFO), SetterOf(XFO, vs)>>)
    BY <1>9 DEF Before, FrameOptions
  <2>2. c = ClaimOf(XFO) \/ \E vs : c = SetterOf(XFO, vs)
    BY <2>1, InMore
  <2> QED
    BY <1>2, <2>2
<1> QED
  BY <1>5, <1>6, <1>7, <1>8, <1>9

\* Every interceptor's script is honest.
LEMMA BeforeHonest ==
  ASSUME StackInv, NEW a \in 1..N
  PROVE  Honest(stack[a], req, Before(stack[a], req))
<1> DEFINE s == Before(stack[a], req)
<1>0. stack[a] \in InterceptorKinds /\ req \in Requests
  BY DEF StackInv, ContextOK
<1>1. CASE stack[a] \in {"static", "hsts", "hsts-proxy", "hsts-broken", "coop", "reporting", "xfo"}
  <2>1. \A c : In(c, s) => Quiet(c)
    BY <1>1, HeadersQuiet
  <2> HIDE DEF s
  <2> QED
    BY <2>1, HonestLemma DEF s
<1>2. CASE stack[a] \in Csp
  <2>1. \E policy, only : policy.text \in UsedValues /\ only \in BOOLEAN /\ s = CspBefore(policy, only)
    BY <1>2, PolicyTexts DEF Before, Csp
  <2>2. \A c : In(c, s) => Quiet(c)
    BY <2>1, CspQuiet
  <2> HIDE DEF s
  <2> QED
    BY <2>2, HonestLemma DEF s
<1>3. CASE stack[a] \in {"host", "resource", "resource-navigate", "resource-report", "framing",
                         "xsrf-html", "xsrf-angular", "xsrf-block"}
  <2>1. s \in {<<>>, <<WriteOf("error")>>, <<WriteOf("redirect")>>}
    BY <1>3 DEF Before, HostCheck, FetchMetadata, XsrfBefore, AngularBefore, BlockAll
  <2>2. \A c : In(c, s) => Quiet(c)
    BY <2>1, InLemma, QuietCalls
  <2> HIDE DEF s
  <2> QED
    BY <2>2, HonestLemma DEF s
<1>4. CASE stack[a] \in {"cors", "cors-default"}
  <2>1. s = Cors(req, CorsSettings(stack[a]))
    BY <1>4 DEF Before
  <2> QED
    BY <1>0, <1>4, <2>1, CorsIsHonest
<1>5. CASE stack[a] = "auth"
  <2> DEFINE user    == <<PutOf("user")>>
             refusal == <<WriteOf("error")>>
             none    == <<>>
  <2>1. user \in Seq(AllCalls) /\ refusal \in Seq(AllCalls) /\ none \in Seq(AllCalls)
    BY MakeCalls, Mentioned, Scripts DEF Keys
  <2>2. \E t \in {user, none}, u \in {refusal, none} : s = t \o u
    BY <1>5 DEF Before, AuthBefore
  <2>3. \A c : (In(c, user) \/ In(c, refusal) => Quiet(c)) /\ ~In(c, none)
    BY InLemma, QuietCalls
  <2> HIDE DEF user, refusal, none, s
  <2>4. \A c : In(c, s) => Quiet(c)
    BY <2>1, <2>2, <2>3, InLemma
  <2> QED
    BY <2>4, HonestLemma DEF s
<1>6. CASE stack[a] = "own"
  <2>1. \/ s \in {<<>>, <<WriteOf("template")>>, <<PanicOf>>}
        \/ s = <<AddOf(Vary, "Accept"), AddOf(Vary, "Cookie")>>
        \/ s = <<ClaimOf(Vary), SetterOf(Vary, <<"Accept">>)>>
    BY <1>6 DEF Before, OwnBefore
  <2>2. \A n \in {AllowOrigin, AllowCreds} :
          /\ \A v : ~Writes(AddOf(Vary, v), n)
          /\ ~Writes(ClaimOf(Vary), n) /\ \A vs : ~Writes(SetterOf(Vary, vs), n)
    BY OriginNamesAre DEF Writes, AddOf, ClaimOf, SetterOf
  <2>3. ASSUME NEW k \in 1..Len(s) PROVE ~Writes(s[k], AllowOrigin) /\ ~Writes(s[k], AllowCreds)
    <3>1. CASE s \in {<<>>, <<WriteOf("template")>>, <<PanicOf>>}
      <4>1. \A c : In(c, s) => Quiet(c)
        BY <3>1, InLemma, QuietCalls
      <4>2. In(s[k], s)
        BY DEF In
      <4> QED
        BY <4>1, <4>2 DEF Quiet, OriginNames
    <3>2. CASE s = <<AddOf(Vary, "Accept"), AddOf(Vary, "Cookie")>>
      <4>1. s[k] = AddOf(Vary, "Accept") \/ s[k] = AddOf(Vary, "Cookie")
        BY <3>2
      <4> QED
        BY <2>2, <4>1
    <3>3. CASE s = <<ClaimOf(Vary), SetterOf(Vary, <<"Accept">>)>>
      <4>1. s[k] = ClaimOf(Vary) \/ s[k] = SetterOf(Vary, <<"Accept">>)
        BY <3>3
      <4> QED
        BY <2>2, <4>1
    <3> QED
      BY <2>1, <3>1, <3>2, <3>3
  <2> HIDE DEF s
  <2>4. Honest("own", req, s)
    BY <2>3 DEF Honest
  <2> QED
    BY <1>6, <2>4 DEF s
<1> QED
  BY <1>0, <1>1, <1>2, <1>3, <1>4, <1>5, <1>6 DEF InterceptorKinds, Csp

\* The announcement is the very next call to be made.
Owed == pc = "user" /\ script # <<>> /\ Announces(Head(script))

\* The origin in the header is that of the request, put there by a cors interceptor that has
\* run, and the answer is, or will at once be, known to depend on it.
Allows ==
  /\ stack \in Stacks
  /\ wrapped[AllowOrigin] # <<>> =>
       /\ wrapped[AllowOrigin] = <<"friend">> /\ req.origin = "friend"
       /\ \E i \in 1..N : i <= cur /\ stack[i] = "cors"
       /\ Dependent(wrapped[Vary]) \/ Owed \/ pc = "unwind"
  /\ wrapped[AllowCreds] # <<>> => Has({"cors"}) /\ req.origin \in {"", "friend"}
  /\ pc \in {"user", "commit"} /\ cur \in 1..N => Honest(stack[cur], req, Body)

\* Of the headers, what an answer on the wire has.
Named ==
  Answered =>
    /\ wire.hdr[AllowOrigin] # <<>> =>
         /\ Has({"cors"}) /\ req.origin = "friend" /\ wire.hdr[AllowOrigin] = <<"friend">>
         /\ Dependent(wire.hdr[Vary])
    /\ wire.hdr[AllowCreds] # <<>> => Has({"cors"}) /\ req.origin \in {"", "friend"}

\* What writes one of the names is the script of an interceptor.
LEMMA WhoWrites ==
  ASSUME StackInv, Headers, WhoCalls, Committing, HeaderStep,
         NEW n \in OriginNames, wrapped'[n] # wrapped[n]
  PROVE  pc = "user" /\ cur \in 1..N /\ Writes(Call, n)
<1>1. /\ Ready /\ Call \in AllCalls /\ Call.op \in {"setter", "set", "add", "del", "cookie"}
      /\ Target(Call) \in Names /\ wrapped' = [wrapped EXCEPT ![Target(Call)] = NewValue(Call)]
  BY HeaderStepDoes
<1>2. wrapped \in [Names -> HeaderValues] /\ n \in Names
  BY OriginNamesAre DEF StackInv, TypeOK, HeaderTypeOK
<1>3. Target(Call) = n
  BY <1>1, <1>2
<1>4. Call.op # "cookie" /\ Call.name = n
  BY <1>3, OriginNamesAre DEF Target
<1>5. Writes(Call, n)
  BY <1>1, <1>4 DEF Writes
<1>6. pc = "user"
  <2>1. \A c \in CommitCalls : c.op \in {"panic", "func", "cookie"}
    BY DEF CommitCalls, PanicOf, FuncOf, CookieOf
  <2> QED
    BY <1>1, <1>4, <2>1, WhoseCall
<1>7. cur \in 1..N
  <2>1. cur \in 1..Handler /\ N \in Nat /\ Handler = N + 1
    BY HeaderAssumption DEF StackInv, TypeOK, Actors, Handler
  <2>2. cur # Handler
    <3> SUFFICES ASSUME cur = Handler PROVE FALSE
      OBVIOUS
    <3>1. Call \in HandlerCalls
      BY <1>1, <1>6, WhoseCall DEF CallsOf
    <3>2. /\ Call.op \in {"set", "add", "del"} /\ Call.name \in {Vary, CSP, ReportTo} \cup FSNames
      BY <1>1, <1>4, <3>1, CallShape DEF HandlerCalls
    <3> QED
      BY <1>4, <3>1, <3>2, OriginNamesAre DEF HandlerCalls, OriginNames
  <2> QED
    BY <2>1, <2>2
<1> QED
  BY <1>5, <1>6, <1>7

\* Such a step.
LEMMA AllowsHeaders ==
  ASSUME OwnFirst, StackInv, Headers, WhoCalls, Committing, Allows, HeaderStep, UNCHANGED context
  PROVE  Allows'
<1>1. /\ Ready /\ Call \in AllCalls /\ script' = Tail(script)
      /\ UNCHANGED <<pc, cur, frame>> /\ wrapped \in [Names -> HeaderValues]
      /\ UNCHANGED <<stack, req>>
      /\ pc \in {"user", "commit"}
  BY HeaderStepDoes DEF flightVars, StackInv, TypeOK, HeaderTypeOK, context, Ready, Running,
     InUser, InCommit
<1>2. script \in Seq(AllCalls) /\ script # <<>> /\ Call = Head(script) /\ Len(script) \in Nat \ {0}
      /\ script[1] = Call /\ 1 \in 1..Len(script)
  BY <1>1, EmptySeq, HeadTailProperties DEF StackInv, ScriptOK, Ready, Call
<1>3. pc = "user" /\ cur \in 1..N => Honest(stack[cur], req, script)
  BY DEF Allows, Body
<1>4. pc \in {"user", "commit"} /\ cur \in 1..N => Honest(stack[cur], req, Body')
  <2>1. CASE pc = "user"
    <3>1. Body' = Tail(script)
      BY <1>1, <2>1 DEF Body
    <3> QED
      BY <1>2, <1>3, <2>1, <3>1, HonestLemma
  <2>2. CASE pc = "commit"
    BY <1>1, <2>2 DEF Allows, Body
  <2> QED
    BY <2>1, <2>2
<1>5. ASSUME wrapped'[AllowOrigin] # wrapped[AllowOrigin]
      PROVE  /\ wrapped'[AllowOrigin] = <<"friend">> /\ req.origin = "friend"
             /\ cur \in 1..N /\ stack[cur] = "cors" /\ Owed'
  <2>1. pc = "user" /\ cur \in 1..N /\ Writes(Call, AllowOrigin)
    BY <1>5, WhoWrites DEF OriginNames
  <2>2. /\ stack[cur] = "cors" /\ req.origin = "friend"
        /\ Call.op = "setter" /\ Call.vals = <<"friend">> /\ Call.name = AllowOrigin
        /\ 1 + 1 \in 1..Len(script) /\ Announces(script[1 + 1])
    BY <1>2, <1>3, <2>1 DEF Honest, Writes
  <2>3. Owed'
    <3>1. Len(Tail(script)) = Len(script) - 1 /\ Tail(script) \in Seq(AllCalls)
            /\ \A k \in 1..Len(Tail(script)) : Tail(script)[k] = script[k + 1]
      BY <1>2, HeadTailProperties
    <3>2. Len(Tail(script)) # 0 /\ Tail(script)[1] = script[1 + 1]
      BY <1>2, <2>2, <3>1
    <3>3. Tail(script) # <<>> /\ Head(Tail(script)) = Tail(script)[1]
      <4> DEFINE t == Tail(script)
      <4>1. t \in Seq(AllCalls) /\ Len(t) # 0
        BY <3>1, <3>2
      <4> HIDE DEF t
      <4>2. t # <<>>
        BY <4>1
      <4>3. Head(t) = t[1]
        BY <4>1, <4>2, HeadTailProperties
      <4> QED
        BY <4>2, <4>3 DEF t
    <3> QED
      BY <1>1, <2>1, <2>2, <3>2, <3>3 DEF Owed
  <2>4. wrapped'[AllowOrigin] = <<"friend">>
    <3>1. wrapped' = [wrapped EXCEPT ![AllowOrigin] = <<"friend">>]
      BY <2>2, HeaderStepDoes DEF Target, NewValue
    <3>2. AllowOrigin \in Names
      BY OriginNamesAre DEF OriginNames
    <3> QED
      BY <1>1, <3>1, <3>2
  <2> QED
    BY <2>1, <2>2, <2>3, <2>4
<1>6. ASSUME wrapped'[AllowCreds] # wrapped[AllowCreds]
      PROVE  Has({"cors"}) /\ req.origin \in {"", "friend"}
  <2>1. pc = "user" /\ cur \in 1..N /\ Writes(Call, AllowCreds)
    BY <1>6, WhoWrites DEF OriginNames
  <2>2. stack[cur] = "cors" /\ req.origin \in {"", "friend"}
    BY <1>2, <1>3, <2>1 DEF Honest
  <2> QED
    BY <2>1, <2>2 DEF Has
<1>7. ASSUME wrapped[AllowOrigin] # <<>>, wrapped'[AllowOrigin] = wrapped[AllowOrigin],
             NEW i \in 1..N, i <= cur, stack[i] = "cors"
      PROVE  Dependent(wrapped'[Vary])
  <2>1. CASE Writes(Call, Vary) /\ pc = "user" /\ cur \in 1..N
    <3>1. stack[cur] # "own"
      <4>1. stack[cur] = "own" => cur < i
        BY <1>7, <2>1 DEF OwnFirst, Allows
      <4> QED
        BY <1>7, <2>1, <4>1, HeaderAssumption
    <3>2. Announces(Call)
      BY <1>2, <1>3, <2>1, <3>1 DEF Honest
    <3>3. wrapped' = [wrapped EXCEPT ![Vary] = <<Call.val>>]
      BY <3>2, HeaderStepDoes DEF Announces, Target, NewValue
    <3>4. Vary \in Names
      BY OriginNamesAre DEF OriginNames
    <3>5. wrapped'[Vary] = <<Call.val>>
      BY <1>1, <3>3, <3>4
    <3> QED
      BY <3>2, <3>5 DEF Announces, Dependent
  <2>2. CASE ~(Writes(Call, Vary) /\ pc = "user" /\ cur \in 1..N)
    <3>1. wrapped'[Vary] = wrapped[Vary]
      BY <2>2, WhoWrites DEF OriginNames
    <3>2. ~Owed
      <4> SUFFICES ASSUME Owed PROVE FALSE
        OBVIOUS
      <4>1. Call.op = "set" /\ Call.name = Vary /\ pc = "user"
        BY <1>2 DEF Owed, Announces
      <4>2. Writes(Call, Vary)
        BY <4>1 DEF Writes
      <4>3. cur \in 1..N
        <5>1. cur \in 1..Handler /\ N \in Nat /\ Handler = N + 1
          BY HeaderAssumption DEF StackInv, TypeOK, Actors, Handler
        <5>2. cur = Handler => Call \in HandlerCalls
          BY <1>1, <4>1, WhoseCall DEF CallsOf
        <5>3. Call \notin HandlerCalls
          BY <4>1 DEF HandlerCalls
        <5> QED
          BY <5>1, <5>2, <5>3
      <4> QED
        BY <2>2, <4>1, <4>2, <4>3
    <3> QED
      BY <1>1, <1>7, <3>1, <3>2 DEF Allows
  <2> QED
    BY <2>1, <2>2
<1>8. wrapped'[AllowOrigin] # <<>> =>
        /\ wrapped'[AllowOrigin] = <<"friend">> /\ req.origin = "friend"
        /\ \E i \in 1..N : i <= cur /\ stack[i] = "cors"
        /\ Dependent(wrapped'[Vary]) \/ Owed'
  <2>1. CASE wrapped'[AllowOrigin] # wrapped[AllowOrigin]
    <3>1. cur <= cur
      BY <1>5, <2>1, HeaderAssumption
    <3> QED
      BY <1>5, <2>1, <3>1
  <2>2. CASE wrapped'[AllowOrigin] = wrapped[AllowOrigin]
    BY <1>7, <2>2 DEF Allows
  <2> QED
    BY <2>1, <2>2
<1>9. wrapped'[AllowCreds] # <<>> => Has({"cors"}) /\ req.origin \in {"", "friend"}
  BY <1>6 DEF Allows
<1>10. Has({"cors"})' = Has({"cors"})
  BY <1>1 DEF Has
<1> QED
  BY <1>1, <1>4, <1>8, <1>9, <1>10 DEF Allows

\* A step that leaves the three headers alone, and comes when no announcement is owed.
LEMMA AllowsKept ==
  ASSUME Allows, UNCHANGED context, \A n \in OriginNames : wrapped'[n] = wrapped[n],
         cur \in Nat, cur' \in Nat, cur <= cur', N \in Nat,
         Owed \/ pc = "unwind" => pc' = "unwind",
         pc' \in {"user", "commit"} /\ cur' \in 1..N => Honest(stack[cur'], req, Body')
  PROVE  Allows'
<1>1. UNCHANGED <<stack, req>> /\ Has({"cors"})' = Has({"cors"})
  BY DEF context, Has
<1>2. /\ wrapped'[AllowOrigin] = wrapped[AllowOrigin] /\ wrapped'[AllowCreds] = wrapped[AllowCreds]
      /\ wrapped'[Vary] = wrapped[Vary]
  BY DEF OriginNames
<1>3. \A i \in 1..N : i <= cur => i <= cur'
  OBVIOUS
<1> QED
  BY <1>1, <1>2, <1>3 DEF Allows

\* One step.
LEMMA AllowsStep ==
  ASSUME OwnFirst, StackInv, StackInv', Order, Headers, Headers', WhoCalls, Committing, Allows,
         [StackNext]_stackVars
  PROVE  Allows'
<1>0. /\ UNCHANGED context
      /\ N \in Nat /\ Handler = N + 1 /\ cur \in 1..(N + 1) /\ cur' \in 1..(N + 1) /\ ScriptOK
      /\ \A n \in OriginNames : n \in Names \ DispatcherNames
  BY ValuesGrow, HeaderAssumption, OriginNamesAre DEF StackInv, TypeOK, Actors, Handler
<1>1. CASE HeaderStep
  BY <1>0, <1>1, AllowsHeaders
<1>2. ASSUME Ready, ~Announces(Call)
      PROVE  ~Owed /\ pc # "unwind"
  BY <1>2 DEF Owed, Ready, Running, InUser, InCommit, Call
<1>3. \A c : c.op \in {"put", "func", "write", "fsset", "fsstatus", "fswrite"} => ~Announces(c)
  BY DEF Announces
<1>4. ASSUME script # <<>>, pc = "user", cur \in 1..N
      PROVE  Honest(stack[cur], req, Tail(script))
  <2>1. Honest(stack[cur], req, script)
    BY <1>4 DEF Allows, Body
  <2> QED
    BY <1>0, <1>4, <2>1, HonestLemma DEF ScriptOK
<1>5. CASE PutStep \/ FuncStep
  <2>1. /\ Ready /\ script # <<>> /\ Call.op \in {"put", "func"} /\ script' = Tail(script)
        /\ frame' = frame /\ UNCHANGED <<pc, cur, wrapped>>
    BY <1>5 DEF PutStep, FuncStep, vars, headerVars, flightVars, Ready
  <2>2. pc' \in {"user", "commit"} /\ cur' \in 1..N => Honest(stack[cur'], req, Body')
    BY <1>4, <2>1 DEF Allows, Body
  <2>3. ~Owed /\ pc # "unwind"
    BY <1>2, <1>3, <2>1
  <2> QED
    BY <1>0, <2>1, <2>2, <2>3, AllowsKept
<1>6. CASE FSSetStep \/ FSStatusStep \/ FSWriteStep
  <2>1. UNCHANGED <<pc, cur, wrapped>> /\ Ready /\ Call.op \in {"fsset", "fsstatus", "fswrite"}
    BY <1>6 DEF FSSetStep, FSStatusStep, FSWriteStep, FileBody, vars, headerVars, flightVars
  <2>2. cur' = N + 1
    BY <1>0, <1>6, <2>1, OnlyHandlerServes
  <2>3. ~Owed /\ pc # "unwind"
    BY <1>2, <1>3, <2>1
  <2>4. cur' \notin 1..N
    BY <1>0, <2>2
  <2> QED
    BY <1>0, <2>1, <2>3, <2>4, AllowsKept
<1>7. CASE WriteStep(CommitOf(N, Call.kind))
  <2>1. /\ Ready /\ script # <<>> /\ pc = "user" /\ pc' = "commit" /\ frame' = Tail(script)
        /\ UNCHANGED <<cur, wrapped>> /\ Call.op = "write"
    BY <1>7 DEF WriteStep, WriteError, Write, EnterWrite, InUser, headerVars, Ready
  <2>2. pc' \in {"user", "commit"} /\ cur' \in 1..N => Honest(stack[cur'], req, Body')
    BY <1>4, <2>1 DEF Body
  <2>3. ~Owed /\ pc # "unwind"
    BY <1>2, <1>3, <2>1
  <2> QED
    BY <1>0, <2>1, <2>2, <2>3, AllowsKept
<1>8. CASE CommitStep(CommitOf(commitAt - 1, resp))
  <2>1. pc = "commit" /\ UNCHANGED <<pc, cur, wrapped, frame>>
    BY <1>8 DEF CommitStep, CommitReturn, InCommit, headerVars
  <2>2. pc' \in {"user", "commit"} /\ cur' \in 1..N => Honest(stack[cur'], req, Body')
    BY <2>1 DEF Allows, Body
  <2>3. ~Owed /\ pc # "unwind"
    BY <2>1 DEF Owed
  <2> QED
    BY <1>0, <2>1, <2>2, <2>3, AllowsKept
<1>9. CASE DispatchStep
  <2>1. /\ pc = "commit" /\ pc' \in {"user", "unwind"} /\ cur' = cur
        /\ pc' = "user" => script' = frame
    BY <1>9 DEF DispatchStep, DispatchResponse
  <2>2. \A n \in OriginNames : wrapped'[n] = wrapped[n]
    BY <1>0, <2>1, OtherStepDoes DEF HeaderStep, flightVars, Dispatches
  <2>3. pc' \in {"user", "commit"} /\ cur' \in 1..N => Honest(stack[cur'], req, Body')
    BY <2>1 DEF Allows, Body
  <2>4. ~Owed /\ pc # "unwind"
    BY <2>1 DEF Owed
  <2> QED
    BY <1>0, <2>1, <2>2, <2>3, <2>4, AllowsKept
<1>10. CASE BeforeStep(BeforeOf(cur + 1))
  <2>1. script = <<>> /\ pc = "user" /\ UNCHANGED wrapped /\ cur <= cur'
    BY <1>0, <1>10 DEF BeforeStep, BeforeReturn, headerVars, InUser
  <2>2. CASE cur' = cur
    <3>1. pc' = "done"
      BY <1>0, <1>10, <2>2 DEF BeforeStep, BeforeReturn
    <3> QED
      BY <1>0, <2>1, <3>1, AllowsKept DEF Owed
  <2>3. CASE cur' # cur
    <3>1. pc' = "user" /\ cur' = cur + 1 /\ script' = BeforeOf(cur + 1)
      BY <2>3, Advances
    <3>2. cur' \in 1..N => Honest(stack[cur'], req, Body')
      BY <1>0, <3>1, BeforeHonest DEF Body, BeforeOf
    <3> QED
      BY <1>0, <2>1, <3>1, <3>2, AllowsKept DEF Owed
  <2> QED
    BY <2>2, <2>3
<1>11. CASE HandlerStep
  <2>1. pc = "user" /\ script = <<>> /\ pc' = "done" /\ cur' = cur
    BY <1>11 DEF HandlerStep, HandlerReturnWritten, HandlerReturnNothing, InUser
  <2>2. \A n \in OriginNames : wrapped'[n] = wrapped[n]
    BY <1>0, <2>1, OtherStepDoes DEF HeaderStep, flightVars, Dispatches
  <2> QED
    BY <1>0, <2>1, <2>2, AllowsKept DEF Owed
<1>12. CASE PanicStep
  <2>1. pc' = "unwind" /\ UNCHANGED <<cur, wrapped>>
    BY <1>12 DEF PanicStep, UserPanic, headerVars
  <2> QED
    BY <1>0, <2>1, AllowsKept
<1>13. CASE EndStep
  <2>1. CASE ClearAndRepanic
    <3>1. pc' = "crashed"
      BY <2>1 DEF ClearAndRepanic
    <3>2. wrapped'[AllowOrigin] = <<>> /\ wrapped'[AllowCreds] = <<>>
      BY <1>0, <3>1 DEF Headers, CrashLeavesNoHeaders, NoHeaders, OriginNames
    <3> QED
      BY <1>0, <3>1, <3>2 DEF Allows, context
  <2>2. CASE ServerFinish \/ OuterRecover
    <3>1. pc \in {"done", "crashed"} /\ UNCHANGED <<pc, cur, wrapped>>
      BY <2>2 DEF ServerFinish, OuterRecover, headerVars
    <3> QED
      BY <1>0, <3>1, AllowsKept DEF Owed
  <2> QED
    BY <1>13, <2>1, <2>2 DEF EndStep
<1>14. CASE UNCHANGED stackVars
  <2>1. UNCHANGED <<pc, cur, script, frame, wrapped>>
    BY <1>14 DEF stackVars, allVars, vars, flightVars, headerVars, programVars
  <2>2. UNCHANGED <<Body, Owed>> /\ UNCHANGED <<stack, req>>
    BY <1>0, <2>1 DEF Body, Owed, context
  <2> QED
    BY <2>1, <2>2 DEF Allows, Has
<1> QED
  BY <1>1, <1>5, <1>6, <1>7, <1>8, <1>9, <1>10, <1>11, <1>12, <1>13, <1>14
     DEF StackNext, StackStep

\* Nothing is sent while an announcement is owed.
LEMMA Sending ==
  ASSUME StackInv, Order, [StackNext]_stackVars, wire' # wire, Answered'
  PROVE  /\ wire'.hdr = wrapped' /\ ~Owed /\ pc # "unwind"
         /\ \A n \in OriginNames : wrapped'[n] = wrapped[n]
<1>1. wire'.hdr = wrapped' /\ pc' # "crashed"
  BY WireStep DEF Answered
<1>2. ~HeaderStep
  BY DEF HeaderStep, flightVars
<1>3. \A n \in OriginNames : wrapped'[n] = wrapped[n]
  BY <1>1, <1>2, OtherStepDoes, OriginNamesAre DEF Dispatches
<1>4. DispatchStep \/ HandlerStep \/ EndStep \/ FSWriteStep
  <2>1. PutStep \/ FuncStep \/ FSSetStep \/ FSStatusStep => wire' = wire
    BY DEF PutStep, FuncStep, FSSetStep, FSStatusStep, vars, flightVars
  <2>2. PanicStep \/ WriteStep(CommitOf(N, Call.kind)) \/ BeforeStep(BeforeOf(cur + 1))
          \/ CommitStep(CommitOf(commitAt - 1, resp)) => wire' = wire
    BY DEF PanicStep, UserPanic, WriteStep, WriteError, Write, EnterWrite, CommitStep,
       CommitReturn, BeforeStep, BeforeReturn
  <2>3. UNCHANGED stackVars => wire' = wire
    BY DEF stackVars, allVars, vars, flightVars
  <2> QED
    BY <1>2, <2>1, <2>2, <2>3 DEF StackNext, StackStep
<1>5. CASE DispatchStep
  <2>1. pc = "commit"
    BY <1>5 DEF DispatchStep, DispatchResponse
  <2> QED
    BY <1>1, <1>3, <2>1 DEF Owed
<1>6. CASE HandlerStep
  <2>1. pc = "user" /\ script = <<>>
    BY <1>6 DEF HandlerStep, HandlerReturnWritten, HandlerReturnNothing, InUser
  <2> QED
    BY <1>1, <1>3, <2>1 DEF Owed
<1>7. CASE EndStep
  <2>1. pc \in {"done", "crashed"}
    BY <1>7 DEF EndStep, ClearAndRepanic, ServerFinish, OuterRecover
  <2> QED
    BY <1>1, <1>3, <2>1 DEF Owed
<1>8. CASE FSWriteStep
  <2>1. pc = "user" /\ Call.op = "fswrite"
    BY <1>8 DEF FSWriteStep, InUser
  <2> QED
    BY <1>1, <1>3, <2>1 DEF Owed, Announces, Call
<1> QED
  BY <1>4, <1>5, <1>6, <1>7, <1>8

\* Throughout a request.
LEMMA NamedHolds ==
  ASSUME NoneAllowed, OwnFirst
  PROVE  StackSpec => [](Allows /\ Named)
<1>1. StackInit /\ StackInv => Allows /\ Named
  <2> SUFFICES ASSUME StackInit, StackInv PROVE Allows /\ Named
    OBVIOUS
  <2>0. N > 0
    BY StackAssumption
  <2>1. N \in Nat /\ 1 \in 1..N
    BY <2>0, HeaderAssumption
  <2>2. /\ cur = 1 /\ pc = "user" /\ script = Before(stack[1], req) /\ stack \in Stacks
        /\ wrapped \in InitialHeaders
    BY DEF StackInit, Init, ProgramInit, NewHeader
  <2>3. ~Answered
    BY DEF StackInit, Init, NothingSent, Answered
  <2>4. wrapped[AllowOrigin] = <<>> /\ wrapped[AllowCreds] = <<>>
    BY <2>2 DEF NoneAllowed
  <2>5. Honest(stack[1], req, script)
    BY <2>1, <2>2, BeforeHonest
  <2> QED
    BY <2>2, <2>3, <2>4, <2>5 DEF Allows, Named, Body
<1>2. StackInv /\ StackInv' /\ Order /\ Headers /\ Headers' /\ WhoCalls /\ Committing /\ Allows
        /\ [StackNext]_stackVars => Allows'
  BY AllowsStep
<1>3. StackInv /\ Order /\ Allows /\ Named /\ [StackNext]_stackVars => Named'
  <2> SUFFICES ASSUME StackInv, Order, Allows, Named, [StackNext]_stackVars, Answered'
               PROVE  Named'
    BY DEF Named
  <2>1. UNCHANGED <<stack, req>> /\ Has({"cors"})' = Has({"cors"})
    BY ValuesGrow DEF context, Has
  <2>2. CASE wire' = wire
    BY <2>1, <2>2 DEF Named, Answered
  <2>3. CASE wire' # wire
    <3>1. /\ wire'.hdr = wrapped' /\ ~Owed /\ pc # "unwind"
          /\ wrapped'[AllowOrigin] = wrapped[AllowOrigin] /\ wrapped'[Vary] = wrapped[Vary]
          /\ wrapped'[AllowCreds] = wrapped[AllowCreds]
      BY <2>3, Sending DEF OriginNames
    <3>2. wrapped[AllowOrigin] # <<>> => Has({"cors"})
      BY DEF Allows, Has
    <3> QED
      BY <2>1, <3>1, <3>2 DEF Allows, Named
  <2> QED
    BY <2>2, <2>3
<1> QED
  BY <1>1, <1>2, <1>3, FlightInv, WhoCallsHolds, BoundHolds, PTL DEF StackSpec

\* Behind the interceptors of any program an answer names an origin only if it is trusted and
\* the request came from it, and says that it depends on it; no other is allowed credentials;
\* and neither a preflight nor anything that a page of another site has caused gets to the
\* handler.  What runs around the ServeMux allows
\* no origin, and a program's own interceptors, which may write Vary, run before cors.
THEOREM OriginsHonest ==
  ASSUME NoneAllowed, OwnFirst
  PROVE  StackSpec => []CorsHonest
<1>1. StackInv /\ Named /\ Decided => CorsHonest
  <2> SUFFICES ASSUME StackInv, Named, Decided PROVE CorsHonest
    OBVIOUS
  <2>1. InHandler /\ Has({"cors", "cors-default"}) =>
          /\ req.method \notin {"OPTIONS", "HEAD"} /\ req.contentType \notin BannedTypes
          /\ req.sender \notin Untrusted
    <3> SUFFICES ASSUME cur = Handler, NEW i \in 1..N, stack[i] \in {"cors", "cors-default"}
                 PROVE  /\ req.method \notin {"OPTIONS", "HEAD"}
                        /\ req.contentType \notin BannedTypes /\ req.sender \notin Untrusted
      BY DEF InHandler, Has
    <3>1. i < cur
      BY HeaderAssumption DEF Handler
    <3>2. Lets(stack[i], req)
      BY <3>1 DEF Decided
    <3>3. /\ req.method \notin {"OPTIONS", "HEAD"} /\ RequestPasses(req)
          /\ req.origin \in {"", "friend"}
      BY <3>2 DEF Lets
    <3>4. req.xcors /\ req.contentType \notin BannedTypes /\ req \in Requests
      BY <3>3 DEF RequestPasses, StackInv, ContextOK
    <3>5. req.sender \notin Untrusted
      BY <3>3, <3>4, BrowserAssumption DEF Untrusted
    <3> QED
      BY <3>3, <3>4, <3>5
  <2> QED
    BY <2>1 DEF Named, CorsHonest, Dependent
<1> QED
  BY <1>1, NamedHolds, StackTyped, DecidedHolds, PTL

-----------------------------------------------------------------------------
(* The file server.                                                         *)

\* The calls of http.FileServer on its writer, the headers of a file that WriteHeader takes
\* over and no interceptor claims, and the kind of answer it asks for.
FileCalls   == {"fsset", "fsstatus", "fswrite"}
FileHeaders == {"Last-Modified", "Location"}
Wanted(f)   == IF f.errored THEN "error" ELSE "file"

\* http.FileServer sets headers first, and where it forbids to sniff it sends the status of
\* a refusal before anything else.
SetsOnly(s, k) == \A j \in 1..(k - 1) : s[j].op = "fsset"
Forbids(s)     == \E k \in 1..Len(s) : s[k].op = "fsset" /\ s[k].name = XCTO
Denies(s)      == \E k \in 1..Len(s) : s[k] = FSStatus(FALSE) /\ SetsOnly(s, k)
Begins(s, h) ==
  /\ \A k \in 1..Len(s) :
       /\ s[k].op \in FileCalls
       /\ s[k].op = "fsset" => SetsOnly(s, k) /\ (s[k].name = XCTO => s[k].val = "nosniff")
  /\ h[XCTO] # <<>> \/ Forbids(s) => Denies(s)

\* What is left of a script s after WriteHeader, and during it: the headers of the writer f
\* are taken over into the headers h one by one, each deleted and then added, and the
\* response is written at place k.
Ends(s, k)  == \A j \in 1..Len(s) : j > k => s[j].op \in {"fsstatus", "fswrite"}
Taken(f, n) == AddOf(n, Head(f.header[n]))
Takes(s, k, j, n, h, f) ==
  /\ f.header[n] # <<>>
  /\ \/ s[j] = DelOf(n) /\ j + 1 < k /\ s[j + 1] = Taken(f, n)
     \/ s[j] = Taken(f, n) /\ IF j = 1 THEN h[n] = <<>> ELSE s[j - 1] = DelOf(n)
Copies(s, k, h, f) ==
  /\ k \in 1..Len(s) /\ s[k] = WriteOf(Wanted(f)) /\ Ends(s, k)
  /\ \A j \in 1..(k - 1) : \E n \in FSNames : Takes(s, k, j, n, h, f)
  /\ \A n \in FileHeaders : f.header[n] # <<>> =>
       h[n] = f.header[n] \/ \E j \in 1..(k - 1) : s[j] = Taken(f, n)

\* The writer of the file server, which only the handler uses.
OneValued(f) ==
  \A n \in Names : f.header[n] # <<>> => \E v \in Values : f.header[n] = <<v>>

Writer ==
  /\ OneValued(fs) /\ (fs.header[XCTO] # <<>> => fs.header[XCTO] = <<"nosniff">>)
  /\ cur # Handler => ~fs.committed /\ \A n \in Names : fs.header[n] = <<>>
  /\ fs.errored => fs.committed
  /\ fs.sent => fs.committed /\ ~fs.errored
  /\ fs.committed /\ ~fs.errored => fs.header[XCTO] = <<>>
  /\ claimed \subseteq OwnedNames

\* The handler before WriteHeader, in it, and after it.
Serving ==
  /\ cur = Handler /\ ~fs.committed /\ pc \in {"user", "commit"} =>
       \/ \A k \in 1..Len(Body) : Body[k].op \notin FileCalls
       \/ ~written /\ Begins(Body, fs.header)
  /\ fs.committed /\ ~written /\ pc \notin {"unwind", "crashed"} =>
       pc = "user" /\ \E k \in 1..Len(script) : Copies(script, k, wrapped, fs)
  /\ fs.committed /\ written /\ pc \notin {"unwind", "crashed"} =>
       /\ resp = Wanted(fs)
       /\ pc # "done" => Ends(Body, 0)
       /\ \A n \in FileHeaders : fs.header[n] # <<>> => wrapped[n] = fs.header[n]

\* The file, or the error, on the connection.
Served ==
  /\ wire.by = "filebody" => fs.committed /\ ~fs.errored
  /\ fs.errored /\ written /\ pc \in {"user", "done"} => wire.by = "dispatcher"
  /\ fs.committed /\ Answered =>
       /\ wire.status = IF fs.errored THEN "error" ELSE "ok"
       /\ fs.errored => wire.hdr[XCTO] = <<"nosniff">>
       /\ \A n \in FileHeaders : fs.header[n] # <<>> => wire.hdr[n] = fs.header[n]

\* What is left of a script after its first call.
LEMMA Rest ==
  ASSUME NEW s \in Seq(AllCalls), s # <<>>
  PROVE  /\ Tail(s) \in Seq(AllCalls) /\ Len(s) \in Nat \ {0} /\ Len(Tail(s)) = Len(s) - 1
         /\ Head(s) = s[1] /\ s[1] \in AllCalls /\ Len(Tail(s)) \in Nat
         /\ \A k \in 1..Len(Tail(s)) : Tail(s)[k] = s[k + 1] /\ k + 1 \in 1..Len(s)
         /\ \A k \in 2..Len(s) : k - 1 \in 1..Len(Tail(s)) /\ s[k] = Tail(s)[k - 1]
<1> DEFINE t == Tail(s)
<1>1. /\ Len(s) \in Nat \ {0} /\ Len(t) = Len(s) - 1 /\ s[1] = Head(s) /\ t \in Seq(AllCalls)
      /\ Head(s) \in AllCalls /\ \A k \in 1..Len(t) : t[k] = s[k + 1]
  BY EmptySeq, HeadTailProperties
<1> HIDE DEF t
<1>2. \A k \in 1..Len(t) : k + 1 \in 1..Len(s)
  BY <1>1
<1>3. ASSUME NEW k \in 2..Len(s) PROVE k - 1 \in 1..Len(t) /\ s[k] = t[k - 1]
  <2>1. k - 1 \in 1..Len(t) /\ (k - 1) + 1 = k
    BY <1>1
  <2> QED
    BY <1>1, <2>1
<1> QED
  BY <1>1, <1>2, <1>3 DEF t

\* What the calls of a copy and of a writer are, and the names they are about.
LEMMA FileCallsAre ==
  /\ \A n, v : /\ AddOf(n, v).op = "add" /\ AddOf(n, v).name = n /\ AddOf(n, v).val = v
               /\ FSSet(n, v).op = "fsset" /\ FSSet(n, v).name = n /\ FSSet(n, v).val = v
  /\ \A n : DelOf(n).op = "del" /\ DelOf(n).name = n
  /\ \A n, m, v : DelOf(n) # AddOf(m, v)
  /\ \A k : WriteOf(k).op = "write" /\ WriteOf(k).kind = k
  /\ \A b : FSStatus(b).op = "fsstatus" /\ FSStatus(b).ok = b
  /\ FSWrite.op = "fswrite"
  /\ FileHeaders \subseteq FSNames \ {"Content-Type", XCTO}
  /\ FSNames \ {"Content-Type"} = FileHeaders \cup {XCTO}
  /\ FileHeaders \cap (OwnedNames \cup {"Set-Cookie", XCTO}) = {}
  /\ XCTO \in Names /\ FileHeaders \subseteq Names
<1>1. /\ \A n, v : /\ AddOf(n, v).op = "add" /\ AddOf(n, v).name = n /\ AddOf(n, v).val = v
                   /\ FSSet(n, v).op = "fsset" /\ FSSet(n, v).name = n /\ FSSet(n, v).val = v
      /\ \A n : DelOf(n).op = "del" /\ DelOf(n).name = n
      /\ \A k : WriteOf(k).op = "write" /\ WriteOf(k).kind = k
      /\ \A b : FSStatus(b).op = "fsstatus" /\ FSStatus(b).ok = b
      /\ FSWrite.op = "fswrite"
  BY DEF AddOf, FSSet, DelOf, WriteOf, FSStatus, FSWrite
<1>2. \A n, m, v : DelOf(n) # AddOf(m, v)
  <2>1. "del" # "add"
    OBVIOUS
  <2> QED
    BY <1>1, <2>1
<1>3. /\ FileHeaders \subseteq FSNames \ {"Content-Type", XCTO}
      /\ FSNames \ {"Content-Type"} = FileHeaders \cup {XCTO}
  BY DEF FileHeaders, FSNames, XCTO
<1>4. FileHeaders \cap (OwnedNames \cup {"Set-Cookie", XCTO}) = {}
  BY DEF FileHeaders, OwnedNames, PluginNames, CorsNames, XCTO, XXP, HSTS, COOP, COOPReportOnly, CSP,
     CSPReportOnly, XFO, ReportTo, Vary, AllowOrigin, AllowCreds, AllowMethods, AllowHeaders,
     MaxAge, ExposeHeaders
<1>5. XCTO \in Names /\ FileHeaders \subseteq Names
  BY <1>3, NamesUsed, Mentioned
<1> QED
  BY <1>1, <1>2, <1>3, <1>4, <1>5

\* A file is not sent by the dispatcher, an error is; both keep the headers of a file.
LEMMA FileDispatched ==
  ASSUME NEW h \in [Names -> HeaderValues]
  PROVE  /\ \A o \in Dispatch("file", h) :
              o.status = Unsent /\ \A n \in FileHeaders : o.hdr[n] = h[n]
         /\ \A o \in Dispatch("error", h) :
              /\ o.status = "error" \/ (o.status = Unsent /\ o.failed)
              /\ o.hdr[XCTO] = <<"nosniff">>
              /\ \A n \in FileHeaders : o.hdr[n] = h[n]
<1>1. /\ DOMAIN h = Names /\ XCTO \in Names /\ FileHeaders \subseteq Names
      /\ "Content-Type" \notin FileHeaders /\ XCTO \notin FileHeaders
  BY FileCallsAre
<1> DEFINE typed(v)  == With(h, "Content-Type", v)
           denied(v) == With(typed(v), XCTO, "nosniff")
<1>2. ASSUME NEW v
      PROVE  /\ DOMAIN typed(v) = Names
             /\ \A m \in FileHeaders : typed(v)[m] = h[m]
  <2>1. typed(v) = [m \in Names |-> IF m = "Content-Type" THEN <<v>> ELSE h[m]]
    BY <1>1 DEF With
  <2> QED
    BY <1>1, <2>1
<1>3. ASSUME NEW v
      PROVE  /\ denied(v)[XCTO] = <<"nosniff">>
             /\ \A m \in FileHeaders : denied(v)[m] = h[m]
  <2> DEFINE g == typed(v)
  <2>1. denied(v) = [m \in DOMAIN g |-> IF m = XCTO THEN <<"nosniff">> ELSE g[m]]
    BY DEF With
  <2> HIDE DEF g
  <2>2. denied(v) = [m \in Names |-> IF m = XCTO THEN <<"nosniff">> ELSE g[m]]
    BY <1>2, <2>1 DEF g
  <2> HIDE DEF denied
  <2>3. denied(v)[XCTO] = <<"nosniff">> /\ \A m \in FileHeaders : denied(v)[m] = g[m]
    BY <1>1, <2>2
  <2> QED
    BY <1>2, <2>3 DEF g
<1>4. \A o \in Dispatch("file", h) : o.status = Unsent /\ o.hdr = typed("file")
  BY DEF Dispatch, WriteFile, Outcome
<1>5. \A o \in Dispatch("error", h) :
        /\ o.status = "error" \/ (o.status = Unsent /\ o.failed)
        /\ o.hdr = denied("text")
  BY DEF Dispatch, WriteTextError, Outcome, XCTO
<1> HIDE DEF typed, denied
<1> QED
  BY <1>2, <1>3, <1>4, <1>5

\* Every name that is taken over has its place among those that are.
LEMMA EachCopied ==
  ASSUME ScriptOK, NEW n \in Names, Copied(n)
  PROVE  \E i \in 1..Len(CopyOrder) : CopyOrder[i] = n
<1> DEFINE S == {m \in Names : Copied(m)}
<1>1. IsFiniteSet(S)
  BY StackAssumption, FS_Subset
<1>2. PICK c \in Nat : ExistsBijection(1..c, S)
  BY <1>1, FS_NatBijection
<1>3. Cardinality(S) = c
  BY <1>2, FS_CountingElements
<1>4. \E f \in [1..Cardinality(S) -> S] : IsInjective(f)
  BY <1>2, <1>3 DEF ExistsBijection, Bijection, Injection, IsInjective
<1>5. SetToSeq(S) \in [1..Cardinality(S) -> S] /\ IsInjective(SetToSeq(S))
  BY <1>4 DEF SetToSeq
<1>6. CopyOrder = SetToSeq(S) /\ n \in S
  BY DEF CopyOrder
<1> HIDE DEF S
<1>7. CopyOrder \in [1..c -> S] /\ IsInjective(CopyOrder)
  BY <1>3, <1>5, <1>6
<1>8. CopyOrder \in Injection(1..c, S)
  BY <1>7 DEF Injection, IsInjective
<1>9. IsFiniteSet(1..c) /\ Cardinality(1..c) = c
  BY <1>2, FS_Interval
<1>10. CopyOrder \in Surjection(1..c, S)
  BY <1>1, <1>3, <1>8, <1>9, FS_Injection
<1>11. PICK i \in 1..c : CopyOrder[i] = n
  BY <1>6, <1>10 DEF Surjection
<1>12. Len(CopyOrder) = c
  BY <1>2, <1>7
<1> QED
  BY <1>11, <1>12

\* What http.FileServer does before it sends a status keeps to its order.
LEMMA BeginsStep ==
  ASSUME NEW s \in Seq(AllCalls), s # <<>>, NEW h \in [Names -> Seq(Values)], Begins(s, h)
  PROVE  /\ s[1].op = "fsset" =>
              Begins(Tail(s), [h EXCEPT ![s[1].name] = <<s[1].val>>])
         /\ s[1].op = "fswrite" => Begins(<<FSStatus(TRUE)>> \o s, h)
         /\ s[1].op = "fsstatus" => /\ Ends(Tail(s), 0)
                                    /\ h[XCTO] # <<>> => s[1].ok = FALSE
<1>0. /\ Len(s) \in Nat \ {0} /\ Len(Tail(s)) = Len(s) - 1 /\ Len(Tail(s)) \in Nat
      /\ \A k \in 1..Len(Tail(s)) : Tail(s)[k] = s[k + 1] /\ k + 1 \in 1..Len(s)
      /\ \A k \in 2..Len(s) : k - 1 \in 1..Len(Tail(s)) /\ s[k] = Tail(s)[k - 1]
  BY Rest
<1> DEFINE t == Tail(s)
<1>ops. \A b : FSStatus(b).op = "fsstatus" /\ FSStatus(b).ok = b
  BY FileCallsAre
<1>1. \A k \in 1..Len(t) : s[k + 1].op = "fsset" => s[1].op = "fsset"
  <2> SUFFICES ASSUME NEW k \in 1..Len(t), s[k + 1].op = "fsset" PROVE s[1].op = "fsset"
    OBVIOUS
  <2>1. SetsOnly(s, k + 1) /\ k \in Nat /\ k > 0
    BY <1>0 DEF Begins
  <2>2. 1 \in 1..((k + 1) - 1)
    BY <2>1
  <2> QED
    BY <2>1, <2>2 DEF SetsOnly
<1>2. Denies(s) => s[1].op = "fsset" \/ s[1] = FSStatus(FALSE)
  <2> SUFFICES ASSUME Denies(s), s[1].op # "fsset" PROVE s[1] = FSStatus(FALSE)
    OBVIOUS
  <2>1. PICK k \in 1..Len(s) : s[k] = FSStatus(FALSE) /\ SetsOnly(s, k)
    BY DEF Denies
  <2>2. k = 1 \/ 1 \in 1..(k - 1)
    BY <1>0
  <2> QED
    BY <2>1, <2>2 DEF SetsOnly
<1>3. ASSUME s[1].op = "fsset"
      PROVE  Begins(t, [h EXCEPT ![s[1].name] = <<s[1].val>>])
  <2> DEFINE g == [h EXCEPT ![s[1].name] = <<s[1].val>>]
  <2>1. ASSUME NEW k \in 1..Len(t)
        PROVE  /\ t[k].op \in FileCalls
               /\ t[k].op = "fsset" => /\ SetsOnly(t, k)
                                       /\ t[k].name = XCTO => t[k].val = "nosniff"
    <3>1. t[k] = s[k + 1] /\ k + 1 \in 1..Len(s)
      BY <1>0
    <3>2. ASSUME SetsOnly(s, k + 1) PROVE SetsOnly(t, k)
      <4> SUFFICES ASSUME NEW j \in 1..(k - 1) PROVE t[j].op = "fsset"
        BY DEF SetsOnly
      <4>1. j \in 1..Len(t) /\ j + 1 \in 1..((k + 1) - 1)
        BY <1>0
      <4> QED
        BY <1>0, <3>2, <4>1 DEF SetsOnly
    <3> QED
      BY <3>1, <3>2 DEF Begins
  <2>2. ASSUME g[XCTO] # <<>> \/ Forbids(t) PROVE Denies(t)
    <3>1. 1 \in 1..Len(s)
      BY <1>0
    <3>2. Forbids(t) => Forbids(s)
      BY <1>0 DEF Forbids
    <3>3. s[1].name = XCTO => Forbids(s)
      BY <1>3, <3>1 DEF Forbids
    <3>4. s[1].name # XCTO => g[XCTO] = h[XCTO]
      BY FileCallsAre
    <3>5. Denies(s)
      BY <2>2, <3>2, <3>3, <3>4 DEF Begins
    <3>6. PICK k \in 1..Len(s) : s[k] = FSStatus(FALSE) /\ SetsOnly(s, k)
      BY <3>5 DEF Denies
    <3>7. k # 1
      BY <1>ops, <1>3, <3>6
    <3>8. k - 1 \in 1..Len(t) /\ t[k - 1] = FSStatus(FALSE)
      <4>1. k \in 2..Len(s)
        BY <1>0, <3>7
      <4> QED
        BY <1>0, <3>6, <4>1
    <3>9. SetsOnly(t, k - 1)
      <4> SUFFICES ASSUME NEW j \in 1..((k - 1) - 1) PROVE t[j].op = "fsset"
        BY DEF SetsOnly
      <4>1. j \in 1..Len(t) /\ j + 1 \in 1..(k - 1)
        BY <1>0, <3>8
      <4> QED
        BY <1>0, <3>6, <4>1 DEF SetsOnly
    <3> QED
      BY <3>8, <3>9 DEF Denies
  <2> QED
    BY <2>1, <2>2 DEF Begins
<1>4. ASSUME s[1].op # "fsset"
      PROVE  \A k \in 1..Len(s) : s[k].op \in {"fsstatus", "fswrite"}
  <2> SUFFICES ASSUME NEW k \in 1..Len(s) PROVE s[k].op \in {"fsstatus", "fswrite"}
    OBVIOUS
  <2>1. s[k].op \in FileCalls
    BY DEF Begins
  <2>2. k = 1 \/ k \in 2..Len(s)
    BY <1>0
  <2>3. k \in 2..Len(s) => k - 1 \in 1..Len(t) /\ (k - 1) + 1 = k
    BY <1>0
  <2>4. k = 1 => s[k].op # "fsset"
    BY <1>4
  <2>5. k \in 2..Len(s) => s[k].op # "fsset"
    <3> SUFFICES ASSUME k \in 2..Len(s) PROVE s[k].op # "fsset"
      OBVIOUS
    <3>1. k - 1 \in 1..Len(t) /\ (k - 1) + 1 = k
      BY <2>3
    <3> DEFINE i == k - 1
    <3>2. i \in 1..Len(t) /\ i + 1 = k
      BY <3>1
    <3> HIDE DEF i
    <3>3. s[i + 1].op # "fsset"
      BY <1>1, <1>4, <3>2
    <3> QED
      BY <3>2, <3>3
  <2> QED
    BY <2>1, <2>2, <2>4, <2>5 DEF FileCalls
<1>5. ASSUME s[1].op = "fswrite" PROVE Begins(<<FSStatus(TRUE)>> \o s, h)
  <2> DEFINE a == <<FSStatus(TRUE)>>
             u == a \o s
  <2>1. a \in Seq(AllCalls) /\ Len(a) = 1 /\ a[1] = FSStatus(TRUE)
    BY MakeCalls, Scripts
  <2> HIDE DEF a
  <2>2. /\ Len(u) = 1 + Len(s) /\ u[1] = FSStatus(TRUE)
        /\ \A k \in 1..Len(s) : u[1 + k] = s[k]
    <3>1. /\ Len(u) = Len(a) + Len(s) /\ \A k \in 1..Len(a) : u[k] = a[k]
          /\ \A k \in 1..Len(s) : u[Len(a) + k] = s[k]
      BY <2>1, Places2
    <3>2. 1 \in 1..Len(a)
      BY <2>1
    <3> HIDE DEF u
    <3> QED
      BY <2>1, <3>1, <3>2
  <2> HIDE DEF u
  <2>3. \A k \in 1..Len(u) : u[k].op \in {"fsstatus", "fswrite"}
    <3> SUFFICES ASSUME NEW k \in 1..Len(u) PROVE u[k].op \in {"fsstatus", "fswrite"}
      OBVIOUS
    <3>1. k = 1 \/ (k - 1 \in 1..Len(s) /\ 1 + (k - 1) = k)
      BY <1>0, <2>2
    <3>2. k - 1 \in 1..Len(s) => s[k - 1].op \in {"fsstatus", "fswrite"}
      BY <1>4, <1>5
    <3>3. CASE k = 1
      BY <1>ops, <2>2, <3>3
    <3>4. CASE k - 1 \in 1..Len(s) /\ 1 + (k - 1) = k
      <4>1. u[1 + (k - 1)] = s[k - 1]
        BY <2>2, <3>4
      <4>2. u[k] = s[k - 1]
        BY <3>4, <4>1
      <4> QED
        BY <3>2, <3>4, <4>2
    <3> QED
      BY <3>1, <3>3, <3>4
  <2>4. ~Denies(s)
    BY <1>2, <1>5, FileCallsAre
  <2>5. h[XCTO] = <<>>
    BY <2>4 DEF Begins
  <2> QED
    BY <2>3, <2>5 DEF Begins, Forbids, FileCalls, u, a
<1>6. ASSUME s[1].op = "fsstatus"
      PROVE  Ends(t, 0) /\ (h[XCTO] # <<>> => s[1].ok = FALSE)
  <2>1. Ends(t, 0)
    BY <1>0, <1>4, <1>6 DEF Ends
  <2>2. h[XCTO] # <<>> => s[1] = FSStatus(FALSE)
    BY <1>2, <1>6 DEF Begins
  <2> QED
    BY <1>ops, <2>1, <2>2
<1> QED
  BY <1>3, <1>5, <1>6

\* The first call of a copy, and what is left after it.
LEMMA CopiesStep ==
  ASSUME NEW s \in Seq(AllCalls), NEW k, NEW h \in [Names -> HeaderValues], NEW f \in FSTypes,
         OneValued(f), Copies(s, k, h, f), s[1].op \in {"del", "add"},
         NEW g, g = [h EXCEPT ![s[1].name] = IF s[1].op = "del" THEN <<>>
                                             ELSE Append(h[s[1].name], s[1].val)]
  PROVE  Copies(Tail(s), k - 1, g, f)
<1> DEFINE t == Tail(s)
<1>1. k \in 1..Len(s) /\ s[k] = WriteOf(Wanted(f)) /\ s # <<>> /\ Len(s) \in Nat
  BY EmptySeq DEF Copies
<1>2. /\ Len(t) = Len(s) - 1 /\ \A j \in 1..Len(t) : t[j] = s[j + 1] /\ j + 1 \in 1..Len(s)
  BY <1>1, Rest
<1>3. k # 1
  BY <1>1, FileCallsAre
<1>4. k - 1 \in 1..Len(t) /\ (k - 1) + 1 = k /\ 1 \in 1..(k - 1)
  BY <1>1, <1>2, <1>3
<1>5. t[k - 1] = WriteOf(Wanted(f))
  <2>1. t[k - 1] = s[(k - 1) + 1]
    BY <1>2, <1>4
  <2> QED
    BY <1>1, <1>4, <2>1
<1> HIDE DEF t
<1>6. Ends(t, k - 1)
  <2> SUFFICES ASSUME NEW j \in 1..Len(t), j > k - 1 PROVE t[j].op \in {"fsstatus", "fswrite"}
    BY DEF Ends
  <2>1. j + 1 > k /\ t[j] = s[j + 1] /\ j + 1 \in 1..Len(s)
    BY <1>1, <1>2
  <2> QED
    BY <2>1 DEF Copies, Ends
<1>7. PICK n \in FSNames : Takes(s, k, 1, n, h, f)
  BY <1>4 DEF Copies
<1>8. n \in Names /\ Taken(f, n).op = "add" /\ Taken(f, n).name = n
        /\ Taken(f, n).val = Head(f.header[n]) /\ DelOf(n).op = "del" /\ DelOf(n).name = n
  BY NamesUsed, FileCallsAre DEF Taken
<1>9. s[1].name = n /\ g = [h EXCEPT ![n] = g[n]]
  BY <1>7, <1>8 DEF Takes
<1>10. \A m \in Names \ {n} : g[m] = h[m]
  BY <1>9
<1>11. \/ s[1] = DelOf(n) /\ g[n] = <<>> /\ 2 < k /\ s[2] = Taken(f, n)
       \/ s[1] = Taken(f, n) /\ h[n] = <<>> /\ g[n] = f.header[n]
  <2>1. CASE s[1] = DelOf(n) /\ 2 < k /\ s[2] = Taken(f, n)
    BY <1>8, <2>1
  <2>2. CASE s[1] = Taken(f, n) /\ h[n] = <<>>
    <3>1. f.header[n] # <<>>
      BY <1>7 DEF Takes
    <3>2. PICK v \in Values : f.header[n] = <<v>>
      BY <1>8, <3>1 DEF OneValued
    <3>3. s[1].op = "add" /\ s[1].name = n /\ s[1].val = v
      BY <1>8, <2>2, <3>2
    <3>4. g[n] = Append(h[n], v)
      BY <1>8, <3>3
    <3>5. Append(<<>>, v) = <<v>>
      OBVIOUS
    <3> QED
      BY <2>2, <3>2, <3>4, <3>5
  <2> QED
    BY <1>7, <2>1, <2>2 DEF Takes
<1>12. ASSUME NEW j \in 1..((k - 1) - 1)
       PROVE  \E m \in FSNames : Takes(t, k - 1, j, m, g, f)
  <2>1. /\ j + 1 \in 1..(k - 1) /\ j \in 1..Len(t) /\ t[j] = s[j + 1] /\ j + 1 # 1
        /\ j \in Nat /\ k \in Nat
    BY <1>1, <1>2
  <2>2. PICK m \in FSNames : Takes(s, k, j + 1, m, h, f)
    BY <2>1 DEF Copies
  <2>3. CASE s[j + 1] = DelOf(m) /\ (j + 1) + 1 < k /\ s[(j + 1) + 1] = Taken(f, m)
    <3>1. j + 1 < k - 1 /\ j + 1 \in 1..Len(t)
      BY <1>1, <1>2, <2>1, <2>3
    <3>2. t[j + 1] = Taken(f, m)
      BY <1>2, <2>3, <3>1
    <3> QED
      BY <2>1, <2>2, <2>3, <3>1, <3>2 DEF Takes
  <2>4. CASE s[j + 1] = Taken(f, m) /\ s[(j + 1) - 1] = DelOf(m)
    <3>1. s[j] = DelOf(m) /\ t[j] = Taken(f, m) /\ f.header[m] # <<>>
      BY <2>1, <2>2, <2>4 DEF Takes
    <3>2. CASE j = 1
      <4>1. s[1] = DelOf(m)
        BY <3>1, <3>2
      <4>2. m = n
        BY <1>9, <4>1, FileCallsAre
      <4>3. g[m] = <<>>
        BY <1>11, <4>1, <4>2, FileCallsAre DEF Taken
      <4> QED
        BY <3>1, <3>2, <4>3 DEF Takes
    <3>3. CASE j # 1
      <4>1. j - 1 \in 1..Len(t) /\ (j - 1) + 1 = j
        BY <2>1, <3>3
      <4>2. t[j - 1] = s[(j - 1) + 1]
        BY <1>2, <4>1
      <4>3. t[j - 1] = DelOf(m)
        BY <3>1, <4>1, <4>2
      <4> QED
        BY <3>1, <3>3, <4>3 DEF Takes
    <3> QED
      BY <3>2, <3>3
  <2> QED
    BY <2>1, <2>2, <2>3, <2>4 DEF Takes
<1>13. ASSUME NEW m \in FileHeaders, f.header[m] # <<>>
       PROVE  g[m] = f.header[m] \/ \E j \in 1..((k - 1) - 1) : t[j] = Taken(f, m)
  <2>0. m \in Names
    BY FileCallsAre
  <2>1. CASE h[m] = f.header[m] /\ m # n
    BY <1>10, <2>0, <2>1
  <2>2. CASE h[m] = f.header[m] /\ m = n
    <3>1. s[1] = DelOf(n) /\ 2 < k /\ s[2] = Taken(f, n)
      BY <1>11, <1>13, <2>2
    <3>2. 1 \in 1..Len(t) /\ 1 \in 1..((k - 1) - 1)
      BY <1>1, <1>2, <3>1
    <3>3. t[1] = s[1 + 1]
      BY <1>2, <3>2
    <3> QED
      BY <2>2, <3>1, <3>2, <3>3
  <2>3. ASSUME NEW j \in 1..(k - 1), s[j] = Taken(f, m)
        PROVE  g[m] = f.header[m] \/ \E i \in 1..((k - 1) - 1) : t[i] = Taken(f, m)
    <3>1. CASE j = 1
      <4>1. m = n
        BY <1>9, <2>3, <3>1, FileCallsAre DEF Taken
      <4>2. s[1] # DelOf(n)
        BY <2>3, <3>1, FileCallsAre DEF Taken
      <4> QED
        BY <1>11, <4>1, <4>2
    <3>2. CASE j # 1
      <4>1. j - 1 \in 1..((k - 1) - 1) /\ j - 1 \in 1..Len(t) /\ (j - 1) + 1 = j
        BY <1>1, <1>2, <3>2
      <4>2. t[j - 1] = s[(j - 1) + 1]
        BY <1>2, <4>1
      <4>3. t[j - 1] = Taken(f, m)
        BY <2>3, <4>1, <4>2
      <4> QED
        BY <4>1, <4>3
    <3> QED
      BY <3>1, <3>2
  <2> QED
    BY <1>13, <2>1, <2>2, <2>3 DEF Copies
<1> QED
  BY <1>4, <1>5, <1>6, <1>12, <1>13 DEF Copies, t

\* WriteHeader takes every header of a file over, for nobody has claimed one.
LEMMA CopyStarts ==
  ASSUME ScriptOK, claimed \subseteq OwnedNames, NEW t \in Seq(AllCalls), Ends(t, 0),
         NEW f, f.header = fs.header, NEW w, w = WriteOf(Wanted(f)), w \in AllCalls
  PROVE  \E k \in 1..Len(CopyCalls \o <<w>> \o t) :
           Copies(CopyCalls \o <<w>> \o t, k, wrapped, f)
<1> DEFINE L == Len(CopyOrder)
           c == CopyCalls
           b == c \o <<w>>
           s == b \o t
<1>1. /\ c \in Seq(AllCalls) /\ L \in Nat /\ Len(c) = 2 * L
      /\ \A i \in 1..L : /\ CopyOrder[i] \in {n \in Names : Copied(n)}
                         /\ c[2 * i - 1] = DelOf(CopyOrder[i])
                         /\ c[2 * i] = Taken(f, CopyOrder[i])
  BY CopyPlaces DEF Taken
<1>2. /\ <<w>> \in Seq(AllCalls) /\ Len(<<w>>) = 1 /\ <<w>>[1] = w
  BY Scripts
<1> DEFINE o == <<w>>
<1> HIDE DEF c, L, o
<1>3. /\ b \in Seq(AllCalls) /\ Len(b) = 2 * L + 1 /\ b[2 * L + 1] = w
      /\ \A k \in 1..2 * L : b[k] = c[k]
  <2>1. /\ c \o o \in Seq(AllCalls) /\ Len(c \o o) = Len(c) + Len(o)
        /\ \A k \in 1..Len(c) : (c \o o)[k] = c[k]
        /\ \A k \in 1..Len(o) : (c \o o)[Len(c) + k] = o[k]
    BY <1>1, <1>2, Places2 DEF o
  <2>2. Len(o) = 1 /\ o[1] = w /\ 1 \in 1..Len(o)
    BY <1>2 DEF o
  <2>3. b = c \o o
    BY DEF o
  <2> HIDE DEF b
  <2> QED
    BY <1>1, <2>1, <2>2, <2>3
<1> HIDE DEF b
<1>4. /\ s \in Seq(AllCalls) /\ Len(s) = 2 * L + 1 + Len(t) /\ Len(t) \in Nat
      /\ \A k \in 1..(2 * L + 1) : s[k] = b[k]
      /\ \A k \in 1..Len(t) : s[(2 * L + 1) + k] = t[k]
  <2>1. /\ s \in Seq(AllCalls) /\ Len(s) = Len(b) + Len(t) /\ Len(t) \in Nat
        /\ \A k \in 1..Len(b) : s[k] = b[k]
        /\ \A k \in 1..Len(t) : s[Len(b) + k] = t[k]
    BY <1>3, Places2
  <2> HIDE DEF s
  <2> QED
    BY <1>3, <2>1
<1> HIDE DEF s
<1> DEFINE e == 2 * L + 1
<1>5. e \in 1..Len(s) /\ s[e] = w /\ e - 1 = 2 * L
  BY <1>1, <1>3, <1>4
<1>6. \A k \in 1..2 * L : s[k] = c[k]
  BY <1>1, <1>3, <1>4
<1>7. Ends(s, e)
  <2> SUFFICES ASSUME NEW j \in 1..Len(s), j > e PROVE s[j].op \in {"fsstatus", "fswrite"}
    BY DEF Ends
  <2>1. j - e \in 1..Len(t) /\ e + (j - e) = j /\ j - e > 0
    BY <1>1, <1>4
  <2>2. s[e + (j - e)] = t[j - e]
    BY <1>4, <2>1
  <2> QED
    BY <2>1, <2>2 DEF Ends
<1>8. ASSUME NEW j \in 1..(e - 1)
      PROVE  \E n \in FSNames : Takes(s, e, j, n, wrapped, f)
  <2>1. PICK i \in 1..L : j = 2 * i - 1 \/ j = 2 * i
    <3>1. (j + 1) \div 2 \in 1..L
            /\ (j = 2 * ((j + 1) \div 2) - 1 \/ j = 2 * ((j + 1) \div 2))
      BY <1>1
    <3> QED
      BY <3>1
  <2> DEFINE n == CopyOrder[i]
  <2>2. n \in Names /\ Copied(n)
    BY <1>1
  <2>3. n \in FSNames /\ f.header[n] # <<>>
    BY <2>2 DEF Copied, ScriptOK
  <2>4. 2 * i - 1 \in 1..2 * L /\ 2 * i \in 1..2 * L /\ 2 * i < e /\ 2 * i # 1
    BY <1>1
  <2>5. s[2 * i - 1] = DelOf(n) /\ s[2 * i] = Taken(f, n)
    BY <1>1, <1>6, <2>4
  <2> HIDE DEF n
  <2>6. CASE j = 2 * i - 1
    <3>1. j + 1 = 2 * i
      BY <1>1, <2>6
    <3> QED
      BY <2>3, <2>4, <2>5, <2>6, <3>1 DEF Takes
  <2>7. CASE j = 2 * i
    <3>1. j - 1 = 2 * i - 1 /\ j # 1
      BY <1>1, <2>4, <2>7
    <3> QED
      BY <2>3, <2>4, <2>5, <2>7, <3>1 DEF Takes
  <2> QED
    BY <2>1, <2>6, <2>7
<1>9. ASSUME NEW n \in FileHeaders, f.header[n] # <<>>
      PROVE  \E j \in 1..(e - 1) : s[j] = Taken(f, n)
  <2>1. n \in Names /\ n # "Content-Type" /\ n \notin OwnedNames /\ n # "Set-Cookie"
    BY FileCallsAre
  <2>2. Copied(n)
    BY <1>9, <2>1 DEF Copied, WritableHeader
  <2>3. PICK i \in 1..L : CopyOrder[i] = n
    BY <2>1, <2>2, EachCopied DEF L
  <2>4. 2 * i \in 1..2 * L
    BY <1>1
  <2>5. s[2 * i] = Taken(f, n)
    BY <1>1, <1>6, <2>3, <2>4
  <2> QED
    BY <1>5, <2>4, <2>5
<1> HIDE DEF e
<1>10. Copies(s, e, wrapped, f)
  BY <1>5, <1>7, <1>8, <1>9 DEF Copies
<1> QED
  BY <1>5, <1>10 DEF s, b, c

\* What handlers do, the file server's and the others.
LEMMA HandlerBegins ==
  ASSUME NEW r \in Requests, NEW h, h[XCTO] = <<>>
  PROVE  \/ \A k \in 1..Len(ServeHTTP(r)) : ServeHTTP(r)[k].op \notin FileCalls
         \/ Begins(ServeHTTP(r), h)
<1> DEFINE s == ServeHTTP(r)
<1>1. "Content-Type" # XCTO /\ "Last-Modified" # XCTO /\ "Location" # XCTO
  BY DEF XCTO
<1>2. /\ \A v : SetsOnly(<<v>>, 1)
      /\ \A t : SetsOnly(t, 1)
      /\ \A t : t[1].op = "fsset" => SetsOnly(t, 2)
      /\ \A t : t[1].op = "fsset" /\ t[2].op = "fsset" => SetsOnly(t, 3)
  BY DEF SetsOnly
<1>3. ASSUME \A k \in 1..Len(s) : s[k].op \in {"write", "cookie", "set", "put"}
      PROVE  \A k \in 1..Len(s) : s[k].op \notin FileCalls
  BY <1>3 DEF FileCalls
<1>4. CASE r.handler \in WriteKinds \cup {"error", "nothing", "cookie", "twice", "setCSP",
                                          "login", "logout"}
  <2>1. /\ \A k : WriteOf(k).op = "write" /\ PutOf(k).op = "put" /\ CookieOf(k).op = "cookie"
        /\ \A n, v : SetOf(n, v).op = "set"
    BY DEF WriteOf, PutOf, CookieOf, SetOf
  <2>2. /\ r.handler \in WriteKinds \cup {"error"} => s = <<WriteOf(r.handler)>>
        /\ r.handler = "nothing" => s = <<>>
        /\ r.handler = "cookie" => s = <<CookieOf("session"), WriteOf("html")>>
        /\ r.handler = "twice" => s = <<WriteOf("html"), WriteOf("json")>>
        /\ r.handler = "setCSP" => s = <<SetOf(CSP, "none"), WriteOf("html")>>
        /\ r.handler = "login" => s = <<PutOf("set"), PutOf("user"), WriteOf("redirect")>>
        /\ r.handler = "logout" => s = <<PutOf("clear"), WriteOf("redirect")>>
    BY HandlerScripts
  <2> HIDE DEF s
  <2>3. \/ Len(s) = 0
        \/ Len(s) = 1 /\ s[1].op = "write"
        \/ /\ Len(s) = 2 /\ s[1].op \in {"write", "cookie", "set", "put"} /\ s[2].op = "write"
        \/ /\ Len(s) = 3 /\ s[1].op = "put" /\ s[2].op = "put" /\ s[3].op = "write"
    <3>1. CASE r.handler \in WriteKinds \cup {"error"}
      BY <2>1, <2>2, <3>1
    <3>2. CASE r.handler = "nothing"
      BY <2>2, <3>2
    <3>3. CASE r.handler \in {"cookie", "twice", "setCSP", "logout"}
      BY <2>1, <2>2, <3>3
    <3>4. CASE r.handler = "login"
      BY <2>1, <2>2, <3>4
    <3> QED
      BY <1>4, <3>1, <3>2, <3>3, <3>4
  <2> QED
    BY <1>3, <2>3 DEF s
<1>5. CASE r.handler = "fsFile"
  <2>1. s = <<FSSet("Content-Type", "html"), FSSet("Last-Modified", "then"), FSStatus(TRUE),
              FSWrite, FSWrite>>
    BY <1>5, HandlerScripts
  <2> HIDE DEF s
  <2>2. /\ Len(s) = 5 /\ s[1].op = "fsset" /\ s[1].name = "Content-Type"
        /\ s[2].op = "fsset" /\ s[2].name = "Last-Modified" /\ s[3].op = "fsstatus"
        /\ s[4].op = "fswrite" /\ s[5].op = "fswrite"
    BY <2>1 DEF FSSet, FSStatus, FSWrite
  <2> QED
    BY <1>1, <1>2, <2>2 DEF Begins, FileCalls, Forbids, s
<1>6. CASE r.handler = "fsIndex"
  <2>1. s = <<FSSet("Content-Type", "html"), FSWrite>>
    BY <1>6, HandlerScripts
  <2> HIDE DEF s
  <2>2. /\ Len(s) = 2 /\ s[1].op = "fsset" /\ s[1].name = "Content-Type" /\ s[2].op = "fswrite"
    BY <2>1 DEF FSSet, FSWrite
  <2> QED
    BY <1>1, <1>2, <2>2 DEF Begins, FileCalls, Forbids, s
<1>7. CASE r.handler \in {"fsHead", "fsCached", "fsMoved"}
  <2>1. /\ r.handler = "fsHead" => s = <<FSSet("Last-Modified", "then"), FSStatus(TRUE)>>
        /\ r.handler = "fsCached" => s = <<FSSet("Last-Modified", "then"), FSStatus(FALSE)>>
        /\ r.handler = "fsMoved" => s = <<FSSet("Location", "location"), FSStatus(FALSE)>>
    BY HandlerScripts
  <2> HIDE DEF s
  <2>2. /\ \A n, v : FSSet(n, v).op = "fsset" /\ FSSet(n, v).name = n
        /\ \A b : FSStatus(b).op = "fsstatus"
    BY FileCallsAre
  <2>3. /\ Len(s) = 2 /\ s[1].op = "fsset" /\ s[1].name \in {"Last-Modified", "Location"}
        /\ s[2].op = "fsstatus"
    <3>1. CASE s = <<FSSet("Last-Modified", "then"), FSStatus(TRUE)>>
      BY <2>2, <3>1
    <3>2. CASE s = <<FSSet("Last-Modified", "then"), FSStatus(FALSE)>>
      BY <2>2, <3>2
    <3>3. CASE s = <<FSSet("Location", "location"), FSStatus(FALSE)>>
      BY <2>2, <3>3
    <3> QED
      BY <1>7, <2>1, <3>1, <3>2, <3>3
  <2> QED
    BY <1>1, <1>2, <2>3 DEF Begins, FileCalls, Forbids, s
<1>8. CASE r.handler = "fsMissing"
  <2>1. s = <<FSSet("Content-Type", "text"), FSSet(XCTO, "nosniff"), FSStatus(FALSE), FSWrite>>
    BY <1>8, HandlerScripts
  <2> HIDE DEF s
  <2>2. /\ Len(s) = 4 /\ s[1].op = "fsset" /\ s[1].name = "Content-Type" /\ s[2].op = "fsset"
        /\ s[2].val = "nosniff" /\ s[3].op = "fsstatus" /\ s[4].op = "fswrite"
        /\ s[3] = FSStatus(FALSE)
    BY <2>1 DEF FSSet, FSStatus, FSWrite
  <2>3. SetsOnly(s, 1) /\ SetsOnly(s, 2) /\ SetsOnly(s, 3)
    BY <1>2, <2>2
  <2>4. 3 \in 1..Len(s)
    BY <2>2
  <2>5. Denies(s)
    BY <2>2, <2>3, <2>4 DEF Denies
  <2>6. ASSUME NEW k \in 1..Len(s)
        PROVE  /\ s[k].op \in FileCalls
               /\ s[k].op = "fsset" => SetsOnly(s, k) /\ (s[k].name = XCTO => s[k].val = "nosniff")
    <3>1. k \in {1, 2, 3, 4}
      BY <2>2
    <3> QED
      BY <1>1, <2>2, <2>3, <3>1 DEF FileCalls
  <2> QED
    BY <2>5, <2>6 DEF Begins, s
<1> QED
  BY <1>4, <1>5, <1>6, <1>7, <1>8, StackAssumption DEF HandlerKinds

\* What the first call of a script says of where the file server is.
LEMMA FirstCall ==
  ASSUME StackInv, Serving, Writer, Ready, pc = "user"
  PROVE  /\ script \in Seq(AllCalls) /\ script # <<>> /\ Call = script[1] /\ Body = script
         /\ fs.committed /\ ~written =>
              \E k \in 1..Len(script) :
                /\ Copies(script, k, wrapped, fs)
                /\ Call.op \in {"del", "add", "write"} /\ (k = 1 <=> Call.op = "write")
         /\ fs.committed /\ written => Call.op \in {"fsstatus", "fswrite"}
         /\ cur = Handler /\ ~fs.committed =>
              \/ \A k \in 1..Len(script) : script[k].op \notin FileCalls
              \/ ~written /\ Begins(script, fs.header)
         /\ cur = Handler /\ ~fs.committed /\ Call.op \in FileCalls =>
              ~written /\ Begins(script, fs.header)
<1>1. /\ script \in Seq(AllCalls) /\ script # <<>> /\ Call = script[1] /\ Body = script
      /\ 1 \in 1..Len(script) /\ Len(script) \in Nat
  <2>1. script \in Seq(AllCalls) /\ script # <<>> /\ Body = script
    BY DEF StackInv, ScriptOK, Ready, Body
  <2> QED
    BY <2>1, Rest DEF Call
<1>2. ASSUME fs.committed, ~written
      PROVE  \E k \in 1..Len(script) :
               /\ Copies(script, k, wrapped, fs)
               /\ Call.op \in {"del", "add", "write"} /\ (k = 1 <=> Call.op = "write")
  <2>1. PICK k \in 1..Len(script) : Copies(script, k, wrapped, fs)
    BY <1>2 DEF Serving
  <2>2. k = 1 => Call.op = "write"
    BY <1>1, <2>1, FileCallsAre DEF Copies
  <2>3. k # 1 => Call.op \in {"del", "add"}
    <3> SUFFICES ASSUME k # 1 PROVE Call.op \in {"del", "add"}
      OBVIOUS
    <3>1. 1 \in 1..(k - 1)
      BY <1>1
    <3>2. PICK n \in FSNames : Takes(script, k, 1, n, wrapped, fs)
      BY <2>1, <3>1 DEF Copies
    <3> QED
      BY <1>1, <3>2, FileCallsAre DEF Takes, Taken
  <2> QED
    BY <2>1, <2>2, <2>3
<1>3. fs.committed /\ written => Call.op \in {"fsstatus", "fswrite"}
  BY <1>1 DEF Serving, Ends
<1>4. cur = Handler /\ ~fs.committed =>
        \/ \A k \in 1..Len(script) : script[k].op \notin FileCalls
        \/ ~written /\ Begins(script, fs.header)
  BY <1>1 DEF Serving
<1> QED
  BY <1>1, <1>2, <1>3, <1>4

\* A step that is not the file server's leaves its writer alone.
LEMMA OtherFile ==
  ASSUME StackInv, Headers, Order, WhoCalls, Writer, [StackNext]_stackVars
  PROVE  /\ FSSetStep \/ FSStatusStep \/ FSWriteStep \/ fs' = fs
         /\ cur' # cur => cur # Handler
         /\ claimed' \subseteq OwnedNames
<1>1. HeaderStep => claimed' \subseteq OwnedNames
  BY HeaderStepDoes, CallShape DEF Writer
<1>2. claimed' \subseteq OwnedNames
  BY <1>1, OtherStepDoes DEF Writer, Dispatches
<1>3. cur' # cur => cur # Handler
  <2>1. N \in Nat /\ N # Handler /\ \A i \in 1..N : i # Handler
    BY HeaderAssumption DEF Handler
  <2> QED
    BY <2>1, Advances
<1>4. FSSetStep \/ FSStatusStep \/ FSWriteStep \/ fs' = fs
  BY DEF StackNext, StackStep, HeaderStep, PanicStep, PutStep, FuncStep, WriteStep, CommitStep,
     DispatchStep, BeforeStep, HandlerStep, EndStep, programVars, stackVars, allVars
<1> QED
  BY <1>2, <1>3, <1>4

\* The steps of the file server.
LEMMA FileSteps ==
  ASSUME StackInv, WhoCalls, Writer, Serving, FSSetStep \/ FSStatusStep \/ FSWriteStep
  PROVE  /\ Ready /\ pc = "user" /\ pc' = pc /\ cur = Handler /\ cur' = cur
         /\ written' = written /\ resp' = resp /\ frame' = frame /\ UNCHANGED headerVars
         /\ \/ /\ ~fs.committed /\ ~written /\ Begins(script, fs.header)
            \/ /\ fs.committed /\ written /\ Call.op # "fsset"
         /\ FSSetStep =>
              /\ Call.op = "fsset" /\ ~fs.committed /\ script' = Tail(script)
              /\ fs' = [fs EXCEPT !.header[Call.name] = <<Call.val>>] /\ wire' = wire
         /\ FSStatusStep =>
              /\ Call.op = "fsstatus" /\ wire' = wire
              /\ fs.committed => fs' = fs /\ script' = Tail(script)
              /\ ~fs.committed =>
                   /\ fs' = [fs EXCEPT !.committed = TRUE, !.errored = ~Call.ok]
                   /\ script' = CopyCalls \o <<WriteOf(IF Call.ok THEN "file" ELSE "error")>>
                                  \o Tail(script)
         /\ FSWriteStep =>
              /\ Call.op = "fswrite"
              /\ ~fs.committed =>
                   fs' = fs /\ script' = <<FSStatus(TRUE)>> \o script /\ wire' = wire
              /\ fs.committed =>
                   /\ script' = Tail(script)
                   /\ fs' = [fs EXCEPT !.sent = fs.sent \/ ~fs.errored]
                   /\ \/ wire' = wire
                      \/ ~fs.errored /\ wire' = Send("filebody", "ok", wrapped)
<1>1. cur = Handler
  BY OnlyHandlerServes
<1>2. /\ Ready /\ pc = "user" /\ pc' = pc /\ cur' = cur
      /\ written' = written /\ resp' = resp /\ frame' = frame /\ UNCHANGED headerVars
      /\ Call.op \in FileCalls
  BY DEF FSSetStep, FSStatusStep, FSWriteStep, FileBody, InUser, vars, flightVars, headerVars,
     FileCalls
<1>3. \/ ~fs.committed /\ ~written /\ Begins(script, fs.header)
      \/ fs.committed /\ written /\ Call.op # "fsset"
  <2>1. ~(fs.committed /\ ~written)
    BY <1>2, FirstCall DEF FileCalls
  <2>2. fs.committed /\ written => Call.op # "fsset"
    BY <1>2, FirstCall
  <2>3. ~fs.committed => ~written /\ Begins(script, fs.header)
    BY <1>1, <1>2, FirstCall
  <2> QED
    BY <2>1, <2>2, <2>3
<1>4. FSSetStep => /\ Call.op = "fsset" /\ script' = Tail(script)
                   /\ fs' = [fs EXCEPT !.header[Call.name] = <<Call.val>>] /\ wire' = wire
  BY DEF FSSetStep, vars, flightVars
<1>5. FSStatusStep =>
        /\ Call.op = "fsstatus" /\ wire' = wire
        /\ fs.committed => fs' = fs /\ script' = Tail(script)
        /\ ~fs.committed =>
             /\ fs' = [fs EXCEPT !.committed = TRUE, !.errored = ~Call.ok]
             /\ script' = CopyCalls \o <<WriteOf(IF Call.ok THEN "file" ELSE "error")>>
                            \o Tail(script)
  BY DEF FSStatusStep, vars, flightVars
<1>6. FSWriteStep =>
        /\ Call.op = "fswrite"
        /\ ~fs.committed => fs' = fs /\ script' = <<FSStatus(TRUE)>> \o script /\ wire' = wire
        /\ fs.committed =>
             /\ script' = Tail(script)
             /\ fs' = [fs EXCEPT !.sent = fs.sent \/ ~fs.errored]
             /\ \/ wire' = wire
                \/ ~fs.errored /\ wire' = Send("filebody", "ok", wrapped)
  BY DEF FSWriteStep, FileBody, DropsBody, vars, flightVars
<1> QED
  BY <1>1, <1>2, <1>3, <1>4, <1>5, <1>6

\* One step of the writer.
LEMMA WriterStep ==
  ASSUME StackInv, Headers, Order, WhoCalls, Writer, Serving, [StackNext]_stackVars
  PROVE  Writer'
<1>1. /\ fs \in FSTypes /\ fs.header \in [Names -> Seq(Values)] /\ XCTO \in Names
      /\ fs.committed \in BOOLEAN /\ fs.errored \in BOOLEAN /\ fs.sent \in BOOLEAN
  BY FileCallsAre DEF StackInv, ScriptOK, FSTypes
<1>2. claimed' \subseteq OwnedNames /\ (cur' # cur => cur # Handler)
  BY OtherFile
<1>3. CASE fs' = fs
  BY <1>2, <1>3 DEF Writer, OneValued
<1>4. CASE FSSetStep
  <2>1. /\ cur = Handler /\ cur' = cur /\ ~fs.committed /\ Ready /\ Call.op = "fsset"
        /\ Begins(script, fs.header) /\ fs' = [fs EXCEPT !.header[Call.name] = <<Call.val>>]
        /\ pc = "user"
    BY <1>4, FileSteps
  <2>2. script # <<>> /\ Call = script[1] /\ script \in Seq(AllCalls) /\ Call \in AllCalls
    BY <2>1, FirstCall, NextCall DEF StackInv
  <2>3. 1 \in 1..Len(script)
    BY <2>2, Rest
  <2>4. Call.name \in Names /\ Call.val \in Values /\ (Call.name = XCTO => Call.val = "nosniff")
    BY <2>1, <2>2, <2>3, CallShape, NamesUsed DEF Begins
  <2> DEFINE n == Call.name
             v == Call.val
  <2>5. /\ fs'.header = [fs.header EXCEPT ![n] = <<v>>] /\ fs'.committed = fs.committed
        /\ fs'.errored = fs.errored /\ fs'.sent = fs.sent
    BY <1>1, <2>1 DEF FSTypes
  <2> HIDE DEF n, v
  <2>6. /\ fs'.header[n] = <<v>> /\ \A m \in Names \ {n} : fs'.header[m] = fs.header[m]
        /\ v \in Values /\ (n = XCTO => v = "nosniff")
    BY <1>1, <2>4, <2>5 DEF n, v
  <2>7. OneValued(fs')
    BY <2>6 DEF Writer, OneValued
  <2>8. fs'.header[XCTO] # <<>> => fs'.header[XCTO] = <<"nosniff">>
    BY <1>1, <2>6 DEF Writer
  <2> QED
    BY <1>2, <2>1, <2>5, <2>7, <2>8 DEF Writer
<1>5. CASE FSStatusStep
  <2>1. /\ cur = Handler /\ cur' = cur /\ Ready /\ Call.op = "fsstatus" /\ pc = "user"
        /\ fs.committed => fs' = fs
        /\ ~fs.committed => /\ fs' = [fs EXCEPT !.committed = TRUE, !.errored = ~Call.ok]
                            /\ Begins(script, fs.header)
    BY <1>5, FileSteps
  <2> SUFFICES ASSUME ~fs.committed PROVE Writer'
    BY <1>3, <2>1
  <2>2. script # <<>> /\ Call = script[1] /\ script \in Seq(AllCalls) /\ Call \in AllCalls
    BY <2>1, FirstCall, NextCall DEF StackInv
  <2>3. Call.ok \in BOOLEAN /\ (fs.header[XCTO] # <<>> => Call.ok = FALSE)
    BY <1>1, <2>1, <2>2, CallShape, BeginsStep
  <2>4. /\ fs'.header = fs.header /\ fs'.committed = TRUE /\ fs'.errored = ~Call.ok
        /\ fs'.sent = FALSE
    BY <1>1, <2>1 DEF FSTypes, Writer
  <2>5. OneValued(fs') /\ (fs'.header[XCTO] # <<>> => fs'.header[XCTO] = <<"nosniff">>)
    BY <2>4 DEF Writer, OneValued
  <2>6. ~fs'.errored => fs'.header[XCTO] = <<>>
    BY <2>3, <2>4
  <2>7. (fs'.committed = TRUE => fs'.committed) /\ (fs'.sent = FALSE => ~fs'.sent)
    OBVIOUS
  <2> QED
    BY <1>2, <2>1, <2>4, <2>5, <2>6, <2>7 DEF Writer
<1>6. CASE FSWriteStep
  <2>1. /\ cur = Handler /\ cur' = cur
        /\ ~fs.committed => fs' = fs
        /\ fs.committed => fs' = [fs EXCEPT !.sent = fs.sent \/ ~fs.errored]
    BY <1>6, FileSteps
  <2> SUFFICES ASSUME fs.committed PROVE Writer'
    BY <1>3, <2>1
  <2>2. /\ fs'.header = fs.header /\ fs'.committed = fs.committed /\ fs'.errored = fs.errored
        /\ fs'.sent = (fs.sent \/ ~fs.errored)
    BY <1>1, <2>1 DEF FSTypes
  <2> QED
    BY <1>1, <1>2, <2>1, <2>2 DEF Writer, OneValued
<1> QED
  BY <1>3, <1>4, <1>5, <1>6, OtherFile

\* One step of the handler, when it makes a call of its own.
LEMMA ServingCalls ==
  ASSUME StackInv, Headers, Order, WhoCalls, Committing, Writer, Serving,
         HeaderStep \/ PutStep \/ FuncStep
  PROVE  Serving'
<1>0. /\ Ready /\ script' = Tail(script) /\ frame' = frame /\ fs' = fs
      /\ UNCHANGED <<pc, cur, written, resp>> /\ pc \in {"user", "commit"}
      /\ Call.op \in {"claim", "set", "add", "del", "cookie", "setter", "put", "func"}
  BY DEF HeaderStep, PutStep, FuncStep, vars, flightVars, Ready, Running, InUser, InCommit
<1>1. script # <<>> /\ script \in Seq(AllCalls) /\ Call \in AllCalls
  BY <1>0, NextCall DEF StackInv, ScriptOK
<1>2. CASE pc = "commit"
  <2>1. Body' = Body
    BY <1>0, <1>2 DEF Body
  <2>2. Call \in CommitCalls
    <3>1. In(Call, script)
      BY <1>1, InLemma DEF Call
    <3> QED
      BY <1>2, <3>1 DEF Committing
  <2>3. Call.op \notin {"claim", "set", "add", "del", "setter"}
    BY <2>2 DEF CommitCalls, PanicOf, FuncOf, CookieOf
  <2>4. \A n \in FileHeaders : wrapped'[n] = wrapped[n]
    <3>1. CASE HeaderStep
      <4>1. /\ Call.op = "cookie" /\ wrapped \in [Names -> HeaderValues]
            /\ wrapped' = [wrapped EXCEPT !["Set-Cookie"] = NewValue(Call)]
        BY <2>3, <3>1, HeaderStepDoes DEF Target, StackInv, TypeOK, HeaderTypeOK
      <4>2. \A n \in FileHeaders : n # "Set-Cookie" /\ n \in Names
        BY FileCallsAre
      <4> QED
        BY <4>1, <4>2
    <3>2. CASE PutStep \/ FuncStep
      BY <3>2 DEF PutStep, FuncStep, vars, headerVars
    <3> QED
      BY <3>1, <3>2
  <2>5. Ends(Body, 0)' = Ends(Body', 0)
    BY DEF Ends
  <2>6. ~(fs.committed /\ ~written)
    BY <1>2 DEF Serving
  <2> QED
    BY <1>0, <1>2, <2>1, <2>4, <2>6 DEF Serving, Wanted, Ends, Begins, Forbids, Denies, SetsOnly
<1>3. CASE pc = "user"
  <2>1. /\ Body = script /\ Call = script[1] /\ Body' = Tail(script)
        /\ \A k \in 1..Len(Tail(script)) : Tail(script)[k] = script[k + 1] /\ k + 1 \in 1..Len(script)
        /\ 1 \in 1..Len(script)
    <3>1. Body = script /\ Call = script[1] /\ Body' = Tail(script)
      BY <1>0, <1>3, FirstCall DEF Body
    <3> QED
      BY <1>1, <3>1, Rest
  <2>2. ~(fs.committed /\ written)
    BY <1>0, <1>3, FirstCall
  <2>3. cur = Handler /\ ~fs.committed =>
          \A k \in 1..Len(Tail(script)) : Tail(script)[k].op \notin FileCalls
    <3> SUFFICES ASSUME cur = Handler, ~fs.committed
                 PROVE  \A k \in 1..Len(Tail(script)) : Tail(script)[k].op \notin FileCalls
      OBVIOUS
    <3>1. ~Begins(script, fs.header)
      BY <1>0, <2>1 DEF Begins, FileCalls
    <3>2. \A k \in 1..Len(script) : script[k].op \notin FileCalls
      BY <1>0, <1>3, <3>1, FirstCall
    <3> QED
      BY <2>1, <3>2
  <2>4. fs.committed /\ ~written =>
          \E k \in 1..Len(script') : Copies(script', k, wrapped', fs)
    <3> SUFFICES ASSUME fs.committed, ~written
                 PROVE  \E k \in 1..Len(script') : Copies(script', k, wrapped', fs)
      OBVIOUS
    <3>1. PICK k \in 1..Len(script) :
            Copies(script, k, wrapped, fs) /\ Call.op \in {"del", "add", "write"}
      BY <1>0, <1>3, FirstCall
    <3>2. HeaderStep /\ Call.op \in {"del", "add"}
      BY <1>0, <3>1 DEF PutStep, FuncStep
    <3>3. wrapped' = [wrapped EXCEPT ![Call.name] = NewValue(Call)]
      BY <3>2, HeaderStepDoes DEF Target
    <3>4. NewValue(Call) = IF Call.op = "del" THEN <<>>
                           ELSE Append(wrapped[Call.name], Call.val)
      BY <3>2 DEF NewValue, Target
    <3>5. wrapped \in [Names -> HeaderValues] /\ fs \in FSTypes /\ OneValued(fs)
      BY DEF StackInv, TypeOK, HeaderTypeOK, ScriptOK, Writer
    <3>6. Copies(Tail(script), k - 1, wrapped', fs)
      BY <1>1, <2>1, <3>1, <3>2, <3>3, <3>4, <3>5, CopiesStep
    <3> QED
      BY <1>0, <3>6 DEF Copies
  <2>5. (\E k \in 1..Len(script) : Copies(script, k, wrapped, fs))'
          <=> \E k \in 1..Len(script') : Copies(script', k, wrapped', fs')
    BY DEF Copies, Takes, Taken, Ends, Wanted
  <2> QED
    BY <1>0, <1>3, <2>1, <2>2, <2>3, <2>4, <2>5 DEF Serving
<1> QED
  BY <1>0, <1>2, <1>3

\* One step.
LEMMA ServingStep ==
  ASSUME StackInv, Headers, Order, WhoCalls, Committing, Writer, Serving, [StackNext]_stackVars
  PROVE  Serving'
<1> DEFINE Copying(s, h, f) == \E k \in 1..Len(s) : Copies(s, k, h, f)
<1>0. /\ script \in Seq(AllCalls) /\ N \in Nat /\ Handler = N + 1 /\ cur \in 1..Handler
      /\ ScriptOK /\ fs \in FSTypes /\ wrapped \in [Names -> HeaderValues]
  BY HeaderAssumption DEF StackInv, ScriptOK, TypeOK, HeaderTypeOK, Actors, Handler
<1>1. /\ Copying(script, wrapped, fs)' <=> Copying(script', wrapped', fs')
      /\ Ends(Body, 0)' <=> Ends(Body', 0)
      /\ Begins(Body, fs.header)' <=> Begins(Body', fs'.header)
      /\ Wanted(fs)' = Wanted(fs')
  BY DEF Copies, Takes, Taken, Ends, Wanted, Begins, Forbids, Denies, SetsOnly
<1>2. Serving <=>
        /\ cur = Handler /\ ~fs.committed /\ pc \in {"user", "commit"} =>
             \/ \A k \in 1..Len(Body) : Body[k].op \notin FileCalls
             \/ ~written /\ Begins(Body, fs.header)
        /\ fs.committed /\ ~written /\ pc \notin {"unwind", "crashed"} =>
             pc = "user" /\ Copying(script, wrapped, fs)
        /\ fs.committed /\ written /\ pc \notin {"unwind", "crashed"} =>
             /\ resp = Wanted(fs)
             /\ pc # "done" => Ends(Body, 0)
             /\ \A n \in FileHeaders : fs.header[n] # <<>> => wrapped[n] = fs.header[n]
  BY DEF Serving
<1>3. SUFFICES
        /\ cur' = Handler /\ ~fs'.committed /\ pc' \in {"user", "commit"} =>
             \/ \A k \in 1..Len(Body') : Body'[k].op \notin FileCalls
             \/ ~written' /\ Begins(Body', fs'.header)
        /\ fs'.committed /\ ~written' /\ pc' \notin {"unwind", "crashed"} =>
             pc' = "user" /\ Copying(script', wrapped', fs')
        /\ fs'.committed /\ written' /\ pc' \notin {"unwind", "crashed"} =>
             /\ resp' = Wanted(fs')
             /\ pc' # "done" => Ends(Body', 0)
             /\ \A n \in FileHeaders : fs'.header[n] # <<>> => wrapped'[n] = fs'.header[n]
  BY <1>1 DEF Serving
<1> HIDE DEF Copying
<1>4. CASE HeaderStep \/ PutStep \/ FuncStep
  <2>1. Serving'
    BY <1>4, ServingCalls
  <2> QED
    BY <1>1, <2>1 DEF Serving, Copying
<1>5. CASE PanicStep
  BY <1>5 DEF PanicStep, UserPanic
<1>6. CASE WriteStep(CommitOf(N, Call.kind))
  <2>1. /\ Ready /\ pc = "user" /\ Call.op = "write" /\ frame' = Tail(script) /\ pc' = "commit"
        /\ ~written /\ written' = TRUE /\ resp' = Call.kind /\ cur' = cur /\ fs' = fs
        /\ UNCHANGED headerVars /\ Body' = Tail(script)
    BY <1>6 DEF WriteStep, WriteError, Write, EnterWrite, MayWrite, InUser, Body
  <2>2. script # <<>> /\ Call = script[1]
    BY <2>1, FirstCall
  <2>3. \A k \in 1..Len(Tail(script)) :
          Tail(script)[k] = script[k + 1] /\ k + 1 \in 1..Len(script) /\ k + 1 > 1
    BY <1>0, <2>2, Rest
  <2>4. cur = Handler /\ ~fs.committed =>
          \A k \in 1..Len(Tail(script)) : Tail(script)[k].op \notin FileCalls
    <3> SUFFICES ASSUME cur = Handler, ~fs.committed
                 PROVE  \A k \in 1..Len(Tail(script)) : Tail(script)[k].op \notin FileCalls
      OBVIOUS
    <3>1. 1 \in 1..Len(script)
      BY <1>0, <2>2, Rest
    <3>2. ~Begins(script, fs.header)
      BY <2>1, <2>2, <3>1 DEF Begins, FileCalls
    <3>3. \A k \in 1..Len(script) : script[k].op \notin FileCalls
      BY <2>1, <3>2, FirstCall
    <3> QED
      BY <2>3, <3>3
  <2>5. ASSUME fs.committed
        PROVE  /\ Call.kind = Wanted(fs) /\ Ends(Tail(script), 0)
               /\ \A n \in FileHeaders : fs.header[n] # <<>> => wrapped[n] = fs.header[n]
    <3>1. Copies(script, 1, wrapped, fs)
      BY <2>1, <2>5, FirstCall
    <3>2. Call = WriteOf(Wanted(fs))
      BY <2>2, <3>1 DEF Copies
    <3>3. Ends(Tail(script), 0)
      BY <2>3, <3>1 DEF Copies, Ends
    <3>4. 1..(1 - 1) = {}
      OBVIOUS
    <3>5. \A n \in FileHeaders : fs.header[n] # <<>> => wrapped[n] = fs.header[n]
      BY <3>1, <3>4 DEF Copies
    <3> QED
      BY <3>2, <3>3, <3>5, FileCallsAre
  <2> QED
    BY <2>1, <2>4, <2>5 DEF headerVars
<1>7. CASE CommitStep(CommitOf(commitAt - 1, resp))
  <2>1. /\ pc = "commit" /\ pc' = pc /\ Body' = Body /\ fs' = fs
        /\ UNCHANGED <<cur, written, resp, wrapped>>
    BY <1>7 DEF CommitStep, CommitReturn, InCommit, Body, headerVars
  <2> QED
    BY <1>2, <2>1
<1>8. CASE DispatchStep
  <2>1. /\ pc = "commit" /\ pc' \in {"user", "unwind"} /\ fs' = fs
        /\ UNCHANGED <<cur, written, resp>> /\ (pc' = "user" => Body' = Body)
    BY <1>8 DEF DispatchStep, DispatchResponse, Body
  <2>2. fs.committed => written /\ resp = Wanted(fs)
    BY <1>2, <2>1
  <2>3. PICK o : o \in Dispatch(resp, wrapped) /\ wrapped' = o.hdr
    BY <1>8 DEF DispatchStep, DispatchResponse, Handed
  <2>4. fs.committed => \A n \in FileHeaders : wrapped'[n] = wrapped[n]
    BY <1>0, <2>2, <2>3, FileDispatched DEF Wanted
  <2> QED
    BY <1>2, <2>1, <2>2, <2>4
<1>9. CASE BeforeStep(BeforeOf(cur + 1))
  <2>1. /\ fs' = fs /\ cur < Handler /\ pc' \in {"user", "done"}
        /\ pc' = "done" => cur' = cur
        /\ pc' = "user" => cur' = cur + 1 /\ script' = BeforeOf(cur + 1)
    BY <1>9 DEF BeforeStep, BeforeReturn, InUser, InBefore
  <2>2. cur # Handler /\ XCTO \in Names
    BY <1>0, <2>1, FileCallsAre
  <2>3. ~fs.committed /\ fs.header[XCTO] = <<>>
    BY <2>2 DEF Writer
  <2>4. ASSUME pc' = "user", cur' = Handler
        PROVE  \/ \A k \in 1..Len(Body') : Body'[k].op \notin FileCalls
               \/ ~written' /\ Begins(Body', fs'.header)
    <3>1. Body' = ServeHTTP(req) /\ req \in Requests
      BY <2>1, <2>4 DEF BeforeOf, Body, StackInv, ContextOK
    <3>2. ~written'
      BY <1>9, <2>4 DEF BeforeStep, BeforeReturn, EndsChain
    <3> QED
      BY <2>1, <2>3, <3>1, <3>2, HandlerBegins
  <2> QED
    BY <2>1, <2>2, <2>3, <2>4
<1>10. CASE HandlerStep
  <2>1. /\ pc = "user" /\ pc' = "done" /\ fs' = fs /\ written' = written /\ resp' = resp
        /\ script = <<>> /\ (written => wrapped' = wrapped)
    BY <1>10 DEF HandlerStep, HandlerReturnWritten, HandlerReturnNothing, InUser, programVars,
       headerVars
  <2>2. ~(fs.committed /\ ~written)
    BY <1>2, <2>1 DEF Copying
  <2> QED
    BY <1>2, <2>1, <2>2
<1>11. CASE EndStep
  <2>1. /\ pc' = "crashed" \/ (pc' = pc /\ pc \in {"done", "crashed"})
        /\ pc' # "crashed" => wrapped' = wrapped
        /\ fs' = fs /\ written' = written /\ resp' = resp /\ cur' = cur
    BY <1>11 DEF EndStep, ClearAndRepanic, ServerFinish, OuterRecover, programVars, headerVars
  <2> QED
    BY <1>2, <2>1
<1>12. CASE FSSetStep \/ FSStatusStep \/ FSWriteStep
  <2>1. /\ Ready /\ pc = "user" /\ pc' = pc /\ cur = Handler /\ cur' = cur
        /\ written' = written /\ resp' = resp /\ wrapped' = wrapped /\ Body' = script'
        /\ \/ /\ ~fs.committed /\ ~written /\ Begins(script, fs.header)
           \/ /\ fs.committed /\ written /\ Call.op # "fsset"
    BY <1>12, FileSteps DEF headerVars, Body
  <2>2. script # <<>> /\ Call = script[1] /\ Body = script /\ Call \in AllCalls
    BY <1>0, <2>1, FirstCall, NextCall
  <2>3. /\ fs.header \in [Names -> Seq(Values)] /\ fs.committed \in BOOLEAN
        /\ fs.errored \in BOOLEAN
    BY <1>0 DEF FSTypes
  <2>4. fs.committed => Ends(Tail(script), 0)
    <3> SUFFICES ASSUME fs.committed PROVE Ends(Tail(script), 0)
      OBVIOUS
    <3>1. Ends(script, 0)
      BY <1>2, <2>1, <2>2
    <3>2. \A k \in 1..Len(Tail(script)) :
            Tail(script)[k] = script[k + 1] /\ k + 1 \in 1..Len(script) /\ k + 1 > 0
      BY <1>0, <2>2, Rest
    <3> QED
      BY <3>1, <3>2 DEF Ends
  <2>5. fs.committed =>
          /\ resp = Wanted(fs)
          /\ \A n \in FileHeaders : fs.header[n] # <<>> => wrapped[n] = fs.header[n]
    BY <1>2, <2>1
  <2>6. CASE FSSetStep
    <3>1. /\ ~fs.committed /\ script' = Tail(script) /\ Call.op = "fsset"
          /\ fs' = [fs EXCEPT !.header[Call.name] = <<Call.val>>]
      BY <2>6, FileSteps
    <3>2. /\ fs'.header = [fs.header EXCEPT ![Call.name] = <<Call.val>>]
          /\ fs'.committed = fs.committed
      BY <1>0, <3>1 DEF FSTypes
    <3>3. Begins(Tail(script), fs'.header)
      <4>1. Begins(script, fs.header) /\ script[1].op = "fsset"
        BY <2>1, <2>2, <3>1
      <4>2. Begins(Tail(script), [fs.header EXCEPT ![script[1].name] = <<script[1].val>>])
        BY <1>0, <2>2, <2>3, <4>1, BeginsStep
      <4> QED
        BY <2>2, <3>2, <4>2, Zenon
    <3> QED
      BY <2>1, <3>1, <3>2, <3>3
  <2>7. CASE FSStatusStep /\ fs.committed
    <3>1. fs' = fs /\ script' = Tail(script)
      BY <2>7, FileSteps
    <3> QED
      BY <2>1, <2>4, <2>5, <2>7, <3>1
  <2>8. CASE FSStatusStep /\ ~fs.committed
    <3> DEFINE w == WriteOf(IF Call.ok THEN "file" ELSE "error")
    <3>1. /\ fs' = [fs EXCEPT !.committed = TRUE, !.errored = ~Call.ok] /\ Call.op = "fsstatus"
          /\ script' = CopyCalls \o <<w>> \o Tail(script)
      BY <2>8, FileSteps
    <3>2. fs'.header = fs.header /\ fs'.committed /\ fs'.errored = ~Call.ok /\ Call.ok \in BOOLEAN
      BY <1>0, <2>2, <3>1, CallShape DEF FSTypes
    <3>3. w = WriteOf(Wanted(fs')) /\ w \in AllCalls
      BY <3>2, MakeCalls DEF Wanted, Kinds, WriteKinds
    <3> HIDE DEF w
    <3>4. Ends(Tail(script), 0) /\ Tail(script) \in Seq(AllCalls)
      BY <1>0, <2>1, <2>2, <2>3, <2>8, <3>1, BeginsStep, Rest
    <3>5. claimed \subseteq OwnedNames
      BY DEF Writer
    <3>6. Copying(script', wrapped, fs')
      BY <1>0, <3>1, <3>2, <3>3, <3>4, <3>5, CopyStarts DEF Copying
    <3> QED
      BY <2>1, <2>8, <3>2, <3>6
  <2>9. CASE FSWriteStep /\ fs.committed
    <3>1. script' = Tail(script) /\ fs' = [fs EXCEPT !.sent = fs.sent \/ ~fs.errored]
      BY <2>9, FileSteps
    <3>2. /\ fs'.header = fs.header /\ fs'.committed = fs.committed /\ fs'.errored = fs.errored
          /\ Wanted(fs') = Wanted(fs)
      BY <1>0, <3>1 DEF FSTypes, Wanted
    <3> QED
      BY <2>1, <2>4, <2>5, <2>9, <3>1, <3>2
  <2>10. CASE FSWriteStep /\ ~fs.committed
    <3>1. fs' = fs /\ script' = <<FSStatus(TRUE)>> \o script /\ Call.op = "fswrite"
      BY <2>10, FileSteps
    <3>2. Begins(script', fs.header)
      BY <1>0, <2>1, <2>2, <2>3, <2>10, <3>1, BeginsStep
    <3> QED
      BY <2>1, <2>10, <3>1, <3>2
  <2> QED
    BY <1>12, <2>6, <2>7, <2>8, <2>9, <2>10
<1>13. CASE UNCHANGED stackVars
  <2>1. UNCHANGED <<pc, cur, written, resp, wrapped, fs, script>> /\ Body' = Body
    BY <1>13 DEF stackVars, allVars, vars, headerVars, flightVars, programVars, Body
  <2> QED
    BY <1>2, <2>1
<1> QED
  BY <1>4, <1>5, <1>6, <1>7, <1>8, <1>9, <1>10, <1>11, <1>12, <1>13 DEF StackNext, StackStep

\* One step of what is on the connection.
LEMMA ServedStep ==
  ASSUME StackInv, Order, WhoCalls, Carried, Writer, Serving, Served,
         [StackNext]_stackVars
  PROVE  Served'
<1>0. /\ script \in Seq(AllCalls) /\ N \in Nat /\ Handler = N + 1 /\ cur \in 1..Handler
      /\ fs \in FSTypes /\ wrapped \in [Names -> HeaderValues] /\ wire.by \in Senders
      /\ fs.committed \in BOOLEAN /\ fs.errored \in BOOLEAN
  BY HeaderAssumption DEF StackInv, ScriptOK, TypeOK, HeaderTypeOK, Actors, Handler, FSTypes
<1>1. /\ wire.by # "none" /\ ~Over => Answered
      /\ ~written /\ pc # "done" => ~Answered \/ Over
      /\ pc = "commit" => wire.by = "none"
  BY <1>0 DEF Order, Carried, Answered, Senders, Over
<1>2. \A by, status, hdr :
        /\ wire.by # "none" => Send(by, status, hdr) = wire
        /\ status = Unsent => Send(by, status, hdr) = wire
        /\ wire.by = "none" /\ status # Unsent =>
             /\ Send(by, status, hdr).by = by /\ Send(by, status, hdr).status = status
             /\ Send(by, status, hdr).hdr = hdr
  BY DEF Send
<1>3. "ok" # Unsent /\ "error" # Unsent
  BY DEF Unsent
<1>4. CASE /\ wire' = wire /\ fs' = fs /\ written' = written
           /\ pc' = pc \/ pc' \in {"unwind", "crashed", "commit"} \/ (pc = "user" /\ pc' = "done")
  BY <1>4 DEF Served, Answered
<1>5. CASE HeaderStep \/ PutStep \/ FuncStep
  BY <1>4, <1>5 DEF HeaderStep, PutStep, FuncStep, vars, flightVars
<1>6. CASE PanicStep \/ CommitStep(CommitOf(commitAt - 1, resp))
  BY <1>4, <1>6 DEF PanicStep, UserPanic, CommitStep, CommitReturn
<1>7. CASE WriteStep(CommitOf(N, Call.kind))
  <2>1. wire' = wire /\ fs' = fs /\ pc' = "commit"
    BY <1>7 DEF WriteStep, WriteError, Write, EnterWrite
  <2> QED
    BY <2>1 DEF Served, Answered
<1>8. CASE DispatchStep
  <2>1. /\ pc = "commit" /\ fs' = fs /\ written' = written /\ wire.by = "none"
        /\ pc' \in {"user", "unwind"} /\ ~Over
    BY <1>1, <1>8 DEF DispatchStep, DispatchResponse, Over
  <2>2. PICK o : /\ o \in Dispatch(resp, wrapped)
                 /\ wire' = Send("dispatcher", o.status, o.hdr)
                 /\ o.failed => pc' = "unwind"
    BY <1>8 DEF DispatchStep, DispatchResponse, Handed
  <2>3. wire'.by \in {"none", "dispatcher"}
    BY <1>2, <2>1, <2>2
  <2>4. CASE ~fs.committed
    BY <2>1, <2>3, <2>4 DEF Served, Writer
  <2>5. CASE fs.committed
    <3>1. /\ resp = Wanted(fs)
          /\ \A n \in FileHeaders : fs.header[n] # <<>> => wrapped[n] = fs.header[n]
      BY <2>1, <2>5 DEF Serving
    <3>2. CASE fs.errored
      <4>1. /\ o.status \in {"error", Unsent} /\ o.hdr[XCTO] = <<"nosniff">>
            /\ \A n \in FileHeaders : o.hdr[n] = wrapped[n]
        BY <1>0, <2>2, <3>1, <3>2, FileDispatched DEF Wanted
      <4>2. CASE o.status = Unsent
        <5>1. wire' = wire /\ pc' = "unwind"
          BY <1>0, <1>3, <1>2, <2>2, <3>1, <3>2, <4>2, FileDispatched DEF Wanted
        <5> QED
          BY <1>4, <2>1, <5>1
      <4>3. CASE o.status = "error"
        <5>1. wire'.by = "dispatcher" /\ wire'.status = "error" /\ wire'.hdr = o.hdr
          BY <1>2, <1>3, <2>1, <2>2, <4>3
        <5> QED
          BY <2>1, <2>5, <3>1, <3>2, <4>1, <5>1 DEF Served
      <4> QED
        BY <4>1, <4>2, <4>3
    <3>3. CASE ~fs.errored
      <4>1. o.status = Unsent
        BY <1>0, <2>2, <3>1, <3>3, FileDispatched DEF Wanted
      <4>2. wire' = wire
        BY <1>2, <2>2, <4>1
      <4> QED
        BY <2>1, <3>3, <4>2 DEF Served, Answered
    <3> QED
      BY <3>2, <3>3
  <2> QED
    BY <2>4, <2>5
<1>9. CASE BeforeStep(BeforeOf(cur + 1))
  <2>1. wire' = wire /\ fs' = fs /\ written' = written /\ cur < Handler
    BY <1>9 DEF BeforeStep, BeforeReturn, InBefore
  <2>2. ~fs.committed /\ ~fs.errored
    BY <1>0, <2>1 DEF Writer
  <2> QED
    BY <2>1, <2>2 DEF Served, Answered
<1>10. CASE HandlerStep
  <2>1. CASE HandlerReturnWritten
    BY <1>4, <1>10, <2>1 DEF HandlerStep, HandlerReturnWritten, InUser, programVars
  <2>2. CASE HandlerReturnNothing
    <3>1. /\ pc = "user" /\ ~written /\ fs' = fs /\ script = <<>>
          /\ written' = written
      BY <1>10, <2>2 DEF HandlerStep, HandlerReturnNothing, InUser, programVars
    <3>2. ~fs.committed
      BY <3>1 DEF Serving
    <3>3. PICK o : wire' = Send("dispatcher", o.status, o.hdr)
      BY <2>2 DEF HandlerReturnNothing, Handed
    <3>4. wire'.by \in {wire.by, "dispatcher"}
      BY <1>2, <3>3
    <3> QED
      BY <3>1, <3>2, <3>4 DEF Served
  <2> QED
    BY <1>10, <2>1, <2>2 DEF HandlerStep
<1>11. CASE EndStep
  <2>1. fs' = fs /\ written' = written
    BY <1>11 DEF EndStep, ClearAndRepanic, ServerFinish, OuterRecover, programVars
  <2>2. CASE ClearAndRepanic
    BY <1>4, <2>1, <2>2 DEF ClearAndRepanic
  <2>3. CASE ServerFinish
    <3>1. /\ pc = "done" /\ pc' = pc /\ wire.by = "none"
          /\ wire' = Send("server", "ok", wrapped)
      BY <2>3 DEF ServerFinish
    <3>2. wire'.by = "server" /\ wire'.status = "ok" /\ wire'.hdr = wrapped
      BY <1>2, <1>3, <3>1
    <3>3. CASE fs.committed
      <4>1. written
        BY <3>1, <3>3 DEF Serving
      <4>2. ~fs.errored
        BY <3>1, <4>1 DEF Served
      <4>3. \A n \in FileHeaders : fs.header[n] # <<>> => wrapped[n] = fs.header[n]
        BY <3>1, <3>3, <4>1 DEF Serving
      <4> QED
        BY <2>1, <3>1, <3>2, <3>3, <4>2, <4>3 DEF Served
    <3>4. CASE ~fs.committed
      BY <2>1, <3>2, <3>4 DEF Served, Writer
    <3> QED
      BY <3>3, <3>4
  <2>4. CASE OuterRecover
    <3>1. pc = "crashed" /\ pc' = pc /\ wire'.by \in {wire.by, "outer"} /\ wire.by = "none"
      BY <1>2, <2>4 DEF OuterRecover
    <3> QED
      BY <2>1, <3>1 DEF Served, Answered
  <2> QED
    BY <1>11, <2>2, <2>3, <2>4 DEF EndStep
<1>12. CASE FSSetStep \/ FSStatusStep \/ FSWriteStep
  <2>1. /\ pc = "user" /\ pc' = pc /\ written' = written /\ resp' = resp /\ ~Over
        /\ \/ ~fs.committed /\ ~written
           \/ fs.committed /\ written /\ Call.op # "fsset"
    BY <1>12, FileSteps DEF Over
  <2>2. ~written => ~Answered
    BY <1>1, <2>1
  <2>3. CASE FSSetStep
    <3>1. /\ ~fs.committed /\ wire' = wire
          /\ fs' = [fs EXCEPT !.header[Call.name] = <<Call.val>>]
      BY <2>3, FileSteps
    <3>2. fs'.committed = fs.committed /\ fs'.errored = fs.errored
      BY <1>0, <3>1 DEF FSTypes
    <3> QED
      BY <2>1, <3>1, <3>2 DEF Served, Answered
  <2>4. CASE FSStatusStep
    <3>1. /\ wire' = wire
          /\ fs.committed => fs' = fs
          /\ ~fs.committed => fs' = [fs EXCEPT !.committed = TRUE, !.errored = ~Call.ok]
      BY <2>4, FileSteps
    <3> QED
      BY <2>1, <2>2, <3>1 DEF Served, Answered
  <2>5. CASE FSWriteStep
    <3>1. /\ ~fs.committed => fs' = fs /\ wire' = wire
          /\ fs.committed =>
               /\ fs' = [fs EXCEPT !.sent = fs.sent \/ ~fs.errored]
               /\ \/ wire' = wire
                  \/ ~fs.errored /\ wire' = Send("filebody", "ok", wrapped)
      BY <2>5, FileSteps
    <3>2. /\ fs'.header = fs.header /\ fs'.committed = fs.committed /\ fs'.errored = fs.errored
      BY <1>0, <3>1 DEF FSTypes
    <3>3. CASE wire' = wire
      BY <2>1, <3>2, <3>3 DEF Served, Answered
    <3>4. CASE /\ fs.committed /\ ~fs.errored /\ wire.by = "none"
               /\ wire' = Send("filebody", "ok", wrapped)
      <4>1. wire'.by = "filebody" /\ wire'.status = "ok" /\ wire'.hdr = wrapped
        BY <1>2, <1>3, <3>4
      <4>2. \A n \in FileHeaders : fs.header[n] # <<>> => wrapped[n] = fs.header[n]
        BY <2>1, <3>4 DEF Serving
      <4> QED
        BY <3>2, <3>4, <4>1, <4>2 DEF Served
    <3> QED
      BY <1>2, <3>1, <3>3, <3>4
  <2> QED
    BY <1>12, <2>3, <2>4, <2>5
<1>13. CASE UNCHANGED stackVars
  BY <1>4, <1>13 DEF stackVars, allVars, vars, flightVars, programVars
<1> QED
  BY <1>5, <1>6, <1>7, <1>8, <1>9, <1>10, <1>11, <1>12, <1>13 DEF StackNext, StackStep

\* What http.FileServer makes of a request is answered as a file with its headers, or as one
\* error page whatever status it asked for; of a file that is refused no byte is sent.
THEOREM FilesAreServed == StackSpec => []FileOrError
<1>1. StackInit /\ StackInv => Writer /\ Serving /\ Served
  <2> SUFFICES ASSUME StackInit, StackInv PROVE Writer /\ Serving /\ Served
    OBVIOUS
  <2>1. N \in Nat /\ N > 0 /\ Handler = N + 1 /\ XCTO \in Names
    BY HeaderAssumption, StackAssumption, FileCallsAre DEF Handler
  <2>2. /\ ~fs.committed /\ ~fs.errored /\ ~fs.sent /\ \A n \in Names : fs.header[n] = <<>>
        /\ claimed = {} /\ cur = 1 /\ ~written /\ wire.by = "none"
    BY DEF StackInit, Init, ProgramInit, NewHeader, NothingSent, NoHeaders
  <2>3. cur # Handler
    BY <2>1, <2>2
  <2> QED
    BY <2>1, <2>2, <2>3 DEF Writer, OneValued, Serving, Served
<1>2. StackInv /\ Headers /\ Order /\ WhoCalls /\ Committing /\ Carried /\ Writer /\ Serving
        /\ Served /\ [StackNext]_stackVars
        => (Writer /\ Serving /\ Served)'
  BY WriterStep, ServingStep, ServedStep
<1>3. StackInv /\ Writer /\ Served => FileOrError
  <2> SUFFICES ASSUME StackInv, Writer, Served PROVE FileOrError
    OBVIOUS
  <2>1. ASSUME Answered, fs.committed, NEW n \in Names \ {"Content-Type"}, fs.header[n] # <<>>
        PROVE  wire.hdr[n] = fs.header[n]
    <3>1. n \in FileHeaders \cup {XCTO}
      BY <2>1, FileCallsAre DEF StackInv, ScriptOK
    <3>2. CASE n \in FileHeaders
      BY <2>1, <3>2 DEF Served
    <3>3. CASE n = XCTO
      <4>1. fs.header[XCTO] = <<"nosniff">> /\ fs.errored
        BY <2>1, <3>3 DEF Writer
      <4> QED
        BY <2>1, <3>3, <4>1 DEF Served
    <3> QED
      BY <3>1, <3>2, <3>3
  <2> QED
    BY <2>1 DEF FileOrError, Writer, Served
<1> QED
  BY <1>1, <1>2, <1>3, FlightInv, WhoCallsHolds, BoundHolds, CarriedHolds, PTL DEF StackSpec

=============================================================================
