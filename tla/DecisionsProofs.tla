-------------------------- MODULE DecisionsProofs --------------------------
(***************************************************************************)
(* Theorems of Decisions: what a form hands over, what the collector hands  *)
(* over and what bancheck reports, for inputs of any size.                  *)
(*                                                                         *)
(* The inputs are data of the right types: a form maps parameters to        *)
(* sequences of values, a list of reports is a sequence, and the bans of    *)
(* the configuration files have identities of their own.                    *)
(***************************************************************************)
EXTENDS Decisions, SequenceTheorems, WellFoundedInduction, NaturalsInduction, TLAPS

\* The code that picks "the first" of some positions finds one: a set of naturals that
\* is not empty has a least element.
LEMMA LeastIs ==
  ASSUME NEW S \in SUBSET Nat, S # {}
  PROVE  \E k \in S : \A l \in S : k <= l
  <1> DEFINE R == OpToRel(<, Nat)
  <1>1. IsWellFoundedOn(R, Nat)
    BY NatLessThanWellFounded
  <1> HIDE DEF R
  <1>2. PICK k \in S : \A l \in S : <<l, k>> \notin R
    BY <1>1, WFMin
  <1>3. \A l \in S : l < k => <<l, k>> \in R
    BY DEF R, OpToRel
  <1>4. ASSUME NEW l \in S PROVE k <= l
    <2>1. ~(l < k)
      BY <1>2, <1>3
    <2>2. k \in Nat /\ l \in Nat
      OBVIOUS
    <2> QED
      BY <2>1, <2>2
  <1> QED
    BY <1>4

-----------------------------------------------------------------------------
(* Forms.                                                                   *)

\* What was parsed from a request.
FormsAre == Forms \subseteq [Params -> Seq(Values)]

FormTyped ==
  /\ form.values \in [Params -> Seq(Values)]
  /\ DOMAIN form = {"values", "err"} /\ DOMAIN lost = {"sent", "wiped"}
  /\ last.type # "none" => last.param \in Params

\* The first value that stops a Slice is one of the values, and is none of the type.
LEMMA FirstBadIs ==
  ASSUME NEW type, NEW p \in Params, FormTyped, BadValues(type, p) # {}
  PROVE  /\ FirstBad(type, p) \in DOMAIN form.values[p]
         /\ form.values[p][FirstBad(type, p)] \in Values
  <1>1. form.values[p] \in Seq(Values)
    BY DEF FormTyped
  <1>2. BadValues(type, p) \in SUBSET Nat
    BY <1>1 DEF BadValues
  <1>3. FirstBad(type, p) \in BadValues(type, p)
    BY <1>2, LeastIs DEF FirstBad
  <1> QED
    BY <1>1, <1>3 DEF BadValues

\* No value of a form reads like a default, or like a missing error.
LEMMA ValuesAre ==
  /\ \A v \in Values : v # NoErr /\ <<v>> # Default /\ <<v>> # Nil
  /\ \A type : Parses(type) \subseteq Values
  /\ Unsupported # NoErr /\ Default # Nil /\ <<>> # Default /\ <<>> # Nil
  <1>1. \A v \in Values : v # NoErr /\ v # "default" /\ v # "nil"
    BY DEF Values, NoErr
  <1>2. \A v : <<v>>[1] = v
    OBVIOUS
  <1>3. \A v \in Values : <<v>> # Default /\ <<v>> # Nil
    BY <1>1, <1>2 DEF Default, Nil
  <1>4. \A type : Parses(type) \subseteq Values
    BY DEF Parses, Values
  <1>5. Default # Nil /\ <<>> # Default /\ <<>> # Nil
    BY DEF Default, Nil
  <1> QED
    BY <1>1, <1>3, <1>4, <1>5 DEF Unsupported, NoErr

\* A call on a form leaves what was sent as it is.
LEMMA FormKept ==
  ASSUME FormTyped, FormNext
  PROVE  FormTyped' /\ form'.values = form.values
  <1> DEFINE Kept == /\ form'.values = form.values /\ DOMAIN form' = DOMAIN form
                     /\ DOMAIN lost' = DOMAIN lost
  <1>1. \A err, p : Fails(err, p) => Kept
    BY DEF Fails, FormTyped
  <1>2. \A type, p, many, result : Returns(type, p, many, result) => last'.param = p
    BY DEF Returns
  <1>3. CASE \E type \in Types, p \in Params : ReadParam(type, p)
    <2>1. PICK type \in Types, p \in Params : ReadParam(type, p)
      BY <1>3
    <2>2. last'.param \in Params /\ Kept
      BY <2>1, <1>1, <1>2 DEF ReadParam
    <2> QED
      BY <2>2 DEF FormTyped
  <1>4. CASE \E type \in SliceTypes, p \in Params : Slice(type, p)
    <2>1. PICK type \in SliceTypes, p \in Params : Slice(type, p)
      BY <1>4
    <2>2. ClearSlice(type, p) => last'.param = p /\ Kept
      BY <1>1, <1>2 DEF ClearSlice, FormTyped
    <2>3. last'.param \in Params /\ Kept
      BY <2>1, <2>2, <1>1, <1>2 DEF Slice
    <2> QED
      BY <2>3 DEF FormTyped
  <1> QED
    BY <1>3, <1>4 DEF FormNext

\* A call that finds nothing wrong hands over what it was asked for; one that does says
\* so in the error of the form.
LEMMA FormStep ==
  ASSUME FormTyped, FormHonest, FormNext
  PROVE  FormHonest'
  <1>1. form'.values = form.values
    BY FormKept
  <1>2. ASSUME NEW err, NEW p, Fails(err, p) PROVE form'.err = err /\ lost'.sent # {}
    BY <1>2 DEF Fails, FormTyped
  <1>3. ASSUME NEW type, NEW p, NEW many, NEW result, Returns(type, p, many, result)
        PROVE  last'.type = type /\ last'.param = p /\ last'.many = many /\ last'.result = result
    BY <1>3 DEF Returns
  <1>4. CASE \E type \in Types, p \in Params : ReadParam(type, p)
    <2>1. PICK type \in Types, p \in Params : ReadParam(type, p)
      BY <1>4
    <2>2. form.values[p] \in Seq(Values)
      BY DEF FormTyped
    <2>3. CASE ~Sent(p)
      <3>1. form' = form /\ lost' = lost /\ last'.param = p /\ last'.result = Default
        BY <2>1, <2>3, <1>3 DEF ReadParam
      <3>2. form'.values[last'.param] = <<>>
        BY <3>1, <2>3 DEF Sent
      <3> QED
        BY <3>1, <3>2 DEF FormHonest, Sent
    <2>4. CASE Sent(p) /\ Head(form.values[p]) \notin Parses(type)
      <3>1. form'.err = Head(form.values[p]) /\ last'.result = Default
        BY <2>1, <2>4, <1>2, <1>3 DEF ReadParam
      <3>2. Head(form.values[p]) \in Values
        BY <2>2, <2>4 DEF Sent
      <3> QED
        BY <3>1, <3>2, ValuesAre DEF FormHonest
    <2>5. CASE Sent(p) /\ Head(form.values[p]) \in Parses(type)
      <3>1. /\ form' = form /\ lost' = lost /\ last'.type = type /\ last'.param = p
            /\ last'.many = FALSE /\ last'.result = <<Head(form.values[p])>>
        BY <2>1, <2>5, <1>3 DEF ReadParam
      <3>2. last'.result \notin {Default, Nil}
        BY <3>1, <2>5, ValuesAre
      <3> QED
        BY <3>1, <3>2, <2>5 DEF FormHonest
    <2> QED
      BY <2>3, <2>4, <2>5
  <1>5. CASE \E type \in SliceTypes, p \in Params : Slice(type, p)
    <2>1. PICK type \in SliceTypes, p \in Params : Slice(type, p)
      BY <1>5
    <2>2. form.values[p] \in Seq(Values)
      BY DEF FormTyped
    <2>3. CASE ~Sent(p) \/ type \notin Types
      <3>1. ClearSlice(type, p)
        BY <2>1, <2>3 DEF Slice
      <3>2. last'.param = p /\ last'.result = Nil
        BY <3>1, <1>3 DEF ClearSlice
      <3>3. CASE type \in Types
        <4>1. lost'.sent = {} \/ lost'.wiped
          BY <3>1, <3>3 DEF ClearSlice, FormTyped
        <4>2. form'.values[last'.param] = <<>>
          BY <3>2, <3>3, <2>3, <1>1 DEF Sent
        <4> QED
          BY <4>1, <4>2, <3>2 DEF FormHonest, Sent
      <3>4. CASE type \notin Types
        <4>1. form'.err = Unsupported
          BY <3>1, <3>4, <1>2 DEF ClearSlice
        <4> QED
          BY <4>1, <3>2, ValuesAre DEF FormHonest
      <3> QED
        BY <3>3, <3>4
    <2>4. CASE Sent(p) /\ type \in Types /\ BadValues(type, p) # {}
      <3>1. form'.err = form.values[p][FirstBad(type, p)] /\ last'.result = Nil
        BY <2>1, <2>4, <1>2, <1>3 DEF Slice
      <3>2. form'.err \in Values
        BY <3>1, <2>4, FirstBadIs
      <3> QED
        BY <3>1, <3>2, ValuesAre DEF FormHonest
    <2>5. CASE Sent(p) /\ type \in Types /\ BadValues(type, p) = {}
      <3>1. /\ form' = form /\ lost' = lost /\ last'.type = type /\ last'.param = p
            /\ last'.many = TRUE /\ last'.result = form.values[p]
        BY <2>1, <2>5, <1>3 DEF Slice
      <3>2. \A i \in DOMAIN form.values[p] : form.values[p][i] \in Parses(type)
        BY <2>5 DEF BadValues
      <3>3. form.values[p] \notin {Default, Nil}
        <4>1. 1 \in DOMAIN form.values[p]
          BY <2>2, <2>5 DEF Sent
        <4>2. <<form.values[p][1]>> # Default /\ <<form.values[p][1]>> # Nil
          BY <4>1, <2>2, ValuesAre
        <4>3. form.values[p][1] # "default" /\ form.values[p][1] # "nil"
          BY <4>2 DEF Default, Nil
        <4> QED
          BY <4>3 DEF Default, Nil
      <3> QED
        BY <3>1, <3>2, <3>3 DEF FormHonest
    <2> QED
      BY <2>3, <2>4, <2>5
  <1> QED
    BY <1>4, <1>5 DEF FormNext

FormIInv ==
  /\ FormHonest
  /\ runs = "form" => FormTyped
  /\ runs # "form" => last.type = "none" /\ lost.sent = {}

\* For any parameters, values and calls: what a form hands over is all it was asked
\* for and of the type asked for; what it kept back it tells of by an error, unless a
\* Slice for a parameter that was not sent wiped the error out.
THEOREM FormsAreHonest ==
  ASSUME FormsAre
  PROVE  Spec => []FormHonest
  <1>1. Init => FormIInv
    <2> SUFFICES ASSUME Init PROVE FormIInv
      OBVIOUS
    <2>1. PICK values \in Inputs("form", Forms) : FormInit(values)
      BY DEF Init
    <2>2. /\ form.values = values /\ DOMAIN form = {"values", "err"}
          /\ last.type = "none" /\ lost.sent = {} /\ DOMAIN lost = {"sent", "wiped"}
      BY <2>1 DEF FormInit
    <2>3. runs = "form" => values \in [Params -> Seq(Values)]
      BY FormsAre DEF Inputs, FormsAre
    <2> QED
      BY <2>2, <2>3 DEF FormIInv, FormHonest, FormTyped
  <1>2. FormIInv /\ [Next]_vars => FormIInv'
    <2> SUFFICES ASSUME FormIInv, [Next]_vars PROVE FormIInv'
      OBVIOUS
    <2>1. CASE runs = "form" /\ FormNext /\ UNCHANGED runs
      BY <2>1, FormKept, FormStep DEF FormIInv
    <2>2. CASE UNCHANGED <<formVars, runs>>
      BY <2>2 DEF formVars, FormIInv, FormTyped, FormHonest, Sent
    <2> QED
      BY <2>1, <2>2 DEF Next, vars
  <1> QED
    BY <1>1, <1>2, PTL DEF Spec, FormIInv
-----------------------------------------------------------------------------
(* The bans of configuration files.                                         *)

\* What configuration files and a package are: sequences of bans, with sequences of
\* exemptions, and the names of what the package uses.
ConfigsAre(Entries) ==
  /\ ConfigFiles \subseteq
       Seq([readable : BOOLEAN, imports : Seq(Entries), functions : Seq(Entries)])
  /\ \A b \in Entries : b.exemptions \in Seq({"match", "other", "bad"})

Kinds == {"imports", "functions"}

\* Every entry of the files has an identity of its own.
OwnIdsIn(c) ==
  \A n, m \in DOMAIN c, a, b \in Kinds : \A k \in DOMAIN c[n][a], l \in DOMAIN c[m][b] :
    c[n][a][k].id = c[m][b][l].id => n = m /\ a = b /\ k = l

OwnIds == \A c \in ConfigFiles : OwnIdsIn(c)

\* The entries that were read stand for a file number 0.
Entry(n, kind) == IF n = 0 THEN Bans(kind) ELSE configs[n][kind]

OwnNow ==
  \A n, m \in 0..Len(configs), a, b \in Kinds :
    \A k \in DOMAIN Entry(n, a), l \in DOMAIN Entry(m, b) :
      Entry(n, a)[k].id = Entry(m, b)[l].id => n = m /\ a = b /\ k = l

BanTyped(Entries, Apis) ==
  /\ configs \in Seq([readable : BOOLEAN, imports : Seq(Entries), functions : Seq(Entries)])
  /\ imports \in Seq(Entries) /\ fns \in Seq(Entries)
  /\ uses \in [imports : Seq(Apis), functions : SUBSET UsedFunctions, predeclared : BOOLEAN]
  /\ lint \in {"reading", "imports", "functions", "done", "failed", "panicked"}

\* Uses of a kind that were not looked at.
Rest(kind) == IF kind = "imports" THEN {uses.imports[i] : i \in DOMAIN uses.imports} ELSE uses.functions

InOrder ==
  /\ lint \in {"reading", "failed"} =>
       /\ reported = {} /\ Rest("imports") = Used("imports") /\ Rest("functions") = Used("functions")
  /\ lint = "imports" => Rest("functions") = Used("functions")
  /\ lint \in {"functions", "done"} => Rest("imports") = {}
  /\ lint = "done" => Rest("functions") = {}
  /\ \A kind \in Kinds : Rest(kind) \subseteq Used(kind)

\* What is reported is a ban that stands, of something that is used.
ReportsAreBans ==
  \A r \in reported : \E kind \in Kinds : \E k \in DOMAIN Bans(kind) :
    /\ r = <<Bans(kind)[k].name, Bans(kind)[k].id>>
    /\ Bans(kind)[k].name \in Used(kind) /\ Stands(Bans(kind)[k])

\* A use that was looked at is reported for every ban that stands, unless a check of
\* its kind broke off.
BansAreReported ==
  \A kind \in Kinds : kind \notin errors =>
    \A k \in DOMAIN Bans(kind) :
      /\ Bans(kind)[k].name \in Used(kind) \ Rest(kind) /\ Stands(Bans(kind)[k])
      => <<Bans(kind)[k].name, Bans(kind)[k].id>> \in reported

BanInv(Entries, Apis) ==
  BanTyped(Entries, Apis) /\ OwnNow /\ InOrder /\ ReportsAreBans /\ BansAreReported

\* An exemption decides about a ban: the ban stands if none is a match, and where it
\* stands the answer is no, or an error.
LEMMA AllowedIs ==
  ASSUME NEW ban, ban.exemptions \in Seq({"match", "other", "bad"})
  PROVE  /\ IsPkgAllowed(ban) = "no" => Stands(ban)
         /\ Stands(ban) => IsPkgAllowed(ban) \in {"no", "bad"}
  <1>1. CASE Decides(ban) = {}
    BY <1>1 DEF IsPkgAllowed, Decides, Stands
  <1>2. CASE Decides(ban) # {}
    <2>1. Decides(ban) \in SUBSET Nat
      BY DEF Decides
    <2>2. \E k \in Decides(ban) : \A l \in Decides(ban) : k <= l
      BY <2>1, <1>2, LeastIs
    <2>3. First(Decides(ban)) \in Decides(ban)
      BY <2>2 DEF First
    <2>4. IsPkgAllowed(ban) \in {"match", "bad"}
      BY <2>3, <1>2 DEF IsPkgAllowed, Decides
    <2>5. IsPkgAllowed(ban) = "match" => ~Stands(ban)
      BY <2>3, <1>2 DEF IsPkgAllowed, Decides, Stands
    <2> QED
      BY <2>4, <2>5
  <1> QED
    BY <1>1, <1>2

\* A use is reported for bans of its name that stand; for all of them, or there is an
\* error.
LEMMA ReportDoes ==
  ASSUME NEW Entries, NEW bans \in Seq(Entries), NEW api,
         \A b \in Entries : b.exemptions \in Seq({"match", "other", "bad"}),
         Report(api, bans)
  PROVE  /\ reported \subseteq reported'
         /\ \A r \in reported' \ reported : \E k \in DOMAIN bans :
              bans[k].name = api /\ Stands(bans[k]) /\ r = <<bans[k].name, bans[k].id>>
         /\ errors' = IF IsError(api, bans) THEN errors \cup {lint} ELSE errors
         /\ ~IsError(api, bans) => \A k \in DOMAIN bans :
              bans[k].name = api /\ Stands(bans[k]) => <<bans[k].name, bans[k].id>> \in reported'
  <1>1. \A k \in BansOf(api, bans) : /\ k \in DOMAIN bans /\ bans[k].name = api
                                     /\ bans[k].exemptions \in Seq({"match", "other", "bad"})
    BY DEF BansOf
  <1>2. reported' = reported \cup {<<api, bans[k].id>> : k \in Reports(api, bans)}
    BY DEF Report
  <1>3. \A k \in Reports(api, bans) : k \in BansOf(api, bans) /\ Stands(bans[k])
    BY <1>1, AllowedIs DEF Reports
  <1>4. ASSUME ~IsError(api, bans), NEW k \in DOMAIN bans, bans[k].name = api, Stands(bans[k])
        PROVE  k \in Reports(api, bans)
    <2>1. k \in BansOf(api, bans)
      BY <1>4 DEF BansOf
    <2>2. \A l \in BansOf(api, bans) : IsPkgAllowed(bans[l]) # "bad"
      BY <1>4 DEF IsError
    <2>3. IsPkgAllowed(bans[k]) = "no"
      BY <2>1, <2>2, <1>1, <1>4, AllowedIs
    <2> QED
      BY <2>1, <2>2, <2>3 DEF Reports
  <1>5. errors' = IF IsError(api, bans) THEN errors \cup {lint} ELSE errors
    BY DEF Report
  <1> QED
    BY <1>1, <1>2, <1>3, <1>4, <1>5

\* Checking one use, of either kind.
LEMMA CheckKeeps ==
  ASSUME NEW Entries, NEW Apis, NEW kind \in Kinds, NEW api \in Rest(kind),
         \A b \in Entries : b.exemptions \in Seq({"match", "other", "bad"}),
         BanInv(Entries, Apis), lint = kind, Report(api, Bans(kind)),
         UNCHANGED <<configs, imports, fns, lint>>, BanTyped(Entries, Apis)',
         \A other \in Kinds \ {kind} : Rest(other)' = Rest(other),
         Rest(kind)' \subseteq Rest(kind),
         ~IsError(api, Bans(kind)) => Rest(kind) \ {api} \subseteq Rest(kind)'
  PROVE  BanInv(Entries, Apis)'
  <1> DEFINE bans == Bans(kind)
  <1>1. bans \in Seq(Entries)
    BY DEF BanInv, BanTyped, Bans, Kinds
  <1>2. /\ reported \subseteq reported'
        /\ \A r \in reported' \ reported : \E k \in DOMAIN bans :
             bans[k].name = api /\ Stands(bans[k]) /\ r = <<bans[k].name, bans[k].id>>
        /\ errors' = IF IsError(api, bans) THEN errors \cup {lint} ELSE errors
        /\ ~IsError(api, bans) => \A k \in DOMAIN bans :
             bans[k].name = api /\ Stands(bans[k]) => <<bans[k].name, bans[k].id>> \in reported'
    BY <1>1, ReportDoes
  <1>3. \A k : Bans(k)' = Bans(k)
    BY DEF Bans
  <1>4. api \in Used(kind)
    BY DEF BanInv, InOrder
  <1>5. OwnNow'
    BY DEF OwnNow, BanInv, Entry, Bans
  <1>6. InOrder'
    <2>1. lint \in Kinds /\ lint' = lint
      OBVIOUS
    <2> QED
      BY <2>1 DEF InOrder, BanInv, Kinds, Used
  <1>7. ReportsAreBans'
    <2> SUFFICES ASSUME NEW r \in reported'
                 PROVE  \E a \in Kinds : \E k \in DOMAIN Bans(a) :
                          /\ r = <<Bans(a)[k].name, Bans(a)[k].id>>
                          /\ Bans(a)[k].name \in Used(a) /\ Stands(Bans(a)[k])
      BY <1>3 DEF ReportsAreBans, Used, Stands
    <2>1. CASE r \in reported
      BY <2>1 DEF BanInv, ReportsAreBans
    <2>2. CASE r \notin reported
      BY <2>2, <1>2, <1>4
    <2> QED
      BY <2>1, <2>2
  <1>8. BansAreReported'
    <2> SUFFICES ASSUME NEW a \in Kinds, a \notin errors', NEW k \in DOMAIN Bans(a),
                        Bans(a)[k].name \in Used(a) \ Rest(a)', Stands(Bans(a)[k])
                 PROVE  <<Bans(a)[k].name, Bans(a)[k].id>> \in reported'
      BY <1>3 DEF BansAreReported, Used, Stands
    <2>1. a \notin errors
      BY <1>2
    <2>2. CASE Bans(a)[k].name \notin Rest(a)
      BY <2>1, <2>2, <1>2 DEF BanInv, BansAreReported
    <2>3. CASE Bans(a)[k].name \in Rest(a)
      <3>1. a = kind
        BY <2>3
      <3>2. ~IsError(api, bans)
        BY <3>1, <1>2
      <3>3. Bans(a)[k].name = api
        BY <3>1, <3>2, <2>3
      <3> QED
        BY <3>1, <3>2, <3>3, <1>2
    <2> QED
      BY <2>2, <2>3
  <1> QED
    BY <1>5, <1>6, <1>7, <1>8 DEF BanInv
\* Reading a file keeps every entry its own: it goes from the file to those that were
\* read.
LEMMA ReadKeepsOwn ==
  ASSUME NEW Entries, NEW Apis, BanTyped(Entries, Apis), OwnNow,
         configs # <<>>, imports' = imports \o Head(configs).imports,
         fns' = fns \o Head(configs).functions, configs' = Tail(configs)
  PROVE  OwnNow'
  <1> DEFINE Files == [readable : BOOLEAN, imports : Seq(Entries), functions : Seq(Entries)]
             entry(n, a) == Entry(n, a)'
             from(n, a, k, m, l) ==
               /\ m \in 0..Len(configs) /\ l \in DOMAIN Entry(m, a) /\ Entry(m, a)[l] = entry(n, a)[k]
               /\ \/ n > 0 /\ m = n + 1 /\ l = k
                  \/ n = 0 /\ m = 0 /\ l = k /\ l <= Len(Bans(a))
                  \/ n = 0 /\ m = 1 /\ k = Len(Bans(a)) + l
  <1>0. configs \in Seq(Files)
    BY DEF BanTyped
  <1> HIDE DEF Files
  <1>1. Len(configs) \in Nat /\ Len(configs) > 0
    BY <1>0
  <1>2. /\ Len(configs') = Len(configs) - 1
        /\ \A n \in 1..Len(configs') : configs'[n] = configs[n + 1]
    BY <1>0, <1>1
  <1>3. Head(configs) = configs[1] /\ configs[1] \in Files
    BY <1>0, <1>1
  <1>4. ASSUME NEW a \in Kinds
        PROVE  /\ Bans(a) \in Seq(Entries) /\ configs[1][a] \in Seq(Entries)
               /\ Bans(a)' = Bans(a) \o configs[1][a]
    <2>1. CASE a = "imports"
      BY <2>1, <1>3 DEF Bans, BanTyped, Files
    <2>2. CASE a = "functions"
      BY <2>2, <1>3 DEF Bans, BanTyped, Files
    <2> QED
      BY <2>1, <2>2 DEF Kinds
  <1>5. ASSUME NEW n \in 0..Len(configs'), NEW a \in Kinds, NEW k \in DOMAIN entry(n, a)
        PROVE  \E m, l : from(n, a, k, m, l)
    <2>1. CASE n > 0
      <3>1. n + 1 \in 0..Len(configs) /\ n \in 1..Len(configs') /\ n # 0 /\ n + 1 # 0
        BY <2>1, <1>1, <1>2
      <3>2. entry(n, a) = Entry(n + 1, a)
        BY <3>1, <1>2 DEF Entry
      <3>3. from(n, a, k, n + 1, k)
        BY <3>1, <3>2, <2>1
      <3> QED
        BY <3>3
    <2>2. CASE n = 0
      <3> DEFINE b == Bans(a)  c == configs[1][a]
      <3>1. entry(n, a) = b \o c /\ b \in Seq(Entries) /\ c \in Seq(Entries)
        BY <2>2, <1>4 DEF Entry
      <3>2. Entry(0, a) = b /\ Entry(1, a) = c
        BY DEF Entry
      <3> HIDE DEF b, c, entry
      <3>3. k \in 1..(Len(b) + Len(c)) /\ Len(b) \in Nat /\ Len(c) \in Nat
        BY <3>1
      <3>4. CASE k <= Len(b)
        <4>1. k \in DOMAIN b /\ entry(n, a)[k] = b[k]
          BY <3>1, <3>3, <3>4
        <4>2. from(n, a, k, 0, k)
          BY <4>1, <3>2, <3>4, <2>2, <1>1 DEF b
        <4> QED
          BY <4>2
      <3>5. CASE k > Len(b)
        <4>1. k - Len(b) \in DOMAIN c /\ entry(n, a)[k] = c[k - Len(b)] /\ k = Len(b) + (k - Len(b))
          BY <3>1, <3>3, <3>5
        <4>2. from(n, a, k, 1, k - Len(b))
          BY <4>1, <3>2, <2>2, <1>1 DEF b
        <4> QED
          BY <4>2
      <3> QED
        BY <3>3, <3>4, <3>5
    <2> QED
      BY <2>1, <2>2, <1>1, <1>2
  <1>6. ASSUME NEW n \in 0..Len(configs'), NEW m \in 0..Len(configs'), NEW a \in Kinds, NEW b \in Kinds,
               NEW k \in DOMAIN entry(n, a), NEW l \in DOMAIN entry(m, b),
               entry(n, a)[k].id = entry(m, b)[l].id
        PROVE  n = m /\ a = b /\ k = l
    <2>1. PICK x, i : from(n, a, k, x, i)
      BY <1>5
    <2>2. PICK y, j : from(m, b, l, y, j)
      BY <1>5
    <2>3. Entry(x, a)[i].id = Entry(y, b)[j].id
      BY <2>1, <2>2, <1>6
    <2>4. x = y /\ a = b /\ i = j
      BY <2>1, <2>2, <2>3 DEF OwnNow
    <2>5. n \in Nat /\ m \in Nat
      BY <1>1, <1>2
    <2>6. Len(Bans(a)) \in Nat
      BY <1>4
    <2> HIDE DEF entry
    <2>8. /\ \/ n > 0 /\ x = n + 1 /\ i = k
             \/ n = 0 /\ x = 0 /\ i = k
             \/ n = 0 /\ x = 1 /\ k = Len(Bans(a)) + i
          /\ \/ m > 0 /\ x = m + 1 /\ i = l
             \/ m = 0 /\ x = 0 /\ i = l
             \/ m = 0 /\ x = 1 /\ l = Len(Bans(a)) + i
      BY <2>1, <2>2, <2>4
    <2> HIDE DEF from
    <2> QED
      BY <2>4, <2>5, <2>6, <2>8
  <1> QED
    BY <1>6 DEF OwnNow

\* Every step of the check keeps the invariant.
LEMMA BanStep ==
  ASSUME NEW Entries, NEW Apis, ConfigsAre(Entries), UsedImports \in Seq(Apis),
         BanInv(Entries, Apis), BanNext
  PROVE  BanInv(Entries, Apis)'
  <1> DEFINE Files == [readable : BOOLEAN, imports : Seq(Entries), functions : Seq(Entries)]
  <1>t. BanTyped(Entries, Apis) /\ OwnNow /\ InOrder /\ ReportsAreBans /\ BansAreReported
    BY DEF BanInv
  <1>e. \A b \in Entries : b.exemptions \in Seq({"match", "other", "bad"})
    BY DEF ConfigsAre
  <1>1. CASE ReadConfig
    <2>1. lint = "reading" /\ configs # <<>> /\ UNCHANGED <<uses, reported, errors>>
      BY <1>1 DEF ReadConfig
    <2>2. reported = {} /\ \A kind \in Kinds : Rest(kind) = Used(kind)
      BY <2>1, <1>t DEF InOrder, Kinds
    <2>3. \A kind : Rest(kind)' = Rest(kind) /\ Used(kind)' = Used(kind)
      BY <2>1 DEF Rest, Used
    <2>4. lint' \in {"reading", "failed"}
      BY <1>1 DEF ReadConfig
    <2>5. InOrder'
      <3>1. reported' = {} /\ \A kind \in Kinds : Rest(kind)' = Used(kind)'
        BY <2>1, <2>2, <2>3
      <3> QED
        BY <3>1, <2>4 DEF InOrder, Kinds
    <2>6. ReportsAreBans'
      BY <2>1, <2>2 DEF ReportsAreBans
    <2>7. BansAreReported'
      BY <2>2, <2>3 DEF BansAreReported
    <2>8. BanTyped(Entries, Apis)' /\ OwnNow'
      <3>1. CASE Head(configs).readable
        <4>1. /\ imports' = imports \o Head(configs).imports /\ fns' = fns \o Head(configs).functions
              /\ configs' = Tail(configs) /\ lint' = lint
          BY <1>1, <3>1 DEF ReadConfig
        <4>2. Head(configs) \in Files /\ Tail(configs) \in Seq(Files)
          <5>1. configs \in Seq(Files)
            BY <1>t DEF BanTyped
          <5> HIDE DEF Files
          <5> QED
            BY <5>1, <2>1
        <4>3. OwnNow'
          BY <4>1, <2>1, <1>t, ReadKeepsOwn
        <4> QED
          BY <4>1, <4>2, <4>3, <2>1, <1>t DEF BanTyped
      <3>2. CASE ~Head(configs).readable
        BY <3>2, <1>1, <2>1, <2>4, <1>t DEF ReadConfig, BanTyped, OwnNow, Entry, Bans
      <3> QED
        BY <3>1, <3>2
    <2> QED
      BY <2>5, <2>6, <2>7, <2>8 DEF BanInv
  <1>2. CASE ConfigsRead \/ ImportsChecked \/ FunctionsChecked \/ CheckPredeclared
    <2>1. UNCHANGED <<configs, imports, fns, uses, reported, errors>>
      BY <1>2 DEF ConfigsRead, ImportsChecked, FunctionsChecked, CheckPredeclared
    <2>2. \A kind : Rest(kind)' = Rest(kind) /\ Used(kind)' = Used(kind) /\ Bans(kind)' = Bans(kind)
      BY <2>1 DEF Rest, Used, Bans
    <2>3. BanTyped(Entries, Apis)'
      BY <1>2, <2>1, <1>t
         DEF BanTyped, ConfigsRead, ImportsChecked, FunctionsChecked, CheckPredeclared
    <2>4. OwnNow'
      BY <2>1, <1>t DEF OwnNow, Entry, Bans
    <2>5. ReportsAreBans'
      BY <2>1, <2>2, <1>t DEF ReportsAreBans, Stands
    <2>6. BansAreReported'
      BY <2>1, <2>2, <1>t DEF BansAreReported, Stands
    <2>7. InOrder'
      <3>1. ConfigsRead => lint = "reading" /\ lint' = "imports"
        BY DEF ConfigsRead
      <3>2. ImportsChecked => lint = "imports" /\ lint' = "functions" /\ Rest("imports") = {}
        BY DEF ImportsChecked, Rest
      <3>3. FunctionsChecked => lint = "functions" /\ lint' = "done" /\ Rest("functions") = {}
        BY DEF FunctionsChecked, Rest
      <3>4. CheckPredeclared => lint = "functions" /\ lint' = "panicked"
        BY DEF CheckPredeclared
      <3> QED
        BY <3>1, <3>2, <3>3, <3>4, <2>1, <2>2, <1>2, <1>t DEF InOrder
    <2> QED
      BY <2>3, <2>4, <2>5, <2>6, <2>7 DEF BanInv
  <1>3. CASE CheckImport
    <2> DEFINE api == Head(uses.imports)
    <2>1. /\ lint = "imports" /\ uses.imports # <<>> /\ Report(api, imports)
          /\ uses' = [uses EXCEPT !.imports = IF IsError(api, imports) THEN <<>> ELSE Tail(uses.imports)]
          /\ UNCHANGED <<configs, imports, fns, lint>>
      BY <1>3 DEF CheckImport
    <2>2. uses.imports \in Seq(Apis)
      BY <1>t DEF BanTyped
    <2>3. api \in Rest("imports")
      BY <2>1, <2>2 DEF Rest
    <2>4. /\ uses'.functions = uses.functions
          /\ uses'.imports = IF IsError(api, imports) THEN <<>> ELSE Tail(uses.imports)
      BY <2>1, <1>t DEF BanTyped
    <2>5. BanTyped(Entries, Apis)'
      <3>1. Tail(uses.imports) \in Seq(Apis) /\ <<>> \in Seq(Apis)
        BY <2>1, <2>2
      <3>2. uses' \in [imports : Seq(Apis), functions : SUBSET UsedFunctions, predeclared : BOOLEAN]
        BY <3>1, <2>1, <1>t DEF BanTyped
      <3> QED
        BY <3>2, <2>1, <1>t DEF BanTyped
    <2>6. Rest("functions")' = Rest("functions")
      BY <2>4 DEF Rest
    <2>7. /\ Rest("imports")' \subseteq Rest("imports")
          /\ ~IsError(api, imports) => Rest("imports") \ {api} \subseteq Rest("imports")'
      <3> DEFINE s == uses.imports
      <3>1. /\ {Tail(s)[i] : i \in DOMAIN Tail(s)} \subseteq {s[i] : i \in DOMAIN s}
            /\ {s[i] : i \in DOMAIN s} \ {Head(s)} \subseteq {Tail(s)[i] : i \in DOMAIN Tail(s)}
        <4> HIDE DEF s
        <4>1. s \in Seq(Apis) /\ s # <<>>
          BY <2>1, <2>2 DEF s
        <4>2. Len(Tail(s)) = Len(s) - 1 /\ Len(s) \in Nat /\ DOMAIN s = 1..Len(s) /\ DOMAIN Tail(s) = 1..Len(Tail(s))
          BY <4>1
        <4>3. \A i \in DOMAIN Tail(s) : Tail(s)[i] = s[i + 1] /\ i + 1 \in DOMAIN s
          BY <4>1, <4>2
        <4>4. \A i \in DOMAIN s : i # 1 => i - 1 \in DOMAIN Tail(s) /\ Tail(s)[i - 1] = s[i]
          BY <4>1, <4>2
        <4>5. Head(s) = s[1]
          BY <4>1
        <4>6. ASSUME NEW v \in {s[i] : i \in DOMAIN s}, v # Head(s)
              PROVE  v \in {Tail(s)[i] : i \in DOMAIN Tail(s)}
          BY <4>4, <4>5, <4>6
        <4>7. {Tail(s)[i] : i \in DOMAIN Tail(s)} \subseteq {s[i] : i \in DOMAIN s}
          BY <4>3
        <4> QED
          BY <4>6, <4>7
      <3>2. DOMAIN <<>> = {}
        OBVIOUS
      <3> QED
        BY <3>1, <3>2, <2>4 DEF Rest
    <2>8. Bans("imports") = imports
      BY DEF Bans
    <2>9. \A other \in Kinds \ {"imports"} : Rest(other)' = Rest(other)
      BY <2>6 DEF Kinds
    <2> HIDE DEF api
    <2> QED
      BY <2>1, <2>3, <2>5, <2>7, <2>8, <2>9, <1>e, CheckKeeps DEF Kinds
  <1>4. CASE \E api \in UsedFunctions : CheckFunction(api)
    <2>1. PICK api \in UsedFunctions : CheckFunction(api)
      BY <1>4
    <2>2. /\ lint = "functions" /\ api \in uses.functions /\ Report(api, fns)
          /\ uses' = [uses EXCEPT !.functions = IF IsError(api, fns) THEN {} ELSE uses.functions \ {api},
                                 !.predeclared = uses.predeclared /\ ~IsError(api, fns)]
          /\ UNCHANGED <<configs, imports, fns, lint>>
      BY <2>1 DEF CheckFunction
    <2>3. /\ uses'.imports = uses.imports
          /\ uses'.functions = IF IsError(api, fns) THEN {} ELSE uses.functions \ {api}
      BY <2>2, <1>t DEF BanTyped
    <2>4. BanTyped(Entries, Apis)'
      BY <2>2, <1>t DEF BanTyped
    <2>5. \A other \in Kinds \ {"functions"} : Rest(other)' = Rest(other)
      BY <2>3 DEF Rest, Kinds
    <2>6. /\ api \in Rest("functions") /\ Rest("functions")' \subseteq Rest("functions")
          /\ ~IsError(api, fns) => Rest("functions") \ {api} \subseteq Rest("functions")'
      BY <2>2, <2>3 DEF Rest
    <2>7. Bans("functions") = fns
      BY DEF Bans
    <2> QED
      BY <2>2, <2>4, <2>5, <2>6, <2>7, <1>e, CheckKeeps DEF Kinds
  <1> QED
    BY <1>1, <1>2, <1>3, <1>4 DEF BanNext

BanIInv(Entries, Apis) ==
  /\ runs = "bancheck" => BanInv(Entries, Apis)
  /\ runs # "bancheck" => reported = {} /\ lint \in {"reading", "failed"}

\* The invariant says what the check promises.
LEMMA BansStandNow ==
  ASSUME NEW Entries, NEW Apis, BanIInv(Entries, Apis)
  PROVE  BansStand
  <1> SUFFICES ASSUME NEW kind \in Kinds, NEW k \in DOMAIN Bans(kind)
               PROVE  LET ban == Bans(kind)[k]
                          due == ban.name \in Used(kind) /\ Stands(ban)
                          is  == <<ban.name, ban.id>> \in reported
                      IN  /\ is => due
                          /\ lint = "done" /\ due /\ ~is => kind \in errors
    BY DEF BansStand, Kinds
  <1> DEFINE ban == Bans(kind)[k]
             due == ban.name \in Used(kind) /\ Stands(ban)
             is  == <<ban.name, ban.id>> \in reported
  <1>1. CASE runs # "bancheck"
    BY <1>1 DEF BanIInv
  <1>2. CASE runs = "bancheck"
    <2>1. OwnNow /\ InOrder /\ ReportsAreBans /\ BansAreReported /\ Len(configs) \in Nat
      BY <1>2 DEF BanIInv, BanInv, BanTyped
    <2>2. ASSUME is PROVE due
      <3>0. PICK a \in Kinds : \E l \in DOMAIN Bans(a) :
              /\ <<ban.name, ban.id>> = <<Bans(a)[l].name, Bans(a)[l].id>>
              /\ Bans(a)[l].name \in Used(a) /\ Stands(Bans(a)[l])
        BY <2>1, <2>2 DEF ReportsAreBans
      <3>1. PICK l \in DOMAIN Bans(a) :
              /\ <<ban.name, ban.id>> = <<Bans(a)[l].name, Bans(a)[l].id>>
              /\ Bans(a)[l].name \in Used(a) /\ Stands(Bans(a)[l])
        BY <3>0
      <3>2. ban.id = Bans(a)[l].id
        BY <3>1
      <3>3. 0 \in 0..Len(configs) /\ \A c : Entry(0, c) = Bans(c)
        BY <2>1 DEF Entry
      <3>4. Entry(0, kind)[k].id = Entry(0, a)[l].id /\ k \in DOMAIN Entry(0, kind) /\ l \in DOMAIN Entry(0, a)
        BY <3>2, <3>3
      <3>5. a = kind /\ l = k
        BY <3>3, <3>4, <2>1 DEF OwnNow
      <3> QED
        BY <3>1, <3>5
    <2>3. ASSUME lint = "done", due, ~is PROVE kind \in errors
      <3>1. Rest(kind) = {}
        BY <2>1, <2>3 DEF InOrder, Kinds
      <3> QED
        BY <3>1, <2>1, <2>3 DEF BansAreReported
    <2> QED
      BY <2>2, <2>3
  <1> QED
    BY <1>1, <1>2

\* For any files, exemptions and package: a use is reported for exactly the bans that
\* do not exempt the package, whatever else is exempted and by whichever file; only an
\* exemption that is no pattern hides uses of its kind.
THEOREM BansAllStand ==
  ASSUME NEW Entries, NEW Apis, ConfigsAre(Entries), OwnIds, UsedImports \in Seq(Apis)
  PROVE  Spec => []BansStand
  <1>1. Init => BanIInv(Entries, Apis)
    <2> SUFFICES ASSUME Init PROVE BanIInv(Entries, Apis)
      OBVIOUS
    <2>1. PICK c \in Inputs("bancheck", ConfigFiles) : BanInit(c)
      BY DEF Init
    <2>2. /\ configs = c /\ imports = <<>> /\ fns = <<>> /\ reported = {} /\ errors = {}
          /\ lint \in {"reading", "failed"}
          /\ \E p \in BOOLEAN : uses = [imports |-> UsedImports, functions |-> UsedFunctions,
                                       predeclared |-> p]
      BY <2>1 DEF BanInit
    <2>3. ASSUME runs = "bancheck" PROVE BanInv(Entries, Apis)
      <3>1. c \in ConfigFiles
        BY <2>3 DEF Inputs
      <3>2. BanTyped(Entries, Apis)
        <4>1. c \in Seq([readable : BOOLEAN, imports : Seq(Entries), functions : Seq(Entries)])
          BY <3>1 DEF ConfigsAre
        <4>2. uses \in [imports : Seq(Apis), functions : SUBSET UsedFunctions, predeclared : BOOLEAN]
          BY <2>2
        <4> QED
          BY <4>1, <4>2, <2>2 DEF BanTyped
      <3>3. \A kind \in Kinds : Rest(kind) = Used(kind)
        BY <2>2 DEF Rest, Used, Kinds
      <3>4. InOrder
        BY <3>3, <2>2 DEF InOrder, Kinds
      <3>5. ReportsAreBans /\ BansAreReported
        BY <3>3, <2>2 DEF ReportsAreBans, BansAreReported
      <3>6. OwnNow
        <4>1. OwnIdsIn(c)
          BY <3>1 DEF OwnIds
        <4>2. \A kind : DOMAIN Bans(kind) = {}
          BY <2>2 DEF Bans
        <4>3. DOMAIN c = 1..Len(c) /\ Len(c) \in Nat
          BY <3>2, <2>2 DEF BanTyped
        <4>4. ASSUME NEW n \in 0..Len(configs), NEW a \in Kinds, NEW k \in DOMAIN Entry(n, a)
              PROVE  n \in DOMAIN c /\ Entry(n, a) = c[n][a]
          BY <4>2, <4>3, <2>2 DEF Entry
        <4> QED
          BY <4>1, <4>4 DEF OwnNow, OwnIdsIn
      <3> QED
        BY <3>2, <3>4, <3>5, <3>6 DEF BanInv
    <2> QED
      BY <2>2, <2>3 DEF BanIInv
  <1>2. BanIInv(Entries, Apis) /\ [Next]_vars => BanIInv(Entries, Apis)'
    <2> SUFFICES ASSUME BanIInv(Entries, Apis), [Next]_vars PROVE BanIInv(Entries, Apis)'
      OBVIOUS
    <2>1. CASE runs = "bancheck" /\ BanNext /\ UNCHANGED runs
      BY <2>1, BanStep DEF BanIInv
    <2>2. CASE UNCHANGED <<banVars, runs>>
      <3>1. UNCHANGED <<configs, imports, fns, uses, reported, errors, lint, runs>>
        BY <2>2 DEF banVars
      <3>2. BanTyped(Entries, Apis)' = BanTyped(Entries, Apis)
        BY <3>1 DEF BanTyped
      <3>3. OwnNow' = OwnNow
        BY <3>1 DEF OwnNow, Entry, Bans
      <3>4. InOrder' = InOrder
        BY <3>1 DEF InOrder, Rest, Used
      <3>5. ReportsAreBans' = ReportsAreBans
        BY <3>1 DEF ReportsAreBans, Bans, Used, Stands
      <3>6. BansAreReported' = BansAreReported
        BY <3>1 DEF BansAreReported, Bans, Rest, Used, Stands
      <3> QED
        BY <3>1, <3>2, <3>3, <3>4, <3>5, <3>6 DEF BanIInv, BanInv
    <2> QED
      BY <2>1, <2>2 DEF Next, vars
  <1>3. BanIInv(Entries, Apis) => BansStand
    BY BansStandNow
  <1> QED
    BY <1>1, <1>2, <1>3, PTL DEF Spec
-----------------------------------------------------------------------------
(* Reports to the collector.                                                *)

\* A list of reports is a sequence.
PostsAre(Reported) ==
  \A p \in Posts : p.body.kind = "list" => p.body.reports \in Seq(Reported)

List    == post.contentType = "reports+json" /\ post.body.kind = "list"
Through == Len(post.body.reports) - Len(queue)   \* how many of them were looked at

\* Of the first n reports, those that decode were handed over, once and in order.
HandedOf(n) ==
  \E at \in [DOMAIN handed -> 1..n] :
    /\ \A k, l \in DOMAIN handed : k < l => at[k] < at[l]
    /\ {at[k] : k \in DOMAIN handed} = {i \in 1..n : Decodes(post.body.reports[i])}
    /\ \A k \in DOMAIN handed : handed[k] = post.body.reports[at[k]]

\* The queue is what is left of the list; badReport speaks of what is not.
ListInv(Reported) ==
  /\ post.body.reports \in Seq(Reported) /\ queue \in Seq(Reported) /\ handed \in Seq(Reported)
  /\ Len(queue) <= Len(post.body.reports)
  /\ \A i \in 1..Len(queue) : queue[i] = post.body.reports[Through + i]
  /\ badReport \in BOOLEAN
  /\ badReport <=> \E i \in 1..Through : ~Decodes(post.body.reports[i])
  /\ HandedOf(Through)

CollectorInv(Reported) ==
  /\ post.body.kind = "list" => post.body.reports \in Seq(Reported)
  /\ answer = "none" /\ queue = <<>> => handed = <<>> /\ badReport = FALSE
  /\ queue # <<>> => List /\ answer \in {"none", "crashed"}
  /\ handed # <<>> => answer \notin {"405", "415"} /\ post.body.kind \notin {"broken off", "not json"}
  /\ List /\ answer \in {"204", "400"} => queue = <<>> /\ answer = Answered(badReport)
  /\ List /\ (queue # <<>> \/ answer \in {"204", "400"}) /\ answer # "crashed" => ListInv(Reported)
  /\ answer = "204" /\ post.contentType = "csp-report" =>
       LET b == post.body
       IN  /\ b.inner = <<>> => handed = <<LineOf(b)>>
           /\ b.inner # <<>> /\ LineOf(b) = 0 => handed = <<LineOf(b.inner[1])>>

\* Looking at one report, which is handed over if it decodes and else makes the list a
\* bad one.
LEMMA LookedAt ==
  ASSUME NEW Reported, ListInv(Reported), queue # <<>>,
         post' = post, queue' = Tail(queue),
         \/ Decodes(Head(queue)) /\ handed' = Append(handed, Head(queue)) /\ badReport' = badReport
         \/ ~Decodes(Head(queue)) /\ handed' = handed /\ badReport' = TRUE
  PROVE  ListInv(Reported)'
  <1> DEFINE reports == post.body.reports
             n == Through
             r == reports[n + 1]
  <1>1. /\ reports \in Seq(Reported) /\ queue \in Seq(Reported) /\ handed \in Seq(Reported)
        /\ Len(queue) <= Len(reports) /\ Len(queue) \in Nat /\ Len(reports) \in Nat /\ Len(queue) > 0
        /\ Len(handed) \in Nat /\ DOMAIN handed = 1..Len(handed)
    BY DEF ListInv
  <1>2. Head(queue) = r /\ r \in Reported
    <2>1. Head(queue) = queue[1] /\ 1 \in 1..Len(queue)
      BY <1>1
    <2>2. queue[1] = reports[Through + 1]
      BY <2>1 DEF ListInv
    <2>3. Head(queue) \in Reported
      BY <1>1
    <2> QED
      BY <2>1, <2>2, <2>3
  <1>3. n \in Nat /\ n = Len(reports) - Len(queue)
    BY <1>1 DEF Through
  <1>4. /\ queue' \in Seq(Reported) /\ Len(queue') = Len(queue) - 1
        /\ \A i \in 1..Len(queue') : queue'[i] = queue[i + 1]
    BY <1>1
  <1>5. post'.body.reports = reports /\ Through' = n + 1
    BY <1>1, <1>3, <1>4 DEF Through
  <1>6. \A i \in 1..Len(queue') : queue'[i] = post'.body.reports[Through' + i]
    <2> SUFFICES ASSUME NEW i \in 1..Len(queue') PROVE queue'[i] = post'.body.reports[Through' + i]
      OBVIOUS
    <2>0. queue'[i] = queue[i + 1]
      BY <1>4
    <2> HIDE DEF n
    <2>1. i + 1 \in 1..Len(queue) /\ n + (i + 1) = (n + 1) + i
      <3>1. i \in Nat /\ i > 0 /\ i <= Len(queue) - 1
        BY <1>1, <1>4
      <3>2. n \in Nat /\ Len(queue) \in Nat
        BY <1>1, <1>3
      <3> QED
        BY <3>1, <3>2
    <2>2. queue[i + 1] = reports[n + (i + 1)]
      BY <2>1 DEF ListInv, n
    <2> QED
      BY <2>0, <2>1, <2>2, <1>5
  <1>7. PICK at \in [DOMAIN handed -> 1..n] :
          /\ \A k, l \in DOMAIN handed : k < l => at[k] < at[l]
          /\ {at[k] : k \in DOMAIN handed} = {i \in 1..n : Decodes(reports[i])}
          /\ \A k \in DOMAIN handed : handed[k] = reports[at[k]]
    BY DEF ListInv, HandedOf
  <1>8. badReport \in BOOLEAN /\ (badReport <=> \E i \in 1..n : ~Decodes(reports[i]))
    BY DEF ListInv
  <1>11. (post.body.reports \in Seq(Reported) /\ Len(queue) <= Len(post.body.reports))'
    <2> HIDE DEF n, r, reports
    <2> QED
      BY <1>1, <1>4, <1>5
  <1>12. 1..(n + 1) = 1..n \cup {n + 1} /\ n + 1 \in 1..(n + 1)
    <2>1. n \in Nat
      BY <1>3
    <2> HIDE DEF n
    <2> QED
      BY <2>1
  <1>9. CASE Decodes(r)
    <2> HIDE DEF n, r, reports
    <2>0. Decodes(Head(queue))
      BY <1>2, <1>9, Zenon
    <2>1. handed' = Append(handed, r) /\ badReport' = badReport
      BY <2>0, <1>2, Zenon
    <2>2. /\ handed' \in Seq(Reported) /\ Len(handed') = Len(handed) + 1 /\ DOMAIN handed' = 1..(Len(handed) + 1)
          /\ handed'[Len(handed) + 1] = r /\ \A k \in DOMAIN handed : handed'[k] = handed[k]
      <3> DEFINE h == handed
      <3>1. h \in Seq(Reported) /\ handed' = Append(h, r) /\ r \in Reported
        BY <2>1, <1>1, <1>2
      <3> HIDE DEF h
      <3>2. /\ Append(h, r) \in Seq(Reported) /\ Len(Append(h, r)) = Len(h) + 1
            /\ Append(h, r)[Len(h) + 1] = r /\ \A k \in 1..Len(h) : Append(h, r)[k] = h[k]
        BY <3>1
      <3>3. DOMAIN Append(h, r) = 1..(Len(h) + 1) /\ DOMAIN h = 1..Len(h)
        BY <3>1, <3>2
      <3>4. /\ handed' \in Seq(Reported) /\ Len(handed') = Len(h) + 1 /\ DOMAIN handed' = 1..(Len(h) + 1)
            /\ handed'[Len(h) + 1] = r /\ \A k \in DOMAIN h : handed'[k] = h[k]
        BY <3>1, <3>2, <3>3, Zenon
      <3> QED
        BY <3>4, Zenon DEF h
    <2> DEFINE to == [k \in 1..(Len(handed) + 1) |-> IF k <= Len(handed) THEN at[k] ELSE n + 1]
    <2>3. /\ to \in [DOMAIN handed' -> 1..(n + 1)] /\ to[Len(handed) + 1] = n + 1
          /\ \A k \in DOMAIN handed : to[k] = at[k]
      BY <2>2, <1>1, <1>3, <1>7
    <2> HIDE DEF to
    <2>4. \A k, l \in DOMAIN handed' : k < l => to[k] < to[l]
      <3> SUFFICES ASSUME NEW k \in DOMAIN handed', NEW l \in DOMAIN handed', k < l PROVE to[k] < to[l]
        OBVIOUS
      <3>1. k \in DOMAIN handed /\ at[k] \in 1..n /\ to[k] = at[k]
        BY <2>2, <2>3, <1>1, <1>7
      <3>2. CASE l \in DOMAIN handed
        BY <3>1, <3>2, <2>3, <1>7
      <3>3. CASE l = Len(handed) + 1
        BY <3>1, <3>3, <2>3, <1>3
      <3> QED
        BY <3>2, <3>3, <2>2, <1>1
    <2>5. {to[k] : k \in DOMAIN handed'} = {i \in 1..(n + 1) : Decodes(reports[i])}
      <3>1. DOMAIN handed' = DOMAIN handed \cup {Len(handed) + 1}
        BY <2>2, <1>1
      <3>2. {to[k] : k \in DOMAIN handed'} = {at[k] : k \in DOMAIN handed} \cup {n + 1}
        BY <3>1, <2>3
      <3>3. Decodes(reports[n + 1])
        BY <1>9 DEF r
      <3> QED
        BY <3>2, <3>3, <1>7, <1>12
    <2>6. \A k \in DOMAIN handed' : handed'[k] = reports[to[k]]
      <3> SUFFICES ASSUME NEW k \in DOMAIN handed' PROVE handed'[k] = reports[to[k]]
        OBVIOUS
      <3>1. CASE k \in DOMAIN handed
        BY <3>1, <2>2, <2>3, <1>7
      <3>2. CASE k = Len(handed) + 1
        BY <3>2, <2>2, <2>3 DEF r
      <3> QED
        BY <3>1, <3>2, <2>2, <1>1
    <2>7. HandedOf(Through)'
      BY <2>3, <2>4, <2>5, <2>6, <1>5 DEF HandedOf, Decodes
    <2>8. badReport' <=> \E i \in 1..(n + 1) : ~Decodes(reports[i])
      <3>1. Decodes(reports[n + 1])
        BY <1>9 DEF r
      <3> QED
        BY <3>1, <2>1, <1>8, <1>12
    <2>9. (badReport <=> \E i \in 1..Through : ~Decodes(post.body.reports[i]))'
      BY <2>8, <1>5 DEF Decodes
    <2>10. queue' \in Seq(Reported) /\ handed' \in Seq(Reported) /\ badReport' \in BOOLEAN
      BY <2>1, <2>2, <1>4, <1>8
    <2> QED
      BY <2>7, <2>9, <2>10, <1>6, <1>11, Zenon DEF ListInv
  <1>10. CASE ~Decodes(r)
    <2> HIDE DEF n, r, reports
    <2>0. ~Decodes(Head(queue))
      BY <1>2, <1>10, Zenon
    <2>1. handed' = handed /\ badReport' = TRUE
      BY <2>0, Zenon
    <2>2. {i \in 1..(n + 1) : Decodes(reports[i])} = {i \in 1..n : Decodes(reports[i])}
      <3>1. ~Decodes(reports[n + 1])
        BY <1>10 DEF r
      <3> QED
        BY <3>1, <1>12
    <2>3. at \in [DOMAIN handed -> 1..(n + 1)]
      BY <1>3, <1>7
    <2>4. HandedOf(Through)'
      BY <2>1, <2>2, <2>3, <1>5, <1>7 DEF HandedOf, Decodes
    <2>6. (badReport <=> \E i \in 1..Through : ~Decodes(post.body.reports[i]))'
      BY <2>1, <1>12, <1>5, <1>10 DEF Decodes, r
    <2>7. queue' \in Seq(Reported) /\ handed' \in Seq(Reported) /\ badReport' \in BOOLEAN
      BY <2>1, <1>1, <1>4
    <2> QED
      BY <2>4, <2>6, <2>7, <1>6, <1>11, Zenon DEF ListInv
  <1> QED
    BY <1>9, <1>10

\* A list that was looked at to its end.
LEMMA LastReport ==
  ASSUME NEW Reported, NEW bad, NextReport(bad), bad = badReport',
         queue \in Seq(Reported), queue # <<>>, List, answer = "none"
  PROVE  /\ post' = post /\ queue' = Tail(queue) /\ List'
         /\ queue' # <<>> => answer' = "none"
         /\ queue' = <<>> => answer' = Answered(badReport')
  <1>1. /\ post' = post /\ queue' = Tail(queue)
        /\ answer' = IF Len(queue) = 1 THEN Answered(bad) ELSE "none"
    BY DEF NextReport
  <1>2. Tail(queue) = <<>> <=> Len(queue) = 1
    <2> DEFINE t == Tail(queue)
    <2>1. Len(t) = Len(queue) - 1 /\ t \in Seq(Reported) /\ Len(queue) \in Nat
      OBVIOUS
    <2> HIDE DEF t
    <2>2. (t = <<>>) <=> (Len(t) = 0)
      BY <2>1, EmptySeq
    <2>3. (Len(t) = 0) <=> (Len(queue) = 1)
      BY <2>1
    <2>4. (t = <<>>) <=> (Len(queue) = 1)
      BY <2>2, <2>3
    <2> QED
      BY <2>4 DEF t
  <1> QED
    BY <1>1, <1>2 DEF List

\* Every step of the collector's handler keeps the invariant.
LEMMA CollectorStep ==
  ASSUME NEW Reported, CollectorInv(Reported), CollectorNext
  PROVE  CollectorInv(Reported)'
  <1> USE DEF List
  <1>1. CASE RefuseRequest
    <2>1. answer = "none" /\ queue = <<>> /\ UNCHANGED <<post, queue, badReport, handed>>
      BY <1>1 DEF RefuseRequest, Refuse
    <2>2. handed = <<>>
      BY <2>1 DEF CollectorInv
    <2>3. /\ answer' \in {"405", "400", "415"}
          /\ post.contentType = "reports+json" /\ post.body.kind = "list" => answer' = "405"
      BY <1>1 DEF RefuseRequest, Refuse
    <2> QED
      BY <2>1, <2>2, <2>3 DEF CollectorInv
  <1>2. CASE DeprecatedReport
    <2> DEFINE b == post.body
    <2>1. /\ answer = "none" /\ queue = <<>> /\ handed = <<>> /\ UNCHANGED <<post, queue, badReport>>
          /\ post.contentType = "csp-report" /\ b.kind # "broken off"
      BY <1>2 DEF DeprecatedReport, Reads, Refuse
    <2>2. \/ answer' = "400" /\ handed' = <<>>
          \/ /\ b.kind = "report" /\ answer' \in {"204", "crashed"}
             /\ handed' = <<LineOf(IF b.inner = <<>> THEN b ELSE Overlay(b, b.inner[1]))>>
      BY <1>2, <2>1 DEF DeprecatedReport, Refuse
    <2>3. LineOf(b) = 0 => LineOf(Overlay(b, b.inner[1])) = LineOf(b.inner[1])
      BY DEF LineOf, Overlay
    <2>4. ~List' /\ queue' = <<>> /\ answer' # "none" /\ post' = post
      BY <2>1, <2>2
    <2>5. handed' # <<>> => answer' \notin {"405", "415"} /\ post'.body.kind \notin {"broken off", "not json"}
      BY <2>1, <2>2
    <2>6. answer' = "204" => /\ b.inner = <<>> => handed' = <<LineOf(b)>>
                             /\ b.inner # <<>> /\ LineOf(b) = 0 => handed' = <<LineOf(b.inner[1])>>
      BY <2>2, <2>3
    <2> QED
      BY <2>4, <2>5, <2>6 DEF CollectorInv, LineOf
  <1>3. CASE ListOfReports
    <2>1. /\ answer = "none" /\ queue = <<>> /\ handed = <<>> /\ badReport = FALSE
          /\ post.contentType = "reports+json" /\ UNCHANGED <<post, badReport, handed>>
      BY <1>3 DEF ListOfReports, Reads, Refuse, CollectorInv
    <2>2. CASE post.body.kind # "list"
      <3>1. answer' = "400" /\ queue' = queue
        BY <1>3, <2>2 DEF ListOfReports, Refuse
      <3> QED
        BY <2>1, <2>2, <3>1 DEF CollectorInv
    <2>3. CASE post.body.kind = "list"
      <3> DEFINE reports == post.body.reports
      <3>1. reports \in Seq(Reported)
        BY <2>3 DEF CollectorInv
      <3>2. queue' = reports /\ (reports = <<>> => answer' = "204") /\ (reports # <<>> => answer' = "none")
        BY <1>3, <2>1, <2>3 DEF ListOfReports, Refuse
      <3>3. ListInv(Reported)'
        <4>1. Through' = 0 /\ Len(reports) \in Nat
          BY <3>1, <3>2, <2>1 DEF Through
        <4>2. DOMAIN <<>> = {} /\ <<>> \in Seq(Reported) /\ 1..0 = {} /\ <<>> \in [{} -> {}]
          OBVIOUS
        <4>3. HandedOf(Through)'
          <5>1. handed' = <<>> /\ post' = post
            BY <2>1
          <5> QED
            BY <4>1, <4>2, <5>1 DEF HandedOf
        <4>4. (post.body.reports \in Seq(Reported) /\ queue \in Seq(Reported) /\ handed \in Seq(Reported))'
          BY <2>1, <3>1, <3>2, <4>2
        <4>7. (Len(queue) <= Len(post.body.reports) /\ badReport \in BOOLEAN)'
          <5>1. Len(queue') = Len(reports) /\ post' = post /\ badReport' = FALSE
            BY <2>1, <3>2
          <5>2. Len(reports) <= Len(reports)
            BY <4>1
          <5> QED
            BY <5>1, <5>2
        <4>5. (\A i \in 1..Len(queue) : queue[i] = post.body.reports[Through + i])'
          BY <2>1, <3>1, <3>2, <4>1
        <4>6. (badReport <=> \E i \in 1..Through : ~Decodes(post.body.reports[i]))'
          BY <2>1, <4>1, <4>2
        <4> QED
          BY <4>3, <4>4, <4>5, <4>6, <4>7 DEF ListInv
      <3> QED
        BY <2>1, <2>3, <3>1, <3>2, <3>3 DEF CollectorInv, Answered
    <2> QED
      BY <2>2, <2>3
  <1>4. CASE HandReport \/ SkipReport
    <2>1. /\ answer = "none" /\ queue # <<>> /\ List
          /\ \/ Decodes(Head(queue)) /\ handed' = Append(handed, Head(queue)) /\ NextReport(badReport)
             \/ ~Decodes(Head(queue)) /\ handed' = handed /\ NextReport(TRUE)
      BY <1>4 DEF HandReport, SkipReport, CollectorInv
    <2>2. ListInv(Reported)
      BY <2>1 DEF CollectorInv
    <2>3. post' = post /\ queue' = Tail(queue)
      BY <2>1 DEF NextReport
    <2>4. \/ Decodes(Head(queue)) /\ handed' = Append(handed, Head(queue)) /\ badReport' = badReport
          \/ ~Decodes(Head(queue)) /\ handed' = handed /\ badReport' = TRUE
      BY <2>1 DEF NextReport
    <2>5. ListInv(Reported)'
      BY <2>1, <2>2, <2>3, <2>4, LookedAt
    <2>6. queue \in Seq(Reported) /\ NextReport(badReport')
      BY <2>1, <2>2, <2>4 DEF ListInv
    <2>7. /\ List' /\ queue' # <<>> => answer' = "none"
          /\ queue' = <<>> => answer' = Answered(badReport')
      BY <2>1, <2>6, LastReport
    <2>8. List'
      BY <2>1, <2>3
    <2>9. (post.body.kind = "list" => post.body.reports \in Seq(Reported))'
      BY <2>3 DEF CollectorInv
    <2> QED
      BY <2>5, <2>7, <2>8, <2>9 DEF CollectorInv, Answered
  <1>5. CASE ProgramPanics
    <2>1. answer' = "crashed" /\ queue # <<>> /\ UNCHANGED <<post, queue, badReport>>
      BY <1>5 DEF ProgramPanics
    <2> QED
      BY <2>1 DEF CollectorInv
  <1> QED
    BY <1>1, <1>2, <1>3, <1>4, <1>5 DEF CollectorNext

CollectorIInv(Reported) ==
  /\ runs = "collector" => CollectorInv(Reported)
  /\ runs # "collector" => answer = "none" /\ handed = <<>>

\* For lists of any length: the reports that decode are handed over once each and in
\* order, and the browser is told 204 only if all of them did; a single report keeps
\* its line; a refused request hands over nothing.
THEOREM ReportsReach ==
  ASSUME NEW Reported, PostsAre(Reported)
  PROVE  Spec => []ReportsReachProgram
  <1>1. Init => CollectorIInv(Reported)
    <2> SUFFICES ASSUME Init PROVE CollectorIInv(Reported)
      OBVIOUS
    <2>1. PICK p \in Inputs("collector", Posts) : CollectorInit(p)
      BY DEF Init
    <2>2. post = p /\ queue = <<>> /\ badReport = FALSE /\ handed = <<>> /\ answer = "none"
      BY <2>1 DEF CollectorInit
    <2>3. runs = "collector" => p \in Posts
      BY DEF Inputs
    <2> QED
      BY <2>2, <2>3 DEF CollectorIInv, CollectorInv, PostsAre
  <1>2. CollectorIInv(Reported) /\ [Next]_vars => CollectorIInv(Reported)'
    <2> SUFFICES ASSUME CollectorIInv(Reported), [Next]_vars PROVE CollectorIInv(Reported)'
      OBVIOUS
    <2>1. CASE runs = "collector" /\ CollectorNext /\ UNCHANGED runs
      BY <2>1, CollectorStep DEF CollectorIInv
    <2>2. CASE UNCHANGED <<collectorVars, runs>>
      <3>1. UNCHANGED <<post, queue, badReport, handed, answer, runs>>
        BY <2>2 DEF collectorVars
      <3>2. ListInv(Reported)' = ListInv(Reported)
        BY <3>1 DEF ListInv, HandedOf, Through, Decodes
      <3>3. CollectorInv(Reported)' = CollectorInv(Reported)
        BY <3>1, <3>2 DEF CollectorInv, List, LineOf, Answered
      <3> QED
        BY <3>1, <3>3 DEF CollectorIInv
    <2> QED
      BY <2>1, <2>2 DEF Next, vars
  <1>3. CollectorIInv(Reported) => ReportsReachProgram
    <2> SUFFICES ASSUME CollectorIInv(Reported) PROVE ReportsReachProgram
      OBVIOUS
    <2>1. CASE runs # "collector"
      BY <2>1 DEF CollectorIInv, ReportsReachProgram
    <2>2. CASE runs = "collector"
      <3>1. CollectorInv(Reported)
        BY <2>2 DEF CollectorIInv
      <3>2. ASSUME answer \in {"204", "400"}, List
            PROVE  /\ HandsOver(post.body.reports, handed)
                   /\ (answer = "204") = (\A i \in DOMAIN post.body.reports : Decodes(post.body.reports[i]))
        <4>1. ListInv(Reported) /\ queue = <<>> /\ answer = Answered(badReport)
          BY <3>1, <3>2 DEF CollectorInv
        <4>2. /\ post.body.reports \in Seq(Reported) /\ Len(queue) = 0
              /\ DOMAIN post.body.reports = 1..Len(post.body.reports) /\ Len(post.body.reports) \in Nat
          BY <4>1 DEF ListInv
        <4>3. DOMAIN post.body.reports = 1..Through
          BY <4>2 DEF Through
        <4>4. HandsOver(post.body.reports, handed)
          BY <4>1, <4>3 DEF ListInv, HandedOf, HandsOver
        <4>5. answer = "204" <=> \A i \in DOMAIN post.body.reports : Decodes(post.body.reports[i])
          BY <4>1, <4>3 DEF ListInv, Answered
        <4> QED
          BY <4>4, <4>5
      <3> QED
        BY <3>1, <3>2 DEF CollectorInv, ReportsReachProgram, List
    <2> QED
      BY <2>1, <2>2
  <1> QED
    BY <1>1, <1>2, <1>3, PTL DEF Spec
=============================================================================
