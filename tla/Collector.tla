----------------------------- MODULE Collector -----------------------------
(***************************************************************************)
(* plugins/collector: a handler that takes violation reports, one per       *)
(* request in the deprecated form or a list of them, and hands each to a    *)
(* function of the program.                                                 *)
(***************************************************************************)
EXTENDS Naturals, Sequences

VARIABLES
  post,       \* the request: method, contentType, body; a body is "broken off",
              \* "not json", one "report" or a "list" of them
  queue,      \* reports of the list that were not looked at
  badReport,  \* one of them was bad
  handed,     \* what the program was given
  answer      \* "none", a status, or "crashed"

collectorVars == <<post, queue, badReport, handed, answer>>

CollectorInit(p) ==
  /\ post = p
  /\ queue = <<>> /\ badReport = FALSE /\ handed = <<>> /\ answer = "none"

Refuse(status) ==
  /\ answer' = status
  /\ UNCHANGED <<post, queue, badReport, handed>>

\* Handler.
RefuseRequest ==
  /\ answer = "none" /\ queue = <<>>
  /\ \/ post.method # "POST" /\ Refuse("405")
     \/ post.method = "POST" /\ post.body.kind = "broken off" /\ Refuse("400")
     \/ /\ post.method = "POST" /\ post.body.kind # "broken off"
        /\ post.contentType \notin {"csp-report", "reports+json"}
        /\ Refuse("415")

Reads(contentType) ==
  /\ answer = "none" /\ queue = <<>> /\ ~badReport /\ handed = <<>>
  /\ post.method = "POST" /\ post.body.kind # "broken off"
  /\ post.contentType = contentType

-----------------------------------------------------------------------------
(* handleDeprecatedCSPReports.  A report has line numbers under two keys, 0  *)
(* for none, and perhaps (inner, of length 1) a report with the same keys in *)
(* "csp-report".                                                            *)

\* Decoding into a struct that is filled already keeps what is not mentioned.
Overlay(outer, inner) ==
  [lineno     |-> IF inner.lineno # 0 THEN inner.lineno ELSE outer.lineno,
   lineNumber |-> IF inner.lineNumber # 0 THEN inner.lineNumber ELSE outer.lineNumber]

LineOf(r) == IF r.lineno # 0 THEN r.lineno ELSE r.lineNumber

DeprecatedReport ==
  /\ Reads("csp-report")
  /\ LET b == post.body
     IN  IF b.kind # "report" THEN Refuse("400")
         ELSE IF b.inner # <<>> /\ b.inner[1].mistyped THEN Refuse("400")
         ELSE /\ handed' = <<LineOf(IF b.inner = <<>> THEN b ELSE Overlay(b, b.inner[1]))>>
              /\ answer' \in {"204", "crashed"}
              /\ UNCHANGED <<post, queue, badReport>>

-----------------------------------------------------------------------------
(* handleReport.  A report has a type and a body: an object of the right     *)
(* fields, null, one with a field of another type, no object, or none.       *)

\* cspViolationHandler, and the map for all other types.
Decodes(report) ==
  \/ report.body \in {"object", "null"}
  \/ report.body = "mistyped" /\ report.type # "csp-violation"

ListOfReports ==
  /\ Reads("reports+json")
  /\ \/ post.body.kind # "list" /\ Refuse("400")
     \/ post.body.kind = "list" /\ post.body.reports = <<>> /\ Refuse("204")
     \/ /\ post.body.kind = "list" /\ post.body.reports # <<>>
        /\ queue' = post.body.reports
        /\ UNCHANGED <<post, badReport, handed, answer>>

Answered(bad) == IF bad THEN "400" ELSE "204"

NextReport(bad) ==
  /\ badReport' = bad
  /\ queue' = Tail(queue)
  /\ answer' = IF Len(queue) = 1 THEN Answered(bad) ELSE "none"
  /\ UNCHANGED post

HandReport ==
  /\ answer = "none" /\ queue # <<>> /\ Decodes(Head(queue))
  /\ handed' = Append(handed, Head(queue))
  /\ NextReport(badReport)

\* The rest of the list is dropped.
SkipReports ==
  /\ answer = "none" /\ queue # <<>> /\ ~Decodes(Head(queue))
  /\ badReport' = TRUE /\ queue' = <<>> /\ answer' = "400"
  /\ UNCHANGED <<post, handed>>

SkipReport ==
  /\ answer = "none" /\ queue # <<>> /\ ~Decodes(Head(queue))
  /\ UNCHANGED handed
  /\ NextReport(TRUE)

\* The program's function panics on a report it was given.
ProgramPanics ==
  /\ answer = "none" /\ queue # <<>> /\ Decodes(Head(queue))
  /\ handed' = Append(handed, Head(queue))
  /\ answer' = "crashed"
  /\ UNCHANGED <<post, queue, badReport>>

CollectorNext == RefuseRequest \/ DeprecatedReport \/ ListOfReports
                   \/ HandReport \/ SkipReport \/ ProgramPanics

-----------------------------------------------------------------------------

\* What was given is the reports that decode, each of them once and in order: at[k] is
\* the place in the list of the k-th that was given.
HandsOver(reports, given) ==
  \E at \in [DOMAIN given -> DOMAIN reports] :
    /\ \A k, l \in DOMAIN given : k < l => at[k] < at[l]
    /\ {at[k] : k \in DOMAIN given} = {i \in DOMAIN reports : Decodes(reports[i])}
    /\ \A k \in DOMAIN given : given[k] = reports[at[k]]

\* A list of reports: every good one is handed over exactly once and in order,
\* whatever is wrong with the others, and the browser is told 204 only if all were.
\* A single report has the line it was sent with, in whichever of its two forms; a
\* request that is refused for what it is hands over nothing.
ReportsReachProgram ==
  /\ answer \in {"204", "400"} /\ post.contentType = "reports+json" /\ post.body.kind = "list" =>
       /\ HandsOver(post.body.reports, handed)
       /\ (answer = "204") = (\A i \in DOMAIN post.body.reports : Decodes(post.body.reports[i]))
  /\ answer = "204" /\ post.contentType = "csp-report" =>
       LET b == post.body
       IN  /\ b.inner = <<>> => handed = <<LineOf(b)>>
           /\ b.inner # <<>> /\ LineOf(b) = 0 => handed = <<LineOf(b.inner[1])>>
  /\ answer \in {"405", "415"} \/ post.body.kind \in {"broken off", "not json"} => handed = <<>>
=============================================================================
