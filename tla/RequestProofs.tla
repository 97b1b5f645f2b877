--------------------------- MODULE RequestProofs ---------------------------
(***************************************************************************)
(* Theorems about Request, for any number of copies of a request.           *)
(***************************************************************************)
EXTENDS Request, TLAPS

Results == Forms \cup {"error", "panic", "untried"}

TypeOK ==
  /\ method \in {"get", "post", "delete"}
  /\ contentType \in ContentTypes /\ body \in Bodies
  /\ drained \in BOOLEAN
  /\ exists \subseteq Requests /\ Original \in exists
  /\ once \in [exists -> Requests]
  /\ done \subseteq Requests \X Calls
  /\ forms \in [exists -> [Calls -> Forms]]
  /\ last \in [Requests -> [Calls -> Results]]
  /\ xsrf \in {"idle", "fallback", "token", "passed", "rejected"}
  /\ reads \in Nat /\ first \in BOOLEAN
  /\ heirs \subseteq exists \X Calls

\* All copies point to the sync.Onces of the first request.
OncesShared == \A r \in exists : once[r] = Original

\* Of the two calls at most one parses a request, and it has run if the body was read;
\* until then all forms are nil.
ReadsCounted ==
  \/ reads = 0 /\ \A r \in exists : forms[r] = NoForms
  \/ reads = 1 /\ \A k \in Calls : ~Refused(k) => <<Original, k>> \in done

\* A form that was once returned whole is there, and its sync.Once has run.
HeirsWhole ==
  \A h \in heirs : reads = 1 /\ forms[h[1]][h[2]] = "all" /\ <<Original, h[2]>> \in done

\* Nothing was called on a copy that does not exist.
CopiesUntried == \A r \in Requests \ exists : last[r] = Untried

\* The parsed forms of the request xsrfhtml was given are whole.
Whole ==
  /\ reads = 1 /\ forms[Original]["PostForm"] = "all"
  /\ contentType = "multipart" => forms[Original]["MultipartForm"] = "all"

\* How far xsrfhtml has come with a form that nobody touched before it.
XsrfOK ==
  first =>
    /\ xsrf = "idle" => ~drained /\ done = {} /\ reads = 0
    /\ xsrf = "fallback" =>
         /\ done = {<<Original, "PostForm">>}
         /\ method = "post" /\ contentType = "multipart" => ~drained /\ reads = 0
    /\ xsrf \in {"token", "passed"} /\ method = "post" => Whole

IInv ==
  /\ TypeOK /\ OncesShared /\ ReadsCounted /\ HeirsWhole /\ CopiesUntried /\ XsrfOK
  /\ BodyReadOnce /\ ParsedReachesCopies /\ XsrfLeavesForm

-----------------------------------------------------------------------------
(* One call.                                                                *)

\* What a parse leaves in the forms, and what a call returns.
LEMMA ResultType ==
  ASSUME TypeOK, OncesShared, NEW r \in exists, NEW k \in Calls
  PROVE  /\ Parse(k).forms \in [Calls -> Forms] /\ Parse(k).failed \in BOOLEAN
         /\ Result(r, k) \in Results /\ Result(r, k) # "untried"
<1>1. Parse(k).forms \in [Calls -> Forms] /\ Parse(k).failed \in BOOLEAN
  <2>1. NoForms \in [Calls -> Forms]
    BY DEF NoForms, Forms
  <2> DEFINE whole == IF k = "PostForm" THEN [NoForms EXCEPT !["PostForm"] = "all"]
                                        ELSE [c \in Calls |-> "all"]
             part  == [NoForms EXCEPT !["PostForm"] = IF k = "PostForm" THEN "some" ELSE "none"]
             empty == [NoForms EXCEPT !["PostForm"] = "none"]
  <2>2. whole \in [Calls -> Forms] /\ part \in [Calls -> Forms] /\ empty \in [Calls -> Forms]
    BY <2>1 DEF Forms
  <2> QED
    BY <2>2 DEF Parse, TypeOK, Bodies
<1>2. FromField(k, forms[r][k]) \in Results \ {"untried"} /\ forms[r][k] \in Forms
  BY DEF TypeOK, FromField, Results, Forms
<1>3. Parse(k).forms[k] \in Forms
  BY <1>1
<1> QED
  BY <1>1, <1>2, <1>3 DEF Result, Results, Forms

\* What every call leaves alone, and what it notes.
CallNotes(r, k) ==
  /\ r \in exists /\ done' = done \cup {<<Original, k>>}
  /\ last' = [last EXCEPT ![r][k] = Result(r, k)]
  /\ heirs' = IF Result(r, k) = "all" THEN heirs \cup {<<r, k>>} ELSE heirs
  /\ method' = method /\ contentType' = contentType /\ body' = body
  /\ exists' = exists /\ once' = once

\* The call that parses, and the one that does not.
Parses(r, k) ==
  /\ <<Original, k>> \notin done /\ ~Refused(k) /\ reads = 0
  /\ forms' = [forms EXCEPT ![r] = Parse(k).forms]
  /\ drained' = TRUE /\ reads' = 1

ParsesNot(k) ==
  /\ <<Original, k>> \in done \/ Refused(k)
  /\ forms' = forms /\ drained' = drained /\ reads' = reads

\* A call is one of the two.
LEMMA CallCases ==
  ASSUME TypeOK, OncesShared, ReadsCounted, NEW r \in Requests, NEW k \in Calls, Call(r, k)
  PROVE  CallNotes(r, k) /\ (Parses(r, k) \/ ParsesNot(k))
<1>1. r \in exists /\ once[r] = Original
  BY DEF Call, OncesShared
<1>2. CallNotes(r, k)
  BY <1>1 DEF Call, input, CallNotes
<1> DEFINE parses == <<Original, k>> \notin done /\ ~Refused(k)
<1>3. /\ forms' = IF parses THEN [forms EXCEPT ![r] = Parse(k).forms] ELSE forms
      /\ drained' = (drained \/ parses)
      /\ reads' = IF parses THEN reads + 1 ELSE reads
  BY <1>1 DEF Call
<1>4. CASE parses
  <2>1. reads = 0
    BY <1>4 DEF ReadsCounted
  <2>2. drained'
    BY <1>3, <1>4
  <2>3. drained' = TRUE
    BY <1>3, <1>4, <2>2
  <2>4. reads' = 1
    BY <1>3, <1>4, <2>1
  <2>5. forms' = [forms EXCEPT ![r] = Parse(k).forms]
    BY <1>3, <1>4
  <2> QED
    BY <1>2, <1>4, <2>1, <2>3, <2>4, <2>5 DEF Parses
<1>5. CASE ~parses
  <2>1. drained \in BOOLEAN
    BY DEF TypeOK
  <2>2. drained' = drained
    BY <1>3, <1>5, <2>1
  <2>3. forms' = forms /\ reads' = reads
    BY <1>3, <1>5
  <2> QED
    BY <1>2, <1>5, <2>2, <2>3 DEF ParsesNot
<1> QED
  BY <1>4, <1>5

\* Two calls never both parse.
LEMMA OneParses ==
  ASSUME NEW j \in Calls, NEW k \in Calls, ~Refused(j), ~Refused(k)
  PROVE  j = k
BY DEF Refused, Calls

\* A form that is returned whole is whole, and read.
LEMMA WholeResult ==
  ASSUME TypeOK, OncesShared, ReadsCounted, NEW r \in Requests, NEW k \in Calls, Call(r, k),
         Result(r, k) = "all"
  PROVE  reads' = 1 /\ forms'[r][k] = "all" /\ <<Original, k>> \in done'
<1>1. r \in exists /\ once[r] = Original
  BY DEF Call, OncesShared
<1>2. CallNotes(r, k) /\ (Parses(r, k) \/ ParsesNot(k))
  BY CallCases
<1>3. CASE <<Original, k>> \in done
  <2>1. forms[r][k] = "all"
    BY <1>1, <1>3 DEF Result, FromField
  <2>2. forms' = forms /\ reads' = reads
    BY <1>2, <1>3 DEF Parses, ParsesNot
  <2>3. reads = 1
    BY <1>1, <2>1 DEF ReadsCounted, NoForms
  <2> QED
    BY <1>2, <1>3, <2>1, <2>2, <2>3 DEF CallNotes
<1>4. CASE <<Original, k>> \notin done
  <2>1. ~Refused(k) /\ Parse(k).forms[k] = "all"
    BY <1>1, <1>4 DEF Result
  <2>2. forms' = [forms EXCEPT ![r] = Parse(k).forms] /\ reads' = 1
    BY <1>2, <1>4, <2>1 DEF Parses, ParsesNot
  <2>3. forms \in [exists -> [Calls -> Forms]]
    BY DEF TypeOK
  <2>4. forms'[r] = Parse(k).forms
    BY <1>1, <2>2, <2>3
  <2> QED
    BY <1>2, <2>1, <2>2, <2>4 DEF CallNotes
<1> QED
  BY <1>3, <1>4

\* The part of the invariant that is not about xsrfhtml.
Core == OncesShared /\ ReadsCounted /\ HeirsWhole /\ CopiesUntried
          /\ BodyReadOnce /\ ParsedReachesCopies

\* A call keeps it.
LEMMA CallKeeps ==
  ASSUME TypeOK, Core, NEW r \in Requests, NEW k \in Calls, Call(r, k),
         xsrf' \in {"idle", "fallback", "token", "passed", "rejected"}, first' \in BOOLEAN
  PROVE  TypeOK' /\ Core'
<1>0. OncesShared /\ ReadsCounted /\ HeirsWhole /\ CopiesUntried /\ ParsedReachesCopies
  BY DEF Core
<1>a. CallNotes(r, k) /\ (Parses(r, k) \/ ParsesNot(k))
  BY <1>0, CallCases
<1>b. /\ r \in exists /\ exists' = exists /\ once' = once
      /\ done' = done \cup {<<Original, k>>}
      /\ heirs' = IF Result(r, k) = "all" THEN heirs \cup {<<r, k>>} ELSE heirs
  BY <1>a DEF CallNotes
<1>1. /\ Result(r, k) \in Results /\ Result(r, k) # "untried"
      /\ Parse(k).forms \in [Calls -> Forms]
  BY <1>0, <1>b, ResultType
<1>2. /\ last' = [last EXCEPT ![r][k] = Result(r, k)]
      /\ last \in [Requests -> [Calls -> Results]]
      /\ forms \in [exists -> [Calls -> Forms]]
  BY <1>a DEF CallNotes, TypeOK
<1>3. last' \in [Requests -> [Calls -> Results]]
  BY <1>1, <1>2
<1>4. reads' \in {0, 1} /\ drained' \in BOOLEAN /\ forms' \in [exists -> [Calls -> Forms]]
  <2>1. CASE Parses(r, k)
    BY <1>1, <1>2, <1>b, <2>1 DEF Parses
  <2>2. CASE ParsesNot(k)
    <3>1. reads \in {0, 1} /\ drained \in BOOLEAN
      BY <1>0 DEF ReadsCounted, TypeOK
    <3> QED
      BY <1>2, <2>2, <3>1 DEF ParsesNot
  <2> QED
    BY <1>a, <2>1, <2>2
<1>5. done' \subseteq Requests \X Calls /\ heirs' \subseteq exists \X Calls
  BY <1>b DEF TypeOK, Requests
<1>6. TypeOK'
  BY <1>a, <1>3, <1>4, <1>5 DEF TypeOK, CallNotes
<1>7. OncesShared' /\ BodyReadOnce'
  BY <1>0, <1>b, <1>4 DEF OncesShared, BodyReadOnce
<1>8. ReadsCounted'
  <2>1. \A j \in Calls : Refused(j)' <=> Refused(j)
    BY <1>a DEF Refused, CallNotes
  <2>2. CASE Parses(r, k)
    <3>1. ASSUME NEW j \in Calls, ~Refused(j) PROVE <<Original, j>> \in done'
      BY <1>b, <2>2, <3>1, OneParses DEF Parses
    <3> QED
      BY <2>1, <2>2, <3>1 DEF Parses, ReadsCounted
  <2>3. CASE ParsesNot(k)
    BY <1>0, <1>b, <2>1, <2>3 DEF ParsesNot, ReadsCounted
  <2> QED
    BY <1>a, <2>2, <2>3
<1>9. HeirsWhole'
  <2> SUFFICES ASSUME NEW h \in heirs'
               PROVE  reads' = 1 /\ forms'[h[1]][h[2]] = "all" /\ <<Original, h[2]>> \in done'
    BY DEF HeirsWhole
  <2>1. CASE h \in heirs
    <3>1. reads = 1 /\ forms[h[1]][h[2]] = "all" /\ <<Original, h[2]>> \in done
      BY <1>0, <2>1 DEF HeirsWhole
    <3>2. ParsesNot(k)
      BY <1>a, <3>1 DEF Parses
    <3> QED
      BY <1>b, <3>1, <3>2 DEF ParsesNot
  <2>2. CASE h \notin heirs
    <3>1. h = <<r, k>> /\ Result(r, k) = "all"
      BY <1>b, <2>2
    <3>2. reads' = 1 /\ forms'[r][k] = "all" /\ <<Original, k>> \in done'
      BY <1>0, <3>1, WholeResult
    <3> QED
      BY <3>1, <3>2
  <2> QED
    BY <2>1, <2>2
<1>10. CopiesUntried'
  <2>1. \A e \in Requests \ exists : last'[e] = last[e]
    BY <1>b, <1>2
  <2> QED
    BY <1>0, <1>b, <2>1 DEF CopiesUntried
<1>11. ParsedReachesCopies'
  <2> SUFFICES ASSUME NEW h \in heirs'
               PROVE  last'[h[1]][h[2]] # "all" => last'[h[1]][h[2]] = "untried"
    BY DEF ParsedReachesCopies
  <2>1. h[1] \in Requests /\ h[2] \in Calls
    BY <1>5 DEF TypeOK
  <2>2. CASE h[1] = r /\ h[2] = k
    <3>1. Result(r, k) = "all"
      <4>1. CASE h \in heirs
        <5>1. forms[r][k] = "all" /\ <<Original, k>> \in done
          BY <1>0, <2>2, <4>1 DEF HeirsWhole
        <5>2. once[r] = Original
          BY <1>0, <1>b DEF OncesShared
        <5> QED
          BY <5>1, <5>2 DEF Result, FromField
      <4>2. CASE h \notin heirs
        BY <1>b, <4>2
      <4> QED
        BY <4>1, <4>2
    <3>2. last'[r][k] = Result(r, k)
      BY <1>2
    <3> QED
      BY <2>2, <3>1, <3>2
  <2>3. CASE ~(h[1] = r /\ h[2] = k)
    <3>1. h \in heirs
      BY <1>b, <2>3
    <3>2. last'[h[1]][h[2]] = last[h[1]][h[2]]
      BY <1>2, <2>1, <2>3
    <3> QED
      BY <1>0, <3>1, <3>2 DEF ParsedReachesCopies
  <2> QED
    BY <2>2, <2>3
<1> QED
  BY <1>6, <1>7, <1>8, <1>9, <1>10, <1>11 DEF Core

\* Once the body was read, no call changes a form.
LEMMA FormsStay ==
  ASSUME TypeOK, Core, NEW r \in Requests, NEW k \in Calls, Call(r, k), Whole
  PROVE  Whole'
<1>1. CallNotes(r, k) /\ (Parses(r, k) \/ ParsesNot(k))
  BY CallCases DEF Core
<1>2. ParsesNot(k)
  BY <1>1 DEF Parses, Whole
<1> QED
  BY <1>1, <1>2 DEF CallNotes, ParsesNot, Whole

-----------------------------------------------------------------------------
(* The actions.                                                             *)

\* The program calls PostForm or MultipartForm, on whichever copy.
LEMMA ProgramCallKeeps ==
  ASSUME IInv, NEW r \in Requests, PostForm(r) \/ MultipartForm(r)
  PROVE  IInv'
<1> USE DEF IInv
<1>1. PICK k \in Calls : Call(r, k)
  BY DEF PostForm, MultipartForm, Calls
<1>2. /\ xsrf' = xsrf /\ xsrf \notin {"fallback", "token"}
      /\ first' = (first /\ xsrf # "idle")
  BY DEF PostForm, MultipartForm, InXsrf
<1>3. xsrf' \in {"idle", "fallback", "token", "passed", "rejected"} /\ first' \in BOOLEAN
  BY <1>2 DEF TypeOK
<1>4. TypeOK' /\ Core'
  BY <1>1, <1>3, CallKeeps DEF Core
<1>5. method' = method /\ contentType' = contentType
  BY <1>1 DEF Call, input
<1>6. ASSUME first', xsrf' \in {"token", "passed"}, method' = "post"
      PROVE  Whole'
  <2>1. Whole
    BY <1>2, <1>5, <1>6 DEF XsrfOK
  <2> QED
    BY <1>1, <2>1, FormsStay DEF Core
<1>7. XsrfOK'
  BY <1>2, <1>6 DEF XsrfOK
<1>8. XsrfLeavesForm'
  BY <1>6 DEF XsrfLeavesForm, Whole
<1> QED
  BY <1>4, <1>7, <1>8 DEF Core

\* The program reads the body itself: then somebody has touched it.
LEMMA ReadBodyKeeps ==
  ASSUME IInv, ReadBody
  PROVE  IInv'
<1> USE DEF IInv
<1>1. UNCHANGED <<method, contentType, body, exists, once, done, forms, last, xsrf, reads, heirs>>
      /\ drained' = TRUE /\ first' = (first /\ xsrf # "idle") /\ xsrf \notin {"fallback", "token"}
  BY DEF ReadBody, input, InXsrf
<1>2. TypeOK'
  BY <1>1 DEF TypeOK
<1>3. OncesShared' /\ ReadsCounted' /\ HeirsWhole' /\ CopiesUntried'
  BY <1>1 DEF OncesShared, ReadsCounted, Refused, HeirsWhole, CopiesUntried
<1>4. XsrfOK'
  BY <1>1 DEF XsrfOK, Whole
<1> QED
  BY <1>1, <1>2, <1>3, <1>4 DEF BodyReadOnce, ParsedReachesCopies, XsrfLeavesForm

\* A copy has the forms and the sync.Onces of its source.
LEMMA CopyKeeps ==
  ASSUME IInv, NEW r \in Requests, NEW d \in Requests, Copy(r, d)
  PROVE  IInv'
<1> USE DEF IInv
<1>1. /\ r \in exists /\ d \in Copies \ exists /\ exists' = exists \cup {d}
      /\ UNCHANGED <<method, contentType, body, drained, done, last, xsrf, reads, first>>
      /\ xsrf \notin {"fallback", "token"}
  BY DEF Copy, input, InXsrf
<1>2. d \in Requests /\ d # Original /\ d # r
  BY <1>1, RequestAssumption DEF Requests
<1>3. /\ once' = [e \in exists \cup {d} |-> IF e = d THEN once[r] ELSE once[e]]
      /\ forms' = [e \in exists \cup {d} |-> IF e = d THEN forms[r] ELSE forms[e]]
      /\ heirs' = heirs \cup { <<d, k>> : k \in {c \in Calls : <<r, c>> \in heirs} }
  BY <1>1 DEF Copy, SharedOnce, WithForms, CopiedForms
<1>4. once' \in [exists' -> Requests] /\ forms' \in [exists' -> [Calls -> Forms]]
  <2>1. once \in [exists -> Requests] /\ forms \in [exists -> [Calls -> Forms]]
    BY DEF TypeOK
  <2>2. \A e \in exists \cup {d} : (IF e = d THEN once[r] ELSE once[e]) \in Requests
    BY <1>1, <2>1
  <2>3. \A e \in exists \cup {d} : (IF e = d THEN forms[r] ELSE forms[e]) \in [Calls -> Forms]
    BY <1>1, <2>1
  <2> QED
    BY <1>1, <1>3, <2>2, <2>3
<1>5. heirs' \subseteq exists' \X Calls
  <2>1. heirs \subseteq exists' \X Calls
    BY <1>1 DEF TypeOK
  <2>2. { <<d, k>> : k \in {c \in Calls : <<r, c>> \in heirs} } \subseteq exists' \X Calls
    <3>1. \A c \in Calls : <<d, c>> \in exists' \X Calls
      BY <1>1
    <3> QED
      BY <3>1
  <2> QED
    BY <1>3, <2>1, <2>2
<1>6. TypeOK'
  BY <1>1, <1>4, <1>5 DEF TypeOK, Requests
<1>7. forms'[d] = forms[r] /\ \A e \in exists : e # d /\ forms'[e] = forms[e]
  BY <1>1, <1>3
<1>8. OncesShared' /\ CopiesUntried'
  BY <1>1, <1>3 DEF OncesShared, CopiesUntried
<1>9. ReadsCounted'
  BY <1>1, <1>7 DEF ReadsCounted, Refused
<1>10. \A h \in heirs' :
         \/ h \in heirs /\ h[1] \in exists
         \/ h[1] = d /\ <<r, h[2]>> \in heirs /\ h[2] \in Calls
  <2> SUFFICES ASSUME NEW h \in heirs', h \notin heirs
               PROVE  h[1] = d /\ <<r, h[2]>> \in heirs /\ h[2] \in Calls
    BY DEF TypeOK
  <2>1. PICK k \in Calls : <<r, k>> \in heirs /\ h = <<d, k>>
    BY <1>3
  <2> QED
    BY <2>1
<1>11. HeirsWhole'
  <2>1. ASSUME NEW h \in heirs'
        PROVE  reads = 1 /\ forms'[h[1]][h[2]] = "all" /\ <<Original, h[2]>> \in done
    <3>1. CASE h \in heirs /\ h[1] \in exists
      BY <1>7, <3>1 DEF HeirsWhole
    <3>2. CASE h[1] = d /\ <<r, h[2]>> \in heirs
      BY <1>7, <3>2 DEF HeirsWhole
    <3> QED
      BY <1>10, <3>1, <3>2
  <2> QED
    BY <1>1, <2>1 DEF HeirsWhole
<1>12. ParsedReachesCopies'
  <2>1. \A k \in Calls : last[d][k] = "untried"
    BY <1>1, <1>2 DEF CopiesUntried, Untried
  <2> QED
    BY <1>1, <1>10, <2>1 DEF ParsedReachesCopies
<1>13. Whole => Whole'
  BY <1>1, <1>7 DEF Whole, TypeOK
<1>14. XsrfOK' /\ XsrfLeavesForm'
  BY <1>1, <1>13 DEF XsrfOK, XsrfLeavesForm, Whole
<1> QED
  BY <1>1, <1>6, <1>8, <1>9, <1>11, <1>12, <1>14 DEF BodyReadOnce

\* xsrfhtml decides without a call.
LEMMA XsrfDecides ==
  ASSUME IInv, XsrfSkip \/ XsrfReject \/ XsrfToken
  PROVE  IInv'
<1> USE DEF IInv
<1>1. UNCHANGED <<method, contentType, body, drained, exists, once, done, forms, last, reads,
                  first, heirs>>
  BY DEF XsrfSkip, XsrfReject, XsrfToken, input
<1>2. /\ xsrf' \in {"passed", "rejected"}
      /\ xsrf' = "passed" => xsrf = "token" \/ method = "get"
  BY DEF XsrfSkip, XsrfReject, XsrfToken, StatePreserving
<1>3. TypeOK'
  BY <1>1, <1>2 DEF TypeOK
<1>4. OncesShared' /\ ReadsCounted' /\ HeirsWhole' /\ CopiesUntried'
  BY <1>1 DEF OncesShared, ReadsCounted, Refused, HeirsWhole, CopiesUntried
<1>5. Whole <=> Whole'
  BY <1>1 DEF Whole
<1>6. XsrfOK'
  BY <1>1, <1>2, <1>5 DEF XsrfOK
<1>7. XsrfLeavesForm'
  BY <1>1, <1>2, <1>5 DEF XsrfOK, XsrfLeavesForm, Whole
<1> QED
  BY <1>1, <1>3, <1>4, <1>6, <1>7 DEF BodyReadOnce, ParsedReachesCopies

\* The PostForm of xsrfhtml succeeds on a whole form only, if it is the first.
LEMMA XsrfPostFormKeeps ==
  ASSUME IInv, XsrfPostForm
  PROVE  IInv'
<1> DEFINE k == "PostForm"
<1> USE DEF IInv
<1>1. /\ k \in Calls /\ Original \in Requests /\ Call(Original, k)
      /\ xsrf = "idle" /\ first' = first
      /\ xsrf' = IF Result(Original, k) = "error" THEN "fallback" ELSE "token"
  BY DEF XsrfPostForm, IsError, Calls, Requests
<1>2. TypeOK' /\ Core'
  BY <1>1, CallKeeps DEF Core, TypeOK
<1>3. method' = method /\ contentType' = contentType
  BY <1>1 DEF Call, input
<1>4. ASSUME first
      PROVE  /\ done' = {<<Original, k>>} /\ reads = 0 /\ ~drained /\ done = {}
             /\ once[Original] = Original
  BY <1>1, <1>4, CallCases DEF XsrfOK, OncesShared, TypeOK, CallNotes
<1>5. ASSUME first, xsrf' = "fallback", method = "post", contentType = "multipart"
      PROVE  ~drained' /\ reads' = 0
  BY <1>1, <1>4, <1>5, CallCases DEF Refused, Parses, ParsesNot
<1>6. ASSUME first, xsrf' = "token"
      PROVE  Whole'
  <2>1. Result(Original, k) # "error"
    BY <1>1, <1>6
  <2>2. ~Refused(k) /\ ~Parse(k).failed
    BY <1>4, <1>6, <2>1 DEF Result
  <2>3. Parse(k).forms["PostForm"] = "all"
    BY <1>4, <1>6, <2>2 DEF Parse, NoForms, TypeOK, Bodies, Calls
  <2>4. forms'[Original] = Parse(k).forms /\ reads' = 1
    <3>1. forms' = [forms EXCEPT ![Original] = Parse(k).forms] /\ reads' = 1
      <4>1. CallNotes(Original, k) /\ (Parses(Original, k) \/ ParsesNot(k))
        BY <1>1, CallCases
      <4>2. <<Original, k>> \notin done
        BY <1>4, <1>6
      <4> QED
        BY <2>2, <4>1, <4>2 DEF Parses, ParsesNot
    <3> QED
      BY <3>1 DEF TypeOK
  <2>5. contentType # "multipart"
    BY <2>2 DEF Refused
  <2> QED
    BY <1>3, <2>3, <2>4, <2>5 DEF Whole
<1>7. XsrfOK'
  BY <1>1, <1>3, <1>4, <1>5, <1>6 DEF XsrfOK
<1> QED
  BY <1>1, <1>2, <1>7 DEF Core, XsrfLeavesForm

\* Its MultipartForm does so too.
LEMMA XsrfMultipartFormKeeps ==
  ASSUME IInv, XsrfMultipartForm
  PROVE  IInv'
<1> DEFINE k == "MultipartForm"
<1> USE DEF IInv
<1>1. /\ k \in Calls /\ Original \in Requests /\ Call(Original, k)
      /\ xsrf = "fallback" /\ first' = first
      /\ xsrf' \in {"rejected", "token"}
      /\ xsrf' = "token" => Result(Original, k) # "error"
  BY DEF XsrfMultipartForm, IsError, Calls, Requests
<1>2. TypeOK' /\ Core'
  BY <1>1, CallKeeps DEF Core, TypeOK
<1>3. method' = method /\ contentType' = contentType
  BY <1>1 DEF Call, input
<1>4. ASSUME first, xsrf' = "token"
      PROVE  Whole'
  <2>1. <<Original, k>> \notin done /\ once[Original] = Original
    BY <1>1, <1>4 DEF XsrfOK, OncesShared, TypeOK
  <2>2. ~Refused(k) /\ ~Parse(k).failed
    BY <1>1, <1>4, <2>1 DEF Result
  <2>3. ~drained /\ reads = 0
    BY <1>1, <1>4, <2>2 DEF XsrfOK, Refused
  <2>4. \A c \in Calls : Parse(k).forms[c] = "all"
    BY <2>2, <2>3 DEF Parse, TypeOK, Bodies
  <2>5. forms'[Original] = Parse(k).forms /\ reads' = 1
    <3>1. forms' = [forms EXCEPT ![Original] = Parse(k).forms] /\ reads' = 1
      BY <1>1, <2>1, <2>2, CallCases DEF Parses, ParsesNot
    <3> QED
      BY <3>1 DEF TypeOK
  <2> QED
    BY <2>4, <2>5 DEF Whole, Calls
<1>5. XsrfOK'
  BY <1>1, <1>4 DEF XsrfOK
<1> QED
  BY <1>1, <1>2, <1>5 DEF Core, XsrfLeavesForm

-----------------------------------------------------------------------------
(* The theorems.                                                            *)

\* The inductive invariant of a request's body, its forms and its copies.
THEOREM Invariant == Spec => []IInv
<1>1. Init => IInv
  <2> SUFFICES ASSUME Init PROVE IInv
    OBVIOUS
  <2>1. TypeOK
    BY DEF Init, TypeOK, Requests, NoForms, Untried, Forms, Results, Calls
  <2>2. OncesShared /\ ReadsCounted /\ HeirsWhole /\ CopiesUntried
    BY DEF Init, OncesShared, ReadsCounted, HeirsWhole, CopiesUntried
  <2>3. XsrfOK /\ BodyReadOnce /\ ParsedReachesCopies /\ XsrfLeavesForm
    BY DEF Init, XsrfOK, BodyReadOnce, ParsedReachesCopies, XsrfLeavesForm
  <2> QED
    BY <2>1, <2>2, <2>3 DEF IInv
<1>2. IInv /\ [Next]_vars => IInv'
  <2> SUFFICES ASSUME IInv, [Next]_vars PROVE IInv'
    OBVIOUS
  <2>1. CASE UNCHANGED vars
    BY <2>1 DEF vars, input, IInv, TypeOK, OncesShared, ReadsCounted, Refused, HeirsWhole,
                CopiesUntried, XsrfOK, Whole, BodyReadOnce, ParsedReachesCopies, XsrfLeavesForm
  <2> QED
    BY <2>1, ProgramCallKeeps, ReadBodyKeeps, CopyKeeps, XsrfDecides, XsrfPostFormKeeps,
       XsrfMultipartFormKeeps DEF Next
<1> QED
  BY <1>1, <1>2, PTL DEF Spec

\* The body is parsed at most once, however many copies there are and whichever of them
\* the calls are made on.
THEOREM ReadOnce == Spec => []BodyReadOnce
<1>1. IInv => BodyReadOnce
  BY DEF IInv
<1> QED
  BY <1>1, Invariant, PTL

\* A form returned whole once is returned whole ever after, by the copies made since too.
THEOREM CopiesSeeForm == Spec => []ParsedReachesCopies
<1>1. IInv => ParsedReachesCopies
  BY DEF IInv
<1> QED
  BY <1>1, Invariant, PTL

\* The search of xsrfhtml for its token leaves the form of a POST whole for everybody
\* else.
THEOREM XsrfLeavesWhole == Spec => []XsrfLeavesForm
<1>1. IInv => XsrfLeavesForm
  BY DEF IInv
<1> QED
  BY <1>1, Invariant, PTL

=============================================================================
