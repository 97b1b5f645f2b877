------------------------------- MODULE Request -------------------------------
(***************************************************************************)
(* The form in the body of one request (incoming_request.go): PostForm and  *)
(* MultipartForm, which parse it the first time they are called, and the    *)
(* copies of an IncomingRequest that WithContext and StripPrefix hand to    *)
(* other code.  A copy shares with its source the sync.Onces and the body,  *)
(* but has an http.Request of its own, and with it its own parsed forms.    *)
(*                                                                         *)
(* Interceptors and the handler make the calls, in any order; one of the    *)
(* interceptors is xsrfhtml, whose Before looks for its token in the form   *)
(* and thereby parses it for everybody else.                                *)
(***************************************************************************)
EXTENDS Naturals

CONSTANTS
  Original,    \* the IncomingRequest made by NewIncomingRequest
  Copies,      \* those the program may make from it
  MaxReads     \* bound on the parses of the body, above what the code makes

Requests == {Original} \cup Copies

ASSUME RequestAssumption == Original \notin Copies /\ MaxReads \in Nat

\* Content-Type, exactly the one of PostForm, with the prefix MultipartForm wants,
\* or neither; and what net/http makes of body and query.
ContentTypes == {"urlencoded", "multipart", "other"}
Bodies       == {"good", "broken", "badQuery"}

\* What a form holds of the body: "nil" and "none" are the nil and the empty map.
Forms == {"nil", "none", "some", "all"}
Calls == {"PostForm", "MultipartForm"}

VARIABLES
  method,      \* "get", "post" (or PUT, PATCH), "delete"
  contentType, body,
  drained,     \* the body was read
  exists,      \* IncomingRequests made so far
  once,        \* [exists -> the request whose sync.Onces it points to]
  done,        \* <<request, call>> pairs: the sync.Onces that ran
  forms,       \* [exists -> [PostForm, MultipartForm]] of its http.Request
  last,        \* [Requests -> [Calls -> result]] of the last call of each kind
  xsrf,        \* xsrfhtml: "idle", "fallback", "token", "passed", "rejected"
  reads,       \* history: parses that read the body
  first,       \* history: nobody touched the form before xsrfhtml
  heirs        \* history: <<request, call>>: forms whole there, or at its source

input == <<method, contentType, body>>
vars  == <<input, drained, exists, once, done, forms, last, xsrf, reads, first, heirs>>

Untried == [k \in Calls |-> "untried"]
NoForms == [k \in Calls |-> "nil"]

Init ==
  /\ method \in {"get", "post", "delete"}
  /\ contentType \in ContentTypes /\ body \in Bodies
  /\ drained = FALSE
  /\ exists = {Original}
  /\ once = [r \in exists |-> r]
  /\ done = {}
  /\ forms = [r \in exists |-> NoForms]
  /\ last = [r \in Requests |-> Untried]
  /\ xsrf = "idle" /\ reads = 0 /\ first = TRUE /\ heirs = {}

-----------------------------------------------------------------------------
(* net/http: Request.ParseForm and Request.ParseMultipartForm, as PostForm  *)
(* and MultipartForm reach them.                                            *)

\* The forms of a request after the parse, and whether it failed.  A broken
\* urlencoded body leaves the pairs before the error, a bad query nothing out; a
\* multipart body goes to both forms, or to neither.
Parse(call) ==
  LET whole == IF call = "PostForm" THEN [NoForms EXCEPT !["PostForm"] = "all"]
                                    ELSE [k \in Calls |-> "all"]
      part  == [NoForms EXCEPT !["PostForm"] = IF call = "PostForm" THEN "some" ELSE "none"]
      empty == [NoForms EXCEPT !["PostForm"] = "none"]
  IN  IF drained THEN [forms |-> empty,
                      failed |-> call = "MultipartForm" \/ body = "badQuery"]
      ELSE CASE body = "good"     -> [forms |-> whole, failed |-> FALSE]
             [] body = "badQuery" -> [forms |-> whole, failed |-> TRUE]
             [] OTHER             -> [forms |-> part,  failed |-> TRUE]

-----------------------------------------------------------------------------
(* PostForm and MultipartForm.                                              *)

\* The method, or the Content-Type, is not one the call parses.
Refused(call) ==
  \/ method # "post"
  \/ contentType # IF call = "PostForm" THEN "urlencoded" ELSE "multipart"

\* What is returned for the form in r's http.Request: PostForm reads a nil map as
\* an empty form, newMulipartForm follows the nil pointer.
FromField(call, field) ==
  IF field # "nil" THEN field ELSE IF call = "PostForm" THEN "none" ELSE "panic"

Result(r, call) ==
  IF <<once[r], call>> \in done THEN FromField(call, forms[r][call])
  ELSE IF Refused(call) \/ Parse(call).failed THEN "error"
  ELSE Parse(call).forms[call]

\* One call.  Another call's form is kept by a parse that does not make it.
Call(r, call) ==
  LET parses == <<once[r], call>> \notin done /\ ~Refused(call)
  IN  /\ r \in exists
      /\ parses => reads < MaxReads
      /\ done' = done \cup {<<once[r], call>>}
      /\ forms' = IF parses THEN [forms EXCEPT ![r] = Parse(call).forms] ELSE forms
      /\ drained' = (drained \/ parses)
      /\ reads' = IF parses THEN reads + 1 ELSE reads
      /\ last' = [last EXCEPT ![r][call] = Result(r, call)]
      /\ heirs' = IF Result(r, call) = "all" THEN heirs \cup {<<r, call>>} ELSE heirs
      /\ UNCHANGED <<input, exists, once>>

\* Interceptors run one after the other on the goroutine of the request.
InXsrf == xsrf \in {"fallback", "token"}

PostForm(r) ==
  /\ ~InXsrf /\ Call(r, "PostForm")
  /\ first' = (first /\ xsrf # "idle") /\ UNCHANGED xsrf

MultipartForm(r) ==
  /\ ~InXsrf /\ Call(r, "MultipartForm")
  /\ first' = (first /\ xsrf # "idle") /\ UNCHANGED xsrf

\* Body: the program reads it itself.
ReadBody ==
  /\ ~InXsrf /\ drained' = TRUE
  /\ first' = (first /\ xsrf # "idle")
  /\ UNCHANGED <<input, exists, once, done, forms, last, xsrf, reads, heirs>>

-----------------------------------------------------------------------------
(* Copies.                                                                  *)

\* The fields of copy d of r: *r2 = *r copies the pointers to the sync.Onces, and
\* its http.Request is a shallow copy of r's.
OwnOnce(r, d)    == d
SharedOnce(r, d) == once[r]

FreshForms(r)  == NoForms
CopiedForms(r) == forms[r]

WithForms(d, r) == [e \in exists \cup {d} |-> IF e = d THEN CopiedForms(r) ELSE forms[e]]

\* WithContext, or WithStrippedURLPrefix with a prefix that matches; one that does
\* not match gives an error, on which StripPrefix panics, and no copy.
Copy(r, d) ==
  /\ ~InXsrf /\ r \in exists /\ d \in Copies \ exists
  /\ exists' = exists \cup {d}
  /\ once' = [e \in exists' |-> IF e = d THEN SharedOnce(r, d) ELSE once[e]]
  /\ forms' = WithForms(d, r)
  /\ heirs' = heirs \cup { <<d, k>> : k \in {c \in Calls : <<r, c>> \in heirs} }
  /\ UNCHANGED <<input, drained, done, last, xsrf, reads, first>>

-----------------------------------------------------------------------------
(* xsrfhtml.Interceptor.Before on the request the flight was given.         *)

StatePreserving == method = "get"

\* A request that preserves state goes on; without the cookie it is rejected.
XsrfSkip   == /\ xsrf = "idle" /\ xsrf' = "passed" /\ StatePreserving
              /\ UNCHANGED <<input, drained, exists, once, done, forms, last, reads, first, heirs>>
XsrfReject == /\ xsrf = "idle" /\ xsrf' = "rejected" /\ ~StatePreserving
              /\ UNCHANGED <<input, drained, exists, once, done, forms, last, reads, first, heirs>>

ErrorIgnored(result) == FALSE
IsError(result)      == result = "error"

XsrfPostForm ==
  /\ xsrf = "idle" /\ ~StatePreserving
  /\ Call(Original, "PostForm")
  /\ xsrf' = IF IsError(Result(Original, "PostForm")) THEN "fallback" ELSE "token"
  /\ UNCHANGED first

\* A panic of MultipartForm ends the Before as well.
XsrfMultipartForm ==
  /\ xsrf = "fallback"
  /\ Call(Original, "MultipartForm")
  /\ xsrf' = IF IsError(Result(Original, "MultipartForm")) \/ Result(Original, "MultipartForm") = "panic"
               THEN "rejected" ELSE "token"
  /\ UNCHANGED first

\* The token: missing in a form without any value, else there and valid, or not.
XsrfToken ==
  LET f == last[Original][IF last[Original]["PostForm"] = "error" THEN "MultipartForm" ELSE "PostForm"]
  IN  /\ xsrf = "token"
      /\ xsrf' \in IF f = "none" THEN {"rejected"} ELSE {"passed", "rejected"}
      /\ UNCHANGED <<input, drained, exists, once, done, forms, last, reads, first, heirs>>

-----------------------------------------------------------------------------
Next ==
  \/ \E r \in Requests : PostForm(r) \/ MultipartForm(r)
  \/ \E r, d \in Requests : Copy(r, d)
  \/ ReadBody
  \/ XsrfSkip \/ XsrfReject \/ XsrfPostForm \/ XsrfMultipartForm \/ XsrfToken

Spec == Init /\ [][Next]_vars
-----------------------------------------------------------------------------
(* Properties.                                                              *)

\* However many copies of a request there are and whichever of them PostForm and
\* MultipartForm are called on, the body is parsed at most once.
BodyReadOnce == reads <= 1

\* A call that once returned the whole form returns it ever after, on the same
\* request and on every copy made since.
ParsedReachesCopies ==
  \A h \in heirs : last[h[1]][h[2]] # "all" => last[h[1]][h[2]] = "untried"

\* When xsrfhtml is the first to touch the form of a POST and lets it pass, the
\* parsed forms of the request it was given are whole from then on: PostForm finds
\* all of a multipart body too, though the first PostForm failed on that.
XsrfLeavesForm ==
  (xsrf = "passed" /\ first /\ method = "post") =>
    /\ forms[Original]["PostForm"] = "all"
    /\ contentType = "multipart" => forms[Original]["MultipartForm"] = "all"

-----------------------------------------------------------------------------
(* What the documentation says and the code does not do.                    *)

\* incoming_request.go:81-82: "If a parsing error occurs it will return it, together
\* with a nil Form."  A request whose PostForm gave an error gives no Form later.
ErrorStays ==
  [][ \A r \in Requests : last[r]["PostForm"] = "error" => last'[r]["PostForm"] = "error" ]_vars
=============================================================================
