----------------------------- MODULE Dispatcher -----------------------------
(***************************************************************************)
(* DefaultDispatcher (default_dispatcher.go): for each kind of response,    *)
(* what one call does to the headers and to the connection and whether it   *)
(* fails (an error, of which the flight makes a panic, or a panic of its    *)
(* own).  Data, templates and bodies are abstract, so a kind whose encoder  *)
(* can fail has several outcomes; the headers leave with the first byte of  *)
(* the body, whether or not the rest of it can be produced.                 *)
(*                                                                         *)
(* The dispatcher is given the raw http.ResponseWriter: it writes           *)
(* Content-Type (and Location) past the claims of Header.                   *)
(***************************************************************************)
EXTENDS Naturals, Sequences

\* The dynamic types Write switches on; any other type is "unsafe".
WriteKinds == {"json", "template", "html", "file", "redirect", "nocontent", "unsafe"}
Kinds      == WriteKinds \cup {"error"}

Statuses == {"ok", "redirect", "nocontent", "error", "servererror"}

\* Names the dispatcher (and the net/http helpers it calls) may write.
DispatcherNames == {"Content-Type", "Location", "X-Content-Type-Options"}

\* http.Header.Set on the raw headers h.
With(h, name, v) == [n \in DOMAIN h |-> IF n = name THEN <<v>> ELSE h[n]]

Outcome(h, status, failed) == [hdr |-> h, status |-> status, failed |-> failed]

\* "none": the call returned before anything was sent.
Unsent == "none"

\* The prefix is sent before the encoder runs.
WriteJSON(h) ==
  { Outcome(With(h, "Content-Type", "json"), "ok", e) : e \in BOOLEAN }

\* Not a safe template; or Clone, escaping or the first action failed; or the
\* template produced no output; or output was sent, and possibly broke off.
WriteTemplate(h) ==
  LET typed == With(h, "Content-Type", "html")
  IN  {Outcome(h, Unsent, TRUE)}
        \cup { Outcome(typed, Unsent, e) : e \in BOOLEAN }
        \cup { Outcome(typed, "ok", e) : e \in BOOLEAN }

WriteHTMLUntyped(h) == { Outcome(h, "ok", e) : e \in BOOLEAN }
WriteHTML(h) ==
  { Outcome(With(h, "Content-Type", "html"), "ok", e) : e \in BOOLEAN }

\* Only the header is set: the file server sends the body afterwards.
WriteFile(h) == { Outcome(With(h, "Content-Type", "file"), Unsent, FALSE) }

\* http.Redirect: a Content-Type already there is kept, and other methods than
\* GET and HEAD get none.  A response without a request panics before that, and a
\* code that is no status code panics when the headers are set.
WriteRedirect(h) ==
  LET located == With(h, "Location", "location")
      bodies  == IF "Content-Type" \in DOMAIN h /\ h["Content-Type"] # <<>>
                   THEN {located}
                   ELSE {located, With(located, "Content-Type", "html")}
  IN  { Outcome(b, "redirect", FALSE) : b \in bodies }
        \cup { Outcome(b, Unsent, TRUE) : b \in bodies \cup {h} }

WriteNoContent(h) == { Outcome(h, "nocontent", FALSE) }

WriteUnsafe(h) == { Outcome(h, Unsent, TRUE) }

\* writeTextError, through http.Error, which sets the headers and then panics if the
\* code is no status code.
WriteTextError(h) ==
  LET typed == With(With(h, "Content-Type", "text"), "X-Content-Type-Options", "nosniff")
  IN  {Outcome(typed, "error", FALSE), Outcome(typed, Unsent, TRUE)}

\* Dispatcher.Write for the kinds of WriteKinds, Dispatcher.Error for "error".
Dispatch(kind, h) ==
  CASE kind = "json"      -> WriteJSON(h)
    [] kind = "template"  -> WriteTemplate(h)
    [] kind = "html"      -> WriteHTML(h)
    [] kind = "file"      -> WriteFile(h)
    [] kind = "redirect"  -> WriteRedirect(h)
    [] kind = "nocontent" -> WriteNoContent(h)
    [] kind = "error"     -> WriteTextError(h)
    [] OTHER              -> WriteUnsafe(h)

\* The Content-Type that goes with a body of this kind.
MediaType(kind) ==
  CASE kind = "json" -> "json"
    [] kind \in {"template", "html"} -> "html"
    [] kind = "error" -> "text"
    [] OTHER -> "none"
=============================================================================
