------------------------------- MODULE Header -------------------------------
(***************************************************************************)
(* The response headers of one flight: safehttp.Header (header.go) wrapped  *)
(* around the http.Header of the underlying http.ResponseWriter.            *)
(*                                                                         *)
(* A name is either free, or claimed: Claim returns a closure, and from     *)
(* then on only that closure writes the name.  "Set-Cookie" can be neither  *)
(* claimed nor set, only appended to by AddCookie.                          *)
(*                                                                         *)
(* The operators below are the methods of Header as actions on the state    *)
(* they change; each one is enabled when the method does not panic.  The    *)
(* module that extends this one says who calls them and when, and what a    *)
(* panic does.  Header names are already canonical: the code canonicalizes  *)
(* before every lookup, so distinct names here are distinct keys there.     *)
(***************************************************************************)
EXTENDS Naturals, Sequences

CONSTANTS
  Names,        \* canonical header names
  Values,       \* header values (a cookie is a value of "Set-Cookie")
  ValueLists,   \* the lists of values that closures of Claim are given
  Shares,       \* <<a, b>>: code of actor b may use the closures a was given
  MaxValues,    \* bound on the values of a name that are added
  MaxCookies,   \* bound on the cookies
  N             \* number of installed interceptors

ASSUME HeaderAssumption ==
  /\ "Set-Cookie" \in Names
  /\ N \in Nat
  /\ MaxValues \in Nat /\ MaxCookies \in Nat
  /\ ValueLists \subseteq Seq(Values)

\* The code that can touch the headers: the interceptors, in the order they
\* were installed, and the handler.
Handler == N + 1
Actors  == 1..Handler

\* What the dispatcher writes besides the program's own values: the media type
\* or text it knows for the kind of response.
DispatcherValues == {"json", "html", "file", "text", "location", "nosniff"}

HeaderValues == Seq(Values \cup DispatcherValues)

VARIABLES
  wrapped,      \* [Names -> HeaderValues], the http.Header of the connection
  claimed,      \* names that were claimed
  setters,      \* [Actors -> SUBSET Names], the closures each actor was given
  promised      \* history: what the claimant last left in a claimed name

headerVars == <<wrapped, claimed, setters, promised>>

NoHeaders == [n \in Names |-> <<>>]

HeaderTypeOK ==
  /\ wrapped  \in [Names -> HeaderValues]
  /\ claimed  \in SUBSET Names
  /\ setters  \in [Actors -> SUBSET Names]
  /\ promised \in [Names -> HeaderValues]

\* NewHeader around the headers the connection already carries.
NewHeader(initial) ==
  /\ wrapped  = initial
  /\ claimed  = {}
  /\ setters  = [a \in Actors |-> {}]
  /\ promised = NoHeaders

-----------------------------------------------------------------------------

\* writableHeader: the check every method below starts with.
WritableButCookie(n)   == n # "Set-Cookie"
WritableButClaimed(n)  == n \notin claimed
WritableHeader(n) == n # "Set-Cookie" /\ n \notin claimed

Claim(a, n) ==
  /\ WritableHeader(n)
  /\ claimed'  = claimed \cup {n}
  /\ setters'  = [setters EXCEPT ![a] = @ \cup {n}]
  /\ promised' = [promised EXCEPT ![n] = wrapped[n]]
  /\ UNCHANGED wrapped

\* The closure returned by Claim; given nil it does nothing, which is a stutter.
UseSetter(a, n, vs) ==
  /\ n \in setters[a]
  /\ wrapped'  = [wrapped EXCEPT ![n] = vs]
  /\ promised' = [promised EXCEPT ![n] = vs]
  /\ UNCHANGED <<claimed, setters>>

Set(n, v) ==
  /\ WritableHeader(n)
  /\ wrapped' = [wrapped EXCEPT ![n] = <<v>>]
  /\ UNCHANGED <<claimed, setters, promised>>

Add(n, v) ==
  /\ WritableHeader(n)
  /\ Len(wrapped[n]) < MaxValues
  /\ wrapped' = [wrapped EXCEPT ![n] = Append(@, v)]
  /\ UNCHANGED <<claimed, setters, promised>>

Del(n) ==
  /\ WritableHeader(n)
  /\ wrapped' = [wrapped EXCEPT ![n] = <<>>]
  /\ UNCHANGED <<claimed, setters, promised>>

\* A cookie with an invalid name is refused with an error and changes nothing.
AddCookie(c) ==
  /\ Len(wrapped["Set-Cookie"]) < MaxCookies
  /\ wrapped' = [wrapped EXCEPT !["Set-Cookie"] = Append(@, c)]
  /\ UNCHANGED <<claimed, setters, promised>>

\* The actors whose closures a may use: its own, and those of an interceptor that
\* left them for it in the values of the flight, as the ones of csp do.
Lenders(a) == {b \in Actors : b = a \/ <<b, a>> \in Shares}

\* One call by actor a that does not panic.
HeaderCall(a) ==
  \/ \E n \in Names : Claim(a, n) \/ Del(n)
  \/ \E n \in Names, v \in Values : Set(n, v) \/ Add(n, v)
  \/ \E b \in Lenders(a), n \in Names, vs \in ValueLists : UseSetter(b, n, vs)
  \/ \E c \in Values : AddCookie(c)
=============================================================================
