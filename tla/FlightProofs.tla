---------------------------- MODULE FlightProofs ----------------------------
(***************************************************************************)
(* Theorems about Flight, for every number of interceptors, every set of    *)
(* header names and values, and programs that recover panics or do not.     *)
(* They are about Steps, Flight's specification without its fairness.        *)
(***************************************************************************)
EXTENDS Flight, SequenceTheorems, TLAPS

-----------------------------------------------------------------------------
(* The dispatcher.                                                          *)

\* Setting a header of the dispatcher leaves a header map that differs from the
\* old one at most in that name.
LEMMA WithType ==
  ASSUME NEW h \in [Names -> HeaderValues], NEW name, NEW v \in DispatcherValues
  PROVE  /\ With(h, name, v) \in [Names -> HeaderValues]
         /\ \A n \in Names : n # name => With(h, name, v)[n] = h[n]
         /\ name \in Names => With(h, name, v)[name] = <<v>>
<1>1. <<v>> \in HeaderValues
  BY DEF HeaderValues
<1> HIDE DEF HeaderValues
<1> QED  BY <1>1 DEF With

\* Whatever the kind of response, the dispatcher leaves a header map, has only
\* written the names it owns, and sends a body under the type of its kind.
LEMMA DispatchOutcome ==
  ASSUME NEW kind \in Kinds, NEW h \in [Names -> HeaderValues],
         NEW o \in Dispatch(kind, h)
  PROVE  /\ o.hdr \in [Names -> HeaderValues]
         /\ o.status \in Statuses \cup {Unsent}
         /\ o.failed \in BOOLEAN
         /\ \A n \in Names \ DispatcherNames : o.hdr[n] = h[n]
         /\ (/\ kind \in {"json", "template", "html", "error"}
             /\ "Content-Type" \in Names
             /\ o.status # Unsent)
              => o.hdr["Content-Type"] = <<MediaType(kind)>>
<1> DEFINE P(x) ==
             /\ x.hdr \in [Names -> HeaderValues]
             /\ x.status \in Statuses \cup {Unsent}
             /\ x.failed \in BOOLEAN
             /\ \A n \in Names \ DispatcherNames : x.hdr[n] = h[n]
           Typed(x, t) ==
             ("Content-Type" \in Names /\ x.status # Unsent)
               => x.hdr["Content-Type"] = <<t>>
<1>1. ASSUME NEW g \in [Names -> HeaderValues], NEW name \in DispatcherNames,
             NEW v \in DispatcherValues,
             \A n \in Names \ DispatcherNames : g[n] = h[n]
      PROVE  /\ With(g, name, v) \in [Names -> HeaderValues]
             /\ \A n \in Names \ DispatcherNames : With(g, name, v)[n] = h[n]
             /\ \A n \in Names : n # name => With(g, name, v)[n] = g[n]
             /\ name \in Names => With(g, name, v)[name] = <<v>>
  <2>1. /\ With(g, name, v) \in [Names -> HeaderValues]
        /\ \A n \in Names : n # name => With(g, name, v)[n] = g[n]
        /\ name \in Names => With(g, name, v)[name] = <<v>>
    BY WithType
  <2> QED  BY <1>1, <2>1
<1>2. "Content-Type" \in DispatcherNames /\ "Location" \in DispatcherNames
        /\ "X-Content-Type-Options" \in DispatcherNames
  BY DEF DispatcherNames
<1>3. {"json", "html", "file", "text", "location", "nosniff"} = DispatcherValues
  BY DEF DispatcherValues
<1>4. ASSUME NEW g \in [Names -> HeaderValues], NEW s \in Statuses \cup {Unsent},
             NEW e \in BOOLEAN, \A n \in Names \ DispatcherNames : g[n] = h[n]
      PROVE  P(Outcome(g, s, e))
  BY <1>4 DEF Outcome
<1>5. "ok" \in Statuses /\ "redirect" \in Statuses /\ "nocontent" \in Statuses
        /\ "error" \in Statuses
  BY DEF Statuses
<1> DEFINE html == With(h, "Content-Type", "html")
<1>6. /\ html \in [Names -> HeaderValues]
      /\ \A n \in Names \ DispatcherNames : html[n] = h[n]
      /\ "Content-Type" \in Names => html["Content-Type"] = <<"html">>
  BY <1>1, <1>2, <1>3
<1>7. CASE kind = "json"
  <2> DEFINE json == With(h, "Content-Type", "json")
  <2>1. PICK e \in BOOLEAN : o = Outcome(json, "ok", e)
    BY <1>7 DEF Dispatch, WriteJSON
  <2>2. /\ json \in [Names -> HeaderValues]
        /\ \A n \in Names \ DispatcherNames : json[n] = h[n]
        /\ "Content-Type" \in Names => json["Content-Type"] = <<"json">>
    BY <1>1, <1>2, <1>3
  <2>3. P(o)
    <3> HIDE DEF json, P
    <3> QED  BY <1>4, <1>5, <2>1, <2>2
  <2>4. Typed(o, "json")
    <3> HIDE DEF json
    <3> QED  BY <2>1, <2>2 DEF Outcome
  <2> QED  BY <1>7, <2>3, <2>4 DEF MediaType
<1>8. CASE kind = "template"
  <2>1. CASE o = Outcome(h, Unsent, TRUE)
    <3>1. P(o)
      <4> HIDE DEF P
      <4> QED  BY <1>4, <2>1
    <3>2. Typed(o, "html")
      BY <2>1 DEF Outcome
    <3> QED  BY <1>8, <3>1, <3>2 DEF MediaType
  <2>2. ASSUME NEW s \in {Unsent, "ok"}, NEW e \in BOOLEAN, o = Outcome(html, s, e)
        PROVE  P(o) /\ Typed(o, "html")
    <3>1. P(o)
      <4> HIDE DEF html, P
      <4> QED  BY <1>4, <1>5, <1>6, <2>2
    <3>2. Typed(o, "html")
      <4> HIDE DEF html
      <4> QED  BY <1>6, <2>2 DEF Outcome
    <3> QED  BY <3>1, <3>2
  <2>3. \/ o = Outcome(h, Unsent, TRUE)
        \/ \E e \in BOOLEAN : o = Outcome(html, Unsent, e)
        \/ \E e \in BOOLEAN : o = Outcome(html, "ok", e)
    BY <1>8 DEF Dispatch, WriteTemplate
  <2>4. CASE o # Outcome(h, Unsent, TRUE)
    <3>1. PICK s \in {Unsent, "ok"}, e \in BOOLEAN : o = Outcome(html, s, e)
      <4> HIDE DEF html
      <4> QED  BY <2>3, <2>4
    <3>2. P(o) /\ Typed(o, "html")
      BY <2>2, <3>1
    <3> QED  BY <1>8, <3>2 DEF MediaType
  <2> QED  BY <2>1, <2>4
<1>9. CASE kind = "html"
  <2>1. PICK e \in BOOLEAN : o = Outcome(html, "ok", e)
    BY <1>9 DEF Dispatch, WriteHTML
  <2>2. P(o)
    <3> HIDE DEF html, P
    <3> QED  BY <1>4, <1>5, <1>6, <2>1
  <2>3. Typed(o, "html")
    <3> HIDE DEF html
    <3> QED  BY <1>6, <2>1 DEF Outcome
  <2> QED  BY <1>9, <2>2, <2>3 DEF MediaType
<1>10. CASE kind = "file"
  <2> DEFINE file == With(h, "Content-Type", "file")
  <2>1. o = Outcome(file, Unsent, FALSE)
    BY <1>10 DEF Dispatch, WriteFile
  <2>2. /\ file \in [Names -> HeaderValues]
        /\ \A n \in Names \ DispatcherNames : file[n] = h[n]
    BY <1>1, <1>2, <1>3
  <2>3. P(o)
    <3> HIDE DEF file, P
    <3> QED  BY <1>4, <2>1, <2>2
  <2> QED  BY <1>10, <2>3
<1>11. CASE kind = "redirect"
  <2> DEFINE located == With(h, "Location", "location")
             full    == With(located, "Content-Type", "html")
  <2>1. \/ o = Outcome(located, "redirect", FALSE) \/ o = Outcome(full, "redirect", FALSE)
        \/ o = Outcome(located, Unsent, TRUE) \/ o = Outcome(full, Unsent, TRUE)
        \/ o = Outcome(h, Unsent, TRUE)
    BY <1>11 DEF Dispatch, WriteRedirect
  <2>2. /\ located \in [Names -> HeaderValues]
        /\ \A n \in Names \ DispatcherNames : located[n] = h[n]
    BY <1>1, <1>2, <1>3
  <2>3. /\ full \in [Names -> HeaderValues]
        /\ \A n \in Names \ DispatcherNames : full[n] = h[n]
    <3> HIDE DEF located
    <3> QED  BY <1>1, <1>2, <1>3, <2>2
  <2>4. P(o)
    <3> HIDE DEF located, full, P
    <3> QED  BY <1>4, <1>5, <2>1, <2>2, <2>3
  <2> QED  BY <1>11, <2>4
<1>12. CASE kind = "nocontent"
  <2>1. o = Outcome(h, "nocontent", FALSE)
    BY <1>12 DEF Dispatch, WriteNoContent
  <2>2. P(o)
    <3> HIDE DEF P
    <3> QED  BY <1>4, <1>5, <2>1
  <2> QED  BY <1>12, <2>2
<1>13. CASE kind = "error"
  <2> DEFINE typed == With(h, "Content-Type", "text")
             full  == With(typed, "X-Content-Type-Options", "nosniff")
  <2>1. o = Outcome(full, "error", FALSE) \/ o = Outcome(full, Unsent, TRUE)
    BY <1>13 DEF Dispatch, WriteTextError
  <2>2. /\ typed \in [Names -> HeaderValues]
        /\ \A n \in Names \ DispatcherNames : typed[n] = h[n]
        /\ "Content-Type" \in Names => typed["Content-Type"] = <<"text">>
    BY <1>1, <1>2, <1>3
  <2>3. /\ full \in [Names -> HeaderValues]
        /\ \A n \in Names \ DispatcherNames : full[n] = h[n]
        /\ \A n \in Names : n # "X-Content-Type-Options" => full[n] = typed[n]
    <3> HIDE DEF typed
    <3> QED  BY <1>1, <1>2, <1>3, <2>2
  <2>4. P(o)
    <3> HIDE DEF full, P
    <3> QED  BY <1>4, <1>5, <2>1, <2>3
  <2>5. Typed(o, "text")
    <3> HIDE DEF typed, full
    <3> QED  BY <2>1, <2>2, <2>3 DEF Outcome
  <2> QED  BY <1>13, <2>4, <2>5 DEF MediaType
<1>14. CASE kind = "unsafe"
  <2>1. o = Outcome(h, Unsent, TRUE)
    BY <1>14 DEF Dispatch, WriteUnsafe
  <2>2. P(o)
    <3> HIDE DEF P
    <3> QED  BY <1>4, <2>1
  <2> QED  BY <1>14, <2>2
<1> QED
  BY <1>7, <1>8, <1>9, <1>10, <1>11, <1>12, <1>13, <1>14 DEF Kinds, WriteKinds

-----------------------------------------------------------------------------
(* Type correctness.                                                        *)

Wires == [by : Senders, status : Statuses \cup {Unsent}, hdr : [Names -> HeaderValues]]

\* The empty header map is a header map.
LEMMA NoHeadersType == NoHeaders \in [Names -> HeaderValues]
<1>1. <<>> \in HeaderValues
  BY DEF HeaderValues
<1> QED  BY <1>1 DEF NoHeaders

\* A header method keeps the types of the header state.
LEMMA HeaderCallType ==
  ASSUME HeaderTypeOK, NEW a \in Actors, HeaderCall(a)
  PROVE  HeaderTypeOK'
<1> USE DEF HeaderTypeOK
<1>0. "Set-Cookie" \in Names
  BY HeaderAssumption
<1>1. \A v \in Values : <<v>> \in HeaderValues
  BY DEF HeaderValues
<1>2. \A n \in Names, v \in Values : Append(wrapped[n], v) \in HeaderValues
  BY AppendProperties DEF HeaderValues
<1>3. <<>> \in HeaderValues
  BY DEF HeaderValues
<1>4. ASSUME NEW n \in Names, Claim(a, n) PROVE HeaderTypeOK'
  BY <1>4 DEF Claim
<1>5. ASSUME NEW n \in Names, Del(n) PROVE HeaderTypeOK'
  BY <1>3, <1>5 DEF Del
<1>6. ASSUME NEW b \in Lenders(a), NEW n \in Names, NEW vs \in ValueLists,
             UseSetter(b, n, vs)
      PROVE  HeaderTypeOK'
  <2>1. vs \in HeaderValues
    BY HeaderAssumption DEF HeaderValues
  <2> QED  BY <1>6, <2>1 DEF UseSetter
<1>7. ASSUME NEW n \in Names, NEW v \in Values, Set(n, v) PROVE HeaderTypeOK'
  BY <1>1, <1>7 DEF Set
<1>8. ASSUME NEW n \in Names, NEW v \in Values, Add(n, v) PROVE HeaderTypeOK'
  BY <1>2, <1>8 DEF Add
<1>9. ASSUME NEW c \in Values, AddCookie(c) PROVE HeaderTypeOK'
  BY <1>0, <1>2, <1>9 DEF AddCookie
<1> QED  BY <1>4, <1>5, <1>6, <1>7, <1>8, <1>9 DEF HeaderCall

\* What is sent first is what was sent.
LEMMA SendType ==
  ASSUME wire \in Wires, NEW by \in Senders, NEW status \in Statuses \cup {Unsent},
         NEW hdr \in [Names -> HeaderValues]
  PROVE  Send(by, status, hdr) \in Wires
  BY DEF Send, Wires

\* A call into the dispatcher keeps the types.
LEMMA HandedType ==
  ASSUME HeaderTypeOK, wire \in Wires, NEW kind \in Kinds, NEW o, Handed(kind, o)
  PROVE  HeaderTypeOK' /\ wire' \in Wires
<1>1. o \in Dispatch(kind, wrapped) /\ wrapped \in [Names -> HeaderValues]
  BY DEF Handed, HeaderTypeOK
<1>2. o.hdr \in [Names -> HeaderValues] /\ o.status \in Statuses \cup {Unsent}
  BY <1>1, DispatchOutcome
<1>3. HeaderTypeOK'
  BY <1>2 DEF Handed, HeaderTypeOK
<1>4. wire' = Send("dispatcher", o.status, o.hdr)
  BY DEF Handed
<1>5. wire' \in Wires
  BY <1>2, <1>4, SendType DEF Senders
<1> QED  BY <1>3, <1>5

\* A flight starts with variables of their types.
LEMMA InitTypes ==
  ASSUME Init
  PROVE  TypeOK
<1> USE DEF TypeOK, Wires
<1>0. N \in Nat /\ Handler \in Nat /\ Handler = N + 1 /\ Actors = 1..Handler
  BY HeaderAssumption DEF Handler, Actors
<1>1. HeaderTypeOK
  BY NoHeadersType, FlightAssumption DEF Init, NewHeader, HeaderTypeOK
<1>2. wire \in Wires
  BY NoHeadersType DEF Init, NothingSent, Senders
<1>3. commits \in Seq(1..N)
  BY EmptySeq DEF Init
<1>4. pc \in Places /\ cur \in Actors /\ commitAt \in 0..N
  BY <1>0 DEF Init, Places
<1> QED  BY <1>1, <1>2, <1>3, <1>4 DEF Init

\* No step of a flight leaves the types: no index of the two loops runs past its end,
\* and the commit order never names an interceptor that does not exist.
LEMMA TypeStep ==
  ASSUME TypeOK, [Next]_vars
  PROVE  TypeOK'
<1> USE DEF TypeOK, Wires
<1>0. N \in Nat /\ Handler \in Nat /\ Handler = N + 1 /\ Actors = 1..Handler
  BY HeaderAssumption DEF Handler, Actors
<1> USE DEF Places
<1>1. CASE UserHeaderCall
  <2>1. HeaderTypeOK'
    BY <1>0, <1>1, HeaderCallType DEF UserHeaderCall, InCommit, CommitPending
  <2> QED  BY <1>1, <2>1 DEF UserHeaderCall, flightVars
<1>2. CASE UserPanic
  BY <1>2 DEF UserPanic, HeaderTypeOK, headerVars
<1>3. CASE UserRecover
  BY <1>3 DEF UserRecover, HeaderTypeOK, headerVars
<1>4. CASE FileBody
  <2>1. wire' \in Wires
    BY <1>4, SendType DEF FileBody, Senders, Statuses, HeaderTypeOK
  <2> QED  BY <1>4, <2>1 DEF FileBody, HeaderTypeOK, headerVars
<1>5. CASE WriteError
  BY <1>0, <1>5 DEF WriteError, EnterWrite, Kinds, HeaderTypeOK, headerVars
<1>6. ASSUME NEW kind \in WriteKinds, Write(kind) PROVE TypeOK'
  BY <1>0, <1>6 DEF Write, EnterWrite, Kinds, HeaderTypeOK, headerVars
<1>7. CASE CommitReturn
  <2>1. commitAt \in 1..N
    BY <1>0, <1>7 DEF CommitReturn, InCommit, CommitPending
  <2>2. commitAt' \in 0..N
    BY <1>0, <1>7, <2>1 DEF CommitReturn
  <2>3. commits' \in Seq(1..N)
    BY <1>7, <2>1, AppendProperties DEF CommitReturn
  <2> QED  BY <1>7, <2>2, <2>3 DEF CommitReturn, HeaderTypeOK, headerVars
<1>8. CASE DispatchResponse
  <2>1. PICK o \in Dispatch(resp, wrapped) : Handed(resp, o)
    BY <1>8 DEF DispatchResponse
  <2>2. CASE resp \in Kinds
    BY <1>8, <2>1, <2>2, HandedType DEF DispatchResponse, Handed
  <2>3. CASE resp = "none"
    <3>1. o = Outcome(wrapped, Unsent, TRUE)
      BY <2>1, <2>3 DEF Dispatch, WriteUnsafe
    <3>2. wire' = wire /\ wrapped' = wrapped
      BY <2>1, <3>1 DEF Handed, Send, Outcome
    <3> QED  BY <1>8, <2>1, <3>2 DEF DispatchResponse, Handed, HeaderTypeOK
  <2> QED  BY <2>2, <2>3
<1>9. CASE BeforeReturn
  BY <1>0, <1>9 DEF BeforeReturn, InBefore, HeaderTypeOK, headerVars
<1>10. CASE HandlerReturnWritten
  BY <1>10 DEF HandlerReturnWritten, HeaderTypeOK, headerVars
<1>11. CASE HandlerReturnNothing
  <2>1. "nocontent" \in Kinds
    BY DEF Kinds, WriteKinds
  <2>2. PICK o \in Dispatch("nocontent", wrapped) : Handed("nocontent", o)
    BY <1>11 DEF HandlerReturnNothing
  <2>3. HeaderTypeOK' /\ wire' \in Wires
    BY <2>1, <2>2, HandedType
  <2> QED  BY <1>11, <2>2, <2>3 DEF HandlerReturnNothing, Handed
<1>12. CASE ClearAndRepanic
  BY <1>12, NoHeadersType DEF ClearAndRepanic, ClearHeaders, HeaderTypeOK
<1>13. CASE ServerFinish
  <2>1. wire' \in Wires
    BY <1>13, SendType DEF ServerFinish, Senders, Statuses, HeaderTypeOK
  <2> QED  BY <1>13, <2>1 DEF ServerFinish, HeaderTypeOK, headerVars
<1>14. CASE OuterRecover
  <2>1. wire' \in Wires
    BY <1>14, SendType DEF OuterRecover, Senders, Statuses, HeaderTypeOK
  <2> QED  BY <1>14, <2>1 DEF OuterRecover, HeaderTypeOK, headerVars
<1>15. CASE UNCHANGED vars
  BY <1>15 DEF vars, flightVars, HeaderTypeOK, headerVars
<1> QED
  BY <1>1, <1>2, <1>3, <1>4, <1>5, <1>6, <1>7, <1>8, <1>9, <1>10, <1>11, <1>12,
     <1>13, <1>14, <1>15 DEF Next, UserCode, Framework, Finished

\* Every variable of a flight keeps its type.
THEOREM TypeCorrect == Steps => []TypeOK
<1> QED  BY InitTypes, TypeStep, PTL DEF Steps

-----------------------------------------------------------------------------
(* Order: who runs, who has committed, what was dispatched.                 *)

\* The interceptors that have committed are the last ones, in reverse order.
CommitPrefix ==
  /\ Len(commits) = N - commitAt
  /\ \A i \in 1..Len(commits) : commits[i] = N + 1 - i

\* Why the order is right: nothing has happened to an unwritten response, the
\* dispatcher is reached with all commits done, and it alone makes the connection
\* carry anything of the response.
Order ==
  /\ CommitPrefix
  /\ ~written => resp = "none" /\ commitAt = N /\ pc # "commit"
  /\ ~written /\ pc # "done" => dispatched = 0
  /\ written => resp \in Kinds
  /\ pc = "commit" => dispatched = 0
  /\ dispatched <= 1
  /\ written /\ dispatched > 0 => commitAt = 0
  /\ wire.by \in {"dispatcher", "filebody"} => dispatched > 0

\* Without recovery a response that was written and not dispatched is on its way.
Progress ==
  ~Recovers =>
    /\ written /\ dispatched = 0 => pc \in {"commit", "unwind", "crashed"}
    /\ pc = "done" => dispatched = 1

\* The step lemma of the two invariants above.
LEMMA OrderStep ==
  ASSUME TypeOK, Order, Progress, [Next]_vars
  PROVE  Order' /\ Progress'
<1>0. N \in Nat /\ Handler = N + 1 /\ Actors = 1..Handler
  BY HeaderAssumption DEF Handler, Actors
<1> USE DEF TypeOK, Order, Progress, CommitPrefix
<1>1. CASE UserHeaderCall
  BY <1>1 DEF UserHeaderCall, flightVars
<1>2. CASE UserPanic
  BY <1>2 DEF UserPanic, InUser, InCommit
<1>3. CASE UserRecover
  BY <1>3 DEF UserRecover, MayRecover
<1>4. CASE FileBody
  BY <1>4 DEF FileBody, InUser, Send, Unsent
<1>5. ASSUME NEW kind \in Kinds, EnterWrite(kind) PROVE Order' /\ Progress'
  BY <1>0, <1>5 DEF EnterWrite, InUser, MayWrite
<1>6. CASE WriteError
  BY <1>5, <1>6 DEF WriteError, Kinds
<1>7. ASSUME NEW kind \in WriteKinds, Write(kind) PROVE Order' /\ Progress'
  BY <1>5, <1>7 DEF Write, Kinds
<1>8. CASE CommitReturn
  <2>1. commitAt \in 1..N /\ commits' = Append(commits, commitAt)
          /\ commitAt' = commitAt - 1
    BY <1>0, <1>8 DEF CommitReturn, InCommit, CommitPending
  <2>2. /\ Len(commits') = Len(commits) + 1
        /\ \A i \in 1..Len(commits) : commits'[i] = commits[i]
        /\ commits'[Len(commits) + 1] = commitAt
    BY <2>1, AppendProperties
  <2>3. CommitPrefix'
    BY <1>0, <2>1, <2>2
  <2> QED  BY <1>8, <2>3 DEF CommitReturn, InCommit
<1>9. CASE DispatchResponse
  <2>1. commitAt = 0 /\ pc = "commit"
    BY <1>0, <1>9 DEF DispatchResponse, CommitPending
  <2>2. dispatched' = dispatched + 1
    BY <1>9 DEF DispatchResponse, Handed
  <2> QED  BY <1>9, <2>1, <2>2 DEF DispatchResponse
<1>10. CASE BeforeReturn
  BY <1>10 DEF BeforeReturn, InUser, EndsChain
<1>11. CASE HandlerReturnWritten
  BY <1>11 DEF HandlerReturnWritten, InUser
<1>12. CASE HandlerReturnNothing
  <2>1. dispatched' = dispatched + 1
    BY <1>12 DEF HandlerReturnNothing, Handed
  <2> QED  BY <1>12, <2>1 DEF HandlerReturnNothing, InUser
<1>13. CASE ClearAndRepanic
  BY <1>13 DEF ClearAndRepanic
<1>14. CASE ServerFinish
  BY <1>14 DEF ServerFinish, Send, Unsent
<1>15. CASE OuterRecover
  BY <1>15 DEF OuterRecover, Send, Unsent
<1>16. CASE UNCHANGED vars
  BY <1>16 DEF vars, flightVars
<1> QED
  BY <1>1, <1>2, <1>3, <1>4, <1>6, <1>7, <1>8, <1>9, <1>10, <1>11, <1>12, <1>13,
     <1>14, <1>15, <1>16 DEF Next, UserCode, Framework, Finished

\* Order and Progress hold throughout a flight.
LEMMA OrderHolds == Steps => [](Order /\ Progress)
<1>1. Init => Order /\ Progress
  <2>1. N \in Nat
    BY HeaderAssumption
  <2> QED  BY <2>1 DEF Init, Order, Progress, CommitPrefix, NothingSent
<1>2. TypeOK /\ Order /\ Progress /\ [Next]_vars => (Order /\ Progress)'
  BY OrderStep
<1> QED  BY <1>1, <1>2, TypeCorrect, PTL DEF Steps

\* The dispatcher is called at most once for every request, and exactly once for a
\* request that ends normally in a program that does not recover panics.
THEOREM DispatchedOnce == Steps => []AnsweredOnce
<1>1. TypeOK /\ Order /\ Progress => AnsweredOnce
  BY DEF Order, Progress, AnsweredOnce
<1> QED  BY <1>1, OrderHolds, TypeCorrect, PTL

\* For any number of interceptors, a written response reaches the dispatcher and
\* the connection only after all of them committed, in reverse order.
THEOREM CommitsFirst == Steps => []CommitsBeforeDispatch
<1>1. TypeOK /\ Order => CommitsBeforeDispatch
  <2>1. N \in Nat
    BY HeaderAssumption
  <2> QED  BY <2>1 DEF TypeOK, Order, CommitPrefix, CommitsBeforeDispatch, AllCommitted
<1> QED  BY <1>1, OrderHolds, TypeCorrect, PTL

-----------------------------------------------------------------------------
(* Headers: claims, cookies, and what a crash leaves.                       *)

Kept       == \A n \in claimed \ DispatcherNames : wrapped[n] = promised[n]
Exclusive  == \A a, b \in Actors : a # b => setters[a] \cap setters[b] = {}
OfClaimed  == \A a \in Actors : setters[a] \subseteq claimed
NoClaimOnCookies == "Set-Cookie" \notin claimed

Headers ==
  /\ pc # "crashed" => Kept
  /\ Exclusive
  /\ OfClaimed
  /\ NoClaimOnCookies
  /\ CrashLeavesNoHeaders
  /\ BodyTyped

CookiesGrow ==
  /\ Len(wrapped'["Set-Cookie"]) >= Len(wrapped["Set-Cookie"])
  /\ \A i \in 1..Len(wrapped["Set-Cookie"]) :
       wrapped'["Set-Cookie"][i] = wrapped["Set-Cookie"][i]

\* One header method keeps every claim and every cookie.
LEMMA HeaderCallKeeps ==
  ASSUME HeaderTypeOK, Kept, Exclusive, OfClaimed, NoClaimOnCookies,
         NEW a \in Actors, HeaderCall(a)
  PROVE  Kept' /\ Exclusive' /\ OfClaimed' /\ NoClaimOnCookies' /\ CookiesGrow
<1> DEFINE Keeps == Kept' /\ Exclusive' /\ OfClaimed' /\ NoClaimOnCookies'
<1> USE DEF Kept, Exclusive, OfClaimed, NoClaimOnCookies, HeaderTypeOK
<1>0. "Set-Cookie" \in Names /\ wrapped["Set-Cookie"] \in HeaderValues
  BY HeaderAssumption
<1>1. ASSUME NEW s \in HeaderValues, wrapped'["Set-Cookie"] = wrapped["Set-Cookie"]
      PROVE  CookiesGrow
  BY <1>0, <1>1, LenProperties DEF CookiesGrow, HeaderValues
<1>2. ASSUME NEW n \in Names, Claim(a, n) PROVE Keeps /\ CookiesGrow
  <2>1. Keeps
    BY <1>2 DEF Claim, WritableHeader
  <2>2. wrapped'["Set-Cookie"] = wrapped["Set-Cookie"]
    BY <1>2 DEF Claim
  <2> QED  BY <1>0, <1>1, <2>1, <2>2
<1>3. ASSUME NEW n \in Names, Del(n) PROVE Keeps /\ CookiesGrow
  <2>1. Keeps
    BY <1>3 DEF Del, WritableHeader
  <2>2. wrapped'["Set-Cookie"] = wrapped["Set-Cookie"]
    BY <1>0, <1>3 DEF Del, WritableHeader
  <2> QED  BY <1>0, <1>1, <2>1, <2>2
<1>4. ASSUME NEW b \in Lenders(a), NEW n \in Names, NEW vs \in ValueLists,
             UseSetter(b, n, vs)
      PROVE  Keeps /\ CookiesGrow
  <2>0. b \in Actors
    BY DEF Lenders
  <2>1. Keeps
    BY <1>4, <2>0 DEF UseSetter
  <2>2. wrapped'["Set-Cookie"] = wrapped["Set-Cookie"]
    BY <1>0, <1>4, <2>0 DEF UseSetter
  <2> QED  BY <1>0, <1>1, <2>1, <2>2
<1>5. ASSUME NEW n \in Names, NEW v \in Values, Set(n, v) PROVE Keeps /\ CookiesGrow
  <2>1. Keeps
    BY <1>5 DEF Set, WritableHeader
  <2>2. wrapped'["Set-Cookie"] = wrapped["Set-Cookie"]
    BY <1>0, <1>5 DEF Set, WritableHeader
  <2> QED  BY <1>0, <1>1, <2>1, <2>2
<1>6. ASSUME NEW n \in Names, NEW v \in Values, Add(n, v) PROVE Keeps /\ CookiesGrow
  <2>1. Keeps
    BY <1>6 DEF Add, WritableHeader
  <2>2. wrapped'["Set-Cookie"] = wrapped["Set-Cookie"]
    BY <1>0, <1>6 DEF Add, WritableHeader
  <2> QED  BY <1>0, <1>1, <2>1, <2>2
<1>7. ASSUME NEW c \in Values, AddCookie(c) PROVE Keeps /\ CookiesGrow
  <2>1. Keeps
    BY <1>7 DEF AddCookie
  <2>2. wrapped'["Set-Cookie"] = Append(wrapped["Set-Cookie"], c)
    BY <1>0, <1>7 DEF AddCookie
  <2>3. CookiesGrow
    BY <1>0, <2>2, AppendProperties DEF CookiesGrow, HeaderValues
  <2> QED  BY <2>1, <2>3
<1> QED  BY <1>2, <1>3, <1>4, <1>5, <1>6, <1>7 DEF HeaderCall

\* A dispatcher call keeps them too, and sends a body under its type.
LEMMA HandedKeeps ==
  ASSUME HeaderTypeOK, wire \in Wires, Kept, NoClaimOnCookies,
         NEW kind \in Kinds, NEW o, Handed(kind, o), wire.by # "dispatcher"
  PROVE  /\ Kept' /\ NoClaimOnCookies' /\ CookiesGrow
         /\ wire'.by \in {wire.by, "dispatcher"}
         /\ (/\ wire'.by = "dispatcher"
             /\ kind \in {"json", "template", "html", "error"}
             /\ "Content-Type" \in Names)
              => wire'.hdr["Content-Type"] = <<MediaType(kind)>>
         /\ wire'.by = wire.by => wire' = wire
<1>0. "Set-Cookie" \in Names \ DispatcherNames
  BY HeaderAssumption DEF DispatcherNames
<1>1. o \in Dispatch(kind, wrapped) /\ wrapped \in [Names -> HeaderValues]
  BY DEF Handed, HeaderTypeOK
<1>2. \A n \in Names \ DispatcherNames : o.hdr[n] = wrapped[n]
  BY <1>1, DispatchOutcome
<1>3. (/\ kind \in {"json", "template", "html", "error"}
       /\ "Content-Type" \in Names
       /\ o.status # Unsent)
        => o.hdr["Content-Type"] = <<MediaType(kind)>>
  BY <1>1, DispatchOutcome
<1>4. Kept' /\ NoClaimOnCookies'
  BY <1>2 DEF Handed, Kept, NoClaimOnCookies, HeaderTypeOK
<1>5. wrapped'["Set-Cookie"] = wrapped["Set-Cookie"]
  BY <1>0, <1>2 DEF Handed
<1>6. CookiesGrow
  BY <1>0, <1>5, LenProperties DEF CookiesGrow, HeaderTypeOK, HeaderValues
<1>7. wire' = Send("dispatcher", o.status, o.hdr)
  BY DEF Handed
<1>8. \/ wire' = wire
      \/ o.status # Unsent /\ wire'.by = "dispatcher" /\ wire'.hdr = o.hdr
  BY <1>7 DEF Send
<1> QED  BY <1>3, <1>4, <1>6, <1>8

\* Steps that leave the headers and the connection alone, and do not end in a
\* crash, keep the invariant: it depends on nothing else but the response.
LEMMA HeadersFrame ==
  ASSUME Headers, UNCHANGED <<headerVars, wire>>, pc # "crashed", pc' # "crashed",
         resp' = resp \/ wire.by # "dispatcher"
  PROVE  Headers'
<1> USE DEF Headers, headerVars
<1>1. Kept' /\ Exclusive' /\ OfClaimed' /\ NoClaimOnCookies'
  BY DEF Kept, Exclusive, OfClaimed, NoClaimOnCookies
<1>2. CrashLeavesNoHeaders'
  BY DEF CrashLeavesNoHeaders
<1>3. BodyTyped'
  BY DEF BodyTyped
<1> QED  BY <1>1, <1>2, <1>3

\* The step lemma of the invariant about headers and connection.
LEMMA HeadersStep ==
  ASSUME TypeOK, Order, Headers, [Next]_vars
  PROVE  Headers'
<1>0. N \in Nat /\ Handler = N + 1 /\ Actors = 1..Handler
  BY HeaderAssumption DEF Handler, Actors
<1>1. CASE UserHeaderCall
  <2>1. PICK a \in Actors : HeaderCall(a)
    BY <1>0, <1>1 DEF UserHeaderCall, InCommit, CommitPending, TypeOK
  <2>2. pc # "crashed" /\ UNCHANGED flightVars
    BY <1>1 DEF UserHeaderCall, InUser, InCommit
  <2>3. Kept' /\ Exclusive' /\ OfClaimed' /\ NoClaimOnCookies'
    BY <2>1, <2>2, HeaderCallKeeps DEF TypeOK, Headers
  <2> QED  BY <2>2, <2>3 DEF Headers, CrashLeavesNoHeaders, BodyTyped, flightVars
<1>2. CASE UserPanic
  BY <1>2, HeadersFrame DEF UserPanic, InUser, InCommit
<1>3. CASE UserRecover
  BY <1>3, HeadersFrame DEF UserRecover
<1>4. CASE FileBody
  <2>1. pc = "user" /\ pc' = pc /\ resp' = resp /\ UNCHANGED headerVars
    BY <1>4 DEF FileBody, InUser
  <2>2. wire' = wire \/ wire'.by = "filebody"
    BY <1>4 DEF FileBody, Send
  <2>3. Kept' /\ Exclusive' /\ OfClaimed' /\ NoClaimOnCookies'
    BY <2>1 DEF Headers, headerVars, Kept, Exclusive, OfClaimed, NoClaimOnCookies
  <2> QED  BY <2>1, <2>2, <2>3 DEF Headers, CrashLeavesNoHeaders, BodyTyped
<1>5. ASSUME NEW kind \in Kinds, EnterWrite(kind) PROVE Headers'
  <2>1. pc = "user" /\ ~written /\ pc' = "commit" /\ UNCHANGED <<headerVars, wire>>
    BY <1>5 DEF EnterWrite, InUser, MayWrite
  <2>2. wire.by # "dispatcher"
    BY <2>1 DEF Order
  <2> QED  BY <2>1, <2>2, HeadersFrame
<1>6. CASE WriteError
  BY <1>5, <1>6 DEF WriteError, Kinds
<1>7. ASSUME NEW kind \in WriteKinds, Write(kind) PROVE Headers'
  BY <1>5, <1>7 DEF Write, Kinds
<1>8. CASE CommitReturn
  BY <1>8, HeadersFrame DEF CommitReturn, InCommit
<1>9. ASSUME NEW kind \in Kinds, NEW o, Handed(kind, o), wire.by # "dispatcher",
             pc # "crashed", pc' # "crashed",
             resp' = kind \/ resp' = "none"
      PROVE  Headers'
  <2>1. /\ Kept' /\ NoClaimOnCookies'
        /\ wire'.by \in {wire.by, "dispatcher"}
        /\ (/\ wire'.by = "dispatcher"
            /\ kind \in {"json", "template", "html", "error"}
            /\ "Content-Type" \in Names)
             => wire'.hdr["Content-Type"] = <<MediaType(kind)>>
        /\ wire'.by = wire.by => wire' = wire
    BY <1>9, HandedKeeps DEF TypeOK, Wires, Headers
  <2>2. Exclusive' /\ OfClaimed'
    BY <1>9 DEF Handed, Headers, Exclusive, OfClaimed
  <2>3. BodyTyped'
    BY <1>9, <2>1 DEF BodyTyped
  <2>4. CrashLeavesNoHeaders'
    BY <1>9, <2>1 DEF CrashLeavesNoHeaders, Headers
  <2> QED  BY <1>9, <2>1, <2>2, <2>3, <2>4 DEF Headers
<1>10. CASE DispatchResponse
  <2>1. PICK o : Handed(resp, o)
    BY <1>10 DEF DispatchResponse
  <2>2. pc = "commit" /\ written /\ resp \in Kinds /\ wire.by # "dispatcher"
          /\ resp' = resp /\ pc' # "crashed"
    BY <1>10 DEF DispatchResponse, Order, TypeOK
  <2> QED  BY <1>9, <2>1, <2>2
<1>11. CASE BeforeReturn
  BY <1>11, HeadersFrame DEF BeforeReturn, InUser
<1>12. CASE HandlerReturnWritten
  BY <1>12, HeadersFrame DEF HandlerReturnWritten, InUser
<1>13. CASE HandlerReturnNothing
  <2>1. PICK o : Handed("nocontent", o)
    BY <1>13 DEF HandlerReturnNothing
  <2>2. pc = "user" /\ ~written /\ resp' = "none" /\ wire.by # "dispatcher"
          /\ pc' # "crashed" /\ "nocontent" \in Kinds
    BY <1>13 DEF HandlerReturnNothing, InUser, Order, TypeOK, Kinds, WriteKinds
  <2> QED  BY <1>9, <2>1, <2>2
<1>14. CASE ClearAndRepanic
  BY <1>14 DEF ClearAndRepanic, ClearHeaders, Headers, Exclusive, OfClaimed,
               NoClaimOnCookies, CrashLeavesNoHeaders, BodyTyped
<1>15. CASE ServerFinish
  <2>1. pc = "done" /\ pc' = pc /\ UNCHANGED headerVars
    BY <1>15 DEF ServerFinish
  <2>2. wire'.by = "server"
    BY <1>15 DEF ServerFinish, Send, Unsent
  <2>3. Kept' /\ Exclusive' /\ OfClaimed' /\ NoClaimOnCookies'
    BY <2>1 DEF Headers, headerVars, Kept, Exclusive, OfClaimed, NoClaimOnCookies
  <2> QED  BY <2>1, <2>2, <2>3 DEF Headers, CrashLeavesNoHeaders, BodyTyped
<1>16. CASE OuterRecover
  <2>1. pc = "crashed" /\ pc' = pc /\ UNCHANGED headerVars
    BY <1>16 DEF OuterRecover
  <2>2. wire'.by = "outer" /\ wire'.hdr = wrapped
    BY <1>16 DEF OuterRecover, Send, Unsent
  <2>3. Exclusive' /\ OfClaimed' /\ NoClaimOnCookies'
    BY <2>1 DEF Headers, headerVars, Exclusive, OfClaimed, NoClaimOnCookies
  <2> QED  BY <2>1, <2>2, <2>3 DEF Headers, headerVars, CrashLeavesNoHeaders, BodyTyped
<1>17. CASE UNCHANGED vars
  BY <1>17 DEF vars, flightVars, headerVars, Headers, Kept, Exclusive, OfClaimed,
               NoClaimOnCookies, CrashLeavesNoHeaders, BodyTyped
<1> QED
  BY <1>1, <1>2, <1>3, <1>4, <1>6, <1>7, <1>8, <1>10, <1>11, <1>12, <1>13, <1>14,
     <1>15, <1>16, <1>17 DEF Next, UserCode, Framework, Finished

\* Claims, clearing and media types hold throughout a flight.
LEMMA HeadersHold == Steps => []Headers
<1>1. Init => Headers
  BY DEF Init, NewHeader, NothingSent, Headers, Kept, Exclusive, OfClaimed,
         NoClaimOnCookies, CrashLeavesNoHeaders, BodyTyped
<1>2. TypeOK /\ Order /\ Headers /\ [Next]_vars => Headers'
  BY HeadersStep
<1> QED  BY <1>1, <1>2, TypeCorrect, OrderHolds, PTL DEF Steps

\* A claimed header is written by its claimant's closure and, for its own names,
\* by the dispatcher, and by nothing else before a crash.
THEOREM ClaimsAreHonoured == Steps => []ClaimsHonoured
<1>1. Headers => ClaimsHonoured
  BY DEF Headers, Kept, Exclusive, OfClaimed, ClaimsHonoured
<1> QED  BY <1>1, HeadersHold, PTL

\* A request that crashed leaves no header for whoever answers in its place.
THEOREM CrashClears == Steps => []CrashLeavesNoHeaders
<1>1. Headers => CrashLeavesNoHeaders
  BY DEF Headers
<1> QED  BY <1>1, HeadersHold, PTL

\* A body the dispatcher sent left under the Content-Type of its kind.
THEOREM BodiesTyped == Steps => []BodyTyped
<1>1. Headers => BodyTyped
  BY DEF Headers
<1> QED  BY <1>1, HeadersHold, PTL

-----------------------------------------------------------------------------
(* What one step may do.                                                    *)

\* Once the response is written the chain of Before methods and handler does not
\* advance, and the response stays the one that was written.
THEOREM ChainEndsAtWrite == Steps => NothingRunsAfterWrite
<1>1. [Next]_vars => [written => cur' = cur /\ resp' = resp /\ written']_vars
  <2> SUFFICES ASSUME Next, written PROVE cur' = cur /\ resp' = resp /\ written'
    OBVIOUS
  <2>1. ASSUME NEW kind, EnterWrite(kind) PROVE FALSE
    BY <2>1 DEF EnterWrite, MayWrite
  <2>2. CASE UserCode
    BY <2>1, <2>2 DEF UserCode, UserHeaderCall, UserPanic, UserRecover, FileBody,
                      WriteError, Write, flightVars
  <2>3. CASE Framework
    BY <2>3 DEF Framework, CommitReturn, DispatchResponse, BeforeReturn, EndsChain,
                HandlerReturnWritten, HandlerReturnNothing, ClearAndRepanic
  <2>4. CASE ServerFinish \/ OuterRecover \/ Finished
    BY <2>4 DEF ServerFinish, OuterRecover, Finished, vars, flightVars
  <2> QED  BY <2>2, <2>3, <2>4 DEF Next
<1> QED  BY <1>1, PTL DEF Steps, NothingRunsAfterWrite

\* A step that leaves the headers alone leaves the cookies alone.
LEMMA CookiesFrame ==
  ASSUME HeaderTypeOK, UNCHANGED headerVars
  PROVE  CookiesGrow
<1>1. wrapped["Set-Cookie"] \in HeaderValues
  BY HeaderAssumption DEF HeaderTypeOK
<1> QED  BY <1>1, LenProperties DEF CookiesGrow, headerVars, HeaderValues

\* Only the clearing of a crashed request takes a cookie back.
THEOREM CookiesAreKept == Steps => CookiesOnlyGrow
<1>1. TypeOK /\ Order /\ Headers /\ [Next]_vars => (pc' = "crashed" \/ CookiesGrow)
  <2> SUFFICES ASSUME TypeOK, Order, Headers, [Next]_vars, pc' # "crashed"
               PROVE  CookiesGrow
    OBVIOUS
  <2>0. N \in Nat /\ Handler = N + 1 /\ Actors = 1..Handler /\ HeaderTypeOK
    BY HeaderAssumption DEF Handler, Actors, TypeOK
  <2>1. CASE UserHeaderCall
    <3>1. PICK a \in Actors : HeaderCall(a)
      BY <2>0, <2>1 DEF UserHeaderCall, InCommit, CommitPending, TypeOK
    <3>2. pc # "crashed"
      BY <2>1 DEF UserHeaderCall, InUser, InCommit
    <3> QED  BY <3>1, <3>2, HeaderCallKeeps DEF TypeOK, Headers
  <2>2. CASE DispatchResponse
    <3>1. PICK o : Handed(resp, o)
      BY <2>2 DEF DispatchResponse
    <3>2. pc # "crashed" /\ resp \in Kinds /\ wire.by # "dispatcher"
      BY <2>2 DEF DispatchResponse, Order, TypeOK
    <3> QED  BY <3>1, <3>2, HandedKeeps DEF TypeOK, Wires, Headers
  <2>3. CASE HandlerReturnNothing
    <3>1. PICK o : Handed("nocontent", o)
      BY <2>3 DEF HandlerReturnNothing
    <3>2. pc # "crashed" /\ wire.by # "dispatcher" /\ "nocontent" \in Kinds
      BY <2>3 DEF HandlerReturnNothing, InUser, Order, TypeOK, Kinds, WriteKinds
    <3> QED  BY <3>1, <3>2, HandedKeeps DEF TypeOK, Wires, Headers
  <2>4. CASE UserPanic \/ UserRecover \/ FileBody \/ WriteError
               \/ \E kind \in WriteKinds : Write(kind)
    <3>1. UNCHANGED headerVars
      BY <2>4 DEF UserPanic, UserRecover, FileBody, WriteError, Write, EnterWrite
    <3> QED  BY <2>0, <3>1, CookiesFrame
  <2>5. CASE CommitReturn \/ BeforeReturn \/ HandlerReturnWritten
    <3>1. UNCHANGED headerVars
      BY <2>5 DEF CommitReturn, BeforeReturn, HandlerReturnWritten
    <3> QED  BY <2>0, <3>1, CookiesFrame
  <2>6. CASE ClearAndRepanic
    BY <2>6 DEF ClearAndRepanic
  <2>7. CASE ServerFinish \/ OuterRecover \/ Finished \/ UNCHANGED vars
    <3>1. UNCHANGED headerVars
      BY <2>7 DEF ServerFinish, OuterRecover, Finished, vars
    <3> QED  BY <2>0, <3>1, CookiesFrame
  <2> QED
    BY <2>1, <2>2, <2>3, <2>4, <2>5, <2>6, <2>7 DEF Next, UserCode, Framework
<1> QED  BY <1>1, TypeCorrect, OrderHolds, HeadersHold, PTL
         DEF Steps, CookiesOnlyGrow, CookiesGrow

-----------------------------------------------------------------------------
(* Refinement.                                                              *)

\* A flight of a program that does not recover panics implements OneResponse:
\* it starts where OneResponse starts, and each step is one of OneResponse or
\* leaves phase, commits and end unchanged.
THEOREM FlightRefines ==
  ASSUME ~Recovers
  PROVE  Steps => PromiseSafety
<1>0. N \in Nat
  BY HeaderAssumption
<1>1. Init => Promise!Init
  <2> SUFFICES ASSUME Init PROVE Promise!Init
    OBVIOUS
  <2>1. Committed = {}
    BY DEF Init, Committed
  <2> QED  BY <2>1 DEF Init, Promise!Init, Phase, Over
<1>2. TypeOK /\ Order /\ Progress /\ (Order /\ Progress)' /\ [Next]_vars
        => [Promise!Next]_(Promise!vars)
  <2> SUFFICES ASSUME TypeOK, Order, Progress, Order', Progress', [Next]_vars
               PROVE  Promise!Next \/ UNCHANGED <<Phase, Committed, Over>>
    BY DEF Promise!vars
  <2> DEFINE Stutter == UNCHANGED <<Phase, Committed, Over>>
  <2>1. ASSUME UNCHANGED <<written, commits, dispatched>>,
               pc' = pc \/ pc \in {"user", "commit", "unwind"},
               pc' = pc \/ pc' \in {"user", "commit", "unwind"}
        PROVE  Stutter
    BY <2>1 DEF Phase, Committed, Over
  <2>2. CASE UserHeaderCall
    BY <2>1, <2>2 DEF UserHeaderCall, flightVars
  <2>3. CASE UserPanic
    BY <2>1, <2>3 DEF UserPanic, InUser, InCommit
  <2>4. CASE UserRecover
    BY <2>1, <2>4 DEF UserRecover
  <2>5. CASE FileBody \/ ServerFinish \/ OuterRecover
    BY <2>1, <2>5 DEF FileBody, ServerFinish, OuterRecover
  <2>6. ASSUME NEW kind, EnterWrite(kind) PROVE Promise!Next
    <3>1. ~written /\ written' /\ pc = "user" /\ pc' = "commit"
            /\ dispatched' = dispatched /\ commits' = commits
      BY <2>6 DEF EnterWrite, InUser, MayWrite
    <3>2. dispatched = 0
      BY <3>1 DEF Order
    <3>3. Promise!StartWriting
      BY <3>1, <3>2 DEF Promise!StartWriting, Phase, Committed, Over
    <3> QED  BY <3>3 DEF Promise!Next
  <2>7. CASE CommitReturn
    <3>1. commitAt \in 1..N /\ commits' = Append(commits, commitAt) /\ pc = "commit"
            /\ UNCHANGED <<pc, written, dispatched>>
      BY <1>0, <2>7 DEF CommitReturn, InCommit, CommitPending, TypeOK
    <3>2. Committed' = Committed \cup {commitAt}
      <4>1. /\ Len(commits) \in Nat /\ DOMAIN commits = 1..Len(commits)
            /\ DOMAIN commits' = 1..(Len(commits) + 1)
            /\ \A i \in 1..Len(commits) : commits'[i] = commits[i]
            /\ commits'[Len(commits) + 1] = commitAt
        BY <3>1, AppendProperties, LenProperties DEF TypeOK
      <4> QED  BY <4>1 DEF Committed
    <3>3. commitAt \notin Committed
      BY <1>0, <3>1, LenProperties DEF Order, CommitPrefix, Committed, TypeOK
    <3>4. Phase = "writing" /\ Phase' = "writing" /\ ~Over /\ ~Over'
      BY <3>1 DEF Phase, Over, Order
    <3>5. Promise!Commit(commitAt)
      BY <3>1, <3>2, <3>3, <3>4 DEF Promise!Commit, Over
    <3> QED  BY <3>1, <3>5 DEF Promise!Next
  <2>8. CASE DispatchResponse
    <3>1. commitAt = 0 /\ pc = "commit" /\ pc' \in {"unwind", "user"}
            /\ dispatched' = dispatched + 1 /\ UNCHANGED <<written, commits>>
      BY <1>0, <2>8 DEF DispatchResponse, CommitPending, Handed, TypeOK
    <3>2. Committed = 1..N
      <4>1. /\ DOMAIN commits = 1..N
            /\ \A i \in 1..N : commits[i] = N + 1 - i
        BY <1>0, <3>1, LenProperties DEF Order, CommitPrefix, TypeOK
      <4>2. \A j \in 1..N : N + 1 - j \in 1..N /\ commits[N + 1 - j] = j
        BY <1>0, <4>1
      <4>3. \A i \in 1..N : commits[i] \in 1..N
        BY <1>0, <4>1
      <4> QED  BY <4>1, <4>2, <4>3 DEF Committed
    <3>3. Phase = "writing" /\ Phase' = "answered" /\ ~Over /\ ~Over'
      BY <3>1 DEF Phase, Over, Order
    <3>4. Committed' = Committed
      BY <3>1 DEF Committed
    <3>5. Promise!Answer
      BY <3>1, <3>2, <3>3, <3>4 DEF Promise!Answer, Over
    <3> QED  BY <3>5 DEF Promise!Next
  <2>9. ASSUME pc = "user", pc' = "done", UNCHANGED <<written, commits, dispatched>>
        PROVE  Promise!Next
    <3>1. dispatched = 1
      BY <2>9 DEF Progress
    <3>2. Promise!End
      BY <2>9, <3>1 DEF Promise!End, Phase, Committed, Over
    <3> QED  BY <3>2 DEF Promise!Next
  <2>10. CASE BeforeReturn
    <3>1. pc = "user" /\ UNCHANGED <<written, commits, dispatched>>
            /\ (pc' = "done" \/ pc' = pc)
      BY <2>10 DEF BeforeReturn, InUser
    <3> QED  BY <2>1, <2>9, <3>1
  <2>11. CASE HandlerReturnWritten
    BY <2>9, <2>11 DEF HandlerReturnWritten, InUser
  <2>12. CASE HandlerReturnNothing
    <3>1. pc = "user" /\ pc' = "done" /\ ~written /\ dispatched' = dispatched + 1
            /\ UNCHANGED <<written, commits>>
      BY <2>12 DEF HandlerReturnNothing, Handed, InUser
    <3>2. dispatched = 0
      BY <3>1 DEF Order
    <3>3. Promise!AnswerEmpty
      BY <3>1, <3>2 DEF Promise!AnswerEmpty, Phase, Committed, Over
    <3> QED  BY <3>3 DEF Promise!Next
  <2>13. CASE ClearAndRepanic
    <3>1. Promise!Fail
      BY <2>13 DEF ClearAndRepanic, Promise!Fail, Phase, Committed, Over
    <3> QED  BY <3>1 DEF Promise!Next
  <2>14. CASE UNCHANGED vars
    BY <2>1, <2>14 DEF vars, flightVars
  <2>15. CASE WriteError \/ \E kind \in WriteKinds : Write(kind)
    BY <2>6, <2>15 DEF WriteError, Write
  <2> QED
    BY <2>2, <2>3, <2>4, <2>5, <2>7, <2>8, <2>10, <2>11, <2>12, <2>13, <2>14, <2>15
       DEF Next, UserCode, Framework, Finished
<1> QED  BY <1>1, <1>2, TypeCorrect, OrderHolds, PTL DEF Steps, PromiseSafety
=============================================================================
