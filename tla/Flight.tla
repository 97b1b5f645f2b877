------------------------------- MODULE Flight -------------------------------
(***************************************************************************)
(* One request going through the framework: processRequest and the methods  *)
(* of flight (flight.go), with the interceptors and the handler as          *)
(* arbitrary code that may call the ResponseWriter it is given in any order *)
(* the types allow, return when it likes, or panic.                         *)
(*                                                                         *)
(* Interceptors and handler are numbered in the order they run: Before of   *)
(* 1..N, then the handler N+1.  Commit runs from N down to 1 inside the     *)
(* call to Write or WriteError, on top of the frame that called it; a panic *)
(* unwinds through that frame, which may recover it if Recovers holds, and  *)
(* ends in the deferred function of processRequest.                         *)
(*                                                                         *)
(* A request is handled by one goroutine, so the steps of a flight do not   *)
(* interleave with those of another: they share no per-request state.       *)
(***************************************************************************)
EXTENDS Header, Dispatcher

CONSTANTS
  Recovers,        \* whether interceptors and handlers may recover panics
  InitialHeaders   \* header maps the connection may carry on entry

ASSUME FlightAssumption ==
  /\ Recovers \in BOOLEAN
  /\ InitialHeaders \subseteq [Names -> HeaderValues]

VARIABLES
  pc,          \* where the goroutine is, see Places
  cur,         \* the actor whose Before or ServeHTTP is on the stack
  commitAt,    \* Commit calls of the running commit phase still to return
  written,     \* flight.written
  resp,        \* kind of the response given to Write or WriteError
  commits,     \* history: interceptors whose Commit returned, in order
  dispatched,  \* history: number of calls into the dispatcher
  wire         \* what left the connection: the first response header wins

flightVars == <<pc, cur, commitAt, written, resp, commits, dispatched, wire>>
vars       == <<headerVars, flightVars>>

\* "user": Before or ServeHTTP of cur runs.  "commit": Commit of commitAt runs,
\* or all have returned if commitAt is 0.  "unwind": a panic is on its way up.
\* "done", "crashed": processRequest returned, or panicked to its caller.
Places == {"user", "commit", "unwind", "done", "crashed"}
Over   == pc \in {"done", "crashed"}

Senders   == {"none", "dispatcher", "filebody", "server", "outer"}
NothingSent == [by |-> "none", status |-> Unsent, hdr |-> NoHeaders]

\* http.ResponseWriter: the header is sent once, later calls are superfluous.
Send(by, status, hdr) ==
  IF wire.by = "none" /\ status # Unsent
    THEN [by |-> by, status |-> status, hdr |-> hdr]
    ELSE wire

Init ==
  /\ \E h \in InitialHeaders : NewHeader(h)
  /\ pc = "user" /\ cur = 1 /\ commitAt = N
  /\ written = FALSE /\ resp = "none"
  /\ commits = <<>> /\ dispatched = 0 /\ wire = NothingSent

-----------------------------------------------------------------------------
(* What the program's own code may do with the writer it was given.         *)

InUser == pc = "user"

\* Some Commit has not returned yet: the loop of commitPhase, down to the first
\* interceptor.
CommitPendingButFirst == commitAt > 1
CommitPending == commitAt > 0

InCommit == pc = "commit" /\ CommitPending

\* Header and AddCookie, from Before, ServeHTTP or Commit.
UserHeaderCall ==
  /\ \/ InUser   /\ HeaderCall(cur)
     \/ InCommit /\ HeaderCall(commitAt)
  /\ UNCHANGED flightVars

\* A panic of the program's own, or of a Header method on a name that is not
\* writable, or of a write to a flight that was written.
UserPanic ==
  /\ InUser \/ InCommit
  /\ pc' = "unwind"
  /\ UNCHANGED <<headerVars, cur, commitAt, written, resp, commits, dispatched, wire>>

\* Who recovers a panic before processRequest sees it.
FrameworkRecovers == TRUE
MayRecover        == Recovers

\* Before or ServeHTTP called the ResponseWriter with a recover around it.
UserRecover ==
  /\ MayRecover
  /\ pc = "unwind"
  /\ pc' = "user"
  /\ UNCHANGED <<headerVars, cur, commitAt, written, resp, commits, dispatched, wire>>

\* FileServer's handler sends the body once its response was dispatched.
FileBody ==
  /\ InUser /\ resp = "file" /\ dispatched > 0
  /\ wire' = Send("filebody", "ok", wrapped)
  /\ UNCHANGED <<headerVars, pc, cur, commitAt, written, resp, commits, dispatched>>

-----------------------------------------------------------------------------
(* flight.Write and flight.WriteError.                                      *)

\* A second write is refused with a panic (a UserPanic).
MayWriteAgain == TRUE
MayWrite      == ~written

EnterWrite(kind) ==
  /\ InUser
  /\ MayWrite
  /\ written' = TRUE
  /\ resp' = kind
  /\ pc' = "commit" /\ commitAt' = N
  /\ UNCHANGED <<headerVars, cur, commits, dispatched, wire>>

Write(kind) == kind \in WriteKinds /\ EnterWrite(kind)
WriteError  == EnterWrite("error")

CommitReturn ==
  /\ InCommit
  /\ commitAt' = commitAt - 1
  /\ commits' = Append(commits, commitAt)
  /\ UNCHANGED <<headerVars, pc, cur, written, resp, dispatched, wire>>

\* An outcome of the dispatcher on the connection's headers.
Handed(kind, o) ==
  /\ o \in Dispatch(kind, wrapped)
  /\ wrapped' = o.hdr
  /\ wire' = Send("dispatcher", o.status, o.hdr)
  /\ dispatched' = dispatched + 1
  /\ UNCHANGED <<claimed, setters, promised>>

\* The commit phase is over: the response goes to the dispatcher, and an error
\* it returns becomes a panic.
DispatchResponse ==
  /\ pc = "commit" /\ ~CommitPending
  /\ \E o \in Dispatch(resp, wrapped) :
       /\ Handed(resp, o)
       /\ pc' = IF o.failed THEN "unwind" ELSE "user"
  /\ UNCHANGED <<cur, commitAt, written, resp, commits>>

-----------------------------------------------------------------------------
(* processRequest.                                                          *)

\* Whether the loop over the Before methods ends with this one.
NeverEndsChain == FALSE
EndsChain      == written

\* cur is an interceptor, not the handler.
InBeforePastEnd  == cur <= Handler
InBeforeButLast  == cur < N
InBefore         == cur < Handler

BeforeReturn ==
  /\ InUser /\ InBefore
  /\ IF EndsChain
       THEN pc' = "done" /\ cur' = cur
       ELSE pc' = pc     /\ cur' = cur + 1
  /\ UNCHANGED <<headerVars, commitAt, written, resp, commits, dispatched, wire>>

HandlerReturnWritten ==
  /\ InUser /\ cur = Handler /\ written
  /\ pc' = "done"
  /\ UNCHANGED <<headerVars, cur, commitAt, written, resp, commits, dispatched, wire>>

\* Nothing was written: 204 No Content straight from the dispatcher, whose
\* error is not looked at.
HandlerReturnNothing ==
  /\ InUser /\ cur = Handler /\ ~written
  /\ \E o \in Dispatch("nocontent", wrapped) : Handed("nocontent", o)
  /\ pc' = "done"
  /\ UNCHANGED <<cur, commitAt, written, resp, commits>>

\* The headers left by the deferred function.
ClearUnclaimed == [n \in Names |-> IF n \in claimed THEN wrapped[n] ELSE <<>>]
ClearHeaders   == NoHeaders

\* The deferred function clears the headers and panics again.
ClearAndRepanic ==
  /\ pc = "unwind"
  /\ wrapped' = ClearHeaders
  /\ pc' = "crashed"
  /\ UNCHANGED <<claimed, setters, promised, cur, commitAt, written, resp, commits,
                 dispatched, wire>>

-----------------------------------------------------------------------------
(* The server around the ServeMux.                                          *)

\* net/http: a handler that returns without a response header gets a 200.
ServerFinish ==
  /\ pc = "done" /\ wire.by = "none"
  /\ wire' = Send("server", "ok", wrapped)
  /\ UNCHANGED <<headerVars, pc, cur, commitAt, written, resp, commits, dispatched>>

\* A handler around the ServeMux recovers the panic and answers in its place.
\* Without one the connection is dropped.
OuterRecover ==
  /\ pc = "crashed" /\ wire.by = "none"
  /\ wire' = Send("outer", "servererror", wrapped)
  /\ UNCHANGED <<headerVars, pc, cur, commitAt, written, resp, commits, dispatched>>

UserCode == UserHeaderCall \/ UserPanic \/ UserRecover \/ FileBody
              \/ WriteError \/ \E kind \in WriteKinds : Write(kind)

\* What the framework does, and the return of the code it called.
Framework == CommitReturn \/ DispatchResponse \/ BeforeReturn
               \/ HandlerReturnWritten \/ HandlerReturnNothing \/ ClearAndRepanic

\* The request is over.
Finished == Over /\ UNCHANGED vars

Next == UserCode \/ Framework \/ ServerFinish \/ OuterRecover \/ Finished

\* Interceptors and handlers return or panic sooner or later.
Fairness == WF_vars(Framework)

\* Steps is what the theorems need; only liveness needs fairness.
Steps == Init /\ [][Next]_vars
Spec  == Steps /\ Fairness
-----------------------------------------------------------------------------
(* Properties.                                                              *)

\* The types of the variables of one flight.
TypeOK ==
  /\ HeaderTypeOK
  /\ pc \in Places
  /\ cur \in Actors
  /\ commitAt \in 0..N
  /\ written \in BOOLEAN
  /\ resp \in Kinds \cup {"none"}
  /\ commits \in Seq(1..N)
  /\ dispatched \in Nat
  /\ wire \in [by : Senders, status : Statuses \cup {Unsent},
              hdr : [Names -> HeaderValues]]

\* The dispatcher is called at most once for a request whatever the handler and
\* the interceptors do, a second write and a recovered panic included; and when
\* nobody recovers panics, a request that ends normally was answered.
AnsweredOnce ==
  /\ dispatched <= 1
  /\ (pc = "done" /\ ~Recovers) => dispatched = 1

\* A response that was written reaches the dispatcher, and anything of it the
\* connection, only after Commit returned for every interceptor, in the reverse
\* of the order they were installed; a Commit that panicked, recovered or not,
\* lets nothing through.
AllCommitted == Len(commits) = N /\ \A i \in 1..N : commits[i] = N + 1 - i

CommitsBeforeDispatch ==
  (written /\ (dispatched > 0 \/ wire.by \in {"dispatcher", "filebody"}))
    => AllCommitted

\* Once the response is written no further Before and no handler starts, and the
\* response is never replaced by another one.
NothingRunsAfterWrite ==
  [][written => cur' = cur /\ resp' = resp /\ written']_vars

\* Until the request crashes, a claimed header holds what its claimant last put
\* there, and no two actors hold the closure for one name, whatever calls other
\* interceptors and the handler make.  Only the names the dispatcher writes by
\* itself are exempt: it is not bound by claims.
ClaimsHonoured ==
  /\ pc # "crashed" =>
       \A n \in claimed \ DispatcherNames : wrapped[n] = promised[n]
  /\ \A a, b \in Actors : a # b => setters[a] \cap setters[b] = {}
  /\ \A a \in Actors : setters[a] \subseteq claimed

\* A cookie once added stays, in its place, until the request crashes: no header
\* method, claim or dispatcher call removes or rewrites Set-Cookie.
CookiesOnlyGrow ==
  [][ pc' = "crashed"
      \/ /\ Len(wrapped'["Set-Cookie"]) >= Len(wrapped["Set-Cookie"])
         /\ \A i \in 1..Len(wrapped["Set-Cookie"]) :
              wrapped'["Set-Cookie"][i] = wrapped["Set-Cookie"][i] ]_vars

\* After a panic left processRequest the connection carries no header at all,
\* claimed ones and cookies included, so an answer given in its place by a
\* handler around the ServeMux has none of the request's headers.
CrashLeavesNoHeaders ==
  /\ pc = "crashed" => wrapped = NoHeaders
  /\ wire.by = "outer" => wire.hdr = NoHeaders

\* The body a dispatcher call sends leaves under the Content-Type of its kind,
\* even if a handler set or an interceptor claimed Content-Type before.
BodyTyped ==
  (wire.by = "dispatcher" /\ resp \in {"json", "template", "html", "error"}
     /\ "Content-Type" \in Names)
    => wire.hdr["Content-Type"] = <<MediaType(resp)>>

\* Every request ends: it returns or it crashes.
RequestEnds == <>Over

\* A written response is handed to the dispatcher, or the request crashes; it is
\* not dropped silently.  (A handler that recovers a panicking Write can drop it.)
WrittenIsDispatched == written ~> (dispatched > 0 \/ pc = "crashed")

\* The flight implements OneResponse.
Phase == IF pc = "crashed"   THEN "failed"
         ELSE IF dispatched > 0 THEN "answered"
         ELSE IF written        THEN "writing"
         ELSE "open"
Committed == {commits[i] : i \in DOMAIN commits}

Promise == INSTANCE OneResponse WITH
             Interceptors <- 1..N, phase <- Phase, committed <- Committed, over <- Over

\* Seen through the mapping above, every behaviour of the flight is one that
\* OneResponse allows, its liveness included.
ImplementsOneResponse == Promise!Spec
PromiseSafety == Promise!Init /\ [][Promise!Next]_(Promise!vars)

-----------------------------------------------------------------------------
(* What the documentation says and the code does not do.                    *)

\* interceptor.go:28-29: "If Before panics, it will be recovered and the
\* ServeMux will respond with 500 Internal Server Error."
BeforePanicAnswered ==
  (pc = "crashed" /\ cur <= N /\ ~written) => wire.status = "servererror"
=============================================================================
