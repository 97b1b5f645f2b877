------------------------------- MODULE Server -------------------------------
(***************************************************************************)
(* safehttp.Server (server.go): values of the type, the goroutines that     *)
(* start and stop them, and the http.Servers they wrap.                     *)
(*                                                                         *)
(* Serve, ListenAndServe and their TLS variants differ only in how they get *)
(* a listener; each runs buildStd, sets started and calls the http.Server.  *)
(* No lock protects started and srv, and the calls run on different         *)
(* goroutines ("go s.Serve(l); defer s.Close()", server_test.go), so each   *)
(* read and write of these two fields is a step of its own here, and a      *)
(* stopping goroutine, which nothing orders after the starting one, may     *)
(* still read the zero value of a field that was set.                       *)
(***************************************************************************)
EXTENDS Naturals, Sequences, FiniteSets

CONSTANTS
  Original,    \* the Server the program makes
  Clones,      \* the Servers it may make by cloning
  Starters,    \* goroutines that call Serve and the like, one call at a time
  Stoppers,    \* goroutines that call Shutdown or Close, once
  Hooks,       \* functions the program appends to OnShutdown
  Capacity,    \* capacity of the array behind a non-nil OnShutdown
  MaxCalls,    \* bound on the starts a program tries
  MaxRequests  \* bound on the requests of one http.Server in flight

Objects == {Original} \cup Clones
Threads == Starters \cup Stoppers

\* http.Servers, numbered as they are built; Nil is the nil pointer.
Nil == 0
Ids == 1..MaxCalls

ASSUME ServerAssumption ==
  /\ Original \notin Clones /\ Nil \notin Objects
  /\ Starters \cap Stoppers = {} /\ IsFiniteSet(Starters)
  /\ Capacity \in Nat /\ MaxCalls \in Nat /\ MaxRequests \in Nat

VARIABLES
  exists,     \* the Servers made so far
  mux,        \* [Objects -> BOOLEAN], Mux is not nil
  hooks,      \* [Objects -> slice], OnShutdown
  arrays,     \* [Objects -> array], the array a Server's first append allocates
  started,    \* [Objects -> BOOLEAN]
  srv,        \* [Objects -> Ids \cup {Nil}]
  at, on,     \* [Threads -> place in the code], [Threads -> receiver of the call]
  using,      \* [Threads -> http.Server of the call]
  calls,      \* starts tried so far
  http,       \* [Ids -> http.Server]
  built,      \* number of http.Servers
  starts,     \* history: [Objects -> calls that got past buildStd]
  stops       \* history: [Objects -> kinds of the stops that returned nil]

fields  == <<exists, mux, hooks, arrays>>
ends    == <<starts, stops>>
vars    == <<fields, started, srv, at, on, using, calls, http, built, ends>>

Unset    == "unset"
NilSlice == [array |-> Nil, len |-> 0]

\* owner: whose buildStd made it; registered: OnShutdown at that time;
\* closed: net/http's inShutdown; serving: goroutines inside its Serve.
NotBuilt == [owner |-> Original, registered |-> <<>>, closed |-> FALSE,
             serving |-> {}, requests |-> 0]

Init ==
  /\ exists = {Original}
  /\ mux = [o \in Objects |-> FALSE]
  /\ hooks = [o \in Objects |-> NilSlice]
  /\ arrays = [o \in Objects |-> [i \in 1..Capacity |-> Unset]]
  /\ started = [o \in Objects |-> FALSE]
  /\ srv = [o \in Objects |-> Nil]
  /\ at = [t \in Threads |-> "idle"]
  /\ on = [t \in Threads |-> Original]
  /\ using = [t \in Threads |-> Nil]
  /\ calls = 0 /\ built = 0
  /\ http = [i \in Ids |-> NotBuilt]
  /\ starts = [o \in Objects |-> 0]
  /\ stops = [o \in Objects |-> {}]

-----------------------------------------------------------------------------
(* The program and the exported fields.                                     *)

ContentsToCapacity(o) ==
  [i \in 1..Capacity |-> IF i <= hooks[o].len THEN arrays[hooks[o].array][i] ELSE Unset]
Contents(o) == [i \in 1..hooks[o].len |-> arrays[hooks[o].array][i]]

SetMux(o) ==
  /\ o \in exists /\ ~mux[o]
  /\ mux' = [mux EXCEPT ![o] = TRUE]
  /\ UNCHANGED <<exists, hooks, arrays, started, srv, at, on, using, calls, http, built, ends>>

\* s.OnShutdown = append(s.OnShutdown, h): into the array the slice has, as long
\* as there is room, or into a new one if the slice is nil.
AddHook(o, h) ==
  LET a == IF hooks[o].array = Nil THEN o ELSE hooks[o].array
      n == hooks[o].len + 1
  IN  /\ o \in exists /\ n <= Capacity
      /\ arrays' = [arrays EXCEPT ![a][n] = h]
      /\ hooks' = [hooks EXCEPT ![o] = [array |-> a, len |-> n]]
      /\ UNCHANGED <<exists, mux, started, srv, at, on, using, calls, http, built, ends>>

\* The fields of the clone: Mux and the slice are copied, started and srv reset.
CloneKeepsServer(o) == srv[o]
ClonedServer(o)     == Nil

Clone(o, c) ==
  /\ o \in exists /\ c \in Clones \ exists
  /\ exists' = exists \cup {c}
  /\ mux' = [mux EXCEPT ![c] = mux[o]]
  /\ hooks' = [hooks EXCEPT ![c] = hooks[o]]
  /\ started' = [started EXCEPT ![c] = FALSE]
  /\ srv' = [srv EXCEPT ![c] = ClonedServer(o)]
  /\ UNCHANGED <<arrays, at, on, using, calls, http, built, ends>>

-----------------------------------------------------------------------------
(* Starting: Serve, ServeTLS, ListenAndServe, ListenAndServeTLS.            *)

Goto(t, place) == at' = [at EXCEPT ![t] = place]

CallServe(t, o) ==
  /\ at[t] = "idle" /\ o \in exists /\ calls < MaxCalls
  /\ Goto(t, "checkStarted")
  /\ on' = [on EXCEPT ![t] = o]
  /\ calls' = calls + 1
  /\ UNCHANGED <<fields, started, srv, using, http, built, ends>>

\* buildStd: "server already started" is returned to the caller.
StartableAgain(o) == TRUE
Startable(o)      == ~started[o]

CheckStarted(t) ==
  /\ at[t] = "checkStarted"
  /\ Goto(t, IF Startable(on[t]) THEN "checkBuilt" ELSE "idle")
  /\ UNCHANGED <<fields, started, srv, on, using, calls, http, built, ends>>

CheckBuilt(t) ==
  /\ at[t] = "checkBuilt"
  /\ Goto(t, IF srv[on[t]] = Nil THEN "build" ELSE "mark")
  /\ UNCHANGED <<fields, started, srv, on, using, calls, http, built, ends>>

\* Without a Mux there is an error; else the fields are copied and srv is set.
Built(o)     == built + 1
BuiltLost(o) == srv[o]
NewSrv(o)    == Built(o)

Build(t) ==
  LET o == on[t] IN
  /\ at[t] = "build"
  /\ IF mux[o]
       THEN /\ Goto(t, "mark")
            /\ built' = built + 1
            /\ http' = [http EXCEPT ![built + 1].owner = o, ![built + 1].registered = Contents(o)]
            /\ srv' = [srv EXCEPT ![o] = NewSrv(o)]
       ELSE Goto(t, "idle") /\ UNCHANGED <<built, http, srv>>
  /\ UNCHANGED <<fields, started, on, using, calls, ends>>

MarkStarted(t) ==
  /\ at[t] = "mark"
  /\ started' = [started EXCEPT ![on[t]] = TRUE]
  /\ starts' = [starts EXCEPT ![on[t]] = @ + 1]
  /\ Goto(t, "serve")
  /\ UNCHANGED <<fields, srv, on, using, calls, http, built, stops>>

\* s.srv.Serve: refused after a shutdown, else the listener is accepted on.
EnterServe(t) ==
  LET i == srv[on[t]] IN
  /\ at[t] = "serve"
  /\ IF http[i].closed
       THEN Goto(t, "idle") /\ UNCHANGED <<http, using>>
       ELSE /\ Goto(t, "serving")
            /\ using' = [using EXCEPT ![t] = i]
            /\ http' = [http EXCEPT ![i].serving = @ \cup {t}]
  /\ UNCHANGED <<fields, started, srv, on, calls, built, ends>>

\* The address cannot be bound, or the certificate not loaded.
ListenFails(t) ==
  /\ at[t] = "serve"
  /\ Goto(t, "idle")
  /\ UNCHANGED <<fields, started, srv, on, using, calls, http, built, ends>>

\* Accept fails, because of a shutdown or on its own.
ServeReturns(t) ==
  /\ at[t] = "serving"
  /\ Goto(t, "idle")
  /\ http' = [http EXCEPT ![using[t]].serving = @ \ {t}]
  /\ UNCHANGED <<fields, started, srv, on, using, calls, built, ends>>

-----------------------------------------------------------------------------
(* Stopping: Shutdown and Close.                                            *)

Stops == {"Shutdown", "Close"}

CallStop(t, o, kind) ==
  /\ at[t] = "idle" /\ o \in exists
  /\ Goto(t, kind)
  /\ on' = [on EXCEPT ![t] = o]
  /\ UNCHANGED <<fields, started, srv, using, calls, http, built, ends>>

Returned(t, kind) == stops' = [stops EXCEPT ![on[t]] = @ \cup {kind}]

\* What an unsynchronized read of a field may give.
Racy(zero, value) == {zero, value}

\* An unstarted server is refused with an error.
RefuseQuietly(t, kind) == Returned(t, kind)
Refuse(t, kind)        == UNCHANGED stops

StopUnstarted(t, kind) ==
  /\ at[t] = kind /\ FALSE \in Racy(FALSE, started[on[t]])
  /\ Refuse(t, kind)
  /\ Goto(t, "refused")
  /\ UNCHANGED <<fields, started, srv, on, using, calls, http, built, starts>>

\* started was read as true; SetKeepAlivesEnabled closes idle connections only
\* and is left out.  Shutdown goes on to wait for the requests in flight.  If srv
\* is still read as nil the call panics.  Shutdown reads srv twice, once for
\* SetKeepAlivesEnabled: a nil in either place panics, and else the second, which is
\* the one here, decides what is closed.
Stop(t, kind) ==
  /\ at[t] = kind /\ TRUE \in Racy(FALSE, started[on[t]])
  /\ \E i \in Racy(Nil, srv[on[t]]) :
       IF i = Nil
         THEN Goto(t, "panicked") /\ UNCHANGED <<http, using, stops>>
         ELSE /\ http' = [http EXCEPT ![i].closed = TRUE]
              /\ using' = [using EXCEPT ![t] = i]
              /\ IF kind = "Close" THEN Goto(t, "stopped") /\ Returned(t, kind)
                                   ELSE Goto(t, "draining") /\ UNCHANGED stops
  /\ UNCHANGED <<fields, started, srv, on, calls, built, starts>>

Drained(t) ==
  /\ at[t] = "draining" /\ http[using[t]].requests = 0
  /\ Goto(t, "stopped") /\ Returned(t, "Shutdown")
  /\ UNCHANGED <<fields, started, srv, on, using, calls, http, built, starts>>

\* The context of Shutdown is done first.
Expired(t) ==
  /\ at[t] = "draining"
  /\ Goto(t, "expired")
  /\ UNCHANGED <<fields, started, srv, on, using, calls, http, built, ends>>

-----------------------------------------------------------------------------
(* net/http: requests.                                                      *)

Accept(i) ==
  /\ http[i].serving # {} /\ ~http[i].closed /\ http[i].requests < MaxRequests
  /\ http' = [http EXCEPT ![i].requests = @ + 1]
  /\ UNCHANGED <<fields, started, srv, at, on, using, calls, built, ends>>

FinishRequest(i) ==
  /\ http[i].requests > 0
  /\ http' = [http EXCEPT ![i].requests = @ - 1]
  /\ UNCHANGED <<fields, started, srv, at, on, using, calls, built, ends>>

-----------------------------------------------------------------------------
\* The http.Server t serves was closed: Serve gives ErrServerClosed.
ServeInterrupted(t) == at[t] = "serving" /\ http[using[t]].closed /\ ServeReturns(t)

StartStep(t) == CheckStarted(t) \/ CheckBuilt(t) \/ Build(t) \/ MarkStarted(t)
                  \/ EnterServe(t) \/ ListenFails(t)
StopStep(t)  == Drained(t) \/ \E kind \in Stops : StopUnstarted(t, kind) \/ Stop(t, kind)

ProgramStep ==
  \/ \E o \in Objects : SetMux(o) \/ \E h \in Hooks : AddHook(o, h)
  \/ \E o \in Objects, c \in Clones : Clone(o, c)
  \/ \E t \in Starters, o \in Objects : CallServe(t, o)
  \/ \E t \in Stoppers, o \in Objects, kind \in Stops : CallStop(t, o, kind)

Next ==
  \/ ProgramStep
  \/ \E t \in Starters : StartStep(t) \/ ServeReturns(t)
  \/ \E t \in Stoppers : StopStep(t) \/ Expired(t)
  \/ \E i \in Ids : Accept(i) \/ FinishRequest(i)

\* Goroutines inside a call run on, a Serve whose http.Server is closed returns,
\* and handlers end (flight.go, RequestEnds in Flight).
Fairness ==
  /\ \A t \in Starters : WF_vars(StartStep(t))
  /\ \A t \in Starters : WF_vars(ServeInterrupted(t))
  /\ \A t \in Stoppers : WF_vars(StopStep(t))
  /\ \A i \in Ids : WF_vars(FinishRequest(i))

Spec == Init /\ [][Next]_vars /\ Fairness

-----------------------------------------------------------------------------
(* Properties.                                                              *)

Places == {"idle", "checkStarted", "checkBuilt", "build", "mark", "serve", "serving",
           "refused", "panicked", "stopped", "draining", "expired"} \cup Stops

\* The types of the variables.
TypeOK ==
  /\ exists \subseteq Objects
  /\ mux \in [Objects -> BOOLEAN]
  /\ hooks \in [Objects -> [array : Objects \cup {Nil}, len : 0..Capacity]]
  /\ arrays \in [Objects -> [1..Capacity -> Hooks \cup {Unset}]]
  /\ started \in [Objects -> BOOLEAN]
  /\ srv \in [Objects -> Ids \cup {Nil}]
  /\ at \in [Threads -> Places]
  /\ on \in [Threads -> Objects]
  /\ using \in [Threads -> Ids \cup {Nil}]
  /\ calls \in 0..MaxCalls /\ built \in 0..MaxCalls
  /\ http \in [Ids -> [owner : Objects, registered : Seq(Hooks), closed : BOOLEAN,
                       serving : SUBSET Starters, requests : 0..MaxRequests]]
  /\ starts \in [Objects -> 0..MaxCalls]
  /\ stops \in [Objects -> SUBSET Stops]

\* A server is started at most once: a second Serve, and one racing a Shutdown,
\* gets "server already started".  Holds as long as one goroutine starts it.
OneStart == \A o \in Objects : starts[o] <= 1

\* A server that counts as started has its http.Server: Serve, and a stop that
\* happens after the start, never call a method of a nil http.Server.
StartedIsBuilt == \A o \in Objects : started[o] => srv[o] # Nil

\* Once a Shutdown or Close returned nil the server never serves again: all its
\* http.Servers are closed, one whose Serve had not been entered yet included,
\* and after a Shutdown there is no request in flight.
StopIsFinal ==
  \A o \in Objects, i \in 1..built :
    http[i].owner = o =>
      /\ stops[o] # {} => http[i].closed
      /\ "Shutdown" \in stops[o] => http[i].requests = 0

\* An http.Server is closed by a stop of the Server that built it, never by a stop
\* of a clone or of the Server it was cloned from.
StopsOnlyItsOwn ==
  \A i \in 1..built :
    http[i].closed =>
      \E t \in Stoppers : on[t] = http[i].owner /\ at[t] \in {"draining", "stopped", "expired"}

\* After a stop that returned nil, every Serve of that server returns.
StopEndsServe ==
  \A o \in Objects :
    stops[o] # {} ~> \A t \in Starters : on[t] = o => at[t] # "serving"

=============================================================================
