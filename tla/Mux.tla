--------------------------------- MODULE Mux ---------------------------------
(***************************************************************************)
(* How a program puts its ServeMuxes together (mux.go, migration.go,        *)
(* dev.go) and what they then run for a request.                            *)
(*                                                                         *)
(* ServeMuxConfigs collect interceptors; Mux() makes a ServeMux that shares *)
(* the slice of interceptors with the ServeMuxConfig; Handle registers a    *)
(* handler in several steps, any of which may panic, and the program may    *)
(* recover and go on.  Requests come in while the program still registers   *)
(* and configures.  UseLocalDev switches a global the framework reads while *)
(* it handles requests, until the first Mux() freezes it.                   *)
(***************************************************************************)
EXTENDS Naturals, Sequences, FiniteSets

CONSTANTS
  Original,      \* the ServeMuxConfig made by NewServeMuxConfig
  Clones,        \* ServeMuxConfigs made by Clone
  Muxes,         \* ServeMuxes
  Interceptors,
  Configs,       \* InterceptorConfigs
  Passed,        \* the lists of InterceptorConfigs one call of Handle is passed
  PassedToDefault, \* and those one call of HandleMethodNotAllowed is passed
  Match,         \* the pairs <<interceptor, config>> for which Match is true
  Handlers,      \* handlers of the program
  Patterns,      \* patterns the program registers
  BadPatterns,   \* those http.ServeMux.Handle panics on
  Methods,
  Requests,      \* requests in flight at one time; a name is used again
  Capacity,      \* bound: interceptors of one ServeMuxConfig, and the capacity
                 \* of the array behind them
  Nil            \* the nil pointer, map entry and interface

NotAllowed == "methodNotAllowed"   \* the default handler for other methods
Builders   == {Original} \cup Clones

ASSUME MuxAssumption ==
  /\ Original \notin Clones
  /\ BadPatterns \subseteq Patterns
  /\ Passed \cup PassedToDefault \subseteq Seq(Configs)
  /\ Match \subseteq Interceptors \X Configs
  /\ Nil \notin Configs \cup Handlers \cup Interceptors
  /\ NotAllowed \notin Handlers
  /\ Capacity \in Nat

\* handlerConfig, registeredHandler and ServeMux; nil is none of them.
Chains == [handler : Handlers \cup {NotAllowed},
           its : Seq([interceptor : Interceptors, config : Configs \cup {Nil}])]
RegisteredHandlers == [methods : [Methods -> Chains \cup {Nil}], notAllowed : Chains]
ServeMuxes == [interceptors : [array : Builders, len : 0..Capacity], notAllowed : Chains,
               routed : SUBSET Patterns, handlers : [Patterns -> RegisteredHandlers \cup {Nil}]]

ASSUME NilAssumption ==
  Nil \notin Chains /\ Nil \notin RegisteredHandlers /\ Nil \notin ServeMuxes

VARIABLES
  \* ServeMuxConfigs
  made,         \* those that exist
  slice,        \* [Builders -> [array, len]], the field interceptors
  arrays,       \* [Builders -> [1..Capacity -> interceptor]], arrays behind slices
  notAllowed,   \* [Builders -> [handler, cfgs]]
  \* ServeMuxes
  mux,          \* [Muxes -> ServeMux, or Nil]
  \* the running call to Handle, or idle
  reg,
  \* globals of dev.go
  isLocalDev, freezeLocalDev,
  \* requests
  req,          \* [Requests -> [state, mux, chain, dev]]
  crashed,      \* the Go runtime found the race on a map and ended the program
  \* history
  installed,    \* [Muxes -> interceptors of the ServeMuxConfig when it was made]
  registered    \* registrations whose Handle returned: [mux, pattern, method, chain]

builderVars == <<made, slice, arrays, notAllowed>>
devVars     == <<isLocalDev, freezeLocalDev>>
vars == <<builderVars, mux, reg, devVars, req, crashed, installed, registered>>

Idle == [pc |-> "idle"]

Init ==
  /\ made = {Original}
  /\ slice = [b \in Builders |-> [array |-> b, len |-> 0]]
  /\ arrays = [b \in Builders |-> [i \in 1..Capacity |-> Nil]]
  /\ notAllowed = [b \in Builders |-> [handler |-> NotAllowed, cfgs |-> <<>>]]
  /\ mux = [m \in Muxes |-> Nil]
  /\ reg = Idle
  /\ isLocalDev = FALSE /\ freezeLocalDev = FALSE
  /\ req = [r \in Requests |-> [state |-> "free"]]
  /\ crashed = FALSE
  /\ installed = [m \in Muxes |-> <<>>]
  /\ registered = {}

-----------------------------------------------------------------------------
(* configureInterceptors: each interceptor with the one config that matches *)
(* it, or none; more than one is a panic.                                   *)

\* The places in cfgs of what matches: a configuration given twice counts twice.
Matches(i, cfgs) == {n \in DOMAIN cfgs : <<i, cfgs[n]>> \in Match}

Ambiguous(its, cfgs) == \E k \in DOMAIN its : Cardinality(Matches(its[k], cfgs)) > 1

Configure(its, cfgs) ==
  [k \in DOMAIN its |->
     [interceptor |-> its[k],
      config |-> IF Matches(its[k], cfgs) = {} THEN Nil
                 ELSE cfgs[CHOOSE n \in Matches(its[k], cfgs) : TRUE]]]

\* handlerConfig; the dispatcher is the same everywhere and is left out.
Chain(h, its, cfgs) == [handler |-> h, its |-> Configure(its, cfgs)]

Slice(s) == [k \in 1..s.len |-> arrays[s.array][k]]

-----------------------------------------------------------------------------
(* ServeMuxConfig.                                                          *)

\* append, into the array as long as there is room.
Intercept(b, i) ==
  /\ b \in made /\ slice[b].len < Capacity
  /\ arrays' = [arrays EXCEPT ![slice[b].array][slice[b].len + 1] = i]
  /\ slice' = [slice EXCEPT ![b].len = @ + 1]
  /\ UNCHANGED <<made, notAllowed, mux, reg, devVars, req, crashed, installed, registered>>

HandleMethodNotAllowed(b, h, cfgs) ==
  /\ b \in made
  /\ notAllowed' = [notAllowed EXCEPT ![b] = [handler |-> h, cfgs |-> cfgs]]
  /\ UNCHANGED <<made, slice, arrays, mux, reg, devVars, req, crashed, installed, registered>>

\* Clone copies the interceptors into an array of its own.
SharedSlice(b, c) == slice' = [slice EXCEPT ![c] = slice[b]] /\ UNCHANGED arrays
CopiedSlice(b, c) == /\ slice' = [slice EXCEPT ![c].len = slice[b].len]
                     /\ arrays' = [arrays EXCEPT ![c] = arrays[slice[b].array]]

Clone(b, c) ==
  /\ b \in made /\ c \in Clones \ made
  /\ made' = made \cup {c}
  /\ CopiedSlice(b, c)
  /\ notAllowed' = [notAllowed EXCEPT ![c] = notAllowed[b]]
  /\ UNCHANGED <<mux, reg, devVars, req, crashed, installed, registered>>

\* Dev mode is frozen first, also when the call then panics on the configurations
\* of the method-not-allowed handler.
NoFreeze == FALSE
Freeze   == TRUE

NewMux(b, m) ==
  LET its == Slice(slice[b])
      na  == notAllowed[b]
  IN  /\ b \in made /\ mux[m] = Nil
      /\ freezeLocalDev' = (freezeLocalDev \/ Freeze)
      /\ IF Ambiguous(its, na.cfgs)
           THEN UNCHANGED <<mux, installed>>
           ELSE /\ mux' = [mux EXCEPT ![m] =
                     [interceptors |-> slice[b],
                      notAllowed   |-> Chain(na.handler, its, na.cfgs),
                      routed       |-> {},
                      handlers     |-> [p \in Patterns |-> Nil]]]
                /\ installed' = [installed EXCEPT ![m] = its]
      /\ UNCHANGED <<builderVars, reg, isLocalDev, req, crashed, registered>>

-----------------------------------------------------------------------------
(* ServeMux.Handle.                                                         *)

NoMethods == [x \in Methods |-> Nil]

Handle(m, p, x, h, cfgs) ==
  /\ reg = Idle /\ mux[m] # Nil
  /\ reg' = [pc |-> IF mux[m].handlers[p] = Nil THEN "enter" ELSE "configure",
             mux |-> m, pattern |-> p, method |-> x, handler |-> h, cfgs |-> cfgs]
  /\ UNCHANGED <<builderVars, mux, devVars, req, crashed, installed, registered>>

\* A new pattern is entered in handlers first and routed next.
EnterPattern ==
  /\ reg.pc = "enter"
  /\ reg' = [reg EXCEPT !.pc = "route"]
  /\ mux' = [mux EXCEPT ![reg.mux].handlers[reg.pattern] =
               [methods |-> NoMethods, notAllowed |-> mux[reg.mux].notAllowed]]
  /\ UNCHANGED <<builderVars, devVars, req, crashed, installed, registered>>

RoutePattern ==
  /\ reg.pc = "route"
  /\ IF reg.pattern \in BadPatterns
       THEN reg' = Idle /\ UNCHANGED mux
       ELSE /\ reg' = [reg EXCEPT !.pc = "configure"]
            /\ mux' = [mux EXCEPT ![reg.mux].routed = @ \cup {reg.pattern}]
  /\ UNCHANGED <<builderVars, devVars, req, crashed, installed, registered>>

ConfigureHandler ==
  /\ reg.pc = "configure"
  /\ reg' = IF Ambiguous(Slice(mux[reg.mux].interceptors), reg.cfgs)
              THEN Idle ELSE [reg EXCEPT !.pc = "store"]
  /\ UNCHANGED <<builderVars, mux, devVars, req, crashed, installed, registered>>

\* handleMethod: a second registration panics and changes nothing.
AlwaysFree(m, p, x) == TRUE
MethodFree(m, p, x) == mux[m].handlers[p].methods[x] = Nil

StoreMethod ==
  LET c == Chain(reg.handler, Slice(mux[reg.mux].interceptors), reg.cfgs)
  IN  /\ reg.pc = "store"
      /\ reg' = Idle
      /\ IF MethodFree(reg.mux, reg.pattern, reg.method)
           THEN /\ mux' = [mux EXCEPT ![reg.mux].handlers[reg.pattern].methods[reg.method] = c]
                /\ registered' = registered \cup
                     {[mux |-> reg.mux, pattern |-> reg.pattern, method |-> reg.method,
                       chain |-> c]}
           ELSE UNCHANGED <<mux, registered>>
      /\ UNCHANGED <<builderVars, devVars, req, crashed, installed>>

-----------------------------------------------------------------------------
(* Requests.                                                                *)

\* registeredHandler.ServeHTTP.
ForMethod(m, p, x) ==
  LET rh == mux[m].handlers[p]
  IN  IF rh.methods[x] = Nil THEN rh.notAllowed ELSE rh.methods[x]

\* The map of methods is written without a lock, on the goroutine that registers.
Racing(m, p) == reg.pc = "store" /\ reg.mux = m /\ reg.pattern = p

\* ServeMux.ServeHTTP for a pattern that is routed, or the handler that
\* RegisteredHandler gives for one that was registered; other requests get a 404
\* from http.ServeMux and never reach the framework.
Arrive(r, m, p, x) ==
  /\ req[r].state = "free" /\ mux[m] # Nil
  /\ mux[m].handlers[p] # Nil
  /\ req' = [req EXCEPT ![r] =
       [state |-> "running", mux |-> m, chain |-> ForMethod(m, p, x), dev |-> isLocalDev]]
  /\ crashed' \in {FALSE, Racing(m, p)}
  /\ UNCHANGED <<builderVars, mux, reg, devVars, installed, registered>>

\* RegisteredHandler reads the map of patterns, whichever it is asked for; that map
\* too is written without a lock, and Go may end the program.
RaceOnPatterns ==
  /\ reg.pc = "enter"
  /\ crashed' = TRUE
  /\ UNCHANGED <<builderVars, mux, reg, devVars, req, installed, registered>>

Finish(r) ==
  /\ req[r].state = "running"
  /\ req' = [req EXCEPT ![r] = [state |-> "free"]]
  /\ UNCHANGED <<builderVars, mux, reg, devVars, crashed, installed, registered>>

-----------------------------------------------------------------------------
(* dev.go.                                                                  *)

\* Once frozen the call panics.
UseLocalDev ==
  /\ ~freezeLocalDev
  /\ isLocalDev' = TRUE
  /\ UNCHANGED <<builderVars, mux, reg, freezeLocalDev, req, crashed, installed, registered>>

-----------------------------------------------------------------------------
Build ==
  \/ \E b \in Builders, i \in Interceptors : Intercept(b, i)
  \/ \E b \in Builders, h \in Handlers, cfgs \in PassedToDefault :
       HandleMethodNotAllowed(b, h, cfgs)
  \/ \E b \in Builders, c \in Clones : Clone(b, c)
  \/ \E b \in Builders, m \in Muxes : NewMux(b, m)
  \/ UseLocalDev

Register ==
  \/ \E m \in Muxes, p \in Patterns, x \in Methods, h \in Handlers, cfgs \in Passed :
       Handle(m, p, x, h, cfgs)
  \/ EnterPattern \/ RoutePattern \/ ConfigureHandler \/ StoreMethod

Serve ==
  \/ \E r \in Requests, m \in Muxes, p \in Patterns, x \in Methods : Arrive(r, m, p, x)
  \/ RaceOnPatterns
  \/ \E r \in Requests : Finish(r)

Next == ~crashed /\ (Build \/ Register \/ Serve)

Spec == Init /\ [][Next]_vars
-----------------------------------------------------------------------------
(* Properties.                                                              *)

Through(c) == [k \in DOMAIN c.its |-> c.its[k].interceptor]

\* Whatever a request runs, a handler or the method-not-allowed handler, it runs
\* through exactly the interceptors that were installed when its ServeMux was
\* made, in their order: interceptors installed later on that ServeMuxConfig or on
\* a clone, and registrations that panicked half way, change nothing.
RequestsPassAll ==
  \A r \in Requests : req[r].state = "running" =>
    Through(req[r].chain) = installed[req[r].mux]

\* A registration that returned is served, and stays what its pattern and method run,
\* whatever is registered, or tried, after it.  The one exception is a pattern that
\* http.ServeMux refuses: tried again, Handle returns although nothing is routed.
RegistrationSticks ==
  \A g \in registered :
    /\ mux[g.mux].handlers[g.pattern].methods[g.method] = g.chain
    /\ g.pattern \in mux[g.mux].routed \cup BadPatterns

\* Every place of the framework that asks for the dev mode while it handles one
\* request gets the same answer, though UseLocalDev may be called at any time.
RequestSeesOneDevMode ==
  \A r \in Requests : req[r].state = "running" => req[r].dev = isLocalDev

=============================================================================
