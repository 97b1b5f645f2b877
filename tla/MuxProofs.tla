------------------------------ MODULE MuxProofs ------------------------------
(***************************************************************************)
(* Theorems about Mux, for any ServeMuxConfigs, ServeMuxes, interceptors,   *)
(* patterns and requests at the same time.                                  *)
(***************************************************************************)
EXTENDS Mux, TLAPS

Registrations == [pc : {"enter", "route", "configure", "store"}, mux : Muxes,
                  pattern : Patterns, method : Methods, handler : Handlers, cfgs : Passed]
Running == [state : {"running"}, mux : Muxes, chain : Chains, dev : BOOLEAN]

TypeOK ==
  /\ made \subseteq Builders
  /\ slice \in [Builders -> [array : Builders, len : 0..Capacity]]
  /\ arrays \in [Builders -> [1..Capacity -> Interceptors \cup {Nil}]]
  /\ notAllowed \in [Builders -> [handler : Handlers \cup {NotAllowed}, cfgs : Seq(Configs)]]
  /\ mux \in [Muxes -> ServeMuxes \cup {Nil}]
  /\ reg \in {Idle} \cup Registrations
  /\ isLocalDev \in BOOLEAN /\ freezeLocalDev \in BOOLEAN
  /\ req \in [Requests -> {[state |-> "free"]} \cup Running]
  /\ installed \in [Muxes -> Seq(Interceptors)]
  /\ registered \subseteq [mux : Muxes, pattern : Patterns, method : Methods, chain : Chains]

\* A ServeMuxConfig appends to an array of its own, which holds interceptors as far
\* as its slice goes.
ArraysOwned ==
  \A b \in Builders :
    /\ slice[b].array = b
    /\ \A k \in 1..slice[b].len : arrays[b][k] \in Interceptors

\* The slice of a ServeMux shows what was installed when it was made, and ends where
\* the ServeMuxConfig it shares the array with does, or before.
MuxesKeepSlice ==
  \A m \in Muxes : mux[m] # Nil =>
    /\ mux[m].interceptors.array \in made
    /\ mux[m].interceptors.len <= slice[mux[m].interceptors.array].len
    /\ mux[m].interceptors.len = Len(installed[m])
    /\ \A k \in 1..Len(installed[m]) : arrays[mux[m].interceptors.array][k] = installed[m][k]

\* Every chain a ServeMux holds goes through those interceptors.
MuxesPassAll ==
  \A m \in Muxes : mux[m] # Nil =>
    /\ Through(mux[m].notAllowed) = installed[m]
    /\ \A p \in Patterns : mux[m].handlers[p] # Nil =>
         /\ Through(mux[m].handlers[p].notAllowed) = installed[m]
         /\ \A x \in Methods : mux[m].handlers[p].methods[x] # Nil =>
              Through(mux[m].handlers[p].methods[x]) = installed[m]

\* The pattern of a running Handle is entered in its ServeMux, once it is past that
\* step, and so is that of a registration that returned.
PatternsEntered ==
  /\ reg.pc # "idle" =>
       /\ mux[reg.mux] # Nil
       /\ reg.pc = "enter" <=> mux[reg.mux].handlers[reg.pattern] = Nil
  /\ \A g \in registered : mux[g.mux] # Nil /\ mux[g.mux].handlers[g.pattern] # Nil

\* The two halves of RegistrationSticks.
MethodsStick ==
  \A g \in registered : mux[g.mux].handlers[g.pattern].methods[g.method] = g.chain
RegistrationsRouted ==
  \A g \in registered : g.pattern \in mux[g.mux].routed \cup BadPatterns

\* A pattern that is entered is routed, refused, or about to be either.
EntriesRouted ==
  \A m \in Muxes : mux[m] # Nil => \A p \in Patterns : mux[m].handlers[p] # Nil =>
    \/ p \in mux[m].routed \cup BadPatterns
    \/ reg.pc = "route" /\ reg.mux = m /\ reg.pattern = p

RequestsHaveMux ==
  \A r \in Requests : req[r].state = "running" => mux[req[r].mux] # Nil

MuxesFreeze == \A m \in Muxes : mux[m] # Nil => freezeLocalDev

IInv ==
  /\ TypeOK /\ ArraysOwned /\ MuxesKeepSlice /\ MuxesPassAll /\ PatternsEntered
  /\ RequestsHaveMux /\ MuxesFreeze
  /\ RequestsPassAll /\ RequestSeesOneDevMode
  /\ MethodsStick /\ RegistrationsRouted /\ EntriesRouted


-----------------------------------------------------------------------------
(* The operators the actions use.                                           *)

\* configureInterceptors keeps the interceptors and their order, whatever
\* configurations match.
LEMMA ChainThrough ==
  ASSUME NEW h \in Handlers \cup {NotAllowed}, NEW its \in Seq(Interceptors),
         NEW cfgs \in Seq(Configs)
  PROVE  Chain(h, its, cfgs) \in Chains /\ Through(Chain(h, its, cfgs)) = its
<1> DEFINE c == Configure(its, cfgs)
           e(k) == [interceptor |-> its[k],
                    config |-> IF Matches(its[k], cfgs) = {} THEN Nil
                               ELSE cfgs[CHOOSE n \in Matches(its[k], cfgs) : TRUE]]
<1>1. ASSUME NEW k \in DOMAIN its
      PROVE  e(k) \in [interceptor : Interceptors, config : Configs \cup {Nil}]
  <2> DEFINE ms == Matches(its[k], cfgs)
             n  == CHOOSE n \in ms : TRUE
  <2>1. ASSUME ms # {} PROVE n \in DOMAIN cfgs /\ cfgs[n] \in Configs
    <3>1. n \in ms
      BY <2>1
    <3>2. ms \subseteq DOMAIN cfgs
      BY DEF Matches
    <3> HIDE DEF n, ms
    <3> QED
      BY <3>1, <3>2
  <2>2. its[k] \in Interceptors
    BY <1>1
  <2> HIDE DEF n, ms
  <2>3. e(k) = [interceptor |-> its[k], config |-> IF ms = {} THEN Nil ELSE cfgs[n]]
    BY DEF n, ms
  <2> QED
    BY <2>1, <2>2, <2>3
<1>2. c = [k \in 1..Len(its) |-> e(k)]
  BY DEF Configure
<1>3. c \in Seq([interceptor : Interceptors, config : Configs \cup {Nil}])
  BY <1>1, <1>2
<1>4. Chain(h, its, cfgs) \in Chains
  BY <1>3 DEF Chain, Chains
<1>5. Through(Chain(h, its, cfgs)) = [k \in 1..Len(its) |-> its[k]]
  BY <1>2 DEF Chain, Through
<1> QED
  BY <1>4, <1>5

\* The slice of a ServeMuxConfig holds interceptors.
LEMMA SliceType ==
  ASSUME TypeOK, ArraysOwned, NEW b \in Builders
  PROVE  /\ Slice(slice[b]) \in Seq(Interceptors)
         /\ Len(Slice(slice[b])) = slice[b].len
         /\ \A k \in 1..slice[b].len : Slice(slice[b])[k] = arrays[b][k]
<1>1. slice[b].array = b /\ slice[b].len \in Nat
      /\ \A k \in 1..slice[b].len : arrays[b][k] \in Interceptors
  BY MuxAssumption DEF TypeOK, ArraysOwned
<1>2. Slice(slice[b]) = [k \in 1..slice[b].len |-> arrays[b][k]]
  BY <1>1 DEF Slice
<1> QED
  BY <1>1, <1>2

\* The slice of a ServeMux holds what was installed when it was made.
LEMMA SliceInstalled ==
  ASSUME TypeOK, MuxesKeepSlice, NEW m \in Muxes, mux[m] # Nil
  PROVE  Slice(mux[m].interceptors) = installed[m]
<1> DEFINE s == mux[m].interceptors
<1>1. s.len = Len(installed[m]) /\ installed[m] \in Seq(Interceptors)
      /\ \A k \in 1..s.len : arrays[s.array][k] = installed[m][k]
  BY DEF TypeOK, MuxesKeepSlice
<1>2. Slice(s) = [k \in 1..s.len |-> installed[m][k]]
  BY <1>1 DEF Slice
<1> QED
  BY <1>1, <1>2

\* The handler chosen for a method is one of the chains of its ServeMux.
LEMMA ForMethodThrough ==
  ASSUME TypeOK, MuxesPassAll, NEW m \in Muxes, NEW p \in Patterns, NEW x \in Methods,
         mux[m] # Nil, mux[m].handlers[p] # Nil
  PROVE  ForMethod(m, p, x) \in Chains /\ Through(ForMethod(m, p, x)) = installed[m]
<1>1. mux[m] \in ServeMuxes
  BY DEF TypeOK
<1>2. mux[m].handlers[p] \in RegisteredHandlers
  BY <1>1 DEF ServeMuxes
<1> QED
  BY <1>2 DEF ForMethod, MuxesPassAll, RegisteredHandlers

-----------------------------------------------------------------------------
(* The program configures.                                                  *)

\* At the start there are no ServeMuxes, registrations or requests.
LEMMA Starts ==
  ASSUME Init
  PROVE  IInv
<1>1. TypeOK
  <2>1. /\ slice \in [Builders -> [array : Builders, len : 0..Capacity]]
        /\ arrays \in [Builders -> [1..Capacity -> Interceptors \cup {Nil}]]
    BY MuxAssumption DEF Init
  <2>2. notAllowed \in [Builders -> [handler : Handlers \cup {NotAllowed},
                                     cfgs : Seq(Configs)]]
    BY DEF Init
  <2>3. req \in [Requests -> {[state |-> "free"]} \cup Running]
    BY DEF Init
  <2>4. installed \in [Muxes -> Seq(Interceptors)] /\ mux \in [Muxes -> ServeMuxes \cup {Nil}]
    BY DEF Init
  <2> QED
    BY <2>1, <2>2, <2>3, <2>4 DEF Init, TypeOK, Builders
<1>2. ArraysOwned
  BY DEF Init, ArraysOwned
<1>3. MuxesKeepSlice /\ MuxesPassAll /\ MuxesFreeze
  BY DEF Init, MuxesKeepSlice, MuxesPassAll, MuxesFreeze
<1>4. RequestsHaveMux /\ RequestsPassAll /\ RequestSeesOneDevMode
  BY DEF Init, RequestsHaveMux, RequestsPassAll, RequestSeesOneDevMode
<1>5. PatternsEntered /\ MethodsStick /\ RegistrationsRouted /\ EntriesRouted
  BY DEF Init, PatternsEntered, MethodsStick, RegistrationsRouted, EntriesRouted, Idle
<1> QED
  BY <1>1, <1>2, <1>3, <1>4, <1>5 DEF IInv

\* Intercept writes behind the slices of the ServeMuxes that share the array.
LEMMA InterceptKeeps ==
  ASSUME IInv, NEW b \in Builders, NEW i \in Interceptors, Intercept(b, i)
  PROVE  IInv'
<1> USE DEF IInv
<1>1. slice[b].array = b /\ slice[b].len \in Nat /\ slice[b].len + 1 \in 1..Capacity
  BY MuxAssumption DEF Intercept, TypeOK, ArraysOwned
<1>2. /\ arrays' = [arrays EXCEPT ![b][slice[b].len + 1] = i]
      /\ slice' = [slice EXCEPT ![b].len = slice[b].len + 1]
  BY <1>1 DEF Intercept
<1>3. /\ slice' \in [Builders -> [array : Builders, len : 0..Capacity]]
      /\ arrays' \in [Builders -> [1..Capacity -> Interceptors \cup {Nil}]]
  <2>1. Capacity \in Nat
    BY MuxAssumption
  <2>2. slice' \in [Builders -> [array : Builders, len : 0..Capacity]]
    <3>1. slice[b].len + 1 \in 0..Capacity
      BY <1>1, <2>1
    <3>2. slice \in [Builders -> [array : Builders, len : 0..Capacity]]
      BY DEF TypeOK
    <3> DEFINE new == slice[b].len + 1
    <3> HIDE DEF new, IInv
    <3>3. new \in 0..Capacity /\ slice' = [slice EXCEPT ![b].len = new]
      BY <1>2, <3>1 DEF new
    <3> QED
      BY <3>2, <3>3
  <2>3. arrays' \in [Builders -> [1..Capacity -> Interceptors \cup {Nil}]]
    BY <1>1, <1>2 DEF TypeOK
  <2> QED
    BY <2>2, <2>3
<1>4. /\ slice'[b].len = slice[b].len + 1 /\ slice'[b].array = b
      /\ arrays'[b][slice[b].len + 1] = i
      /\ \A k \in 1..slice[b].len : arrays'[b][k] = arrays[b][k]
      /\ \A a \in Builders \ {b} : slice'[a] = slice[a] /\ arrays'[a] = arrays[a]
  BY <1>1, <1>2, MuxAssumption DEF TypeOK
<1>5. TypeOK'
  BY <1>3 DEF Intercept, TypeOK, devVars
<1>6. ArraysOwned'
  BY <1>1, <1>4 DEF ArraysOwned
<1>7. MuxesKeepSlice'
  <2> SUFFICES ASSUME NEW m \in Muxes, mux[m] # Nil
               PROVE  /\ mux[m].interceptors.array \in made
                      /\ mux[m].interceptors.len <= slice'[mux[m].interceptors.array].len
                      /\ mux[m].interceptors.len = Len(installed[m])
                      /\ \A k \in 1..Len(installed[m]) :
                           arrays'[mux[m].interceptors.array][k] = installed[m][k]
    BY DEF MuxesKeepSlice, Intercept
  <2>1. mux[m].interceptors \in [array : Builders, len : 0..Capacity]
        /\ Len(installed[m]) \in Nat
    BY DEF TypeOK, ServeMuxes
  <2>2. /\ mux[m].interceptors.array \in made
        /\ mux[m].interceptors.len <= slice[mux[m].interceptors.array].len
        /\ mux[m].interceptors.len = Len(installed[m])
        /\ \A k \in 1..Len(installed[m]) :
             arrays[mux[m].interceptors.array][k] = installed[m][k]
    BY DEF MuxesKeepSlice
  <2> DEFINE a == mux[m].interceptors.array
             l == mux[m].interceptors.len
             t == installed[m]
             old == slice[b].len
  <2>3. /\ a \in Builders /\ l \in Nat /\ Len(t) \in Nat /\ a \in made /\ l <= slice[a].len
        /\ l = Len(t) /\ \A k \in 1..Len(t) : arrays[a][k] = t[k]
    BY <2>1, <2>2
  <2>4. /\ old \in Nat /\ slice'[b].len = old + 1 /\ slice[b].len = old
        /\ \A k \in 1..old : arrays'[b][k] = arrays[b][k]
        /\ \A x \in Builders \ {b} : slice'[x] = slice[x] /\ arrays'[x] = arrays[x]
    BY <1>1, <1>4
  <2> SUFFICES /\ a \in made /\ l <= slice'[a].len /\ l = Len(t)
               /\ \A k \in 1..Len(t) : arrays'[a][k] = t[k]
    OBVIOUS
  <2> HIDE DEF a, l, t, old
  <2>5. CASE a # b
    BY <2>3, <2>4, <2>5
  <2>6. CASE a = b
    BY <2>3, <2>4, <2>6
  <2> QED
    BY <2>5, <2>6
<1> QED
  BY <1>5, <1>6, <1>7
     DEF Intercept, devVars, MuxesPassAll, PatternsEntered, RequestsHaveMux, MuxesFreeze,
         RequestsPassAll, MethodsStick, RegistrationsRouted, EntriesRouted,
         RequestSeesOneDevMode

\* HandleMethodNotAllowed leaves every ServeMux alone.
LEMMA HandleMethodNotAllowedKeeps ==
  ASSUME IInv, NEW b \in Builders, NEW h \in Handlers, NEW cfgs \in PassedToDefault,
         HandleMethodNotAllowed(b, h, cfgs)
  PROVE  IInv'
<1> USE DEF IInv
<1>1. TypeOK'
  BY MuxAssumption DEF HandleMethodNotAllowed, TypeOK, devVars
<1> QED
  BY <1>1
     DEF HandleMethodNotAllowed, devVars, ArraysOwned, MuxesKeepSlice, MuxesPassAll,
         PatternsEntered, RequestsHaveMux, MuxesFreeze, RequestsPassAll,
         MethodsStick, RegistrationsRouted, EntriesRouted, RequestSeesOneDevMode

\* Clone writes an array that no slice of a ServeMux shows.
LEMMA CloneKeeps ==
  ASSUME IInv, NEW b \in Builders, NEW c \in Clones, Clone(b, c)
  PROVE  IInv'
<1> USE DEF IInv
<1>1. b \in made /\ c \notin made /\ c \in Builders /\ slice[b].array = b
      /\ slice[b].len \in 0..Capacity
  BY DEF Clone, TypeOK, ArraysOwned, Builders
<1>2. /\ slice' = [slice EXCEPT ![c].len = slice[b].len]
      /\ arrays' = [arrays EXCEPT ![c] = arrays[b]]
  BY <1>1 DEF Clone, CopiedSlice
<1>3. TypeOK'
  BY <1>1, <1>2 DEF Clone, TypeOK, devVars
<1>4. /\ slice'[c] = [array |-> c, len |-> slice[b].len] /\ arrays'[c] = arrays[b]
      /\ \A a \in Builders \ {c} : slice'[a] = slice[a] /\ arrays'[a] = arrays[a]
  BY <1>1, <1>2 DEF TypeOK, ArraysOwned
<1>5. ArraysOwned'
  BY <1>1, <1>4 DEF ArraysOwned
<1>6. MuxesKeepSlice'
  <2> SUFFICES ASSUME NEW m \in Muxes, mux[m] # Nil
               PROVE  /\ mux[m].interceptors.array \in made'
                      /\ mux[m].interceptors.len <= slice'[mux[m].interceptors.array].len
                      /\ mux[m].interceptors.len = Len(installed[m])
                      /\ \A k \in 1..Len(installed[m]) :
                           arrays'[mux[m].interceptors.array][k] = installed[m][k]
    BY DEF MuxesKeepSlice, Clone
  <2>1. mux[m].interceptors.array \in Builders /\ mux[m].interceptors.array # c
    BY <1>1 DEF TypeOK, ServeMuxes, MuxesKeepSlice
  <2> QED
    BY <2>1, <1>4 DEF Clone, MuxesKeepSlice
<1> QED
  BY <1>3, <1>5, <1>6
     DEF Clone, devVars, MuxesPassAll, PatternsEntered, RequestsHaveMux, MuxesFreeze,
         RequestsPassAll, MethodsStick, RegistrationsRouted, EntriesRouted,
         RequestSeesOneDevMode

\* A new ServeMux starts with the interceptors of its ServeMuxConfig, in its slice and
\* in its method-not-allowed handler, and freezes the dev mode.
LEMMA NewMuxKeeps ==
  ASSUME IInv, NEW b \in Builders, NEW m \in Muxes, NewMux(b, m)
  PROVE  IInv'
<1> DEFINE its == Slice(slice[b])
           na  == notAllowed[b]
           c   == Chain(na.handler, its, na.cfgs)
           new == [interceptors |-> slice[b], notAllowed |-> c, routed |-> {},
                   handlers |-> [p \in Patterns |-> Nil]]
<1> USE DEF IInv
<1>1. its \in Seq(Interceptors)
  BY SliceType
<1>2. c \in Chains /\ Through(c) = its
  BY <1>1, ChainThrough DEF TypeOK
<1>3. new \in ServeMuxes
  BY <1>2 DEF ServeMuxes, TypeOK
<1>4. CASE Ambiguous(its, na.cfgs)
  <2>1. UNCHANGED <<made, slice, arrays, notAllowed, mux, installed, reg, isLocalDev, req,
                    crashed, registered>> /\ freezeLocalDev' \in BOOLEAN
        /\ (freezeLocalDev => freezeLocalDev')
    BY <1>4 DEF NewMux, builderVars, Freeze, TypeOK
  <2> QED
    BY <2>1
       DEF TypeOK, ArraysOwned, MuxesKeepSlice, MuxesPassAll, PatternsEntered,
           RequestsHaveMux, MuxesFreeze, RequestsPassAll, MethodsStick,
           RegistrationsRouted, EntriesRouted, RequestSeesOneDevMode
<1>5. CASE ~Ambiguous(its, na.cfgs)
  <2>1. /\ mux' = [mux EXCEPT ![m] = new] /\ installed' = [installed EXCEPT ![m] = its]
        /\ b \in made /\ mux[m] = Nil /\ freezeLocalDev'
        /\ UNCHANGED <<made, slice, arrays, notAllowed, reg, isLocalDev, req, crashed,
                       registered>>
    BY <1>5 DEF NewMux, builderVars, Freeze
  <2>2. TypeOK'
    BY <1>1, <1>3, <2>1 DEF TypeOK
  <2>3. /\ mux'[m] = new /\ installed'[m] = its
        /\ \A n \in Muxes \ {m} : mux'[n] = mux[n] /\ installed'[n] = installed[n]
    BY <2>1 DEF TypeOK
  <2>4. MuxesKeepSlice'
    BY <2>1, <2>3, SliceType DEF MuxesKeepSlice, ArraysOwned, TypeOK
  <2>5. MuxesPassAll'
    BY <1>2, <2>3 DEF MuxesPassAll
  <2>6. PatternsEntered'
    BY <2>1, <2>3 DEF PatternsEntered, TypeOK, Registrations, Idle
  <2>7. RequestsHaveMux' /\ RequestsPassAll' /\ RequestSeesOneDevMode'
    BY <2>1, <2>3
       DEF RequestsHaveMux, RequestsPassAll, RequestSeesOneDevMode, TypeOK, Running
  <2>8. MethodsStick' /\ RegistrationsRouted'
    BY <2>1, <2>3 DEF MethodsStick, RegistrationsRouted, PatternsEntered, TypeOK
  <2>9. EntriesRouted'
    BY <2>1, <2>3 DEF EntriesRouted
  <2> QED
    BY <2>1, <2>2, <2>4, <2>5, <2>6, <2>7, <2>8, <2>9 DEF ArraysOwned, MuxesFreeze
<1> QED
  BY <1>4, <1>5

\* Once there is a ServeMux, the dev mode stays.
LEMMA UseLocalDevKeeps ==
  ASSUME IInv, UseLocalDev
  PROVE  IInv'
<1>1. \A m \in Muxes : mux[m] = Nil
  BY DEF IInv, UseLocalDev, MuxesFreeze
<1>2. \A r \in Requests : req[r].state # "running"
  BY <1>1 DEF IInv, RequestsHaveMux, TypeOK, Running
<1> QED
  BY <1>2
     DEF UseLocalDev, builderVars, IInv, TypeOK, ArraysOwned, MuxesKeepSlice,
         MuxesPassAll, PatternsEntered, RequestsHaveMux, MuxesFreeze, RequestsPassAll,
         MethodsStick, RegistrationsRouted, EntriesRouted, RequestSeesOneDevMode

-----------------------------------------------------------------------------
(* The program registers handlers.                                          *)

\* What the steps of Handle leave alone.
LEMMA RegisterFrame ==
  ASSUME IInv, UNCHANGED <<builderVars, devVars, req, installed>>, TypeOK',
         \A m \in Muxes : mux'[m] = Nil <=> mux[m] = Nil,
         \A m \in Muxes : mux[m] # Nil => mux'[m].interceptors = mux[m].interceptors
  PROVE  /\ ArraysOwned' /\ MuxesKeepSlice' /\ RequestsHaveMux' /\ MuxesFreeze'
         /\ RequestsPassAll' /\ RequestSeesOneDevMode'
<1>1. ArraysOwned' /\ MuxesFreeze'
  BY DEF IInv, builderVars, devVars, ArraysOwned, MuxesFreeze
<1>2. MuxesKeepSlice'
  <2> SUFFICES ASSUME NEW m \in Muxes, mux'[m] # Nil
               PROVE  /\ mux'[m].interceptors.array \in made
                      /\ mux'[m].interceptors.len <= slice[mux'[m].interceptors.array].len
                      /\ mux'[m].interceptors.len = Len(installed[m])
                      /\ \A k \in 1..Len(installed[m]) :
                           arrays[mux'[m].interceptors.array][k] = installed[m][k]
    BY DEF MuxesKeepSlice, builderVars
  <2> QED
    BY DEF IInv, MuxesKeepSlice
<1>3. \A r \in Requests : req[r].state = "running" => req[r].mux \in Muxes
  <2> SUFFICES ASSUME NEW r \in Requests, req[r].state = "running" PROVE req[r].mux \in Muxes
    OBVIOUS
  <2>1. req[r] \in {[state |-> "free"]} \cup Running
    BY DEF IInv, TypeOK
  <2>2. req[r] # [state |-> "free"]
    OBVIOUS
  <2> QED
    BY <2>1, <2>2 DEF Running
<1>4. RequestsHaveMux'
  BY <1>3 DEF IInv, RequestsHaveMux
<1>5. RequestsPassAll' /\ RequestSeesOneDevMode'
  BY DEF IInv, devVars, RequestsPassAll, RequestSeesOneDevMode
<1> QED
  BY <1>1, <1>2, <1>4, <1>5

\* What is registered is of the program's ServeMuxes, patterns and methods.
LEMMA RegisteredType ==
  ASSUME TypeOK, NEW g \in registered
  PROVE  g.mux \in Muxes /\ g.pattern \in Patterns /\ g.method \in Methods /\ g.chain \in Chains
BY DEF TypeOK

\* A call of Handle begins: it changes no ServeMux.
LEMMA HandleKeeps ==
  ASSUME IInv, NEW m \in Muxes, NEW p \in Patterns, NEW x \in Methods, NEW h \in Handlers,
         NEW cfgs \in Passed, Handle(m, p, x, h, cfgs)
  PROVE  IInv'
<1> USE DEF IInv
<1>1. mux[m] # Nil /\ reg = Idle
  BY DEF Handle
<1>2. /\ reg' \in Registrations /\ reg'.mux = m /\ reg'.pattern = p
      /\ reg'.pc = IF mux[m].handlers[p] = Nil THEN "enter" ELSE "configure"
  BY DEF Handle, Registrations
<1>3. UNCHANGED <<builderVars, devVars, req, installed, registered, mux>>
  BY DEF Handle
<1>4. TypeOK'
  BY <1>2, <1>3 DEF TypeOK, builderVars, devVars
<1>5. MuxesPassAll' /\ MethodsStick'
  BY <1>3 DEF MuxesPassAll, MethodsStick
<1>6. PatternsEntered'
  BY <1>1, <1>2, <1>3 DEF PatternsEntered
<1>7. RegistrationsRouted' /\ EntriesRouted'
  BY <1>1, <1>3 DEF RegistrationsRouted, EntriesRouted, Idle
<1> QED
  BY <1>3, <1>4, <1>5, <1>6, <1>7, RegisterFrame

\* A new pattern starts with the method-not-allowed handler of its ServeMux.
LEMMA EnterPatternKeeps ==
  ASSUME IInv, EnterPattern
  PROVE  IInv'
<1> DEFINE m == reg.mux
           p == reg.pattern
           new == [methods |-> NoMethods, notAllowed |-> mux[m].notAllowed]
<1> USE DEF IInv
<1>0. reg \in Registrations /\ m \in Muxes /\ p \in Patterns /\ mux[m] # Nil
      /\ mux[m].handlers[p] = Nil
  BY DEF EnterPattern, TypeOK, Idle, Registrations, PatternsEntered
<1>1. mux[m] \in ServeMuxes /\ mux[m] # Nil
  BY <1>0 DEF TypeOK
<1>2. new \in RegisteredHandlers /\ new # Nil
  BY <1>1, NilAssumption DEF ServeMuxes, RegisteredHandlers, NoMethods
<1>3. reg' \in Registrations /\ reg'.mux = m /\ reg'.pattern = p /\ reg'.pc = "route"
  BY <1>0 DEF EnterPattern, Registrations
<1>4. UNCHANGED <<builderVars, devVars, req, installed, registered>>
  BY DEF EnterPattern
<1>5. IInv'
  <2>1. mux' = [mux EXCEPT ![m].handlers[p] = new]
    BY DEF EnterPattern
  <2>10. new.notAllowed = mux[m].notAllowed /\ \A y \in Methods : new.methods[y] = Nil
    BY DEF NoMethods
  <2>0. /\ TypeOK /\ MuxesPassAll /\ PatternsEntered /\ MethodsStick
        /\ RegistrationsRouted /\ EntriesRouted
    OBVIOUS
  <2>11. reg.mux = m /\ reg.pattern = p /\ reg.pc = "enter"
    BY DEF EnterPattern
  <2> HIDE DEF IInv, m, p, new
  <2>2. /\ mux'[m] = [mux[m] EXCEPT !.handlers[p] = new]
        /\ mux'[m] \in ServeMuxes
        /\ \A n \in Muxes \ {m} : mux'[n] = mux[n]
    BY <2>0, <2>1, <1>0, <1>1, <1>2 DEF TypeOK, ServeMuxes
  <2>3. /\ mux'[m] # Nil /\ mux'[m].interceptors = mux[m].interceptors
        /\ mux'[m].notAllowed = mux[m].notAllowed
        /\ mux'[m].handlers[p] = new
        /\ \A q \in Patterns \ {p} : mux'[m].handlers[q] = mux[m].handlers[q]
    BY <2>2, <1>0, <1>1, <1>2, NilAssumption DEF ServeMuxes
  <2>4. TypeOK'
    <3>1. mux' \in [Muxes -> ServeMuxes \cup {Nil}]
      BY <1>0, <2>0, <2>1, <2>2 DEF TypeOK
    <3> QED
      BY <2>0, <3>1, <1>3, <1>4 DEF TypeOK, builderVars, devVars
  <2>5. MuxesPassAll'
    <3>1. Through(new.notAllowed) = installed[m] /\ \A y \in Methods : new.methods[y] = Nil
      BY <1>0, <2>0, <2>10 DEF MuxesPassAll
    <3> SUFFICES ASSUME NEW n \in Muxes, mux'[n] # Nil
                 PROVE  /\ Through(mux'[n].notAllowed) = installed[n]
                        /\ \A q \in Patterns : mux'[n].handlers[q] # Nil =>
                             /\ Through(mux'[n].handlers[q].notAllowed) = installed[n]
                             /\ \A y \in Methods : mux'[n].handlers[q].methods[y] # Nil =>
                                  Through(mux'[n].handlers[q].methods[y]) = installed[n]
      BY <1>4 DEF MuxesPassAll
    <3>2. CASE n = m
      BY <1>0, <2>0, <2>3, <3>1, <3>2 DEF MuxesPassAll
    <3>3. CASE n # m
      BY <2>0, <2>2, <3>3 DEF MuxesPassAll
    <3> QED
      BY <3>2, <3>3
  <2>6. PatternsEntered' /\ MethodsStick'
    <3>1. mux'[reg'.mux] # Nil /\ mux'[reg'.mux].handlers[reg'.pattern] # Nil
      BY <1>2, <1>3, <2>3
    <3>2. ASSUME NEW g \in registered
          PROVE  /\ mux'[g.mux] # Nil /\ mux'[g.mux].handlers[g.pattern] # Nil
                 /\ mux'[g.mux].handlers[g.pattern].methods[g.method] = g.chain
      <4>1. /\ mux[g.mux] # Nil /\ mux[g.mux].handlers[g.pattern] # Nil
            /\ mux[g.mux].handlers[g.pattern].methods[g.method] = g.chain
            /\ g.mux \in Muxes /\ g.pattern \in Patterns
        BY <2>0, RegisteredType DEF PatternsEntered, MethodsStick
      <4>2. CASE g.mux = m
        <5>1. g.pattern # p
          BY <1>0, <4>1, <4>2
        <5> QED
          BY <5>1, <4>1, <4>2, <2>3
      <4>3. CASE g.mux # m
        BY <4>1, <4>3, <2>2
      <4> QED
        BY <4>2, <4>3
    <3> QED
      BY <3>1, <3>2, <1>3, <1>4 DEF PatternsEntered, MethodsStick
  <2>7. /\ mux'[m].routed = mux[m].routed
        /\ \A n \in Muxes \ {m} : mux'[n] = mux[n]
    BY <2>2, <1>0, <1>1 DEF ServeMuxes
  <2>8. RegistrationsRouted'
    BY <1>4, <2>0, <2>7, RegisteredType DEF RegistrationsRouted
  <2>9. EntriesRouted'
    <3> SUFFICES ASSUME NEW n \in Muxes, mux'[n] # Nil, NEW q \in Patterns,
                        mux'[n].handlers[q] # Nil
                 PROVE  \/ q \in mux'[n].routed \cup BadPatterns
                        \/ n = m /\ q = p
      BY <1>3 DEF EntriesRouted
    <3>1. mux[n] # Nil /\ mux'[n].routed = mux[n].routed
      BY <1>0, <2>7
    <3>2. CASE n = m /\ q = p
      BY <3>2
    <3>3. CASE ~(n = m /\ q = p)
      <4>1. mux[n].handlers[q] # Nil
        BY <2>2, <2>3, <3>3
      <4> QED
        BY <2>0, <2>11, <3>1, <4>1 DEF EntriesRouted
    <3> QED
      BY <3>2, <3>3
  <2> QED
    BY <1>1, <1>4, <2>2, <2>3, <2>4, <2>5, <2>6, <2>8, <2>9, RegisterFrame DEF IInv
<1> QED
  BY <1>5

\* Routing a pattern enters no handler, and a refused one stays entered.
LEMMA RoutePatternKeeps ==
  ASSUME IInv, RoutePattern
  PROVE  IInv'
<1> USE DEF IInv
<1>1. reg \in Registrations /\ mux[reg.mux] # Nil
  BY DEF RoutePattern, TypeOK, Idle, PatternsEntered
<1>2. UNCHANGED <<builderVars, devVars, req, installed, registered>>
  BY DEF RoutePattern
<1>3. CASE reg.pattern \in BadPatterns
  <2>1. reg' = Idle /\ mux' = mux
    BY <1>3 DEF RoutePattern
  <2>2. TypeOK'
    BY <2>1, <1>2 DEF TypeOK, builderVars, devVars
  <2>3. MuxesPassAll' /\ PatternsEntered' /\ MethodsStick'
    BY <1>2, <2>1 DEF MuxesPassAll, PatternsEntered, MethodsStick, Idle
  <2>4. RegistrationsRouted' /\ EntriesRouted'
    BY <1>2, <1>3, <2>1 DEF RegistrationsRouted, EntriesRouted, Idle
  <2> QED
    BY <1>2, <2>1, <2>2, <2>3, <2>4, RegisterFrame
<1>4. CASE reg.pattern \notin BadPatterns
  <2>1. /\ reg' = [reg EXCEPT !.pc = "configure"]
        /\ mux' = [mux EXCEPT ![reg.mux].routed = mux[reg.mux].routed \cup {reg.pattern}]
    BY <1>4 DEF RoutePattern
  <2>2. reg' \in Registrations /\ reg'.mux = reg.mux /\ reg'.pattern = reg.pattern
        /\ reg'.pc = "configure"
    BY <1>1, <2>1 DEF Registrations
  <2>3. mux[reg.mux] \in ServeMuxes /\ reg.mux \in Muxes /\ reg.pattern \in Patterns
    BY <1>1 DEF TypeOK, Registrations
  <2>4. /\ mux'[reg.mux] \in ServeMuxes
        /\ mux'[reg.mux].interceptors = mux[reg.mux].interceptors
        /\ mux'[reg.mux].notAllowed = mux[reg.mux].notAllowed
        /\ mux'[reg.mux].handlers = mux[reg.mux].handlers
        /\ mux'[reg.mux].routed = mux[reg.mux].routed \cup {reg.pattern}
        /\ \A n \in Muxes \ {reg.mux} : mux'[n] = mux[n]
    BY <2>1, <2>3 DEF TypeOK, ServeMuxes
  <2>5. TypeOK'
    <3>1. mux' \in [Muxes -> ServeMuxes \cup {Nil}]
      BY <2>1, <2>3, <2>4 DEF TypeOK
    <3> QED
      BY <3>1, <2>2, <1>2 DEF TypeOK, builderVars, devVars
  <2>6. mux'[reg.mux] # Nil
    BY <2>4, NilAssumption
  <2>7. MuxesPassAll'
    BY <1>1, <1>2, <2>3, <2>4 DEF MuxesPassAll
  <2>8. PatternsEntered' /\ MethodsStick'
    <3>1. \A n \in Muxes : mux'[n].handlers = mux[n].handlers /\ (mux[n] # Nil => mux'[n] # Nil)
      BY <2>4, <2>6
    <3>2. reg.pc = "route"
      BY DEF RoutePattern
    <3>3. mux'[reg'.mux] # Nil /\ mux'[reg'.mux].handlers[reg'.pattern] # Nil
      BY <2>2, <2>3, <2>4, <2>6, <3>2 DEF PatternsEntered
    <3> QED
      BY <1>2, <2>2, <3>1, <3>3, RegisteredType DEF PatternsEntered, MethodsStick
  <2>9. RegistrationsRouted'
    BY <1>2, <2>4, RegisteredType DEF RegistrationsRouted
  <2>10. EntriesRouted'
    <3> SUFFICES ASSUME NEW n \in Muxes, mux'[n] # Nil, NEW q \in Patterns,
                        mux'[n].handlers[q] # Nil
                 PROVE  q \in mux'[n].routed \cup BadPatterns
      BY DEF EntriesRouted
    <3>1. CASE n = reg.mux
      <4>1. \/ q \in mux[reg.mux].routed \cup BadPatterns
            \/ q = reg.pattern
        BY <1>1, <2>3, <2>4, <3>1 DEF EntriesRouted
      <4> QED
        BY <2>4, <3>1, <4>1
    <3>2. CASE n # reg.mux
      BY <2>4, <3>2 DEF EntriesRouted
    <3> QED
      BY <3>1, <3>2
  <2> QED
    BY <1>1, <1>2, <2>3, <2>4, <2>5, <2>6, <2>7, <2>8, <2>9, <2>10, RegisterFrame
<1> QED
  BY <1>3, <1>4

\* Configuring the interceptors of a handler changes no ServeMux.
LEMMA ConfigureHandlerKeeps ==
  ASSUME IInv, ConfigureHandler
  PROVE  IInv'
<1> USE DEF IInv
<1>1. reg \in Registrations
  BY DEF ConfigureHandler, TypeOK, Idle
<1>2. UNCHANGED <<builderVars, devVars, req, installed, registered, mux>>
  BY DEF ConfigureHandler
<1>3. \/ reg' = Idle
      \/ /\ reg' \in Registrations /\ reg'.mux = reg.mux /\ reg'.pattern = reg.pattern
         /\ reg'.pc = "store"
  BY <1>1 DEF ConfigureHandler, Registrations
<1>4. TypeOK'
  BY <1>2, <1>3 DEF TypeOK, builderVars, devVars
<1>5. MuxesPassAll' /\ PatternsEntered' /\ MethodsStick'
  BY <1>1, <1>2, <1>3
     DEF ConfigureHandler, MuxesPassAll, PatternsEntered, MethodsStick, Registrations, Idle
<1>6. RegistrationsRouted' /\ EntriesRouted'
  BY <1>2 DEF ConfigureHandler, RegistrationsRouted, EntriesRouted
<1> QED
  BY <1>2, <1>4, <1>5, <1>6, RegisterFrame

\* A method is stored only where there is none, with the interceptors of its ServeMux.
LEMMA StoreMethodKeeps ==
  ASSUME IInv, StoreMethod
  PROVE  IInv'
<1> DEFINE m == reg.mux
           p == reg.pattern
           x == reg.method
           c == Chain(reg.handler, Slice(mux[m].interceptors), reg.cfgs)
           new == [mux |-> m, pattern |-> p, method |-> x, chain |-> c]
<1> USE DEF IInv
<1>1. reg \in Registrations /\ m \in Muxes /\ p \in Patterns /\ x \in Methods
      /\ reg.pc = "store"
  BY DEF StoreMethod, TypeOK, Idle, Registrations
<1>2. mux[m] # Nil /\ mux[m].handlers[p] # Nil
  BY <1>1 DEF PatternsEntered, StoreMethod
<1>3. mux[m] \in ServeMuxes /\ mux[m].handlers[p] \in RegisteredHandlers
  BY <1>1, <1>2 DEF TypeOK, ServeMuxes
<1>4. Slice(mux[m].interceptors) = installed[m] /\ installed[m] \in Seq(Interceptors)
  BY <1>1, <1>2, SliceInstalled DEF TypeOK
<1>5. c \in Chains /\ Through(c) = installed[m] /\ c # Nil
  BY <1>1, <1>4, ChainThrough, NilAssumption, MuxAssumption DEF Registrations
<1>6. UNCHANGED <<builderVars, devVars, req, installed>> /\ reg' = Idle
  BY DEF StoreMethod
<1>7. CASE mux[m].handlers[p].methods[x] = Nil
  <2>1. /\ mux' = [mux EXCEPT ![m].handlers[p].methods[x] = c]
        /\ registered' = registered \cup {new}
    BY <1>7 DEF StoreMethod, MethodFree
  <2>0. /\ TypeOK /\ MuxesPassAll /\ PatternsEntered /\ MethodsStick
        /\ RegistrationsRouted /\ EntriesRouted
    OBVIOUS
  <2> HIDE DEF IInv, m, p, x, c, new
  <2>2. /\ mux'[m].handlers[p] \in RegisteredHandlers
        /\ mux'[m].handlers[p].methods[x] = c
        /\ \A y \in Methods \ {x} :
             mux'[m].handlers[p].methods[y] = mux[m].handlers[p].methods[y]
        /\ mux'[m].handlers[p].notAllowed = mux[m].handlers[p].notAllowed
        /\ \A q \in Patterns \ {p} : mux'[m].handlers[q] = mux[m].handlers[q]
        /\ mux'[m].interceptors = mux[m].interceptors
        /\ mux'[m].notAllowed = mux[m].notAllowed
        /\ mux'[m].routed = mux[m].routed
        /\ \A n \in Muxes \ {m} : mux'[n] = mux[n]
    <3> DEFINE was == mux[m].handlers[p]
               is  == [was EXCEPT !.methods[x] = c]
    <3>1. /\ mux'[m] = [mux[m] EXCEPT !.handlers[p] = is]
          /\ \A n \in Muxes \ {m} : mux'[n] = mux[n]
      BY <2>0, <2>1, <1>1 DEF TypeOK
    <3>2. /\ is \in RegisteredHandlers /\ is.methods[x] = c /\ is.notAllowed = was.notAllowed
          /\ \A y \in Methods \ {x} : is.methods[y] = was.methods[y]
      BY <1>1, <1>3, <1>5 DEF RegisteredHandlers
    <3> HIDE DEF was, is
    <3>3. /\ mux'[m].handlers[p] = is
          /\ \A q \in Patterns \ {p} : mux'[m].handlers[q] = mux[m].handlers[q]
          /\ mux'[m].interceptors = mux[m].interceptors
          /\ mux'[m].notAllowed = mux[m].notAllowed
          /\ mux'[m].routed = mux[m].routed
      BY <3>1, <1>1, <1>3 DEF ServeMuxes
    <3> QED
      BY <3>1, <3>2, <3>3 DEF was
  <2>3. mux'[m] \in ServeMuxes
    <3> DEFINE was == mux[m].handlers[p]
               is  == [was EXCEPT !.methods[x] = c]
    <3>1. mux'[m] = [mux[m] EXCEPT !.handlers[p] = is]
      BY <2>0, <2>1, <1>1 DEF TypeOK
    <3>2. is \in RegisteredHandlers
      BY <1>1, <1>3, <1>5 DEF RegisteredHandlers
    <3> HIDE DEF is
    <3> QED
      BY <1>1, <1>3, <3>1, <3>2 DEF ServeMuxes
  <2>4. mux'[m] # Nil /\ mux'[m].handlers[p] # Nil
    BY <2>2, <2>3, NilAssumption
  <2>5. TypeOK'
    <3>1. mux' \in [Muxes -> ServeMuxes \cup {Nil}]
      BY <2>0, <2>1, <2>2, <2>3, <1>1 DEF TypeOK
    <3>2. registered' \subseteq [mux : Muxes, pattern : Patterns, method : Methods,
                                 chain : Chains]
      BY <2>0, <2>1, <1>1, <1>5 DEF TypeOK, new
    <3> QED
      BY <2>0, <3>1, <3>2, <1>6 DEF TypeOK, builderVars, devVars
  <2>6. MuxesPassAll'
    <3> SUFFICES ASSUME NEW n \in Muxes, mux'[n] # Nil
                 PROVE  /\ Through(mux'[n].notAllowed) = installed[n]
                        /\ \A q \in Patterns : mux'[n].handlers[q] # Nil =>
                             /\ Through(mux'[n].handlers[q].notAllowed) = installed[n]
                             /\ \A y \in Methods : mux'[n].handlers[q].methods[y] # Nil =>
                                  Through(mux'[n].handlers[q].methods[y]) = installed[n]
      BY <1>6 DEF MuxesPassAll
    <3>1. CASE n = m
      <4>1. Through(mux'[m].notAllowed) = installed[m]
        BY <1>1, <1>2, <2>0, <2>2 DEF MuxesPassAll
      <4>2. ASSUME NEW q \in Patterns, q # p, mux'[m].handlers[q] # Nil
            PROVE  /\ Through(mux'[m].handlers[q].notAllowed) = installed[m]
                   /\ \A y \in Methods : mux'[m].handlers[q].methods[y] # Nil =>
                        Through(mux'[m].handlers[q].methods[y]) = installed[m]
        <5>1. mux'[m].handlers[q] = mux[m].handlers[q] /\ mux[m].handlers[q] # Nil
          BY <2>2, <4>2
        <5>2. /\ Through(mux[m].handlers[q].notAllowed) = installed[m]
              /\ \A y \in Methods : mux[m].handlers[q].methods[y] # Nil =>
                   Through(mux[m].handlers[q].methods[y]) = installed[m]
          BY <1>1, <1>2, <2>0, <5>1 DEF MuxesPassAll
        <5> QED
          BY <5>1, <5>2
      <4>3. /\ Through(mux'[m].handlers[p].notAllowed) = installed[m]
            /\ \A y \in Methods : mux'[m].handlers[p].methods[y] # Nil =>
                 Through(mux'[m].handlers[p].methods[y]) = installed[m]
        <5>1. /\ Through(mux[m].handlers[p].notAllowed) = installed[m]
              /\ \A y \in Methods : mux[m].handlers[p].methods[y] # Nil =>
                   Through(mux[m].handlers[p].methods[y]) = installed[m]
          BY <1>1, <1>2, <2>0 DEF MuxesPassAll
        <5>2. Through(mux'[m].handlers[p].methods[x]) = installed[m]
          BY <1>5, <2>2, Zenon
        <5>3. ASSUME NEW y \in Methods \ {x}, mux'[m].handlers[p].methods[y] # Nil
              PROVE  Through(mux'[m].handlers[p].methods[y]) = installed[m]
          <6>1. mux'[m].handlers[p].methods[y] = mux[m].handlers[p].methods[y]
            BY <2>2
          <6> QED
            BY <5>1, <5>3, <6>1, Zenon
        <5>4. Through(mux'[m].handlers[p].notAllowed) = installed[m]
          <6>1. mux'[m].handlers[p].notAllowed = mux[m].handlers[p].notAllowed
            BY <2>2
          <6> QED
            BY <5>1, <6>1, Zenon
        <5> QED
          BY <5>2, <5>3, <5>4
      <4> QED
        BY <3>1, <4>1, <4>2, <4>3
    <3>2. CASE n # m
      <4>1. mux'[n] = mux[n]
        BY <2>2, <3>2
      <4>2. mux[n] # Nil
        BY <4>1
      <4> QED
        BY <2>0, <4>1, <4>2, Zenon DEF MuxesPassAll
    <3> QED
      BY <3>1, <3>2
  <2>7. PatternsEntered'
    <3>1. ASSUME NEW g \in registered
          PROVE  mux'[g.mux] # Nil /\ mux'[g.mux].handlers[g.pattern] # Nil
      <4>1. /\ mux[g.mux] # Nil /\ mux[g.mux].handlers[g.pattern] # Nil
            /\ g.mux \in Muxes /\ g.pattern \in Patterns
        BY <2>0 DEF PatternsEntered, TypeOK
      <4>2. CASE g.mux # m
        <5>1. mux'[g.mux] = mux[g.mux]
          BY <2>2, <4>1, <4>2
        <5> QED
          BY <4>1, <5>1, Zenon
      <4>3. CASE g.mux = m /\ g.pattern # p
        <5>1. mux'[m].handlers[g.pattern] = mux[m].handlers[g.pattern]
          BY <2>2, <4>1, <4>3
        <5>2. mux'[g.mux].handlers[g.pattern] = mux[g.mux].handlers[g.pattern]
          BY <4>3, <5>1, Zenon
        <5> QED
          BY <2>4, <4>1, <4>3, <5>2, Zenon
      <4>4. CASE g.mux = m /\ g.pattern = p
        BY <2>4, <4>4, Zenon
      <4> QED
        BY <4>2, <4>3, <4>4
    <3>2. mux'[new.mux] # Nil /\ mux'[new.mux].handlers[new.pattern] # Nil
      BY <2>4 DEF new
    <3> QED
      BY <1>6, <2>0, <2>1, <3>1, <3>2 DEF PatternsEntered, Idle
  <2>8. MethodsStick'
    <3> SUFFICES ASSUME NEW g \in registered'
                 PROVE  mux'[g.mux].handlers[g.pattern].methods[g.method] = g.chain
      BY DEF MethodsStick
    <3>1. CASE g = new
      <4>1. g.mux = m /\ g.pattern = p /\ g.method = x /\ g.chain = c
        BY <3>1 DEF new
      <4> QED
        BY <4>1, <2>2
    <3>2. CASE g \in registered
      <4>1. mux[g.mux].handlers[g.pattern].methods[g.method] = g.chain /\ g.chain # Nil
            /\ g.mux \in Muxes /\ g.pattern \in Patterns /\ g.method \in Methods
        BY <2>0, <3>2, NilAssumption DEF MethodsStick, TypeOK
      <4>2. ~(g.mux = m /\ g.pattern = p /\ g.method = x)
        BY <4>1, <1>7
      <4>3. CASE g.mux # m
        <5>1. mux'[g.mux] = mux[g.mux]
          BY <4>1, <4>3, <2>2
        <5> QED
          BY <4>1, <5>1, Zenon
      <4>4. CASE g.mux = m /\ g.pattern # p
        <5>1. mux'[g.mux].handlers[g.pattern] = mux[g.mux].handlers[g.pattern]
          BY <4>1, <4>4, <2>2, Zenon
        <5> QED
          BY <4>1, <5>1, Zenon
      <4>5. CASE g.mux = m /\ g.pattern = p /\ g.method # x
        BY <4>1, <4>5, <2>2
      <4> QED
        BY <4>2, <4>3, <4>4, <4>5
    <3> QED
      BY <3>1, <3>2, <2>1
  <2>9. \A n \in Muxes : mux'[n].routed = mux[n].routed
    BY <2>2
  <2>10. p \in mux[m].routed \cup BadPatterns
    BY <2>0, <1>1, <1>2 DEF EntriesRouted
  <2>11. RegistrationsRouted'
    <3>1. ASSUME NEW g \in registered
          PROVE  g.pattern \in mux'[g.mux].routed \cup BadPatterns
      BY <2>0, <2>9, RegisteredType DEF RegistrationsRouted
    <3>2. new.pattern \in mux'[new.mux].routed \cup BadPatterns
      BY <1>1, <2>9, <2>10 DEF new
    <3> QED
      BY <2>1, <3>1, <3>2 DEF RegistrationsRouted
  <2>12. EntriesRouted'
    <3> SUFFICES ASSUME NEW n \in Muxes, mux'[n] # Nil, NEW q \in Patterns,
                        mux'[n].handlers[q] # Nil
                 PROVE  q \in mux'[n].routed \cup BadPatterns
      BY DEF EntriesRouted
    <3>1. mux[n] # Nil /\ mux[n].handlers[q] # Nil
      BY <1>2, <2>2
    <3> QED
      BY <1>1, <2>0, <2>9, <3>1 DEF EntriesRouted
  <2> QED
    BY <1>2, <1>6, <2>2, <2>4, <2>5, <2>6, <2>7, <2>8, <2>11, <2>12, RegisterFrame DEF IInv
<1>8. CASE mux[m].handlers[p].methods[x] # Nil
  <2>1. mux' = mux /\ registered' = registered
    BY <1>8 DEF StoreMethod, MethodFree
  <2>2. TypeOK'
    BY <2>1, <1>6 DEF TypeOK, builderVars, devVars
  <2>3. MuxesPassAll' /\ PatternsEntered' /\ MethodsStick'
    BY <1>6, <2>1 DEF MuxesPassAll, PatternsEntered, MethodsStick, Idle
  <2>4. RegistrationsRouted' /\ EntriesRouted'
    BY <1>6, <2>1 DEF StoreMethod, RegistrationsRouted, EntriesRouted
  <2> QED
    BY <1>6, <2>1, <2>2, <2>3, <2>4, RegisterFrame
<1> QED
  BY <1>7, <1>8

-----------------------------------------------------------------------------
(* Requests.                                                                *)

\* A request takes one of the chains of its ServeMux.
LEMMA ArriveKeeps ==
  ASSUME IInv, NEW r \in Requests, NEW m \in Muxes, NEW p \in Patterns, NEW x \in Methods,
         Arrive(r, m, p, x)
  PROVE  IInv'
<1> DEFINE new == [state |-> "running", mux |-> m, chain |-> ForMethod(m, p, x),
                   dev |-> isLocalDev]
<1> USE DEF IInv
<1>1. mux[m] # Nil /\ mux[m].handlers[p] # Nil /\ req' = [req EXCEPT ![r] = new]
  BY DEF Arrive
<1>2. ForMethod(m, p, x) \in Chains /\ Through(ForMethod(m, p, x)) = installed[m]
  BY <1>1, ForMethodThrough
<1>3. new \in Running
  BY <1>2 DEF Running, TypeOK
<1>4. req'[r] = new /\ \A q \in Requests \ {r} : req'[q] = req[q]
  BY <1>1 DEF TypeOK
<1>5. TypeOK'
  BY <1>1, <1>3 DEF Arrive, TypeOK, builderVars, devVars
<1>6. RequestsHaveMux' /\ RequestsPassAll' /\ RequestSeesOneDevMode'
  BY <1>1, <1>2, <1>4
     DEF Arrive, devVars, RequestsHaveMux, RequestsPassAll, RequestSeesOneDevMode
<1> QED
  BY <1>5, <1>6
     DEF Arrive, builderVars, devVars, ArraysOwned, MuxesKeepSlice, MuxesPassAll,
         PatternsEntered, MuxesFreeze, MethodsStick, RegistrationsRouted, EntriesRouted

\* The race on the map of patterns changes nothing but that the program ends.
LEMMA RaceKeeps ==
  ASSUME IInv, RaceOnPatterns
  PROVE  IInv'
BY DEF RaceOnPatterns, builderVars, devVars, IInv, TypeOK, ArraysOwned, MuxesKeepSlice,
       MuxesPassAll, PatternsEntered, RequestsHaveMux, MuxesFreeze, RequestsPassAll,
       MethodsStick, RegistrationsRouted, EntriesRouted, RequestSeesOneDevMode

\* A request that ends frees its name.
LEMMA FinishKeeps ==
  ASSUME IInv, NEW r \in Requests, Finish(r)
  PROVE  IInv'
<1> USE DEF IInv
<1>1. req'[r].state = "free" /\ \A q \in Requests \ {r} : req'[q] = req[q]
  BY DEF Finish, TypeOK
<1>2. TypeOK'
  BY DEF Finish, TypeOK, builderVars, devVars
<1>3. RequestsHaveMux' /\ RequestsPassAll' /\ RequestSeesOneDevMode'
  BY <1>1
     DEF Finish, devVars, RequestsHaveMux, RequestsPassAll, RequestSeesOneDevMode
<1> QED
  BY <1>2, <1>3
     DEF Finish, builderVars, devVars, ArraysOwned, MuxesKeepSlice, MuxesPassAll,
         PatternsEntered, MuxesFreeze, MethodsStick, RegistrationsRouted, EntriesRouted

-----------------------------------------------------------------------------
(* The theorems.                                                            *)

\* The inductive invariant of the ServeMuxConfigs, ServeMuxes, registrations and
\* requests of a program.
THEOREM Invariant == Spec => []IInv
<1>1. Init => IInv
  BY Starts
<1>2. IInv /\ [Next]_vars => IInv'
  <2> SUFFICES ASSUME IInv, [Next]_vars PROVE IInv'
    OBVIOUS
  <2>1. CASE Build
    BY <2>1, InterceptKeeps, HandleMethodNotAllowedKeeps, CloneKeeps, NewMuxKeeps,
       UseLocalDevKeeps DEF Build
  <2>2. CASE Register
    BY <2>2, HandleKeeps, EnterPatternKeeps, RoutePatternKeeps, ConfigureHandlerKeeps,
       StoreMethodKeeps
       DEF Register
  <2>3. CASE Serve
    BY <2>3, ArriveKeeps, RaceKeeps, FinishKeeps DEF Serve
  <2>4. CASE UNCHANGED vars
    BY <2>4
       DEF vars, builderVars, devVars, IInv, TypeOK, ArraysOwned, MuxesKeepSlice,
           MuxesPassAll, PatternsEntered, RequestsHaveMux, MuxesFreeze, RequestsPassAll,
           MethodsStick, RegistrationsRouted, EntriesRouted, RequestSeesOneDevMode
  <2> QED
    BY <2>1, <2>2, <2>3, <2>4 DEF Next
<1> QED
  BY <1>1, <1>2, PTL DEF Spec

\* Whatever a request runs, it runs through exactly the interceptors its ServeMux was
\* made with, in their order, whatever is installed, cloned and registered meanwhile.
THEOREM PassAll == Spec => []RequestsPassAll
<1>1. IInv => RequestsPassAll
  BY DEF IInv
<1> QED
  BY <1>1, Invariant, PTL

\* A registration that returned is served, unless http.ServeMux refuses its pattern, and
\* is never replaced or lost.
THEOREM Sticks == Spec => []RegistrationSticks
<1>1. IInv => RegistrationSticks
  BY DEF IInv, MethodsStick, RegistrationsRouted, RegistrationSticks
<1> QED
  BY <1>1, Invariant, PTL

\* A request sees one dev mode.
THEOREM OneDevMode == Spec => []RequestSeesOneDevMode
<1>1. IInv => RequestSeesOneDevMode
  BY DEF IInv
<1> QED
  BY <1>1, Invariant, PTL

=============================================================================
