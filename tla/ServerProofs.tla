---------------------------- MODULE ServerProofs ----------------------------
(***************************************************************************)
(* Theorems about Server, for any Servers, goroutines, hooks and bounds.    *)
(***************************************************************************)
EXTENDS Server, FiniteSetTheorems, TLAPS

\* Starters whose call may still build an http.Server, or set started.
BeforeBuild == {"checkStarted", "checkBuilt", "build"}
BeforeMark  == BeforeBuild \cup {"mark"}
MayBuild == {t \in Starters : at[t] \in BeforeBuild}
MayMark  == {t \in Starters : at[t] \in BeforeMark}

\* Every http.Server built and every start is of a call of its own.
Counted ==
  /\ built + Cardinality(MayBuild) <= calls
  /\ \A o \in Objects : starts[o] + Cardinality(MayMark) <= calls

\* What is behind the slice of hooks, which a clone shares, was appended.
HooksHeld ==
  \A o \in Objects :
    /\ hooks[o].array = Nil => hooks[o].len = 0
    /\ hooks[o].array # Nil => \A k \in 1..hooks[o].len : arrays[hooks[o].array][k] \in Hooks

\* Calls are made on Servers that exist, http.Servers built by them.
ReceiversExist ==
  /\ \A t \in Threads : on[t] \in exists
  /\ \A i \in Ids : http[i].owner \in exists

\* The http.Server of a Server is one it built; those not yet built are untouched.
SrvOwned ==
  /\ \A o \in Objects : srv[o] # Nil => srv[o] <= built /\ http[srv[o]].owner = o
  /\ \A i \in Ids : i > built => http[i] = NotBuilt

\* Starters past buildStd find an http.Server, and hold it while they serve.
ServersHeld ==
  /\ \A t \in Starters :
       /\ at[t] \in {"mark", "serve"} => srv[on[t]] # Nil
       /\ at[t] = "serving" => using[t] # Nil
       /\ at[t] \notin Stops \cup {"draining"}
  /\ \A t \in Stoppers :
       /\ at[t] = "draining" => using[t] # Nil
       /\ at[t] \notin BeforeMark \cup {"serve", "serving"}

IInv ==
  /\ TypeOK /\ Counted /\ HooksHeld /\ ReceiversExist /\ SrvOwned /\ ServersHeld
  /\ StartedIsBuilt /\ StopsOnlyItsOwn

-----------------------------------------------------------------------------
(* One starting goroutine.                                                  *)

OneStarter == \A s, t \in Starters : s = t

\* While the starter is between the check of started and setting it, the Server is not
\* started and has built at most what it is about to use.
StartsOnce ==
  /\ \A o \in Objects : ~started[o] => starts[o] = 0
  /\ \A o \in Objects \ exists : ~started[o]
  /\ \A t \in Starters :
       /\ at[t] \in {"checkBuilt", "build", "mark"} => ~started[on[t]]
       /\ at[t] = "build" => srv[on[t]] = Nil

\* A Server has built one http.Server at most, the one it refers to.
OneBuilt ==
  \A i \in 1..built : srv[http[i].owner] = i

\* A Server that was stopped was started, and an http.Server that is being drained
\* is closed.
StopsStarted ==
  /\ \A o \in Objects : stops[o] # {} => started[o]
  /\ \A t \in Stoppers : at[t] = "draining" =>
       /\ using[t] = srv[on[t]] /\ started[on[t]] /\ http[using[t]].closed

OneParts == StartsOnce /\ OneBuilt /\ StopsStarted /\ OneStart /\ StopIsFinal

-----------------------------------------------------------------------------
(* How the counts move with a goroutine.                                    *)

\* The sizes of two sets that differ in one element at most.
LEMMA CountMoves ==
  ASSUME NEW S, NEW T, NEW t, IsFiniteSet(S), S \ {t} = T \ {t}
  PROVE  /\ Cardinality(S) \in Nat /\ Cardinality(T) \in Nat
         /\ (t \in S <=> t \in T) => Cardinality(T) = Cardinality(S)
         /\ t \in S /\ t \notin T => Cardinality(T) = Cardinality(S) - 1
         /\ t \notin S /\ t \in T => Cardinality(T) = Cardinality(S) + 1
         /\ t \in S => Cardinality(S) >= 1
<1> DEFINE others == S \ {t}
<1>1. IsFiniteSet(others) /\ Cardinality(others) \in Nat
      /\ Cardinality(others \cup {t}) = Cardinality(others) + 1
  BY FS_RemoveElement, FS_AddElement, FS_CardinalityType
<1>2. Cardinality(S) = IF t \in S THEN Cardinality(others) + 1 ELSE Cardinality(others)
  <2>1. S = IF t \in S THEN others \cup {t} ELSE others
    OBVIOUS
  <2> QED
    BY <2>1, <1>1
<1>3. Cardinality(T) = IF t \in T THEN Cardinality(others) + 1 ELSE Cardinality(others)
  <2>1. T = IF t \in T THEN others \cup {t} ELSE others
    OBVIOUS
  <2> QED
    BY <2>1, <1>1
<1> HIDE DEF others
<1> QED
  BY <1>1, <1>2, <1>3

\* A starter that goes from one place to another leaves and enters the counts.
LEMMA StarterMoves ==
  ASSUME TypeOK, NEW t \in Starters, NEW place, Goto(t, place)
  PROVE  /\ Cardinality(MayBuild) \in Nat /\ Cardinality(MayBuild') \in Nat
         /\ (at[t] \in BeforeBuild <=> place \in BeforeBuild) =>
              Cardinality(MayBuild') = Cardinality(MayBuild)
         /\ at[t] \in BeforeBuild /\ place \notin BeforeBuild =>
              Cardinality(MayBuild') = Cardinality(MayBuild) - 1
         /\ at[t] \notin BeforeBuild /\ place \in BeforeBuild =>
              Cardinality(MayBuild') = Cardinality(MayBuild) + 1
         /\ at[t] \in BeforeBuild => Cardinality(MayBuild) >= 1
         /\ Cardinality(MayMark) \in Nat /\ Cardinality(MayMark') \in Nat
         /\ (at[t] \in BeforeMark <=> place \in BeforeMark) =>
              Cardinality(MayMark') = Cardinality(MayMark)
         /\ at[t] \in BeforeMark /\ place \notin BeforeMark =>
              Cardinality(MayMark') = Cardinality(MayMark) - 1
         /\ at[t] \notin BeforeMark /\ place \in BeforeMark =>
              Cardinality(MayMark') = Cardinality(MayMark) + 1
         /\ at[t] \in BeforeMark => Cardinality(MayMark) >= 1
<1>1. at'[t] = place /\ \A s \in Starters \ {t} : at'[s] = at[s]
  BY DEF TypeOK, Goto, Threads
<1>2. /\ MayBuild \ {t} = MayBuild' \ {t} /\ IsFiniteSet(MayBuild)
      /\ t \in MayBuild <=> at[t] \in BeforeBuild
      /\ t \in MayBuild' <=> place \in BeforeBuild
  BY <1>1, ServerAssumption, FS_Subset DEF MayBuild
<1>3. /\ MayMark \ {t} = MayMark' \ {t} /\ IsFiniteSet(MayMark)
      /\ t \in MayMark <=> at[t] \in BeforeMark
      /\ t \in MayMark' <=> place \in BeforeMark
  BY <1>1, ServerAssumption, FS_Subset DEF MayMark
<1>4. /\ Cardinality(MayBuild) \in Nat /\ Cardinality(MayBuild') \in Nat
      /\ (t \in MayBuild <=> t \in MayBuild') => Cardinality(MayBuild') = Cardinality(MayBuild)
      /\ t \in MayBuild /\ t \notin MayBuild' =>
           Cardinality(MayBuild') = Cardinality(MayBuild) - 1
      /\ t \notin MayBuild /\ t \in MayBuild' =>
           Cardinality(MayBuild') = Cardinality(MayBuild) + 1
      /\ t \in MayBuild => Cardinality(MayBuild) >= 1
  BY <1>2, CountMoves
<1>5. /\ Cardinality(MayMark) \in Nat /\ Cardinality(MayMark') \in Nat
      /\ (t \in MayMark <=> t \in MayMark') => Cardinality(MayMark') = Cardinality(MayMark)
      /\ t \in MayMark /\ t \notin MayMark' =>
           Cardinality(MayMark') = Cardinality(MayMark) - 1
      /\ t \notin MayMark /\ t \in MayMark' =>
           Cardinality(MayMark') = Cardinality(MayMark) + 1
      /\ t \in MayMark => Cardinality(MayMark) >= 1
  BY <1>3, CountMoves
<1> QED
  BY <1>2, <1>3, <1>4, <1>5

\* A stopper that moves is not counted.
LEMMA StopperMoves ==
  ASSUME at \in [Threads -> Places], NEW t \in Stoppers, NEW place, Goto(t, place),
         Counted, UNCHANGED <<built, calls, starts>>
  PROVE  Counted'
<1>1. \A s \in Starters : at'[s] = at[s]
  BY ServerAssumption DEF Goto, Threads
<1>2. \A places : {s \in Starters : at'[s] \in places} = {s \in Starters : at[s] \in places}
  BY <1>1
<1> QED
  BY <1>2 DEF Counted, MayBuild, MayMark

\* What stays when no goroutine moves and no field of theirs changes.
LEMMA CountsStay ==
  ASSUME Counted, UNCHANGED <<at, built, calls, starts>>
  PROVE  Counted'
BY DEF Counted, MayBuild, MayMark

\* At the start nothing has been called, built or stopped.
LEMMA Starting ==
  ASSUME Init
  PROVE  IInv /\ OneParts
<1> USE ServerAssumption
<1>1. TypeOK
  <2>1. \A i \in Ids : http[i] \in [owner : Objects, registered : Seq(Hooks), closed : BOOLEAN,
                                    serving : SUBSET Starters, requests : 0..MaxRequests]
    BY DEF Init, NotBuilt, Objects
  <2>2. /\ hooks \in [Objects -> [array : Objects \cup {Nil}, len : 0..Capacity]]
        /\ arrays \in [Objects -> [1..Capacity -> Hooks \cup {Unset}]]
        /\ srv \in [Objects -> Ids \cup {Nil}]
        /\ starts \in [Objects -> 0..MaxCalls] /\ stops \in [Objects -> SUBSET Stops]
    BY DEF Init, NilSlice
  <2>3. /\ at \in [Threads -> Places] /\ on \in [Threads -> Objects]
        /\ using \in [Threads -> Ids \cup {Nil}]
    BY DEF Init, Places, Objects
  <2> QED
    BY <2>1, <2>2, <2>3 DEF Init, TypeOK, Objects
<1>2. Counted
  <2>1. MayBuild = {} /\ MayMark = {}
    BY DEF Init, MayBuild, MayMark, BeforeBuild, BeforeMark, Threads
  <2> QED
    BY <2>1, FS_EmptySet DEF Init, Counted
<1>3. HooksHeld /\ ReceiversExist /\ SrvOwned /\ StartedIsBuilt /\ StopsOnlyItsOwn
  BY DEF Init, HooksHeld, NilSlice, ReceiversExist, NotBuilt, SrvOwned, StartedIsBuilt,
         StopsOnlyItsOwn
<1>4. ServersHeld
  BY DEF Init, ServersHeld, Threads, Stops, BeforeMark, BeforeBuild
<1>5. StartsOnce /\ OneBuilt /\ StopsStarted /\ OneStart /\ StopIsFinal
  BY DEF Init, StartsOnce, OneBuilt, StopsStarted, OneStart, StopIsFinal, Threads
<1> QED
  BY <1>1, <1>2, <1>3, <1>4, <1>5 DEF IInv, OneParts

-----------------------------------------------------------------------------
(* The program and the fields.                                              *)

\* Setting Mux starts and builds nothing.
LEMMA SetMuxKeeps ==
  ASSUME IInv, NEW o \in Objects, SetMux(o)
  PROVE  IInv'
<1> USE DEF IInv, SetMux, ends
<1>1. TypeOK'
  BY DEF TypeOK
<1> QED
  BY <1>1, CountsStay
     DEF HooksHeld, ReceiversExist, SrvOwned, ServersHeld, StartedIsBuilt, StopsOnlyItsOwn

\* A hook appended to a slice that is shared overwrites only hooks.
LEMMA AddHookKeeps ==
  ASSUME IInv, NEW o \in Objects, NEW h \in Hooks, AddHook(o, h)
  PROVE  IInv'
<1> DEFINE a == IF hooks[o].array = Nil THEN o ELSE hooks[o].array
           n == hooks[o].len + 1
<1> USE DEF IInv
<1>1. /\ n <= Capacity /\ UNCHANGED <<exists, mux, started, srv, at, on, using, calls, http,
                                      built, ends>>
      /\ arrays' = [arrays EXCEPT ![a][n] = h]
      /\ hooks' = [hooks EXCEPT ![o] = [array |-> a, len |-> n]]
  BY DEF AddHook
<1>2. a \in Objects /\ a # Nil /\ n \in 1..Capacity
  BY <1>1, ServerAssumption DEF TypeOK
<1>3. /\ arrays' \in [Objects -> [1..Capacity -> Hooks \cup {Unset}]]
      /\ hooks' \in [Objects -> [array : Objects \cup {Nil}, len : 0..Capacity]]
  BY <1>1, <1>2 DEF TypeOK
<1>4. TypeOK'
  BY <1>1, <1>3 DEF TypeOK, ends
<1>5. HooksHeld'
  <2>1. ASSUME NEW b \in Objects, NEW k \in 1..Capacity, arrays[b][k] \in Hooks
        PROVE  arrays'[b][k] \in Hooks
    BY <1>1, <1>2, <2>1 DEF TypeOK
  <2>2. arrays'[a][n] = h
    BY <1>1, <1>2 DEF TypeOK
  <2>3. hooks[o].len \in Nat /\ \A k \in 1..hooks[o].len : arrays[a][k] \in Hooks
    BY ServerAssumption DEF HooksHeld, TypeOK
  <2>4. \A k \in 1..n : arrays'[a][k] \in Hooks
    BY <2>1, <2>2, <2>3, <1>2, ServerAssumption
  <2>5. ASSUME NEW q \in Objects, q # o, hooks[q].array # Nil
        PROVE  \A k \in 1..hooks[q].len : arrays'[hooks[q].array][k] \in Hooks
    <3>1. hooks[q].array \in Objects /\ hooks[q].len \in 0..Capacity
      BY <2>5 DEF TypeOK
    <3> QED
      BY <3>1, <2>1, <2>5, ServerAssumption DEF HooksHeld
  <2>6. hooks'[o] = [array |-> a, len |-> n] /\ \A q \in Objects \ {o} : hooks'[q] = hooks[q]
    BY <1>1 DEF TypeOK
  <2> QED
    BY <2>4, <2>5, <2>6, <1>2 DEF HooksHeld
<1> QED
  BY <1>1, <1>4, <1>5, CountsStay
     DEF ends, ReceiversExist, SrvOwned, ServersHeld, StartedIsBuilt, StopsOnlyItsOwn

\* A clone has no http.Server and nobody has called it.
LEMMA CloneKeeps ==
  ASSUME IInv, NEW o \in Objects, NEW c \in Clones, Clone(o, c)
  PROVE  IInv'
<1> USE DEF IInv
<1>1. c \in Objects /\ c \notin exists /\ o \in exists
  BY DEF Clone, Objects
<1>2. /\ \A t \in Threads : on[t] # c
      /\ \A i \in Ids : http[i].owner # c
  BY <1>1 DEF ReceiversExist
<1>3. TypeOK'
  BY <1>1, ServerAssumption DEF Clone, TypeOK, ClonedServer, ends
<1>4. HooksHeld'
  BY <1>1 DEF Clone, TypeOK, HooksHeld
<1>5. ReceiversExist'
  BY DEF Clone, ReceiversExist
<1>6. \A q \in Objects \ {c} : srv'[q] = srv[q] /\ started'[q] = started[q]
  BY DEF Clone, TypeOK
<1>7. srv'[c] = Nil /\ started'[c] = FALSE
  BY <1>1 DEF Clone, TypeOK, ClonedServer
<1>8. SrvOwned' /\ StartedIsBuilt'
  BY <1>6, <1>7 DEF Clone, SrvOwned, StartedIsBuilt
<1>9. ServersHeld'
  BY <1>2, <1>6 DEF Clone, ServersHeld, TypeOK, Threads
<1> QED
  BY <1>3, <1>4, <1>5, <1>8, <1>9, CountsStay DEF Clone, ends, StopsOnlyItsOwn

-----------------------------------------------------------------------------
(* Starting.                                                                *)

\* Nothing the places of starters are about changes for a goroutine that moves, if
\* its new place suits it.
LEMMA ServersStillHeld ==
  ASSUME TypeOK, ServersHeld, NEW t \in Threads, NEW place, Goto(t, place),
         UNCHANGED <<on, srv>>, \A u \in Threads \ {t} : using'[u] = using[u],
         t \in Starters =>
           /\ place \in {"mark", "serve"} => srv[on[t]] # Nil
           /\ place = "serving" => using'[t] # Nil
           /\ place \notin Stops \cup {"draining"},
         t \in Stoppers =>
           /\ place = "draining" => using'[t] # Nil
           /\ place \notin BeforeMark \cup {"serve", "serving"}
  PROVE  ServersHeld'
<1>1. at'[t] = place /\ \A u \in Threads \ {t} : at'[u] = at[u]
  BY DEF TypeOK, Goto
<1> QED
  BY <1>1 DEF ServersHeld, Threads

\* A call of Serve starts before its checks.
LEMMA CallServeKeeps ==
  ASSUME IInv, NEW t \in Starters, NEW o \in Objects, CallServe(t, o)
  PROVE  IInv'
<1> USE DEF IInv
<1>1. /\ t \in Threads /\ at[t] = "idle" /\ o \in exists /\ calls + 1 \in 0..MaxCalls
      /\ at' = [at EXCEPT ![t] = "checkStarted"] /\ on' = [on EXCEPT ![t] = o]
      /\ calls' = calls + 1
      /\ UNCHANGED <<exists, mux, hooks, arrays, started, srv, using, http, built, starts, stops>>
  BY ServerAssumption DEF CallServe, Goto, Threads, fields, ends, TypeOK
<1>2. TypeOK'
  BY <1>1 DEF TypeOK, Places
<1>3. Counted'
  <2>1. /\ Cardinality(MayBuild) \in Nat
        /\ Cardinality(MayBuild') = Cardinality(MayBuild) + 1
    BY <1>1, StarterMoves DEF Goto, BeforeBuild
  <2>2. /\ Cardinality(MayMark) \in Nat
        /\ Cardinality(MayMark') = Cardinality(MayMark) + 1
    BY <1>1, StarterMoves DEF Goto, BeforeMark, BeforeBuild
  <2>3. /\ built \in Nat /\ calls \in Nat /\ starts \in [Objects -> Nat] /\ Counted
        /\ calls' = calls + 1 /\ built' = built /\ starts' = starts
    BY <1>1, ServerAssumption DEF TypeOK
  <2> DEFINE b == Cardinality(MayBuild)
             m == Cardinality(MayMark)
  <2>4. b \in Nat /\ Cardinality(MayBuild') = b + 1 /\ m \in Nat /\ Cardinality(MayMark') = m + 1
        /\ built + b <= calls /\ \A q \in Objects : starts[q] + m <= calls
    BY <2>1, <2>2, <2>3 DEF Counted
  <2> HIDE DEF b, m
  <2>5. /\ built' + Cardinality(MayBuild') <= calls'
        /\ \A q \in Objects : starts'[q] + Cardinality(MayMark') <= calls'
    BY <2>3, <2>4
  <2> QED
    BY <2>5 DEF Counted
<1>4. /\ at'[t] = "checkStarted" /\ on'[t] = o
      /\ \A u \in Threads \ {t} : at'[u] = at[u] /\ on'[u] = on[u]
  BY <1>1 DEF TypeOK
<1>5. ReceiversExist'
  BY <1>1, <1>4 DEF ReceiversExist
<1>6. ServersHeld'
  BY <1>1, <1>4, ServerAssumption DEF ServersHeld, Threads, Stops
<1>7. StopsOnlyItsOwn'
  BY <1>1, <1>4, ServerAssumption DEF StopsOnlyItsOwn, Threads
<1> QED
  BY <1>1, <1>2, <1>3, <1>5, <1>6, <1>7 DEF HooksHeld, SrvOwned, StartedIsBuilt

\* A step of a starter that changes nothing but its place.
LEMMA StarterGoes ==
  ASSUME IInv, NEW t \in Starters, NEW place, Goto(t, place),
         UNCHANGED <<fields, started, srv, on, using, calls, http, built, ends>>,
         place \in {"idle", "checkBuilt", "build", "mark"},
         place \in BeforeBuild => at[t] \in BeforeBuild,
         place = "mark" => at[t] \in BeforeBuild /\ srv[on[t]] # Nil
  PROVE  IInv'
<1> USE DEF IInv, fields, ends
<1>1. t \in Threads /\ TypeOK'
  BY DEF TypeOK, Goto, Places, Threads
<1>2. Counted'
  <2>1. /\ Cardinality(MayBuild) \in Nat
        /\ Cardinality(MayBuild') \in Nat
        /\ Cardinality(MayBuild') <= Cardinality(MayBuild)
    BY StarterMoves DEF BeforeBuild
  <2>2. /\ Cardinality(MayMark) \in Nat
        /\ Cardinality(MayMark') \in Nat
        /\ Cardinality(MayMark') <= Cardinality(MayMark)
    BY StarterMoves DEF BeforeBuild, BeforeMark
  <2> QED
    BY <2>1, <2>2, ServerAssumption DEF Counted, TypeOK
<1>3. ServersHeld'
  BY <1>1, ServersStillHeld, ServerAssumption DEF Stops
<1>4. \A u \in Threads \ {t} : at'[u] = at[u]
  BY <1>1 DEF TypeOK, Goto
<1>5. StopsOnlyItsOwn'
  BY <1>1, <1>4, ServerAssumption DEF StopsOnlyItsOwn, Threads
<1> QED
  BY <1>1, <1>2, <1>3, <1>5 DEF HooksHeld, ReceiversExist, SrvOwned, StartedIsBuilt

\* The checks of buildStd.
LEMMA ChecksKeep ==
  ASSUME IInv, NEW t \in Starters, CheckStarted(t) \/ CheckBuilt(t)
  PROVE  IInv'
<1>1. CASE CheckStarted(t)
  BY <1>1, StarterGoes DEF CheckStarted, BeforeBuild
<1>2. CASE CheckBuilt(t)
  BY <1>2, StarterGoes DEF CheckBuilt, BeforeBuild
<1> QED
  BY <1>1, <1>2

\* buildStd makes an http.Server nobody has used or closed.
LEMMA BuildKeeps ==
  ASSUME IInv, NEW t \in Starters, Build(t)
  PROVE  IInv'
<1> DEFINE o == on[t]
           i == built + 1
<1> USE DEF IInv
<1>1. t \in Threads /\ at[t] = "build" /\ o \in Objects /\ o \in exists
  BY DEF Build, Threads, TypeOK, ReceiversExist
<1>2. CASE ~mux[o]
  BY <1>1, <1>2, StarterGoes DEF Build, BeforeBuild
<1>3. CASE mux[o]
  <2>1. /\ at' = [at EXCEPT ![t] = "mark"] /\ built' = i
        /\ http' = [http EXCEPT ![i].owner = o, ![i].registered = Contents(o)]
        /\ srv' = [srv EXCEPT ![o] = i]
        /\ UNCHANGED <<exists, mux, hooks, arrays, started, on, using, calls, starts, stops>>
    BY <1>1, <1>3 DEF Build, Goto, NewSrv, Built, fields, ends
  <2>2. /\ Cardinality(MayBuild) \in Nat
        /\ Cardinality(MayBuild') = Cardinality(MayBuild) - 1
    <3>1. Goto(t, "mark")
      BY <2>1 DEF Goto
    <3> QED
      BY <1>1, <3>1, StarterMoves DEF BeforeBuild
  <2>3. /\ Cardinality(MayMark) \in Nat
        /\ Cardinality(MayMark') = Cardinality(MayMark)
    BY <1>1, <2>1, StarterMoves DEF Goto, BeforeBuild, BeforeMark
  <2>4. t \in MayBuild /\ IsFiniteSet(MayBuild)
    BY <1>1, ServerAssumption, FS_Subset DEF MayBuild, BeforeBuild
  <2>5. Cardinality(MayBuild) # 0
    BY <2>4, FS_EmptySet
  <2>6. i \in Ids /\ i <= calls
    BY <2>2, <2>5, ServerAssumption DEF Counted, TypeOK, Ids
  <2>7. Counted'
    BY <2>1, <2>2, <2>3, <2>6, ServerAssumption DEF Counted, TypeOK
  <2>8. Contents(o) \in Seq(Hooks)
    <3>1. hooks[o].len \in Nat
      BY <1>1, ServerAssumption DEF TypeOK
    <3>2. \A k \in 1..hooks[o].len : arrays[hooks[o].array][k] \in Hooks
      BY <1>1, <3>1 DEF HooksHeld
    <3> QED
      BY <3>1, <3>2 DEF Contents
  <2>9. /\ http'[i] = [owner |-> o, registered |-> Contents(o), closed |-> FALSE,
                       serving |-> {}, requests |-> 0]
        /\ \A j \in Ids \ {i} : http'[j] = http[j]
    <3>1. http[i] = NotBuilt
      BY <2>6, ServerAssumption DEF SrvOwned, TypeOK, Ids
    <3>3. http'[i] = [owner |-> o, registered |-> Contents(o), closed |-> FALSE,
                      serving |-> {}, requests |-> 0]
      <4> DEFINE reg == Contents(o)
                 f   == [http EXCEPT ![i].owner = o]
      <4> HIDE DEF reg
      <4>1. f[i] = [NotBuilt EXCEPT !.owner = o] /\ f \in [Ids -> {f[j] : j \in Ids}]
        BY <2>6, <3>1 DEF TypeOK
      <4>2. http'[i] = [[NotBuilt EXCEPT !.owner = o] EXCEPT !.registered = reg]
        BY <2>1, <2>6, <4>1 DEF TypeOK, reg
      <4> QED
        BY <4>2 DEF NotBuilt, reg
    <3>2. \A j \in Ids \ {i} : http'[j] = http[j]
      BY <2>1, <2>6 DEF TypeOK
    <3> QED
      BY <3>2, <3>3
  <2>10. TypeOK'
    <3>1. http'[i] \in [owner : Objects, registered : Seq(Hooks), closed : BOOLEAN,
                        serving : SUBSET Starters, requests : 0..MaxRequests]
      BY <1>1, <2>8, <2>9, ServerAssumption
    <3>2. http' \in [Ids -> [owner : Objects, registered : Seq(Hooks), closed : BOOLEAN,
                             serving : SUBSET Starters, requests : 0..MaxRequests]]
      BY <2>1, <2>6, <2>9, <3>1 DEF TypeOK
    <3>3. /\ at' \in [Threads -> Places] /\ srv' \in [Objects -> Ids \cup {Nil}]
          /\ built' \in 0..MaxCalls
      BY <1>1, <2>1, <2>6 DEF TypeOK, Places, Ids
    <3> QED
      BY <2>1, <3>2, <3>3 DEF TypeOK
  <2>11. /\ srv'[o] = i /\ \A q \in Objects \ {o} : srv'[q] = srv[q]
         /\ at'[t] = "mark" /\ \A u \in Threads \ {t} : at'[u] = at[u]
    BY <1>1, <2>1 DEF TypeOK
  <2>12. ReceiversExist'
    <3>1. \A j \in Ids : http'[j].owner \in exists
      BY <1>1, <2>9 DEF ReceiversExist
    <3> QED
      BY <2>1, <3>1 DEF ReceiversExist
  <2>13. SrvOwned'
    <3>1. built \in Nat /\ \A j \in Ids : j \in Nat /\ (j > i => j > built /\ j # i)
      BY ServerAssumption DEF TypeOK, Ids
    <3>2. ASSUME NEW q \in Objects \ {o}, srv[q] # Nil
          PROVE  srv[q] \in Ids /\ srv[q] # i /\ srv[q] <= i /\ http[srv[q]].owner = q
      BY <3>1, <3>2 DEF SrvOwned, TypeOK
    <3>3. \A q \in Objects : srv'[q] # Nil => srv'[q] <= i /\ http'[srv'[q]].owner = q
      BY <2>6, <2>9, <2>11, <3>1, <3>2
    <3>4. \A j \in Ids : j > i => http'[j] = NotBuilt
      BY <2>9, <3>1 DEF SrvOwned
    <3> QED
      BY <2>1, <3>3, <3>4 DEF SrvOwned
  <2>14. i # Nil /\ i \in Nat
    BY <2>6, ServerAssumption DEF Ids, Nil
  <2>15. ServersHeld'
    <3>1. ASSUME NEW u \in Starters
          PROVE  /\ at'[u] \in {"mark", "serve"} => srv'[on[u]] # Nil
                 /\ at'[u] = "serving" => using[u] # Nil
                 /\ at'[u] \notin Stops \cup {"draining"}
      BY <2>11, <2>14 DEF ServersHeld, Stops, Threads, TypeOK
    <3>2. ASSUME NEW u \in Stoppers
          PROVE  at'[u] = at[u]
      BY <2>11, ServerAssumption DEF Threads
    <3> QED
      BY <2>1, <3>1, <3>2 DEF ServersHeld
  <2>16. StartedIsBuilt'
    BY <2>1, <2>11, <2>14 DEF StartedIsBuilt
  <2>17. StopsOnlyItsOwn'
    <3>1. ASSUME NEW j \in 1..i, http'[j].closed
          PROVE  j \in 1..built /\ http'[j] = http[j]
      <4>1. j # i
        BY <2>9, <3>1
      <4>2. j \in Nat /\ j <= i /\ i \in Nat
        BY <2>14, <3>1
      <4>3. built \in Nat /\ i = built + 1
        BY ServerAssumption DEF TypeOK
      <4>4. j \in 1..built
        BY <3>1, <4>1, <4>2, <4>3
      <4>5. j \in Ids
        BY <2>6, <3>1, <4>2, ServerAssumption DEF Ids
      <4> QED
        BY <2>9, <4>1, <4>4, <4>5
    <3>2. \A u \in Stoppers : at'[u] = at[u]
      BY <2>11, ServerAssumption DEF Threads
    <3>3. ASSUME NEW j \in 1..i, http'[j].closed
          PROVE  \E u \in Stoppers : /\ on'[u] = http'[j].owner
                                     /\ at'[u] \in {"draining", "stopped", "expired"}
      <4>1. j \in 1..built /\ http'[j] = http[j] /\ http[j].closed
        BY <3>1, <3>3
      <4>2. PICK u \in Stoppers : /\ on[u] = http[j].owner
                                  /\ at[u] \in {"draining", "stopped", "expired"}
        BY <4>1 DEF StopsOnlyItsOwn
      <4> QED
        BY <2>1, <3>2, <4>1, <4>2
    <3> QED
      BY <2>1, <3>3 DEF StopsOnlyItsOwn
  <2> QED
    BY <2>1, <2>7, <2>10, <2>12, <2>13, <2>15, <2>16, <2>17 DEF HooksHeld
<1> QED
  BY <1>2, <1>3

\* started is set on a Server that has its http.Server.
LEMMA MarkStartedKeeps ==
  ASSUME IInv, NEW t \in Starters, MarkStarted(t)
  PROVE  IInv'
<1> DEFINE o == on[t]
<1> USE DEF IInv
<1>1. /\ t \in Threads /\ at[t] = "mark" /\ o \in Objects /\ srv[o] # Nil
      /\ started' = [started EXCEPT ![o] = TRUE]
      /\ starts' = [starts EXCEPT ![o] = starts[o] + 1]
      /\ at' = [at EXCEPT ![t] = "serve"]
      /\ UNCHANGED <<exists, mux, hooks, arrays, srv, on, using, calls, http, built, stops>>
  BY DEF MarkStarted, Goto, Threads, TypeOK, ServersHeld, fields
<1>2. /\ Cardinality(MayBuild) \in Nat
      /\ Cardinality(MayBuild') = Cardinality(MayBuild)
  <2>1. Goto(t, "serve")
    BY <1>1 DEF Goto
  <2> QED
    BY <1>1, <2>1, StarterMoves DEF BeforeBuild
<1>3. /\ Cardinality(MayMark) \in Nat
      /\ Cardinality(MayMark') = Cardinality(MayMark) - 1
  <2>1. Goto(t, "serve")
    BY <1>1 DEF Goto
  <2> QED
    BY <1>1, <2>1, StarterMoves DEF BeforeBuild, BeforeMark
<1>4. t \in MayMark /\ IsFiniteSet(MayMark)
  BY <1>1, ServerAssumption, FS_Subset DEF MayMark, BeforeMark
<1>5. Cardinality(MayMark) # 0
  BY <1>4, FS_EmptySet
<1>6. starts[o] + 1 \in 0..MaxCalls
  <2>1. /\ starts[o] \in Nat /\ calls \in Nat /\ calls <= MaxCalls /\ MaxCalls \in Nat
        /\ starts[o] + Cardinality(MayMark) <= calls
    BY <1>1, ServerAssumption DEF Counted, TypeOK
  <2> DEFINE m == Cardinality(MayMark)
  <2>2. m \in Nat /\ m # 0 /\ starts[o] + m <= calls
    BY <1>3, <1>5, <2>1
  <2> HIDE DEF m
  <2> QED
    BY <2>1, <2>2
<1>7. /\ starts'[o] = starts[o] + 1 /\ \A q \in Objects \ {o} : starts'[q] = starts[q]
      /\ at'[t] = "serve" /\ \A u \in Threads \ {t} : at'[u] = at[u]
  BY <1>1 DEF TypeOK
<1>8. Counted'
  <2>1. built + Cardinality(MayBuild') <= calls
    BY <1>2 DEF Counted
  <2>2. ASSUME NEW q \in Objects
        PROVE  starts'[q] + Cardinality(MayMark') <= calls
    <3>1. starts[q] \in Nat /\ calls \in Nat /\ starts[q] + Cardinality(MayMark) <= calls
      BY ServerAssumption DEF TypeOK, Counted
    <3> QED
      BY <3>1, <1>3, <1>7
  <2> QED
    BY <1>1, <2>1, <2>2 DEF Counted
<1>9. TypeOK'
  BY <1>1, <1>6 DEF TypeOK, Places
<1>10. ServersHeld'
  BY <1>1, ServersStillHeld, ServerAssumption DEF Goto, Stops
<1>11. StartedIsBuilt'
  BY <1>1 DEF StartedIsBuilt, TypeOK
<1>12. StopsOnlyItsOwn'
  BY <1>1, <1>7, ServerAssumption DEF StopsOnlyItsOwn, Threads
<1> QED
  BY <1>1, <1>8, <1>9, <1>10, <1>11, <1>12 DEF HooksHeld, ReceiversExist, SrvOwned

-----------------------------------------------------------------------------
(* Serving and stopping: the http.Servers of the Servers stay.              *)

\* A step of a goroutine that may close http.Servers, and changes their serving
\* goroutines and requests, but neither builds nor starts.
LEMMA ThreadKeeps ==
  ASSUME IInv, NEW t \in Threads, NEW place \in Places, Goto(t, place),
         UNCHANGED <<fields, started, srv, on, calls, built, starts>>,
         TypeOK', Counted', ServersHeld',
         \A i \in Ids : http'[i].owner = http[i].owner,
         \A i \in Ids : i > built => http'[i] = http[i],
         at[t] \in {"draining", "stopped", "expired"} =>
           place \in {"draining", "stopped", "expired"},
         \A i \in Ids : http'[i].closed /\ ~http[i].closed =>
           t \in Stoppers /\ on[t] = http[i].owner /\ place \in {"draining", "stopped"}
  PROVE  IInv'
<1> USE DEF IInv, fields
<1>1. HooksHeld' /\ StartedIsBuilt' /\ ReceiversExist'
  BY DEF HooksHeld, StartedIsBuilt, ReceiversExist
<1>2. SrvOwned'
  BY DEF SrvOwned, TypeOK
<1>3. at'[t] = place /\ \A u \in Threads \ {t} : at'[u] = at[u]
  BY DEF Goto, TypeOK
<1>4. StopsOnlyItsOwn'
  <2> SUFFICES ASSUME NEW i \in 1..built, http'[i].closed
               PROVE  \E u \in Stoppers : /\ on[u] = http'[i].owner
                                          /\ at'[u] \in {"draining", "stopped", "expired"}
    BY DEF StopsOnlyItsOwn
  <2>1. i \in Ids
    BY ServerAssumption DEF TypeOK, Ids
  <2>2. CASE http[i].closed
    <3>1. PICK u \in Stoppers : /\ on[u] = http[i].owner
                                /\ at[u] \in {"draining", "stopped", "expired"}
      BY <2>2 DEF StopsOnlyItsOwn
    <3> QED
      BY <2>1, <3>1, <1>3 DEF Threads
  <2>3. CASE ~http[i].closed
    BY <2>1, <2>3, <1>3
  <2> QED
    BY <2>2, <2>3
<1> QED
  BY <1>1, <1>2, <1>4

AnyHttp == [owner : Objects, registered : Seq(Hooks), closed : BOOLEAN,
            serving : SUBSET Starters, requests : 0..MaxRequests]

\* The type of an http.Server.
LEMMA HttpType ==
  ASSUME TypeOK
  PROVE  http \in [Ids -> AnyHttp]
BY DEF TypeOK, AnyHttp

\* The http.Server a starter is about to serve on, or serves on.
LEMMA SrvBuilt ==
  ASSUME TypeOK, SrvOwned, NEW o \in Objects, srv[o] # Nil
  PROVE  srv[o] \in Ids /\ srv[o] \in 1..built /\ http[srv[o]].owner = o
BY ServerAssumption DEF TypeOK, SrvOwned, Ids

\* Starters past the marking count no more.
LEMMA PastCounting ==
  ASSUME IInv, NEW t \in Starters, NEW place, Goto(t, place),
         at[t] \notin BeforeMark, place \notin BeforeMark,
         UNCHANGED <<built, calls, starts>>
  PROVE  Counted'
<1>1. Cardinality(MayBuild') = Cardinality(MayBuild) /\ Cardinality(MayMark') = Cardinality(MayMark)
  BY StarterMoves DEF IInv, BeforeMark
<1> QED
  BY <1>1 DEF IInv, Counted

\* EnterServe puts the goroutine among those that serve, unless the http.Server is
\* closed.
LEMMA EnterServeKeeps ==
  ASSUME IInv, NEW t \in Starters, EnterServe(t) \/ ListenFails(t)
  PROVE  IInv'
<1> DEFINE i == srv[on[t]]
<1> USE DEF IInv
<1>1. t \in Threads /\ at[t] = "serve" /\ on[t] \in Objects /\ i # Nil
  BY DEF EnterServe, ListenFails, Threads, TypeOK, ServersHeld
<1>2. i \in Ids /\ i \in 1..built
  BY <1>1, SrvBuilt
<1>3. CASE ListenFails(t) \/ (EnterServe(t) /\ http[i].closed)
  BY <1>3, StarterGoes DEF EnterServe, ListenFails, BeforeBuild, fields, ends
<1>4. CASE EnterServe(t) /\ ~http[i].closed
  <2>1. /\ Goto(t, "serving") /\ using' = [using EXCEPT ![t] = i]
        /\ http' = [http EXCEPT ![i].serving = http[i].serving \cup {t}]
        /\ UNCHANGED <<fields, started, srv, on, calls, built, ends>>
    BY <1>4 DEF EnterServe
  <2>2. using'[t] = i /\ \A u \in Threads \ {t} : using'[u] = using[u]
    BY <2>1, <1>1 DEF TypeOK
  <2>6. http \in [Ids -> AnyHttp] /\ http[i] \in AnyHttp
    BY <1>2, HttpType
  <2>8. /\ \A j \in Ids : http'[j].owner = http[j].owner /\ http'[j].closed = http[j].closed
        /\ \A j \in Ids \ {i} : http'[j] = http[j]
    <3>1. http'[i] = [http[i] EXCEPT !.serving = http[i].serving \cup {t}]
          /\ \A j \in Ids \ {i} : http'[j] = http[j]
      BY <2>1, <2>6, <1>2
    <3>2. http'[i].owner = http[i].owner /\ http'[i].closed = http[i].closed
      BY <2>6, <3>1 DEF AnyHttp
    <3> QED
      BY <3>1, <3>2
  <2>3. TypeOK'
    <3>1. http' \in [Ids -> AnyHttp]
      BY <2>1, <2>6, <1>1, <1>2 DEF AnyHttp
    <3> QED
      BY <2>1, <3>1, <1>1, <1>2 DEF TypeOK, AnyHttp, Goto, Places, fields, ends
  <2>4. ServersHeld'
    BY <2>1, <2>2, <1>1, ServersStillHeld, ServerAssumption DEF Stops
  <2>5. Counted'
    BY <2>1, <1>1, PastCounting DEF BeforeMark, BeforeBuild, ends
  <2>7. \A j \in Ids : j > built => http'[j] = http[j]
    BY <2>8, <1>2, ServerAssumption DEF TypeOK, Ids
  <2> QED
    BY <2>1, <2>3, <2>4, <2>5, <2>7, <2>8, <1>1, ThreadKeeps DEF Places, ends
<1> QED
  BY <1>3, <1>4

\* A Serve that returns leaves the http.Server it used.
LEMMA ServeReturnsKeeps ==
  ASSUME IInv, NEW t \in Starters, ServeReturns(t)
  PROVE  IInv'
<1> DEFINE i == using[t]
<1> USE DEF IInv
<1>1. t \in Threads /\ at[t] = "serving" /\ i \in Ids
  BY DEF ServeReturns, Threads, TypeOK, ServersHeld
<1>2. /\ Goto(t, "idle") /\ http' = [http EXCEPT ![i].serving = http[i].serving \ {t}]
      /\ UNCHANGED <<fields, started, srv, on, using, calls, built, ends>>
  BY DEF ServeReturns
<1>3. /\ http'[i] = [http[i] EXCEPT !.serving = http[i].serving \ {t}]
      /\ \A j \in Ids \ {i} : http'[j] = http[j]
  BY <1>1, <1>2 DEF TypeOK
<1>4. TypeOK'
  <2>1. http' \in [Ids -> AnyHttp]
    <3>1. http \in [Ids -> AnyHttp] /\ http[i] \in AnyHttp
      BY <1>1, HttpType
    <3> HIDE DEF IInv
    <3>2. [http[i] EXCEPT !.serving = http[i].serving \ {t}] \in AnyHttp
      BY <3>1 DEF AnyHttp
    <3> QED
      BY <1>1, <1>2, <3>1, <3>2
  <2> QED
    BY <2>1, <1>1, <1>2 DEF TypeOK, AnyHttp, Goto, Places, fields, ends
<1>5. ServersHeld'
  BY <1>1, <1>2, ServersStillHeld, ServerAssumption DEF Stops
<1>6. Counted'
  BY <1>1, <1>2, PastCounting DEF BeforeMark, BeforeBuild, ends
<1>7. \A j \in Ids : http'[j].owner = http[j].owner /\ http'[j].closed = http[j].closed
  <2>1. http[i] \in AnyHttp
    BY <1>1, HttpType
  <2>2. http'[i].owner = http[i].owner /\ http'[i].closed = http[i].closed
    BY <2>1, <1>3 DEF AnyHttp
  <2> QED
    BY <1>3, <2>2
<1>8. \A j \in Ids : j > built => http'[j] = http[j]
  <2>1. CASE i > built
    <3>1. http[i] = NotBuilt
      BY <1>1, <2>1 DEF SrvOwned
    <3>2. http'[i] = [NotBuilt EXCEPT !.serving = {}]
      BY <1>3, <3>1 DEF NotBuilt
    <3>3. http'[i] = http[i]
      BY <3>1, <3>2 DEF NotBuilt
    <3> QED
      BY <1>3, <3>3
  <2>2. CASE ~(i > built)
    BY <1>3, <2>2
  <2> QED
    BY <2>1, <2>2
<1> QED
  BY <1>1, <1>2, <1>4, <1>5, <1>6, <1>7, <1>8, ThreadKeeps DEF Places, ends

\* A call of Shutdown or Close begins on a goroutine that has stopped nothing.
LEMMA CallStopKeeps ==
  ASSUME IInv, NEW t \in Stoppers, NEW o \in Objects, NEW kind \in Stops, CallStop(t, o, kind)
  PROVE  IInv'
<1> USE DEF IInv
<1>1. /\ t \in Threads /\ at[t] = "idle" /\ o \in exists
      /\ Goto(t, kind) /\ on' = [on EXCEPT ![t] = o]
      /\ UNCHANGED <<fields, started, srv, using, calls, http, built, ends>>
  BY DEF CallStop, Threads
<1>2. /\ at'[t] = kind /\ on'[t] = o
      /\ \A u \in Threads \ {t} : at'[u] = at[u] /\ on'[u] = on[u]
  BY <1>1 DEF TypeOK, Goto
<1>3. TypeOK'
  BY <1>1 DEF TypeOK, Goto, Places, fields, ends
<1>4. Counted'
  BY <1>1, StopperMoves DEF TypeOK, ends
<1>5. ReceiversExist'
  BY <1>1, <1>2 DEF ReceiversExist, fields
<1>6. ServersHeld'
  BY <1>1, <1>2, ServerAssumption DEF ServersHeld, Threads, Stops, BeforeMark, BeforeBuild
<1>7. StopsOnlyItsOwn'
  <2>1. ASSUME NEW u \in Stoppers, at[u] \in {"draining", "stopped", "expired"}
        PROVE  on'[u] = on[u] /\ at'[u] = at[u]
    BY <1>1, <1>2, <2>1 DEF Threads
  <2> QED
    BY <1>1, <2>1 DEF StopsOnlyItsOwn
<1> QED
  BY <1>1, <1>3, <1>4, <1>5, <1>6, <1>7 DEF HooksHeld, SrvOwned, StartedIsBuilt, fields

\* A stopper that goes on without touching an http.Server.
LEMMA StopperGoes ==
  ASSUME IInv, NEW t \in Stoppers, NEW place \in {"refused", "panicked", "stopped", "expired"},
         Goto(t, place),
         UNCHANGED <<fields, started, srv, on, using, calls, http, built, starts>>,
         stops' \in [Objects -> SUBSET Stops],
         at[t] \in Stops \/ (at[t] = "draining" /\ place \in {"stopped", "expired"})
  PROVE  IInv'
<1> USE DEF IInv
<1>1. t \in Threads /\ place \in Places /\ at[t] # "stopped" /\ at[t] # "expired"
  BY DEF Threads, Places, Stops
<1>2. TypeOK'
  BY <1>1 DEF TypeOK, Goto, fields
<1>3. Counted'
  BY StopperMoves DEF TypeOK
<1>4. ServersHeld'
  BY <1>1, ServersStillHeld, ServerAssumption DEF Stops, BeforeMark, BeforeBuild
<1>5. at[t] \in {"draining", "stopped", "expired"} => place \in {"draining", "stopped", "expired"}
  BY DEF Stops
<1> QED
  BY <1>1, <1>2, <1>3, <1>4, <1>5, ThreadKeeps

\* A stop closes the http.Server of its receiver, and of no other Server.
LEMMA StopKeeps ==
  ASSUME IInv, NEW t \in Stoppers, NEW kind \in Stops, Stop(t, kind)
  PROVE  IInv'
<1> USE DEF IInv
<1>1. t \in Threads /\ at[t] = kind /\ on[t] \in Objects
  BY DEF Stop, Threads, TypeOK
<1>2. PICK i \in {Nil, srv[on[t]]} :
        IF i = Nil
          THEN Goto(t, "panicked") /\ UNCHANGED <<http, using, stops>>
          ELSE /\ http' = [http EXCEPT ![i].closed = TRUE]
               /\ using' = [using EXCEPT ![t] = i]
               /\ IF kind = "Close" THEN Goto(t, "stopped") /\ Returned(t, kind)
                                    ELSE Goto(t, "draining") /\ UNCHANGED stops
  BY DEF Stop, Racy
<1>3. UNCHANGED <<fields, started, srv, on, calls, built, starts>>
  BY DEF Stop
<1>4. CASE i = Nil
  BY <1>1, <1>2, <1>3, <1>4, StopperGoes DEF TypeOK
<1>5. CASE i # Nil
  <2>1. i = srv[on[t]] /\ i \in Ids /\ i \in 1..built /\ http[i].owner = on[t]
    BY <1>1, <1>2, <1>5, SrvBuilt
  <2>2. PICK place \in {"stopped", "draining"} : Goto(t, place)
    BY <1>2, <1>5
  <2>3. stops' \in [Objects -> SUBSET Stops]
    <3>1. stops \in [Objects -> SUBSET Stops]
      BY DEF TypeOK
    <3>2. stops' = stops \/ stops' = [stops EXCEPT ![on[t]] = @ \cup {kind}]
      BY <1>2, <1>5 DEF Returned
    <3> QED
      BY <1>1, <3>1, <3>2
  <2>4. /\ http' = [http EXCEPT ![i].closed = TRUE] /\ using' = [using EXCEPT ![t] = i]
        /\ t \in Threads /\ place \in Places
    BY <1>1, <1>2, <1>5 DEF Places
  <2>5. /\ http'[i] = [http[i] EXCEPT !.closed = TRUE]
        /\ \A j \in Ids \ {i} : http'[j] = http[j]
        /\ using'[t] = i /\ \A u \in Threads \ {t} : using'[u] = using[u]
    BY <2>1, <2>4 DEF TypeOK
  <2>6. TypeOK'
    <3>1. http' \in [Ids -> AnyHttp]
      BY <2>1, <2>4, HttpType DEF AnyHttp
    <3>2. at' \in [Threads -> Places] /\ using' \in [Threads -> Ids \cup {Nil}]
      BY <2>1, <2>2, <2>4 DEF TypeOK, Goto
    <3> QED
      BY <1>3, <2>3, <3>1, <3>2 DEF TypeOK, fields, AnyHttp
  <2>7. Counted'
    BY <1>3, <2>2, StopperMoves DEF TypeOK
  <2>8. ServersHeld'
    BY <1>3, <1>5, <2>2, <2>4, <2>5, ServersStillHeld, ServerAssumption
       DEF BeforeMark, BeforeBuild
  <2>9. \A j \in Ids : http'[j].owner = http[j].owner
    <3>1. http[i] \in AnyHttp
      BY <2>1, HttpType
    <3>2. http'[i].owner = http[i].owner
      BY <2>5, <3>1 DEF AnyHttp
    <3> QED
      BY <2>5, <3>2
  <2>10. \A j \in Ids : j > built => http'[j] = http[j]
    BY <2>1, <2>5, ServerAssumption DEF TypeOK, Ids
  <2>11. \A j \in Ids : http'[j].closed /\ ~http[j].closed =>
           t \in Stoppers /\ on[t] = http[j].owner /\ place \in {"draining", "stopped"}
    BY <2>1, <2>5
  <2>12. at[t] \notin {"draining", "stopped", "expired"}
    BY <1>1 DEF Stops
  <2> QED
    BY <1>3, <2>2, <2>4, <2>6, <2>7, <2>8, <2>9, <2>10, <2>11, <2>12, ThreadKeeps
<1> QED
  BY <1>4, <1>5

\* A stopper that is refused, that has waited for the requests, or that gives up.
LEMMA StopperEnds ==
  ASSUME IInv, NEW t \in Stoppers,
         Drained(t) \/ Expired(t) \/ \E kind \in Stops : StopUnstarted(t, kind)
  PROVE  IInv'
<1>1. CASE Drained(t)
  <2>1. stops' \in [Objects -> SUBSET Stops]
    BY <1>1 DEF Drained, Returned, IInv, TypeOK, Stops, Threads
  <2> QED
    BY <1>1, <2>1, StopperGoes DEF Drained
<1>2. CASE Expired(t)
  BY <1>2, StopperGoes DEF Expired, IInv, TypeOK, ends
<1>3. CASE \E kind \in Stops : StopUnstarted(t, kind)
  BY <1>3, StopperGoes DEF StopUnstarted, Refuse, IInv, TypeOK
<1> QED
  BY <1>1, <1>2, <1>3

\* Requests come and go in the http.Servers.
LEMMA RequestsKeep ==
  ASSUME IInv, NEW i \in Ids, Accept(i) \/ FinishRequest(i)
  PROVE  IInv'
<1> USE DEF IInv
<1>1. http[i].requests \in 0..MaxRequests /\ MaxRequests \in Nat
  BY ServerAssumption DEF TypeOK
<1>2. \E n \in 0..MaxRequests : http' = [http EXCEPT ![i].requests = n]
  <2>1. CASE Accept(i)
    <3>1. http[i].requests + 1 \in 0..MaxRequests
      BY <1>1, <2>1 DEF Accept
    <3>2. http' = [http EXCEPT ![i].requests = http[i].requests + 1]
      BY <2>1 DEF Accept
    <3> QED
      BY <3>1, <3>2
  <2>2. CASE FinishRequest(i)
    <3>1. http[i].requests - 1 \in 0..MaxRequests
      BY <1>1, <2>2 DEF FinishRequest
    <3>2. http' = [http EXCEPT ![i].requests = http[i].requests - 1]
      BY <2>2 DEF FinishRequest
    <3> QED
      BY <3>1, <3>2
  <2> QED
    BY <2>1, <2>2
<1>3. PICK n \in 0..MaxRequests : http' = [http EXCEPT ![i].requests = n]
  BY <1>2
<1>4. UNCHANGED <<exists, mux, hooks, arrays, started, srv, at, on, using, calls, built,
                  starts, stops>>
  BY DEF Accept, FinishRequest, fields, ends
<1>5. TypeOK'
  BY <1>3, <1>4 DEF TypeOK
<1>6. /\ \A j \in Ids : http'[j].owner = http[j].owner /\ http'[j].closed = http[j].closed
      /\ \A j \in Ids \ {i} : http'[j] = http[j]
  BY <1>3 DEF TypeOK
<1>7. i <= built
  <2>1. http[i] # NotBuilt
    BY <1>1 DEF Accept, FinishRequest, NotBuilt
  <2> QED
    BY <2>1, ServerAssumption DEF SrvOwned, TypeOK, Ids
<1>8. SrvOwned'
  <2>1. \A o \in Objects : srv[o] # Nil => srv[o] \in Ids
    BY DEF TypeOK
  <2>2. \A j \in Ids : j > built => j # i
    BY <1>7, ServerAssumption DEF TypeOK, Ids
  <2> QED
    BY <1>4, <1>6, <2>1, <2>2 DEF SrvOwned
<1>9. ReceiversExist'
  BY <1>4, <1>6 DEF ReceiversExist
<1>10. StopsOnlyItsOwn'
  <2>1. 1..built \subseteq Ids
    BY ServerAssumption DEF TypeOK, Ids
  <2> QED
    BY <1>4, <1>6, <2>1 DEF StopsOnlyItsOwn
<1> QED
  BY <1>4, <1>5, <1>8, <1>9, <1>10, CountsStay DEF HooksHeld, ServersHeld, StartedIsBuilt

-----------------------------------------------------------------------------
(* Any number of starting goroutines.                                       *)

\* Every step keeps the inductive invariant.
LEMMA Steps ==
  ASSUME IInv, [Next]_vars
  PROVE  IInv'
<1>1. CASE ProgramStep
  BY <1>1, SetMuxKeeps, AddHookKeeps, CloneKeeps, CallServeKeeps, CallStopKeeps
     DEF ProgramStep
<1>2. ASSUME NEW t \in Starters, StartStep(t) \/ ServeReturns(t)
      PROVE  IInv'
  BY <1>2, ChecksKeep, BuildKeeps, MarkStartedKeeps, EnterServeKeeps, ServeReturnsKeeps
     DEF StartStep
<1>3. ASSUME NEW t \in Stoppers, StopStep(t) \/ Expired(t)
      PROVE  IInv'
  BY <1>3, StopKeeps, StopperEnds DEF StopStep
<1>4. ASSUME NEW i \in Ids, Accept(i) \/ FinishRequest(i)
      PROVE  IInv'
  BY <1>4, RequestsKeep
<1>5. CASE UNCHANGED vars
  BY <1>5, CountsStay
     DEF vars, fields, ends, IInv, TypeOK, HooksHeld, ReceiversExist, SrvOwned, ServersHeld,
         StartedIsBuilt, StopsOnlyItsOwn
<1> QED
  BY <1>1, <1>2, <1>3, <1>4, <1>5 DEF Next

\* The inductive invariant of Servers, http.Servers and the goroutines that start and
\* stop them.
THEOREM Invariant == Spec => []IInv
<1>1. Init => IInv
  BY Starting
<1>2. IInv /\ [Next]_vars => IInv'
  BY Steps
<1> QED
  BY <1>1, <1>2, PTL DEF Spec

\* The variables have their types: among them, as many http.Servers are built as
\* starts were tried, at most, and only hooks are registered.
THEOREM TypeCorrect == Spec => []TypeOK
<1>1. IInv => TypeOK
  BY DEF IInv
<1> QED
  BY <1>1, Invariant, PTL

\* However many goroutines start it, a Server that counts as started has its
\* http.Server.
THEOREM StartedBuilt == Spec => []StartedIsBuilt
<1>1. IInv => StartedIsBuilt
  BY DEF IInv
<1> QED
  BY <1>1, Invariant, PTL

\* An http.Server is closed by a stop of the Server that built it only, clones or not.
THEOREM StopsOwn == Spec => []StopsOnlyItsOwn
<1>1. IInv => StopsOnlyItsOwn
  BY DEF IInv
<1> QED
  BY <1>1, Invariant, PTL

-----------------------------------------------------------------------------
(* One starting goroutine.                                                  *)

\* Servers and http.Servers stay as they are while a goroutine goes on.
LEMMA OneStays ==
  ASSUME IInv, OneParts,
         UNCHANGED <<exists, started, srv, starts, stops, built>>,
         \A i \in Ids : /\ http'[i].owner = http[i].owner
                        /\ http'[i].closed = http[i].closed
                        /\ http'[i].requests = http[i].requests,
         NEW t, \A u \in Threads \ {t} : /\ at'[u] = at[u] /\ on'[u] = on[u]
                                         /\ using'[u] = using[u],
         t \in Starters =>
           /\ at'[t] \in {"checkBuilt", "build", "mark"} => ~started[on'[t]]
           /\ at'[t] = "build" => srv[on'[t]] = Nil,
         t \in Stoppers => at'[t] # "draining"
  PROVE  OneParts'
<1> USE DEF OneParts
<1>1. 1..built \subseteq Ids
  BY ServerAssumption DEF IInv, TypeOK, Ids
<1>2. StartsOnce'
  BY DEF StartsOnce, Threads
<1>3. OneBuilt' /\ StopIsFinal'
  BY <1>1 DEF OneBuilt, StopIsFinal
<1>4. StopsStarted'
  <2>1. ASSUME NEW u \in Stoppers, at'[u] = "draining"
        PROVE  using'[u] = srv[on'[u]] /\ started[on'[u]] /\ http'[using'[u]].closed
    <3>1. u # t /\ u \in Threads
      BY <2>1 DEF Threads
    <3>2. at[u] = "draining" /\ using[u] = srv[on[u]] /\ started[on[u]] /\ http[using[u]].closed
      BY <2>1, <3>1 DEF StopsStarted
    <3>3. using[u] \in Ids
      BY <3>1, <3>2 DEF IInv, TypeOK, ServersHeld
    <3> QED
      BY <3>1, <3>2, <3>3
  <2> QED
    BY <2>1 DEF StopsStarted
<1>5. OneStart'
  BY DEF OneStart
<1> QED
  BY <1>2, <1>3, <1>4, <1>5

\* A step that moves one goroutine only.
LEMMA OneMoves ==
  ASSUME IInv, NEW t \in Threads, NEW place, Goto(t, place), UNCHANGED <<on, using>>
  PROVE  /\ at'[t] = place
         /\ \A u \in Threads \ {t} : at'[u] = at[u] /\ on'[u] = on[u] /\ using'[u] = using[u]
BY DEF IInv, TypeOK, Goto

\* The program leaves started Servers alone; a clone has not been started or stopped.
LEMMA ProgramKeepsOne ==
  ASSUME IInv, OneParts, ProgramStep
  PROVE  OneParts'
<1>1. CASE \E o \in Objects : SetMux(o) \/ \E h \in Hooks : AddHook(o, h)
  <2>1. UNCHANGED <<exists, started, srv, at, on, using, http, built, starts, stops>>
    BY <1>1 DEF SetMux, AddHook, ends
  <2> QED
    BY <2>1 DEF OneParts, StartsOnce, OneBuilt, StopsStarted, OneStart, StopIsFinal
<1>2. ASSUME NEW o \in Objects, NEW c \in Clones, Clone(o, c)
      PROVE  OneParts'
  <2>1. /\ c \in Objects /\ c \notin exists /\ exists' = exists \cup {c}
        /\ srv'[c] = Nil /\ started'[c] = FALSE
        /\ \A q \in Objects \ {c} : srv'[q] = srv[q] /\ started'[q] = started[q]
        /\ UNCHANGED <<at, on, using, http, built, starts, stops>>
    BY <1>2 DEF Clone, ClonedServer, IInv, TypeOK, ends, Objects
  <2>2. /\ \A t \in Threads : on[t] \in Objects \ {c}
        /\ \A i \in Ids : http[i].owner \in Objects \ {c}
    BY <2>1 DEF IInv, ReceiversExist, TypeOK
  <2>3. ~started[c] /\ starts[c] = 0 /\ stops[c] = {}
    BY <2>1 DEF OneParts, StartsOnce, StopsStarted
  <2>4. 1..built \subseteq Ids
    BY ServerAssumption DEF IInv, TypeOK, Ids
  <2>5. StartsOnce'
    BY <2>1, <2>2, <2>3 DEF OneParts, StartsOnce, Threads
  <2>6. OneBuilt'
    BY <2>1, <2>2, <2>4 DEF OneParts, OneBuilt
  <2>7. StopsStarted'
    BY <2>1, <2>2, <2>3 DEF OneParts, StopsStarted, Threads
  <2>8. StopIsFinal' /\ OneStart'
    BY <2>1 DEF OneParts, StopIsFinal, OneStart
  <2> QED
    BY <2>5, <2>6, <2>7, <2>8 DEF OneParts
<1>3. ASSUME NEW t \in Starters, NEW o \in Objects, CallServe(t, o)
      PROVE  OneParts'
  <2>1. /\ t \in Threads /\ at'[t] = "checkStarted"
        /\ \A u \in Threads \ {t} : at'[u] = at[u] /\ on'[u] = on[u] /\ using'[u] = using[u]
        /\ UNCHANGED <<exists, started, srv, http, built, starts, stops>>
    BY <1>3 DEF CallServe, Goto, Threads, IInv, TypeOK, fields, ends
  <2> QED
    BY <2>1, OneStays, ServerAssumption
<1>4. ASSUME NEW t \in Stoppers, NEW o \in Objects, NEW kind \in Stops, CallStop(t, o, kind)
      PROVE  OneParts'
  <2>1. /\ t \in Threads /\ at'[t] # "draining"
        /\ \A u \in Threads \ {t} : at'[u] = at[u] /\ on'[u] = on[u] /\ using'[u] = using[u]
        /\ UNCHANGED <<exists, started, srv, http, built, starts, stops>>
    BY <1>4 DEF CallStop, Goto, Threads, IInv, TypeOK, fields, ends, Stops
  <2> QED
    BY <2>1, OneStays, ServerAssumption
<1> QED
  BY <1>1, <1>2, <1>3, <1>4 DEF ProgramStep

\* One starter builds once and marks once.
LEMMA StarterKeepsOne ==
  ASSUME OneStarter, IInv, OneParts, NEW t \in Starters, StartStep(t) \/ ServeReturns(t)
  PROVE  OneParts'
<1> DEFINE o == on[t]
<1>1. t \in Threads /\ t \notin Stoppers /\ o \in Objects /\ \A s \in Starters : s = t
  BY ServerAssumption DEF Threads, IInv, TypeOK, OneStarter
<1>2. CASE CheckStarted(t)
  BY <1>1, <1>2, OneMoves, OneStays DEF CheckStarted, Startable, fields, ends
<1>3. CASE CheckBuilt(t)
  <2>1. ~started[o]
    BY <1>3 DEF CheckBuilt, OneParts, StartsOnce
  <2>2. PICK place \in {"build", "mark"} : Goto(t, place) /\ (place = "build" => srv[o] = Nil)
    BY <1>3 DEF CheckBuilt
  <2>3. UNCHANGED <<exists, started, srv, starts, stops, built, http, on, using>>
    BY <1>3 DEF CheckBuilt, fields, ends
  <2> QED
    BY <1>1, <2>1, <2>2, <2>3, OneMoves, OneStays
<1>4. CASE Build(t)
  <2> DEFINE i == built + 1
  <2>1. CASE ~mux[o]
    BY <1>1, <1>4, <2>1, OneMoves, OneStays DEF Build, fields, ends
  <2>2. CASE mux[o]
    <3>1. /\ Goto(t, "mark") /\ built' = i
          /\ http' = [http EXCEPT ![i].owner = o, ![i].registered = Contents(o)]
          /\ srv' = [srv EXCEPT ![o] = i]
          /\ UNCHANGED <<exists, started, on, using, starts, stops>>
      BY <1>4, <2>2 DEF Build, NewSrv, Built, fields, ends
    <3>2. ~started[o] /\ srv[o] = Nil /\ stops[o] = {}
      <4>1. ~started[o] /\ srv[o] = Nil
        BY <1>4 DEF Build, OneParts, StartsOnce
      <4> QED
        BY <1>1, <4>1 DEF OneParts, StopsStarted
    <3>3. at'[t] = "mark" /\ \A u \in Threads \ {t} : at'[u] = at[u]
      BY <1>1, <3>1, OneMoves
    <3>4. srv'[o] = i /\ \A q \in Objects \ {o} : srv'[q] = srv[q]
      BY <1>1, <3>1 DEF IInv, TypeOK
    <3>5. i \in Nat /\ 1..built \subseteq Ids \ {i} /\ 1..i = 1..built \cup {i} /\ Nil \notin 1..built
      <4>1. built \in Nat /\ built <= MaxCalls /\ MaxCalls \in Nat
        BY ServerAssumption DEF IInv, TypeOK
      <4> QED
        BY <4>1 DEF Ids, Nil
    <3>6. /\ \A j \in Ids \ {i} : http'[j] = http[j]
          /\ i \in Ids => http'[i].owner = o
      <4>1. http \in [Ids -> AnyHttp]
        BY HttpType DEF IInv
      <4>2. \A j \in Ids \ {i} : http'[j] = http[j]
        BY <3>1, <4>1
      <4>3. ASSUME i \in Ids
            PROVE  http'[i].owner = o
        <5>1. http[i] \in AnyHttp /\ http'[i].owner = [[http[i] EXCEPT !.owner = o]
                                                       EXCEPT !.registered = Contents(o)].owner
          BY <3>1, <4>1, <4>3
        <5> QED
          BY <5>1 DEF AnyHttp
      <4> QED
        BY <4>2, <4>3
    <3>7. i \in Ids
      <4>1. IInv'
        BY <1>4, BuildKeeps
      <4> QED
        BY <3>1, <3>5, <4>1, ServerAssumption DEF IInv, TypeOK, Ids
    <3>8. \A j \in 1..built : http[j].owner \in Objects \ {o}
      BY <3>2, <3>5 DEF OneParts, OneBuilt, IInv, TypeOK
    <3>9. OneBuilt'
      <4> SUFFICES ASSUME NEW j \in 1..i PROVE srv'[http'[j].owner] = j
        BY <3>1 DEF OneBuilt
      <4>1. CASE j = i
        BY <4>1, <3>4, <3>6, <3>7
      <4>2. CASE j \in 1..built
        <5>1. http'[j] = http[j] /\ http[j].owner \in Objects \ {o}
          BY <4>2, <3>5, <3>6, <3>8
        <5> QED
          BY <4>2, <5>1, <3>4 DEF OneParts, OneBuilt
      <4> QED
        BY <4>1, <4>2, <3>5
    <3>10. StopIsFinal' /\ OneStart'
      <4>1. ASSUME NEW q \in Objects, NEW j \in 1..i, http'[j].owner = q
            PROVE  /\ stops[q] # {} => http'[j].closed
                   /\ "Shutdown" \in stops[q] => http'[j].requests = 0
        <5>1. CASE j = i
          BY <3>2, <3>6, <3>7, <4>1, <5>1
        <5>2. CASE j # i
          <6>1. j \in 1..built /\ http'[j] = http[j]
            BY <3>5, <3>6, <4>1, <5>2
          <6> QED
            BY <4>1, <6>1 DEF OneParts, StopIsFinal
        <5> QED
          BY <5>1, <5>2
      <4> QED
        BY <3>1, <4>1 DEF OneParts, StopIsFinal, OneStart
    <3>11. StartsOnce'
      BY <1>1, <3>1, <3>2, <3>3 DEF OneParts, StartsOnce
    <3>12. StopsStarted'
      <4>1. ASSUME NEW u \in Stoppers, at'[u] = "draining"
            PROVE  using[u] = srv'[on[u]] /\ started[on[u]] /\ http'[using[u]].closed
        <5>1. u \in Threads \ {t} /\ at[u] = "draining" /\ on[u] \in Objects
          BY <1>1, <3>3, <4>1 DEF Threads, IInv, TypeOK
        <5>2. using[u] = srv[on[u]] /\ started[on[u]] /\ http[using[u]].closed /\ on[u] # o
          BY <3>2, <5>1 DEF OneParts, StopsStarted
        <5>3. using[u] \in 1..built
          <6>1. using[u] # Nil
            BY <5>1 DEF IInv, ServersHeld
          <6> QED
            BY <5>1, <5>2, <6>1, SrvBuilt DEF IInv
        <5> QED
          BY <3>4, <3>5, <3>6, <5>1, <5>2, <5>3
      <4> QED
        BY <3>1, <4>1 DEF OneParts, StopsStarted
    <3> QED
      BY <3>9, <3>10, <3>11, <3>12 DEF OneParts
  <2> QED
    BY <2>1, <2>2
<1>5. CASE MarkStarted(t)
  <2>1. /\ Goto(t, "serve") /\ started' = [started EXCEPT ![o] = TRUE]
        /\ starts' = [starts EXCEPT ![o] = starts[o] + 1] /\ at[t] = "mark"
        /\ UNCHANGED <<exists, srv, on, using, http, built, stops>>
    BY <1>5 DEF MarkStarted, fields
  <2>2. starts[o] = 0 /\ o \in exists
    BY <1>1, <2>1 DEF OneParts, StartsOnce, IInv, ReceiversExist
  <2>3. at'[t] = "serve" /\ \A u \in Threads \ {t} : at'[u] = at[u]
    BY <1>1, <2>1, OneMoves
  <2>4. /\ started'[o] = TRUE /\ starts'[o] = 1
        /\ \A q \in Objects \ {o} : started'[q] = started[q] /\ starts'[q] = starts[q]
    BY <1>1, <2>1, <2>2 DEF IInv, TypeOK
  <2>5. StartsOnce' /\ OneStart'
    BY <1>1, <2>1, <2>2, <2>3, <2>4 DEF OneParts, StartsOnce, OneStart
  <2>6. OneBuilt' /\ StopIsFinal'
    BY <2>1 DEF OneParts, OneBuilt, StopIsFinal
  <2>7. StopsStarted'
    <3>1. \A u \in Stoppers : u \in Threads \ {t} /\ on[u] \in Objects
      BY <1>1 DEF Threads, IInv, TypeOK
    <3> QED
      BY <2>1, <2>3, <2>4, <3>1 DEF OneParts, StopsStarted
  <2> QED
    BY <2>5, <2>6, <2>7 DEF OneParts
<1>6. CASE EnterServe(t) \/ ListenFails(t) \/ ServeReturns(t)
  <2>1. /\ at' = [at EXCEPT ![t] = "idle"] \/ at' = [at EXCEPT ![t] = "serving"]
        /\ UNCHANGED <<exists, started, srv, on, built, starts, stops>>
    BY <1>6 DEF EnterServe, ListenFails, ServeReturns, Goto, fields, ends
  <2>2. at'[t] \in {"idle", "serving"} /\ \A u \in Threads \ {t} : at'[u] = at[u]
    BY <1>1, <2>1 DEF IInv, TypeOK
  <2>3. \A u \in Threads \ {t} : using'[u] = using[u]
    BY <1>6 DEF EnterServe, ListenFails, ServeReturns, IInv, TypeOK
  <2>4. http' = http \/ \E i \in Ids : \E s : http' = [http EXCEPT ![i].serving = s]
    <3>1. CASE EnterServe(t)
      <4>1. srv[o] \in Ids
        BY <1>1, <3>1, SrvBuilt DEF EnterServe, IInv, ServersHeld
      <4> QED
        BY <3>1, <4>1 DEF EnterServe
    <3>2. CASE ServeReturns(t)
      <4>1. using[t] \in Ids
        BY <1>1, <3>2 DEF ServeReturns, IInv, ServersHeld, TypeOK
      <4> QED
        BY <3>2, <4>1 DEF ServeReturns
    <3>3. CASE ListenFails(t)
      BY <3>3 DEF ListenFails
    <3> QED
      BY <1>6, <3>1, <3>2, <3>3
  <2>5. \A i \in Ids : /\ http'[i].owner = http[i].owner /\ http'[i].closed = http[i].closed
                       /\ http'[i].requests = http[i].requests
    <3>1. http \in [Ids -> AnyHttp]
      BY HttpType DEF IInv
    <3>2. ASSUME NEW i \in Ids, NEW s, http' = [http EXCEPT ![i].serving = s]
          PROVE  \A j \in Ids : /\ http'[j].owner = http[j].owner
                                /\ http'[j].closed = http[j].closed
                                /\ http'[j].requests = http[j].requests
      BY <3>1, <3>2 DEF AnyHttp
    <3> QED
      BY <2>4, <3>2
  <2> QED
    BY <1>1, <2>1, <2>2, <2>3, <2>5, OneStays
<1> QED
  BY <1>2, <1>3, <1>4, <1>5, <1>6 DEF StartStep

\* A stop of a Server that was started closes the one http.Server it built.
LEMMA StopperKeepsOne ==
  ASSUME IInv, OneParts, NEW t \in Stoppers, StopStep(t) \/ Expired(t)
  PROVE  OneParts'
<1> DEFINE o == on[t]
<1>1. t \in Threads /\ t \notin Starters /\ o \in Objects /\ 1..built \subseteq Ids
  BY ServerAssumption DEF Threads, IInv, TypeOK, Ids
<1>2. CASE Expired(t)
  BY <1>1, <1>2, OneMoves, OneStays DEF Expired, fields, ends
<1>3. ASSUME NEW kind \in Stops, StopUnstarted(t, kind)
      PROVE  OneParts'
  BY <1>1, <1>3, OneMoves, OneStays DEF StopUnstarted, Refuse, fields
<1>4. CASE Drained(t)
  <2>1. /\ at[t] = "draining" /\ http[using[t]].requests = 0 /\ Goto(t, "stopped")
        /\ stops' = [stops EXCEPT ![o] = stops[o] \cup {"Shutdown"}]
        /\ UNCHANGED <<exists, started, srv, on, using, http, built, starts>>
    BY <1>4 DEF Drained, Returned, fields
  <2>2. using[t] = srv[o] /\ started[o] /\ http[using[t]].closed
    BY <2>1 DEF OneParts, StopsStarted
  <2>3. at'[t] = "stopped" /\ \A u \in Threads \ {t} : at'[u] = at[u]
    BY <1>1, <2>1, OneMoves
  <2>4. /\ stops'[o] = stops[o] \cup {"Shutdown"}
        /\ \A q \in Objects \ {o} : stops'[q] = stops[q]
    BY <1>1, <2>1 DEF IInv, TypeOK
  <2>5. \A i \in 1..built : http[i].owner = o => http[i].closed /\ http[i].requests = 0
    BY <2>1, <2>2 DEF OneParts, OneBuilt
  <2>6. StopIsFinal'
    BY <2>1, <2>4, <2>5 DEF OneParts, StopIsFinal
  <2>7. StartsOnce' /\ OneStart' /\ OneBuilt'
    BY <1>1, <2>1, <2>3 DEF OneParts, StartsOnce, OneStart, OneBuilt, Threads
  <2>8. StopsStarted'
    BY <2>1, <2>2, <2>3, <2>4 DEF OneParts, StopsStarted, Threads
  <2> QED
    BY <2>6, <2>7, <2>8 DEF OneParts
<1>5. ASSUME NEW kind \in Stops, Stop(t, kind)
      PROVE  OneParts'
  <2>1. PICK i \in {Nil, srv[o]} :
          IF i = Nil
            THEN Goto(t, "panicked") /\ UNCHANGED <<http, using, stops>>
            ELSE /\ http' = [http EXCEPT ![i].closed = TRUE]
                 /\ using' = [using EXCEPT ![t] = i]
                 /\ IF kind = "Close" THEN Goto(t, "stopped") /\ Returned(t, kind)
                                      ELSE Goto(t, "draining") /\ UNCHANGED stops
    BY <1>5 DEF Stop, Racy
  <2>2. UNCHANGED <<exists, started, srv, on, built, starts>>
    BY <1>5 DEF Stop, fields
  <2>3. CASE i = Nil
    BY <1>1, <2>1, <2>2, <2>3, OneMoves, OneStays
  <2>4. CASE i # Nil
    <3>1. i = srv[o] /\ i \in Ids /\ i \in 1..built /\ http[i].owner = o
      BY <1>1, <2>1, <2>4, SrvBuilt DEF IInv
    <3>2. started[o]
      BY <1>1, <1>5 DEF Stop, Racy, IInv, TypeOK
    <3>3. PICK place \in {"stopped", "draining"} : Goto(t, place)
      BY <2>1, <2>4
    <3>4. at'[t] = place /\ \A u \in Threads \ {t} : at'[u] = at[u]
      BY <1>1, <3>3 DEF IInv, TypeOK, Goto
    <3>5. using'[t] = i /\ \A u \in Threads \ {t} : using'[u] = using[u]
      BY <1>1, <2>1, <2>4 DEF IInv, TypeOK
    <3>6. /\ http'[i].closed = TRUE
          /\ \A j \in Ids : /\ http'[j].owner = http[j].owner
                            /\ http'[j].requests = http[j].requests
                            /\ http[j].closed => http'[j].closed
      <4>1. http \in [Ids -> AnyHttp] /\ http' = [http EXCEPT ![i].closed = TRUE]
        BY <2>1, <2>4, HttpType DEF IInv
      <4> QED
        BY <3>1, <4>1 DEF AnyHttp
    <3>7. \A j \in 1..built : http[j].owner = o => j = i
      BY <3>1 DEF OneParts, OneBuilt
    <3>8. /\ \A q \in Objects \ {o} : stops'[q] = stops[q]
          /\ "Shutdown" \in stops'[o] => "Shutdown" \in stops[o]
      <4>1. stops \in [Objects -> SUBSET Stops]
        BY DEF IInv, TypeOK
      <4>2. stops' = stops \/ stops' = [stops EXCEPT ![o] = @ \cup {"Close"}]
        BY <2>1, <2>4 DEF Returned
      <4> QED
        BY <1>1, <4>1, <4>2
    <3>9. StopIsFinal'
      <4> SUFFICES ASSUME NEW q \in Objects, NEW j \in 1..built, http[j].owner = q
                   PROVE  /\ stops'[q] # {} => http'[j].closed
                          /\ "Shutdown" \in stops'[q] => http'[j].requests = 0
        BY <1>1, <2>2, <3>6 DEF StopIsFinal
      <4> QED
        BY <1>1, <3>6, <3>7, <3>8 DEF OneParts, StopIsFinal
    <3>10. OneBuilt' /\ OneStart'
      BY <1>1, <2>2, <3>6 DEF OneParts, OneBuilt, OneStart
    <3>11. StartsOnce'
      BY <1>1, <2>2, <3>4 DEF OneParts, StartsOnce, Threads
    <3>12. StopsStarted'
      <4>1. \A q \in Objects : stops'[q] # {} => started[q]
        BY <3>2, <3>8 DEF OneParts, StopsStarted
      <4>2. ASSUME NEW u \in Stoppers, at'[u] = "draining"
            PROVE  using'[u] = srv[on[u]] /\ started[on[u]] /\ http'[using'[u]].closed
        <5>1. CASE u = t
          BY <3>1, <3>2, <3>5, <3>6, <5>1
        <5>2. CASE u # t
          <6>1. at[u] = "draining" /\ using'[u] = using[u] /\ u \in Threads
            BY <3>4, <3>5, <4>2, <5>2 DEF Threads
          <6>2. using[u] \in Ids
            BY <6>1 DEF IInv, TypeOK, ServersHeld
          <6> QED
            BY <3>6, <6>1, <6>2 DEF OneParts, StopsStarted
        <5> QED
          BY <5>1, <5>2
      <4> QED
        BY <2>2, <4>1, <4>2 DEF StopsStarted
    <3> QED
      BY <3>9, <3>10, <3>11, <3>12 DEF OneParts
  <2> QED
    BY <2>3, <2>4
<1> QED
  BY <1>2, <1>3, <1>4, <1>5 DEF StopStep

\* Requests come only to an http.Server that is not closed.
LEMMA RequestsKeepOne ==
  ASSUME IInv, OneParts, NEW i \in Ids, Accept(i) \/ FinishRequest(i)
  PROVE  OneParts'
<1>1. UNCHANGED <<exists, started, srv, at, on, using, built, starts, stops>>
  BY DEF Accept, FinishRequest, fields, ends
<1>2. 1..built \subseteq Ids
  BY ServerAssumption DEF IInv, TypeOK, Ids
<1>3. /\ \A j \in Ids : http'[j].owner = http[j].owner /\ http'[j].closed = http[j].closed
      /\ \A j \in Ids \ {i} : http'[j] = http[j]
  <2>1. http \in [Ids -> AnyHttp]
    BY HttpType DEF IInv
  <2>2. \E n : http' = [http EXCEPT ![i].requests = n]
    BY DEF Accept, FinishRequest
  <2> QED
    BY <2>1, <2>2 DEF AnyHttp
<1>4. StopIsFinal'
  <2>1. ASSUME i \in 1..built
        PROVE  "Shutdown" \notin stops[http[i].owner]
    <3>1. http[i].owner \in Objects
      BY DEF IInv, TypeOK
    <3>2. ~http[i].closed \/ http[i].requests # 0
      BY DEF Accept, FinishRequest
    <3> QED
      BY <2>1, <3>1, <3>2 DEF OneParts, StopIsFinal
  <2> QED
    BY <1>1, <1>2, <1>3, <2>1 DEF OneParts, StopIsFinal
<1>5. OneBuilt'
  BY <1>1, <1>2, <1>3 DEF OneParts, OneBuilt
<1>6. StopsStarted'
  <2>1. \A u \in Stoppers : at[u] = "draining" => using[u] \in Ids
    BY DEF IInv, ServersHeld, TypeOK, Threads
  <2> QED
    BY <1>1, <1>3, <2>1 DEF OneParts, StopsStarted
<1> QED
  BY <1>1, <1>4, <1>5, <1>6 DEF OneParts, StartsOnce, OneStart

\* With one starting goroutine, the inductive invariant of what a start and a stop
\* promise.
THEOREM OneInvariant ==
  ASSUME OneStarter
  PROVE  Spec => [](IInv /\ OneParts)
<1>1. Init => IInv /\ OneParts
  BY Starting
<1>2. IInv /\ OneParts /\ [Next]_vars => (IInv /\ OneParts)'
  <2> SUFFICES ASSUME IInv, OneParts, [Next]_vars
               PROVE  OneParts'
    BY Steps
  <2>1. CASE UNCHANGED vars
    BY <2>1 DEF vars, fields, ends, OneParts, StartsOnce, OneBuilt, StopsStarted, OneStart,
                StopIsFinal
  <2> QED
    BY <2>1, ProgramKeepsOne, StarterKeepsOne, StopperKeepsOne, RequestsKeepOne DEF Next
<1> QED
  BY <1>1, <1>2, PTL DEF Spec

\* A Server one goroutine starts is started at most once.
THEOREM StartsAtMostOnce ==
  ASSUME OneStarter
  PROVE  Spec => []OneStart
<1>1. IInv /\ OneParts => OneStart
  BY DEF OneParts
<1> QED
  BY <1>1, OneInvariant, PTL

\* Once a Shutdown or Close of such a Server returned nil, it never serves again, and
\* after a Shutdown nothing is in flight, however many goroutines stop it.
THEOREM StopsForGood ==
  ASSUME OneStarter
  PROVE  Spec => []StopIsFinal
<1>1. IInv /\ OneParts => StopIsFinal
  BY DEF OneParts
<1> QED
  BY <1>1, OneInvariant, PTL

=============================================================================
