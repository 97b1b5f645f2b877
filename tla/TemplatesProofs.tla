-------------------------- MODULE TemplatesProofs --------------------------
(***************************************************************************)
(* Theorems about Templates, for any templates, number of concurrent        *)
(* requests and ServeMuxes: which pages can fail, and what is on a page.    *)
(***************************************************************************)
EXTENDS Templates, SequenceTheorems, WellFoundedInduction, NaturalsInduction, TLAPS

Fields == {"pc", "mux", "todo", "name", "map", "funcs", "bound", "page"}

Finished == {"done", "panicked"}

\* The functions of a FuncMap are those of the interceptors that committed, and the
\* handler's own.
Committed(i) == req[i].mux \ req[i].todo

MapHas(i) ==
  CASE req[i].map = "none"   -> DOMAIN req[i].funcs = Committed(i)
    [] req[i].map = "own"    -> DOMAIN req[i].funcs = Committed(i) \cup {OwnFunc}
    [] req[i].map = "shared" -> Committed(i) \cup {OwnFunc} \subseteq DOMAIN shared
    [] OTHER                 -> FALSE

\* A request that had no function at all and was executed on the template itself.
Plain(i) == req[i].pc \in Finished /\ req[i].mux = {} /\ req[i].map = "none"

Fails(i) ==
  \/ Text(i) \notin DOMAIN parsed
  \/ ~(Asks(i) \subseteq req[i].mux)
  \/ \E j \in Requests \ {i} : Plain(j)

IInv ==
  /\ DOMAIN req = Requests /\ \A i \in Requests : DOMAIN req[i] = Fields
  /\ phase \in {"loading", "failed"} => \A i \in Requests : req[i].pc = "handler"
  /\ OwnFunc \in DOMAIN shared
  /\ executed => \E j \in Requests : Plain(j)
  /\ \A i \in Requests :
       /\ req[i].pc \in {"handler", "commit", "execute"} \cup Finished
       /\ req[i].pc = "handler" => req[i].todo = req[i].mux
       /\ req[i].pc = "commit" => req[i].todo \subseteq req[i].mux /\ MapHas(i)
       /\ req[i].pc = "execute" => req[i].mux \subseteq DOMAIN req[i].bound
       /\ req[i].pc = "panicked" => Fails(i)

\* What one request does leaves the others as they are: their invariant holds if those
\* that ended stay as they were, the templates stay and shared functions only grow.
LEMMA OthersKept ==
  ASSUME IInv, NEW i \in Requests, phase = "serving", phase' \in {"serving", "dead"},
         DOMAIN req' = DOMAIN req, \A j \in Requests \ {i} : req'[j] = req[j],
         req[i].pc \notin Finished, parsed' = parsed, root' = root,
         DOMAIN shared \subseteq DOMAIN shared',
         DOMAIN req'[i] = Fields,
         executed' => executed \/ Plain(i)',
         /\ req'[i].pc \in {"handler", "commit", "execute"} \cup Finished
         /\ req'[i].pc = "handler" => req'[i].todo = req'[i].mux
         /\ req'[i].pc = "commit" => req'[i].todo \subseteq req'[i].mux /\ MapHas(i)'
         /\ req'[i].pc = "execute" => req'[i].mux \subseteq DOMAIN req'[i].bound
         /\ req'[i].pc = "panicked" => Fails(i)'
  PROVE  IInv'
  <1>1. \A j \in Requests \ {i} : Plain(j)' = Plain(j) /\ Text(j)' = Text(j) /\ Asks(j)' = Asks(j)
    BY DEF Plain, Text, Asks
  <1>2. ~Plain(i)
    BY DEF Plain
  <1>3. ASSUME NEW j \in Requests \ {i}, Fails(j) PROVE Fails(j)'
    BY <1>1, <1>2, <1>3 DEF Fails
  <1>4. ASSUME NEW j \in Requests \ {i}, MapHas(j) PROVE MapHas(j)'
    <2>1. req'[j] = req[j] /\ Committed(j)' = Committed(j)
      BY DEF Committed
    <2> QED
      BY <1>4, <2>1 DEF MapHas
  <1>5. executed' => \E j \in Requests : Plain(j)'
    BY <1>1, <1>2 DEF IInv
  <1>6. DOMAIN req' = Requests /\ \A j \in Requests : DOMAIN req'[j] = Fields
    BY DEF IInv
  <1>7. ASSUME NEW j \in Requests
        PROVE  /\ req'[j].pc \in {"handler", "commit", "execute"} \cup Finished
               /\ req'[j].pc = "handler" => req'[j].todo = req'[j].mux
               /\ req'[j].pc = "commit" => req'[j].todo \subseteq req'[j].mux /\ MapHas(j)'
               /\ req'[j].pc = "execute" => req'[j].mux \subseteq DOMAIN req'[j].bound
               /\ req'[j].pc = "panicked" => Fails(j)'
    <2>1. CASE j = i
      BY <2>1
    <2>2. CASE j # i
      <3>1. j \in Requests \ {i} /\ req'[j] = req[j]
        BY <2>2
      <3> QED
        BY <3>1, <1>3, <1>4 DEF IInv
    <2> QED
      BY <2>1, <2>2
  <1> QED
    BY <1>5, <1>6, <1>7 DEF IInv

\* The function a Commit puts into a map is added to those that are there.
LEMMA PutsFunction ==
  /\ \A map, f, v : DOMAIN Put(map, f, v) = {f} \cup DOMAIN map
  /\ \A f, v : DOMAIN Put(<<>>, f, v) = {f}
BY DEF Put

\* What changes if a request goes on to r.
LEMMA GoesTo ==
  ASSUME IInv, NEW i \in Requests, NEW r, Goes(i, r)
  PROVE  /\ DOMAIN req' = DOMAIN req /\ req'[i] = r
         /\ \A j \in Requests \ {i} : req'[j] = req[j]
BY DEF IInv, Goes

\* An execution ends the request, and fails only where a function is missing.
LEMMA Executed ==
  ASSUME IInv, NEW i \in Requests, NEW funcs, Execute(i, funcs), parsed' = parsed, root' = root
  PROVE  /\ DOMAIN req' = DOMAIN req /\ DOMAIN req'[i] = Fields
         /\ \A j \in Requests \ {i} : req'[j] = req[j]
         /\ req'[i].pc \in Finished
         /\ req'[i].mux = req[i].mux /\ req'[i].map = req[i].map
         /\ Text(i)' = Text(i)
         /\ req'[i].pc = "panicked" =>
              Text(i)' \notin DOMAIN parsed' \/ ~(Asks(i)' \subseteq DOMAIN funcs)
  <1>1. DOMAIN req[i] = Fields
    BY DEF IInv
  <1>2. CASE Executes(i, funcs)
    <2> DEFINE r == [req[i] EXCEPT !.pc = "done", !.page = Rendered(parsed[Text(i)], funcs)]
    <2>1. Goes(i, r)
      BY <1>2 DEF Execute
    <2>2. /\ DOMAIN r = Fields /\ r.pc = "done" /\ r.mux = req[i].mux /\ r.map = req[i].map
          /\ r.name = req[i].name
      BY <1>1 DEF Fields
    <2> HIDE DEF r
    <2>3. /\ DOMAIN req' = DOMAIN req /\ req'[i] = r /\ \A j \in Requests \ {i} : req'[j] = req[j]
      BY <2>1, GoesTo
    <2> QED
      BY <2>2, <2>3 DEF Finished, Text
  <1>3. CASE ~Executes(i, funcs)
    <2> DEFINE r == [req[i] EXCEPT !.pc = "panicked"]
    <2>1. Goes(i, r)
      BY <1>3 DEF Execute
    <2>2. /\ DOMAIN r = Fields /\ r.pc = "panicked" /\ r.mux = req[i].mux /\ r.map = req[i].map
          /\ r.name = req[i].name
      BY <1>1 DEF Fields
    <2> HIDE DEF r
    <2>3. /\ DOMAIN req' = DOMAIN req /\ req'[i] = r /\ \A j \in Requests \ {i} : req'[j] = req[j]
      BY <2>1, GoesTo
    <2>4. Text(i)' = Text(i)
      BY <2>2, <2>3 DEF Text
    <2>5. Text(i) \in DOMAIN parsed => ~(Calls(parsed[Text(i)]) \subseteq DOMAIN funcs)
      BY <1>3 DEF Executes
    <2>6. Text(i) \in DOMAIN parsed => Asks(i)' = Calls(parsed[Text(i)])
      BY <2>4 DEF Asks
    <2> QED
      BY <2>2, <2>3, <2>4, <2>5, <2>6 DEF Finished
  <1> QED
    BY <1>2, <1>3

\* A request that writes, and gets no function yet.
LEMMA WriteKeeps ==
  ASSUME IInv, NEW i \in Requests, NEW name, NEW map \in {"none", "own", "shared"},
         WriteTemplate(i, name, map)
  PROVE  IInv'
  <1> DEFINE r == [req[i] EXCEPT !.pc = "commit", !.name = name, !.map = map,
                                 !.funcs = IF map = "own" THEN Put(<<>>, OwnFunc, i) ELSE <<>>]
  <1>1. /\ phase = "serving" /\ req[i].pc = "handler" /\ Goes(i, r)
        /\ UNCHANGED <<files, source, disabled, root, parsed, executed, phase, shared>>
    BY DEF WriteTemplate, At, tplVars
  <1>2. DOMAIN req[i] = Fields /\ req[i].todo = req[i].mux
    BY <1>1 DEF IInv
  <1>3. /\ DOMAIN r = Fields /\ r.pc = "commit" /\ r.mux = req[i].mux /\ r.todo = req[i].todo
        /\ r.map = map /\ r.funcs = IF map = "own" THEN Put(<<>>, OwnFunc, i) ELSE <<>>
    BY <1>2 DEF Fields
  <1> HIDE DEF r
  <1>4. /\ DOMAIN req' = DOMAIN req /\ req'[i] = r /\ \A j \in Requests \ {i} : req'[j] = req[j]
    BY <1>1, GoesTo
  <1>5. Committed(i)' = {}
    BY <1>2, <1>3, <1>4 DEF Committed
  <1>6. DOMAIN Put(<<>>, OwnFunc, i) = {OwnFunc} /\ DOMAIN <<>> = {}
    BY DEF Put
  <1>7. MapHas(i)'
    <2>1. CASE map = "none"
      BY <2>1, <1>3, <1>4, <1>5, <1>6 DEF MapHas
    <2>2. CASE map = "own"
      BY <2>2, <1>3, <1>4, <1>5, <1>6 DEF MapHas
    <2>3. CASE map = "shared"
      BY <2>3, <1>1, <1>3, <1>4, <1>5 DEF MapHas, IInv
    <2> QED
      BY <2>1, <2>2, <2>3
  <1>8. req[i].pc \notin Finished
    BY <1>1 DEF Finished
  <1> QED
    BY <1>1, <1>2, <1>3, <1>4, <1>7, <1>8, OthersKept

\* A Commit adds its function.
LEMMA ProvidesKeeps ==
  ASSUME IInv, NEW i \in Requests, NEW f, Provides(i, f)
  PROVE  IInv'
  <1>1. /\ phase = "serving" /\ req[i].pc = "commit" /\ f \in req[i].todo
        /\ UNCHANGED <<files, source, disabled, root, parsed, executed, phase>>
    BY DEF Provides, At, tplVars
  <1>2. DOMAIN req[i] = Fields /\ req[i].todo \subseteq req[i].mux /\ MapHas(i)
    BY <1>1 DEF IInv
  <1>3. req[i].pc \notin Finished
    BY <1>1 DEF Finished
  <1>4. CASE req[i].map = "shared"
    <2> DEFINE r == [req[i] EXCEPT !.todo = @ \ {f}]
    <2>1. Goes(i, r) /\ shared' = Put(shared, f, i)
      BY <1>4 DEF Provides
    <2>2. /\ DOMAIN r = Fields /\ r.pc = "commit" /\ r.mux = req[i].mux /\ r.todo = req[i].todo \ {f}
          /\ r.map = req[i].map
      BY <1>1, <1>2 DEF Fields
    <2> HIDE DEF r
    <2>3. /\ DOMAIN req' = DOMAIN req /\ req'[i] = r /\ \A j \in Requests \ {i} : req'[j] = req[j]
      BY <2>1, GoesTo
    <2>4. DOMAIN shared' = {f} \cup DOMAIN shared
      BY <2>1, PutsFunction
    <2>5. Committed(i)' = Committed(i) \cup {f}
      BY <1>1, <1>2, <2>2, <2>3 DEF Committed
    <2>6. Committed(i) \cup {OwnFunc} \subseteq DOMAIN shared
      BY <1>2, <1>4 DEF MapHas
    <2>7. MapHas(i)'
      BY <1>4, <2>2, <2>3, <2>4, <2>5, <2>6 DEF MapHas
    <2> QED
      BY <1>1, <1>2, <1>3, <2>2, <2>3, <2>4, <2>7, OthersKept
  <1>5. CASE req[i].map # "shared"
    <2> DEFINE r == [req[i] EXCEPT !.todo = @ \ {f}, !.funcs = Put(@, f, i)]
    <2>1. Goes(i, r) /\ shared' = shared
      BY <1>5 DEF Provides
    <2>2. /\ DOMAIN r = Fields /\ r.pc = "commit" /\ r.mux = req[i].mux /\ r.todo = req[i].todo \ {f}
          /\ r.map = req[i].map /\ r.funcs = Put(req[i].funcs, f, i)
      BY <1>1, <1>2 DEF Fields
    <2> HIDE DEF r
    <2>3. /\ DOMAIN req' = DOMAIN req /\ req'[i] = r /\ \A j \in Requests \ {i} : req'[j] = req[j]
      BY <2>1, GoesTo
    <2>4. DOMAIN req'[i].funcs = {f} \cup DOMAIN req[i].funcs
      BY <2>2, <2>3, PutsFunction DEF Put
    <2>5. Committed(i)' = Committed(i) \cup {f}
      BY <1>1, <1>2, <2>2, <2>3 DEF Committed
    <2>6. \/ req[i].map = "none" /\ DOMAIN req[i].funcs = Committed(i)
          \/ req[i].map = "own" /\ DOMAIN req[i].funcs = Committed(i) \cup {OwnFunc}
      BY <1>2, <1>5 DEF MapHas
    <2>7. MapHas(i)'
      BY <2>2, <2>3, <2>4, <2>5, <2>6 DEF MapHas
    <2> QED
      BY <1>1, <1>2, <1>3, <2>1, <2>2, <2>3, <2>7, OthersKept
  <1> QED
    BY <1>4, <1>5

\* When all have committed, the map has a function of every interceptor that provides
\* one; it is empty only if none does and the handler gave none.
LEMMA AllCommitted ==
  ASSUME IInv, NEW i \in Requests, req[i].pc = "commit", req[i].todo = {}
  PROVE  /\ req[i].mux \subseteq DOMAIN FuncMap(i)
         /\ DOMAIN FuncMap(i) = {} => req[i].map = "none" /\ req[i].mux = {}
  <1>1. MapHas(i) /\ Committed(i) = req[i].mux
    BY DEF IInv, Committed
  <1> QED
    BY <1>1 DEF MapHas, FuncMap

\* The execution of the template itself, for a request without any function.
LEMMA DirectKeeps ==
  ASSUME IInv, NEW i \in Requests, ExecuteDirectly(i)
  PROVE  IInv'
  <1>1. /\ phase = "serving" /\ req[i].pc = "commit" /\ req[i].todo = {} /\ DOMAIN FuncMap(i) = {}
        /\ executed' = (executed \/ Text(i) \in DOMAIN parsed) /\ Execute(i, <<>>)
        /\ UNCHANGED <<files, source, disabled, root, parsed, phase, shared>>
    BY DEF ExecuteDirectly, At
  <1>2. req[i].map = "none" /\ req[i].mux = {}
    BY <1>1, AllCommitted
  <1>3. /\ DOMAIN req' = DOMAIN req /\ DOMAIN req'[i] = Fields
        /\ \A j \in Requests \ {i} : req'[j] = req[j]
        /\ req'[i].pc \in Finished
        /\ req'[i].mux = req[i].mux /\ req'[i].map = req[i].map
        /\ req'[i].pc = "panicked" =>
             Text(i)' \notin DOMAIN parsed' \/ ~(Asks(i)' \subseteq DOMAIN <<>>)
    BY <1>1, Executed
  <1>4. Plain(i)'
    BY <1>2, <1>3 DEF Plain
  <1>5. req'[i].pc = "panicked" => Fails(i)'
    BY <1>2, <1>3 DEF Fails
  <1>6. req[i].pc \notin Finished
    BY <1>1 DEF Finished
  <1> QED
    BY <1>1, <1>3, <1>4, <1>5, <1>6, OthersKept DEF Finished

\* A template that was executed cannot be cloned; another request executed it.
LEMMA CloneFailsKeeps ==
  ASSUME IInv, NEW i \in Requests, CloneFails(i)
  PROVE  IInv'
  <1> DEFINE r == [req[i] EXCEPT !.pc = "panicked"]
  <1>1. /\ phase = "serving" /\ req[i].pc = "commit" /\ executed /\ Goes(i, r)
        /\ UNCHANGED <<files, source, disabled, root, parsed, executed, phase, shared>>
    BY DEF CloneFails, At, tplVars
  <1>2. DOMAIN r = Fields /\ r.pc = "panicked"
    BY DEF Fields, IInv
  <1> HIDE DEF r
  <1>3. /\ DOMAIN req' = DOMAIN req /\ req'[i] = r /\ \A j \in Requests \ {i} : req'[j] = req[j]
    BY <1>1, GoesTo
  <1>4. req[i].pc \notin Finished
    BY <1>1 DEF Finished
  <1>5. PICK j \in Requests : Plain(j)
    BY <1>1 DEF IInv
  <1>6. j # i
    BY <1>4, <1>5 DEF Plain
  <1>7. Plain(j)'
    BY <1>3, <1>5, <1>6 DEF Plain
  <1>8. Fails(i)'
    BY <1>6, <1>7 DEF Fails
  <1> QED
    BY <1>1, <1>2, <1>3, <1>4, <1>8, OthersKept DEF Finished

\* A clone has the functions of its request.
LEMMA CloneKeeps ==
  ASSUME IInv, NEW i \in Requests, CloneWithFuncs(i)
  PROVE  IInv'
  <1> DEFINE r == [req[i] EXCEPT !.pc = "execute", !.bound = FuncMap(i)]
  <1>1. /\ phase = "serving" /\ req[i].pc = "commit" /\ req[i].todo = {} /\ Goes(i, r)
        /\ UNCHANGED <<files, source, disabled, root, parsed, executed, phase, shared>>
    BY DEF CloneWithFuncs, At, tplVars
  <1>2. DOMAIN r = Fields /\ r.pc = "execute" /\ r.mux = req[i].mux /\ r.bound = FuncMap(i)
    BY DEF Fields, IInv
  <1> HIDE DEF r
  <1>3. /\ DOMAIN req' = DOMAIN req /\ req'[i] = r /\ \A j \in Requests \ {i} : req'[j] = req[j]
    BY <1>1, GoesTo
  <1>4. req[i].mux \subseteq DOMAIN FuncMap(i)
    BY <1>1, AllCommitted
  <1>5. req[i].pc \notin Finished
    BY <1>1 DEF Finished
  <1> QED
    BY <1>1, <1>2, <1>3, <1>4, <1>5, OthersKept DEF Finished

\* Its execution needs no other request.
LEMMA ExecuteKeeps ==
  ASSUME IInv, NEW i \in Requests, ExecuteClone(i)
  PROVE  IInv'
  <1>1. /\ phase = "serving" /\ req[i].pc = "execute" /\ Execute(i, req[i].bound)
        /\ UNCHANGED <<files, source, disabled, root, parsed, executed, phase, shared>>
    BY DEF ExecuteClone, At, tplVars
  <1>2. /\ DOMAIN req' = DOMAIN req /\ DOMAIN req'[i] = Fields
        /\ \A j \in Requests \ {i} : req'[j] = req[j]
        /\ req'[i].pc \in Finished /\ req'[i].mux = req[i].mux
        /\ req'[i].pc = "panicked" =>
             Text(i)' \notin DOMAIN parsed' \/ ~(Asks(i)' \subseteq DOMAIN req[i].bound)
    BY <1>1, Executed
  <1>3. req[i].mux \subseteq DOMAIN req[i].bound
    BY <1>1 DEF IInv
  <1>4. req'[i].pc = "panicked" => Fails(i)'
    BY <1>2, <1>3 DEF Fails
  <1>5. req[i].pc \notin Finished
    BY <1>1 DEF Finished
  <1> QED
    BY <1>1, <1>2, <1>4, <1>5, OthersKept DEF Finished

\* The invariant holds always.
LEMMA InvariantAlways == Spec => []IInv
  <1>1. Init => IInv
    <2> SUFFICES ASSUME Init PROVE IInv
      OBVIOUS
    <2>1. ASSUME NEW i \in Requests
          PROVE  DOMAIN req[i] = Fields /\ req[i].pc = "handler" /\ req[i].todo = req[i].mux
      <3>1. PICK mux \in Muxes : req[i] = Arriving(mux)
        BY DEF Init
      <3> QED
        BY <3>1 DEF Arriving, Fields
    <2>2. DOMAIN req = Requests /\ executed = FALSE
      BY DEF Init
    <2>3. OwnFunc \in DOMAIN shared
      BY DEF Init, Put
    <2> QED
      BY <2>1, <2>2, <2>3 DEF IInv
  <1>2. IInv /\ [Next]_vars => IInv'
    <2> SUFFICES ASSUME IInv, [Next]_vars PROVE IInv'
      OBVIOUS
    <2>1. CASE LoadFile \/ ReadFails
      <3>1. phase = "loading" /\ req' = req /\ shared' = shared /\ executed' = executed
        BY <2>1 DEF LoadFile, ReadFails, tplVars
      <3>2. \A i \in Requests : req[i].pc = "handler"
        BY <3>1 DEF IInv
      <3>3. ~executed
        BY <3>1, <3>2 DEF IInv, Plain, Finished
      <3> QED
        BY <3>1, <3>2, <3>3 DEF IInv
    <2>2. CASE \E i \in Requests : \E name \in DOMAIN parsed \cup {NoName}, map \in {"none", "own", "shared"} :
                 WriteTemplate(i, name, map)
      BY <2>2, WriteKeeps
    <2>3. CASE \E i \in Requests : \E f \in {CSPNonce, XSRFToken} : Provides(i, f)
      BY <2>3, ProvidesKeeps
    <2>4. CASE \E i \in Requests : ExecuteDirectly(i)
      BY <2>4, DirectKeeps
    <2>5. CASE \E i \in Requests : CloneFails(i)
      BY <2>5, CloneFailsKeeps
    <2>6. CASE \E i \in Requests : CloneWithFuncs(i)
      BY <2>6, CloneKeeps
    <2>7. CASE \E i \in Requests : ExecuteClone(i)
      BY <2>7, ExecuteKeeps
    <2>8. CASE \E i, j \in Requests : ConcurrentMapWrites(i, j)
      <3>1. phase' = "dead" /\ UNCHANGED <<tplVars, shared, req>>
        BY <2>8 DEF ConcurrentMapWrites
      <3> QED
        BY <3>1 DEF tplVars, IInv, Plain, MapHas, Committed, Fails, Text, Asks
    <2>9. CASE UNCHANGED vars
      BY <2>9 DEF vars, tplVars, IInv, Plain, MapHas, Committed, Fails, Text, Asks
    <2> QED
      BY <2>1, <2>2, <2>3, <2>4, <2>5, <2>6, <2>7, <2>8, <2>9 DEF Next
  <1> QED
    BY <1>1, <1>2, PTL DEF Spec

\* For any templates, functions and number of concurrent requests: a page fails only if
\* it asks for what no interceptor of its ServeMux provides, or does not exist, or a
\* request without any function was answered from the same template before it.
THEOREM PagesAllSurvive == Spec => []PagesSurvive
  <1>1. IInv => PagesSurvive
    BY DEF IInv, PagesSurvive, Fails, Plain, Finished
  <1> QED
    BY <1>1, InvariantAlways, PTL

-----------------------------------------------------------------------------
(* The rewriting of a text, of any length.                                  *)

\* A set of naturals that is not empty has a least element.
LEMMA LeastIs ==
  ASSUME NEW S \in SUBSET Nat, S # {}
  PROVE  \E k \in S : \A l \in S : k <= l
  <1> DEFINE R == OpToRel(<, Nat)
  <1>1. IsWellFoundedOn(R, Nat)
    BY NatLessThanWellFounded
  <1> HIDE DEF R
  <1>2. PICK k \in S : \A l \in S : <<l, k>> \notin R
    BY <1>1, WFMin
  <1>3. \A l \in S : l < k => <<l, k>> \in R
    BY DEF R, OpToRel
  <1>4. ASSUME NEW l \in S PROVE k <= l
    <2>1. ~(l < k)
      BY <1>2, <1>3
    <2>2. k \in Nat /\ l \in Nat
      OBVIOUS
    <2> QED
      BY <2>1, <2>2
  <1> QED
    BY <1>4

\* Induction on the length of a text, for a set of lengths: a predicate would be a
\* parameter of the second order, which the provers do not instantiate.
LEMMA AllLengths ==
  ASSUME NEW n \in Nat, NEW Good, 0 \in Good, \A k \in 0..n : k \in Good /\ k < n => k + 1 \in Good
  PROVE  \A k \in 0..n : k \in Good
  <1> DEFINE Bad == {k \in 0..n : k \notin Good}
  <1> SUFFICES ASSUME Bad # {} PROVE FALSE
    OBVIOUS
  <1>1. Bad \in SUBSET Nat
    OBVIOUS
  <1> HIDE DEF Bad
  <1>2. PICK k \in Bad : \A l \in Bad : k <= l
    BY <1>1, LeastIs
  <1>3. k \in 0..n /\ k \notin Good /\ k # 0
    BY DEF Bad
  <1>4. k - 1 \in 0..n /\ k - 1 < n /\ (k - 1) + 1 = k /\ ~(k <= k - 1)
    BY <1>3
  <1>5. k - 1 \in Good
    BY <1>2, <1>4 DEF Bad
  <1> QED
    BY <1>3, <1>4, <1>5

\* The recursive function that FlattenSeq chooses.
Flattens(f, s, S) ==
  /\ f \in [1..Len(s) -> Seq(S)] /\ f[1] = s[1]
  /\ \A i \in 2..Len(s) : f[i] = f[i - 1] \o s[i]

\* The first n of its values, as it is defined: f is a function of itself.
Flattening(f, s, n) == f = [i \in 1..n |-> IF i = 1 THEN s[i] ELSE f[i - 1] \o s[i]]

\* What its values are.
LEMMA FlatteningAt ==
  ASSUME NEW f, NEW s, NEW n, Flattening(f, s, n)
  PROVE  DOMAIN f = 1..n /\ \A i \in 1..n : f[i] = IF i = 1 THEN s[i] ELSE f[i - 1] \o s[i]
  <1> DEFINE g == [i \in 1..n |-> IF i = 1 THEN s[i] ELSE f[i - 1] \o s[i]]
  <1>1. DOMAIN g = 1..n /\ \A i \in 1..n : g[i] = IF i = 1 THEN s[i] ELSE f[i - 1] \o s[i]
    OBVIOUS
  <1>2. f = g
    BY Zenon DEF Flattening
  <1> HIDE DEF g
  <1> QED
    BY <1>1, <1>2, Zenon

\* There is one for every sequence of sequences, so that FlattenSeq chooses it.
LEMMA FlatteningExists ==
  ASSUME NEW S, NEW s \in Seq(Seq(S))
  PROVE  \E f : Flattening(f, s, Len(s))
  <1> DEFINE Good == {n \in Nat : \E f : Flattening(f, s, n)}
  <1>1. Len(s) \in Nat
    OBVIOUS
  <1>2. 0 \in Good
    <2>1. Flattening([i \in 1..0 |-> <<>>], s, 0)
      BY DEF Flattening
    <2> QED
      BY <2>1
  <1>3. ASSUME NEW k \in 0..Len(s), k \in Good, k < Len(s) PROVE k + 1 \in Good
    <2>1. PICK f : Flattening(f, s, k)
      BY <1>3
    <2> DEFINE g == [i \in 1..(k + 1) |-> IF i = 1 THEN s[i] ELSE f[i - 1] \o s[i]]
    <2>2. k \in Nat /\ \A i \in 1..k : f[i] = IF i = 1 THEN s[i] ELSE f[i - 1] \o s[i]
      BY <2>1, FlatteningAt
    <2>3. \A i \in 1..k : g[i] = f[i]
      <3>1. \A i \in 1..k : i \in 1..(k + 1)
        BY <2>2
      <3>2. \A i \in 1..(k + 1) : g[i] = IF i = 1 THEN s[i] ELSE f[i - 1] \o s[i]
        OBVIOUS
      <3> HIDE DEF g
      <3> QED
        BY <2>2, <3>1, <3>2, Zenon
    <2>4. \A i \in 1..(k + 1) : i # 1 => i - 1 \in 1..k
      BY <2>2
    <2>5. \A i \in 1..(k + 1) : g[i] = IF i = 1 THEN s[i] ELSE f[i - 1] \o s[i]
      OBVIOUS
    <2> HIDE DEF g
    <2>6. \A i \in 1..(k + 1) : g[i] = IF i = 1 THEN s[i] ELSE g[i - 1] \o s[i]
      BY <2>3, <2>4, <2>5
    <2>7. g = [i \in 1..(k + 1) |-> g[i]]
      BY DEF g
    <2>8. Flattening(g, s, k + 1)
      BY <2>6, <2>7 DEF Flattening
    <2> QED
      BY <2>2, <2>8
  <1> HIDE DEF Good
  <1>4. \A k \in 0..Len(s) : k \in Good
    BY <1>1, <1>2, <1>3, AllLengths
  <1>5. Len(s) \in Good
    BY <1>1, <1>4
  <1> QED
    BY <1>5 DEF Good

\* What FlattenSeq is, of sequences of anything.
LEMMA FlattenIs ==
  ASSUME NEW S, NEW s \in Seq(Seq(S)), Len(s) # 0
  PROVE  \E f : Flattens(f, s, S) /\ FlattenSeq(s) = f[Len(s)]
  <1> DEFINE f == CHOOSE g : Flattening(g, s, Len(s))
  <1>1. Flattening(f, s, Len(s))
    BY FlatteningExists
  <1>2. FlattenSeq(s) = f[Len(s)]
    BY DEF FlattenSeq, Flattening
  <1> HIDE DEF f
  <1>3. /\ Len(s) \in Nat \ {0} /\ DOMAIN f = 1..Len(s)
        /\ \A i \in 1..Len(s) : f[i] = IF i = 1 THEN s[i] ELSE f[i - 1] \o s[i]
    BY <1>1, FlatteningAt
  <1>4. f[1] = s[1] /\ \A i \in 2..Len(s) : f[i] = f[i - 1] \o s[i]
    <2>1. 1 \in 1..Len(s) /\ \A i \in 2..Len(s) : i \in 1..Len(s) /\ i # 1
      BY <1>3
    <2> QED
      BY <1>3, <2>1, Zenon
  <1>5. \A i \in 1..Len(s) : f[i] \in Seq(S)
    <2> DEFINE Good == {i \in Nat : i = 0 \/ f[i] \in Seq(S)}
    <2>1. 0 \in Good
      OBVIOUS
    <2>2. ASSUME NEW k \in 0..Len(s), k \in Good, k < Len(s) PROVE k + 1 \in Good
      <3>1. k + 1 \in 1..Len(s) /\ k + 1 \in Nat /\ s[k + 1] \in Seq(S)
        BY <1>3, <2>2
      <3>2. CASE k = 0
        BY <3>1, <3>2, <1>4
      <3>3. CASE k # 0
        <4>1. k + 1 \in 2..Len(s) /\ (k + 1) - 1 = k /\ f[k] \in Seq(S)
          BY <3>1, <3>3, <2>2
        <4>2. f[k + 1] = f[k] \o s[k + 1]
          BY <4>1, <1>4
        <4>3. f[k + 1] \in Seq(S)
          BY <4>1, <4>2, <3>1, ConcatProperties
        <4> QED
          BY <4>3, <3>1
      <3> QED
        BY <3>2, <3>3
    <2> HIDE DEF Good
    <2>3. \A k \in 0..Len(s) : k \in Good
      BY <1>3, <2>1, <2>2, AllLengths
    <2> QED
      BY <1>3, <2>3 DEF Good
  <1>6. f \in [1..Len(s) -> Seq(S)]
    <2>1. f = [i \in 1..Len(s) |-> f[i]]
      BY <1>1 DEF Flattening
    <2> QED
      BY <2>1, <1>5
  <1>7. Flattens(f, s, S)
    BY <1>4, <1>6 DEF Flattens
  <1> QED
    BY <1>2, <1>7

\* One sequence more.
LEMMA FlattenAppend ==
  ASSUME NEW S, NEW s \in Seq(Seq(S)), NEW x \in Seq(S)
  PROVE  /\ FlattenSeq(s) \in Seq(S) /\ FlattenSeq(<<>>) = <<>>
         /\ FlattenSeq(Append(s, x)) = FlattenSeq(s) \o x
  <1> DEFINE t == Append(s, x)
             n == Len(s)
  <1>1. /\ n \in Nat /\ t \in Seq(Seq(S)) /\ Len(t) = n + 1 /\ t[n + 1] = x
        /\ \A i \in 1..n : t[i] = s[i]
    OBVIOUS
  <1>2. FlattenSeq(<<>>) = <<>>
    BY DEF FlattenSeq
  <1> HIDE DEF t, n
  <1>3. PICK h : Flattens(h, t, S) /\ FlattenSeq(t) = h[n + 1]
    BY <1>1, FlattenIs
  <1>4. /\ h \in [1..(n + 1) -> Seq(S)] /\ h[1] = t[1]
        /\ \A i \in 2..(n + 1) : h[i] = h[i - 1] \o t[i]
    BY <1>1, <1>3 DEF Flattens
  <1>5. CASE n = 0
    <2>1. s = <<>>
      BY <1>5 DEF n
    <2>2. <<>> \o x = x
      BY ConcatEmptySeq
    <2>3. FlattenSeq(t) = x
      BY <1>1, <1>3, <1>4, <1>5
    <2> QED
      BY <2>1, <2>2, <2>3, <1>2, ConcatEmptySeq, EmptySeq, Zenon DEF t
  <1>6. CASE n # 0
    <2>1. PICK f : Flattens(f, s, S) /\ FlattenSeq(s) = f[n]
      BY <1>6, FlattenIs DEF n
    <2>2. /\ f \in [1..n -> Seq(S)] /\ f[1] = s[1]
          /\ \A i \in 2..n : f[i] = f[i - 1] \o s[i]
      BY <2>1 DEF Flattens, n
    <2> DEFINE Good == {i \in Nat : i = 0 \/ h[i] = f[i]}
    <2>3. 0 \in Good
      OBVIOUS
    <2>4. ASSUME NEW k \in 0..n, k \in Good, k < n PROVE k + 1 \in Good
      <3>1. k + 1 \in 1..n /\ t[k + 1] = s[k + 1]
        BY <1>1, <2>4
      <3>2. CASE k = 0
        BY <3>1, <3>2, <1>4, <2>2
      <3>3. CASE k # 0
        <4>1. k + 1 \in 2..n /\ k + 1 \in 2..(n + 1) /\ (k + 1) - 1 = k /\ h[k] = f[k]
          BY <1>1, <3>1, <3>3, <2>4
        <4>2. h[k + 1] = h[k] \o t[k + 1] /\ f[k + 1] = f[k] \o s[k + 1]
          BY <4>1, <1>4, <2>2
        <4>3. h[k + 1] = f[k + 1]
          BY <4>1, <4>2, <3>1, Zenon
        <4> QED
          BY <4>3
      <3> QED
        BY <3>2, <3>3
    <2> HIDE DEF Good
    <2>5. \A k \in 0..n : k \in Good
      BY <1>1, <2>3, <2>4, AllLengths
    <2>6. h[n] = f[n] /\ f[n] \in Seq(S)
      BY <1>1, <1>6, <2>2, <2>5 DEF Good
    <2>7. n + 1 \in 2..(n + 1) /\ (n + 1) - 1 = n
      BY <1>1, <1>6
    <2>8. h[n + 1] = h[n] \o x
      BY <2>7, <1>1, <1>4
    <2> QED
      BY <2>1, <2>6, <2>8, <1>2, <1>3 DEF t
  <1> QED
    BY <1>5, <1>6

\* The same of a function of positions.
LEMMA FlattenStep ==
  ASSUME NEW S, NEW n \in Nat, NEW e \in [1..(n + 1) -> Seq(S)]
  PROVE  /\ FlattenSeq([i \in 1..n |-> e[i]]) \in Seq(S)
         /\ FlattenSeq(e) = FlattenSeq([i \in 1..n |-> e[i]]) \o e[n + 1]
         /\ FlattenSeq(e) \in Seq(S)
  <1> DEFINE s == [i \in 1..n |-> e[i]]
             x == e[n + 1]
  <1>1. s \in Seq(Seq(S)) /\ Len(s) = n /\ x \in Seq(S) /\ \A i \in 1..n : s[i] = e[i]
    OBVIOUS
  <1>2. e \in Seq(Seq(S)) /\ Len(e) = n + 1
    OBVIOUS
  <1>3. /\ Append(s, x) \in Seq(Seq(S)) /\ Len(Append(s, x)) = n + 1
        /\ \A i \in 1..(n + 1) : Append(s, x)[i] = e[i]
    <2>1. x = e[n + 1]
      OBVIOUS
    <2> HIDE DEF s, x
    <2>2. /\ Append(s, x) \in Seq(Seq(S)) /\ Len(Append(s, x)) = n + 1 /\ Append(s, x)[n + 1] = x
          /\ \A i \in 1..n : Append(s, x)[i] = s[i]
      BY <1>1
    <2>3. ASSUME NEW i \in 1..(n + 1) PROVE Append(s, x)[i] = e[i]
      <3>1. i \in 1..n \/ i = n + 1
        OBVIOUS
      <3> QED
        BY <3>1, <2>1, <2>2, <1>1
    <2> QED
      BY <2>2, <2>3
  <1> HIDE DEF s, x
  <1>4. e = Append(s, x)
    BY <1>2, <1>3, SeqEqual
  <1>5. FlattenSeq(s) \in Seq(S) /\ FlattenSeq(Append(s, x)) = FlattenSeq(s) \o x
    BY <1>1, FlattenAppend
  <1>6. FlattenSeq(s) \o x \in Seq(S)
    BY <1>1, <1>5, ConcatProperties
  <1> QED
    BY <1>4, <1>5, <1>6, Zenon DEF s, x

\* A function on the first numbers is a sequence.
LEMMA IsSeqOf ==
  ASSUME NEW T, NEW n \in Nat, NEW f \in [1..n -> T]
  PROVE  f \in Seq(T) /\ Len(f) = n
  OBVIOUS

\* All but the last sequence, and the last.
LEMMA FlattenLast ==
  ASSUME NEW S, NEW s \in Seq(Seq(S)), Len(s) # 0
  PROVE  \E p \in Seq(Seq(S)) :
           /\ Len(p) = Len(s) - 1 /\ \A i \in 1..Len(p) : p[i] = s[i]
           /\ FlattenSeq(s) = FlattenSeq(p) \o s[Len(s)] /\ FlattenSeq(p) \in Seq(S)
  <1> DEFINE n == Len(s) - 1
             p == [i \in 1..n |-> s[i]]
  <1>1. n \in Nat /\ n + 1 = Len(s) /\ s \in [1..(n + 1) -> Seq(S)]
    OBVIOUS
  <1>2. p \in Seq(Seq(S)) /\ Len(p) = n /\ \A i \in 1..n : p[i] = s[i]
    BY <1>1
  <1> HIDE DEF n
  <1>3. FlattenSeq(p) \in Seq(S) /\ FlattenSeq(s) = FlattenSeq(p) \o s[n + 1]
    BY <1>1, FlattenStep
  <1> HIDE DEF p
  <1>4. Len(s) - 1 = n
    BY DEF n
  <1> QED
    BY <1>1, <1>2, <1>3, <1>4

\* Up to four sequences.
LEMMA FlattenFew ==
  ASSUME NEW S, NEW s \in Seq(Seq(S))
  PROVE  /\ Len(s) = 0 => FlattenSeq(s) = <<>>
         /\ Len(s) = 1 => FlattenSeq(s) = s[1]
         /\ Len(s) = 2 => FlattenSeq(s) = s[1] \o s[2]
         /\ Len(s) = 3 => FlattenSeq(s) = (s[1] \o s[2]) \o s[3]
         /\ Len(s) = 4 => FlattenSeq(s) = ((s[1] \o s[2]) \o s[3]) \o s[4]
  <1>1. ASSUME NEW p \in Seq(Seq(S)), Len(p) = 0 PROVE FlattenSeq(p) = <<>>
    <2>1. p = <<>>
      BY <1>1
    <2> QED
      BY <2>1, FlattenAppend, EmptySeq
  <1>6. ASSUME NEW p \in Seq(Seq(S)), Len(p) # 0
        PROVE  \E q \in Seq(Seq(S)) :
                 /\ Len(q) = Len(p) - 1 /\ \A i \in 1..Len(q) : q[i] = p[i]
                 /\ FlattenSeq(p) = FlattenSeq(q) \o p[Len(p)]
    BY <1>6, FlattenLast, Zenon
  <1>7. ASSUME NEW p \in Seq(Seq(S)), Len(p) = 1 PROVE p[1] \in Seq(S) /\ <<>> \o p[1] = p[1]
    <2>1. 1 \in 1..Len(p)
      BY <1>7
    <2>2. p[1] \in Seq(S)
      BY <2>1, ElementOfSeq, Zenon
    <2> QED
      BY <2>2, ConcatEmptySeq
  <1>2. ASSUME NEW p \in Seq(Seq(S)), Len(p) = 1 PROVE FlattenSeq(p) = p[1]
    <2>1. Len(p) # 0
      BY <1>2
    <2>2. PICK q \in Seq(Seq(S)) : /\ Len(q) = Len(p) - 1 /\ \A i \in 1..Len(q) : q[i] = p[i]
                                  /\ FlattenSeq(p) = FlattenSeq(q) \o p[Len(p)]
      BY <2>1, <1>6, Zenon
    <2>3. Len(q) = 0
      BY <1>2, <2>2
    <2>4. FlattenSeq(p) = FlattenSeq(q) \o p[1]
      BY <1>2, <2>2, Zenon
    <2> QED
      BY <2>3, <2>4, <1>1, <1>7, <1>2, Zenon
  <1>3. ASSUME NEW p \in Seq(Seq(S)), Len(p) = 2 PROVE FlattenSeq(p) = p[1] \o p[2]
    <2>1. Len(p) # 0
      BY <1>3
    <2>2. PICK q \in Seq(Seq(S)) : /\ Len(q) = Len(p) - 1 /\ \A i \in 1..Len(q) : q[i] = p[i]
                                  /\ FlattenSeq(p) = FlattenSeq(q) \o p[Len(p)]
      BY <2>1, <1>6, Zenon
    <2>3. Len(q) = 1 /\ q[1] = p[1]
      BY <1>3, <2>2
    <2>4. FlattenSeq(p) = FlattenSeq(q) \o p[2]
      BY <1>3, <2>2, Zenon
    <2> QED
      BY <2>3, <2>4, <1>2, Zenon
  <1>4. ASSUME NEW p \in Seq(Seq(S)), Len(p) = 3 PROVE FlattenSeq(p) = (p[1] \o p[2]) \o p[3]
    <2>1. Len(p) # 0
      BY <1>4
    <2>2. PICK q \in Seq(Seq(S)) : /\ Len(q) = Len(p) - 1 /\ \A i \in 1..Len(q) : q[i] = p[i]
                                  /\ FlattenSeq(p) = FlattenSeq(q) \o p[Len(p)]
      BY <2>1, <1>6, Zenon
    <2>3. Len(q) = 2 /\ q[1] = p[1] /\ q[2] = p[2]
      BY <1>4, <2>2
    <2>4. FlattenSeq(p) = FlattenSeq(q) \o p[3]
      BY <1>4, <2>2, Zenon
    <2> QED
      BY <2>3, <2>4, <1>3, Zenon
  <1>5. ASSUME NEW p \in Seq(Seq(S)), Len(p) = 4 PROVE FlattenSeq(p) = ((p[1] \o p[2]) \o p[3]) \o p[4]
    <2>1. Len(p) # 0
      BY <1>5
    <2>2. PICK q \in Seq(Seq(S)) : /\ Len(q) = Len(p) - 1 /\ \A i \in 1..Len(q) : q[i] = p[i]
                                  /\ FlattenSeq(p) = FlattenSeq(q) \o p[Len(p)]
      BY <2>1, <1>6, Zenon
    <2>3. Len(q) = 3 /\ q[1] = p[1] /\ q[2] = p[2] /\ q[3] = p[3]
      BY <1>5, <2>2
    <2>4. FlattenSeq(p) = FlattenSeq(q) \o p[4]
      BY <1>5, <2>2, Zenon
    <2> QED
      BY <2>3, <2>4, <1>4, Zenon
  <1> QED
    BY <1>1, <1>2, <1>3, <1>4, <1>5

\* The rules that LoadTrustedTemplate works with.
Scripts == Rule("script", {}, <<CSPNonce>>, <<>>)
Links   == Rule("link", {<<"rel", "preload">>, <<"as", "script">>}, <<CSPNonce>>, <<>>)
Styles  == Rule("style", {}, <<CSPNonce>>, <<>>)
Forms   == Rule("form", {}, <<>>, <<Node(XSRFToken)>>)

\* All the rules of the configurations that d leaves enabled.
RulesOf(d) == FlattenSeq(ConfigsOf(d))

\* They are these, in this order.
LEMMA RulesAre ==
  ASSUME NEW d
  PROVE  RulesOf(d) = IF "csp" \in d THEN IF "xsrf" \in d THEN <<>> ELSE <<Forms>>
                      ELSE IF "xsrf" \in d THEN <<Scripts, Links, Styles>>
                           ELSE <<Scripts, Links, Styles, Forms>>
  <1> DEFINE S == {Scripts, Links, Styles, Forms}
             n == <<Scripts, Links, Styles>>
             x == <<Forms>>
  <1>1. n \in Seq(S) /\ x \in Seq(S)
    OBVIOUS
  <1>2. CSPNonces(CSPNonce) = n /\ XSRFTokens(XSRFToken) = x
    BY DEF CSPNonces, XSRFTokens, Scripts, Links, Styles, Forms
  <1>3. n \o x = <<Scripts, Links, Styles, Forms>>
    <2> DEFINE y == <<Scripts, Links, Styles, Forms>>
    <2>1. y \in Seq(S) /\ Len(y) = 4 /\ Len(n) = 3 /\ Len(x) = 1
      OBVIOUS
    <2>2. \A i \in 1..4 : y[i] = IF i <= 3 THEN n[i] ELSE x[i - 3]
      OBVIOUS
    <2> HIDE DEF S, n, x, y
    <2>5. /\ n \o x \in Seq(S) /\ Len(n \o x) = Len(n) + Len(x)
          /\ \A i \in 1..Len(n) + Len(x) : (n \o x)[i] = IF i <= Len(n) THEN n[i] ELSE x[i - Len(n)]
      BY <1>1, ConcatProperties
    <2>3. n \o x \in Seq(S) /\ Len(n \o x) = 4 /\ \A i \in 1..4 : (n \o x)[i] = y[i]
      BY <2>1, <2>2, <2>5
    <2>4. n \o x = y
      BY <2>1, <2>3, SeqEqual
    <2> QED
      BY <2>4 DEF y
  <1> HIDE DEF S, n, x
  <1>6. <<>> \o <<>> = <<>> /\ <<n>> \o <<>> = <<n>> /\ <<>> \o <<x>> = <<x>> /\ <<n>> \o <<x>> = <<n, x>>
    <2>1. <<>> \in Seq({n, x}) /\ <<n>> \in Seq({n, x}) /\ <<x>> \in Seq({n, x})
      OBVIOUS
    <2> DEFINE y == <<n>> \o <<x>>
    <2>2. y \in Seq({n, x}) /\ Len(y) = 2 /\ y[1] = n /\ y[2] = x
      OBVIOUS
    <2> HIDE DEF y
    <2>3. y = <<n, x>>
      BY <2>2
    <2> QED
      BY <2>1, <2>3, ConcatEmptySeq DEF y
  <1>4. ConfigsOf(d) = IF "csp" \in d THEN IF "xsrf" \in d THEN <<>> ELSE <<x>>
                       ELSE IF "xsrf" \in d THEN <<n>> ELSE <<n, x>>
    BY <1>2, <1>6, Zenon DEF ConfigsOf
  <1>5. /\ FlattenSeq(<<>>) = <<>> /\ FlattenSeq(<<n>>) = n /\ FlattenSeq(<<x>>) = x
        /\ FlattenSeq(<<n, x>>) = n \o x
    <2>1. /\ <<>> \in Seq(Seq(S)) /\ <<n>> \in Seq(Seq(S)) /\ <<x>> \in Seq(Seq(S)) /\ <<n, x>> \in Seq(Seq(S))
          /\ Len(<<>>) = 0 /\ Len(<<n>>) = 1 /\ Len(<<x>>) = 1 /\ Len(<<n, x>>) = 2
          /\ <<n>>[1] = n /\ <<x>>[1] = x /\ <<n, x>>[1] = n /\ <<n, x>>[2] = x
      BY <1>1
    <2>2. FlattenSeq(<<>>) = <<>>
      BY <2>1, FlattenFew
    <2>3. FlattenSeq(<<n>>) = <<n>>[1]
      BY <2>1, FlattenFew
    <2>4. FlattenSeq(<<x>>) = <<x>>[1]
      BY <2>1, FlattenFew
    <2>5. FlattenSeq(<<n, x>>) = <<n, x>>[1] \o <<n, x>>[2]
      BY <2>1, FlattenFew
    <2> QED
      BY <2>1, <2>2, <2>3, <2>4, <2>5, Zenon
  <1> QED
    BY <1>3, <1>4, <1>5 DEF RulesOf, n, x

\* A token with a nonce if it needs one.
Nonced(t, d) == [t EXCEPT !.added = IF NeedsNonce(t) /\ "csp" \notin d THEN <<CSPNonce>> ELSE <<>>]

\* A form is followed by the hidden input with the token.
Emitted(t, d) ==
  IF IsForm(t) /\ "xsrf" \notin d THEN <<Nonced(t, d), Node(XSRFToken)>> ELSE <<Nonced(t, d)>>

\* The tags that trigger a rule for the nonce are those that need one.
LEMMA TriggersAre ==
  ASSUME NEW t \in Tokens, t.kind \in {"start", "selfclosing"}
  PROVE  /\ Matches(Scripts, t) /\ Matches(Styles, t) /\ Matches(Forms, t)
         /\ Matches(Links, t) <=> ValueOf(t, "rel") = "preload" /\ ValueOf(t, "as") = "script"
         /\ Scripts.onTag = "script" /\ Links.onTag = "link" /\ Styles.onTag = "style"
         /\ Forms.onTag = "form"
         /\ t.tag = "script" \/ t.tag = "style" => NeedsNonce(t)
         /\ t.tag = "link" => (NeedsNonce(t) <=> Matches(Links, t))
         /\ t.tag \notin {"script", "style", "link"} => ~NeedsNonce(t)
         /\ IsForm(t) <=> t.tag = "form"
  <1>1. /\ Scripts.onTag = "script" /\ Links.onTag = "link" /\ Styles.onTag = "style"
        /\ Forms.onTag = "form"
        /\ Scripts.withAttributes = {} /\ Styles.withAttributes = {} /\ Forms.withAttributes = {}
        /\ Links.withAttributes = {<<"rel", "preload">>, <<"as", "script">>}
    BY DEF Scripts, Links, Styles, Forms, Rule
  <1>2. Matches(Links, t) <=> ValueOf(t, "rel") = "preload" /\ ValueOf(t, "as") = "script"
    BY <1>1 DEF Matches
  <1>3. Matches(Scripts, t) /\ Matches(Styles, t) /\ Matches(Forms, t)
    BY <1>1 DEF Matches
  <1> QED
    BY <1>1, <1>2, <1>3 DEF NeedsNonce, IsForm

\* What each rule adds to a tag.
LEMMA RulesAdd ==
  ASSUME NEW t \in Tokens, t.kind \in {"start", "selfclosing"}
  PROVE  LET add(r) == IF r.onTag = t.tag /\ Matches(r, t) THEN r.addAttributes ELSE <<>>
             put(r) == IF r.onTag = t.tag /\ Matches(r, t) THEN r.addNodes ELSE <<>>
             all    == IF NeedsNonce(t) THEN <<CSPNonce>> ELSE <<>>
         IN  /\ \A r \in {Scripts, Links, Styles} : add(r) \in Seq({CSPNonce}) /\ put(r) = <<>>
             /\ (add(Scripts) \o add(Links)) \o add(Styles) = all
             /\ add(Forms) = <<>>
             /\ put(Forms) = IF IsForm(t) THEN <<Node(XSRFToken)>> ELSE <<>>
  <1> DEFINE one == <<CSPNonce>>
             add(r) == IF r.onTag = t.tag /\ Matches(r, t) THEN r.addAttributes ELSE <<>>
  <1>1. /\ Scripts.addAttributes = one /\ Links.addAttributes = one
        /\ Styles.addAttributes = one /\ Forms.addAttributes = <<>>
        /\ Scripts.addNodes = <<>> /\ Links.addNodes = <<>> /\ Styles.addNodes = <<>>
        /\ Forms.addNodes = <<Node(XSRFToken)>>
    BY DEF Scripts, Links, Styles, Forms, Rule
  <1>2. one \in Seq({CSPNonce}) /\ <<>> \in Seq({CSPNonce})
    OBVIOUS
  <1> HIDE DEF one
  <1>3. <<>> \o <<>> = <<>> /\ <<>> \o one = one /\ one \o <<>> = one
    BY <1>2, ConcatEmptySeq
  <1>4. /\ add(Scripts) = IF t.tag = "script" THEN one ELSE <<>>
        /\ add(Links) = IF t.tag = "link" /\ Matches(Links, t) THEN one ELSE <<>>
        /\ add(Styles) = IF t.tag = "style" THEN one ELSE <<>>
    BY <1>1, TriggersAre
  <1>6. /\ t.tag = "script" \/ t.tag = "style" => NeedsNonce(t)
        /\ t.tag = "link" => (NeedsNonce(t) <=> Matches(Links, t))
        /\ t.tag \notin {"script", "style", "link"} => ~NeedsNonce(t)
    BY TriggersAre
  <1>5. (add(Scripts) \o add(Links)) \o add(Styles) = IF NeedsNonce(t) THEN one ELSE <<>>
    <2> HIDE DEF add
    <2>1. CASE t.tag = "script"
      <3>1. add(Scripts) = one /\ add(Links) = <<>> /\ add(Styles) = <<>> /\ NeedsNonce(t)
        BY <2>1, <1>4, <1>6
      <3> QED
        BY <3>1, <1>3, Zenon
    <2>2. CASE t.tag = "link" /\ Matches(Links, t)
      <3>1. add(Scripts) = <<>> /\ add(Links) = one /\ add(Styles) = <<>> /\ NeedsNonce(t)
        BY <2>2, <1>4, <1>6
      <3> QED
        BY <3>1, <1>3, Zenon
    <2>3. CASE t.tag = "style"
      <3>1. add(Scripts) = <<>> /\ add(Links) = <<>> /\ add(Styles) = one /\ NeedsNonce(t)
        BY <2>3, <1>4, <1>6
      <3> QED
        BY <3>1, <1>3, Zenon
    <2>4. CASE t.tag \notin {"script", "style"} /\ ~(t.tag = "link" /\ Matches(Links, t))
      <3>1. add(Scripts) = <<>> /\ add(Links) = <<>> /\ add(Styles) = <<>> /\ ~NeedsNonce(t)
        BY <2>4, <1>4, <1>6
      <3> QED
        BY <3>1, <1>3, Zenon
    <2> QED
      BY <2>1, <2>2, <2>3, <2>4
  <1> QED
    BY <1>1, <1>2, <1>4, <1>5, TriggersAre DEF one

\* A tag is rewritten to what it should be.
LEMMA TagsProcessed ==
  ASSUME NEW t \in Tokens, t.kind \in {"start", "selfclosing"}, NEW d
  PROVE  ProcessTag(RulesOf(d), t) = Emitted(t, d)
  <1> DEFINE rules == RulesOf(d)
             add(r) == IF r.onTag = t.tag /\ Matches(r, t) THEN r.addAttributes ELSE <<>>
             put(r) == IF r.onTag = t.tag /\ Matches(r, t) THEN r.addNodes ELSE <<>>
             N == Seq({CSPNonce})
             X == Seq({Node(XSRFToken)})
             node == IF IsForm(t) THEN <<Node(XSRFToken)>> ELSE <<>>
             nonce == IF NeedsNonce(t) THEN <<CSPNonce>> ELSE <<>>
             adds == FlattenSeq([i \in DOMAIN rules |-> add(rules[i])])
             puts == FlattenSeq([i \in DOMAIN rules |-> put(rules[i])])
  <1>1. ProcessTag(rules, t) = <<[t EXCEPT !.added = adds]>> \o puts
    <2>1. /\ [i \in DOMAIN rules |-> add(rules[i])] =
              [i \in DOMAIN rules |-> IF i \in TriggeredRules(rules, t) THEN rules[i].addAttributes ELSE <<>>]
          /\ [i \in DOMAIN rules |-> put(rules[i])] =
              [i \in DOMAIN rules |-> IF i \in TriggeredRules(rules, t) THEN rules[i].addNodes ELSE <<>>]
      BY DEF TriggeredRules
    <2> QED
      BY <2>1, Zenon DEF ProcessTag
  <1>2. /\ add(Scripts) \in N /\ add(Links) \in N /\ add(Styles) \in N /\ add(Forms) = <<>>
        /\ (add(Scripts) \o add(Links)) \o add(Styles) = nonce
        /\ put(Scripts) = <<>> /\ put(Links) = <<>> /\ put(Styles) = <<>> /\ put(Forms) = node
    BY RulesAdd
  <1>3. node \in X /\ nonce \in N /\ <<>> \in X /\ <<>> \in N
    <2>1. <<Node(XSRFToken)>> \in X /\ <<CSPNonce>> \in N /\ <<>> \in X /\ <<>> \in N
      OBVIOUS
    <2> HIDE DEF X, N
    <2> QED
      BY <2>1, Zenon
  <1>4. <<>> \o <<>> = <<>> /\ <<>> \o node = node /\ nonce \o <<>> = nonce
    BY <1>3, ConcatEmptySeq
  <1>5. adds = (IF "csp" \in d THEN <<>> ELSE nonce) /\ puts = (IF "xsrf" \in d THEN <<>> ELSE node)
    <2> DEFINE e == [i \in DOMAIN rules |-> add(rules[i])]
               g == [i \in DOMAIN rules |-> put(rules[i])]
    <2>1. /\ DOMAIN e = DOMAIN rules /\ \A i \in DOMAIN rules : e[i] = add(rules[i])
          /\ DOMAIN g = DOMAIN rules /\ \A i \in DOMAIN rules : g[i] = put(rules[i])
      OBVIOUS
    <2>2. /\ <<>> \in Seq({CSPNonce}) /\ <<>> \in Seq({Node(XSRFToken)})
          /\ add(Scripts) \in Seq({CSPNonce}) /\ add(Links) \in Seq({CSPNonce})
          /\ add(Styles) \in Seq({CSPNonce}) /\ node \in Seq({Node(XSRFToken)})
      BY <1>2, <1>3 DEF N, X
    <2>3. ASSUME NEW n \in {0, 1, 3, 4}, rules \in Seq({Scripts, Links, Styles, Forms}), Len(rules) = n
          PROVE  /\ e \in Seq(Seq({CSPNonce})) /\ Len(e) = n
                 /\ g \in Seq(Seq({Node(XSRFToken)})) /\ Len(g) = n
                 /\ \A i \in 1..n : e[i] = add(rules[i]) /\ g[i] = put(rules[i])
      <3>1. DOMAIN rules = 1..n /\ \A i \in 1..n : rules[i] \in {Scripts, Links, Styles, Forms}
        BY <2>3
      <3>2. \A r \in {Scripts, Links, Styles, Forms} : add(r) \in Seq({CSPNonce}) /\ put(r) \in Seq({Node(XSRFToken)})
        BY <2>2, <1>2
      <3> HIDE DEF rules
      <3>3. e \in [1..n -> Seq({CSPNonce})] /\ g \in [1..n -> Seq({Node(XSRFToken)})]
        BY <3>1, <3>2
      <3>4. n \in Nat
        OBVIOUS
      <3>5. \A i \in 1..n : e[i] = add(rules[i]) /\ g[i] = put(rules[i])
        BY <3>1, <2>1, Zenon
      <3> HIDE DEF e, g
      <3>6. /\ e \in Seq(Seq({CSPNonce})) /\ Len(e) = n
            /\ g \in Seq(Seq({Node(XSRFToken)})) /\ Len(g) = n
        BY <3>3, <3>4, IsSeqOf, Zenon
      <3> QED
        BY <3>5, <3>6
    <2> HIDE DEF e, g
    <2>4. CASE "csp" \in d /\ "xsrf" \in d
      <3>1. rules = <<>>
        BY <2>4, RulesAre
      <3>2. Len(e) = 0 /\ Len(g) = 0 /\ e \in Seq(Seq({CSPNonce})) /\ g \in Seq(Seq({Node(XSRFToken)}))
        BY <3>1, <2>3
      <3>3. FlattenSeq(e) = <<>> /\ FlattenSeq(g) = <<>>
        BY <3>2, FlattenFew
      <3> QED
        BY <3>3, <2>4, Zenon DEF e, g
    <2>5. CASE "csp" \in d /\ "xsrf" \notin d
      <3>1. rules = <<Forms>> /\ rules[1] = Forms /\ Len(rules) = 1
        BY <2>5, RulesAre
      <3>2. /\ Len(e) = 1 /\ Len(g) = 1 /\ e \in Seq(Seq({CSPNonce})) /\ g \in Seq(Seq({Node(XSRFToken)}))
            /\ e[1] = <<>> /\ g[1] = node
        BY <3>1, <2>3, <1>2
      <3>3. FlattenSeq(e) = <<>> /\ FlattenSeq(g) = node
        BY <3>2, FlattenFew
      <3> QED
        BY <3>3, <2>5, Zenon DEF e, g
    <2>6. CASE "csp" \notin d /\ "xsrf" \in d
      <3>1. /\ rules = <<Scripts, Links, Styles>> /\ Len(rules) = 3
            /\ rules[1] = Scripts /\ rules[2] = Links /\ rules[3] = Styles
        BY <2>6, RulesAre
      <3>2. rules \in Seq({Scripts, Links, Styles, Forms})
        BY <3>1
      <3>3. /\ e \in Seq(Seq({CSPNonce})) /\ Len(e) = 3
            /\ g \in Seq(Seq({Node(XSRFToken)})) /\ Len(g) = 3
            /\ \A i \in 1..3 : e[i] = add(rules[i]) /\ g[i] = put(rules[i])
        BY <3>1, <3>2, <2>3
      <3>4. /\ e[1] = add(Scripts) /\ e[2] = add(Links) /\ e[3] = add(Styles)
            /\ g[1] = <<>> /\ g[2] = <<>> /\ g[3] = <<>>
        <4>1. 1 \in 1..3 /\ 2 \in 1..3 /\ 3 \in 1..3
          OBVIOUS
        <4> QED
          BY <3>1, <3>3, <4>1, <1>2, Zenon
      <3>5. FlattenSeq(e) = (e[1] \o e[2]) \o e[3]
        BY <3>3, FlattenFew, Zenon
      <3>6. FlattenSeq(g) = (g[1] \o g[2]) \o g[3]
        BY <3>3, FlattenFew, Zenon
      <3> QED
        BY <3>4, <3>5, <3>6, <2>6, <1>2, <1>4, Zenon DEF e, g
    <2>7. CASE "csp" \notin d /\ "xsrf" \notin d
      <3>1. /\ rules = <<Scripts, Links, Styles, Forms>> /\ Len(rules) = 4
            /\ rules[1] = Scripts /\ rules[2] = Links /\ rules[3] = Styles /\ rules[4] = Forms
        BY <2>7, RulesAre
      <3>2. rules \in Seq({Scripts, Links, Styles, Forms})
        BY <3>1
      <3>3. /\ e \in Seq(Seq({CSPNonce})) /\ Len(e) = 4
            /\ g \in Seq(Seq({Node(XSRFToken)})) /\ Len(g) = 4
            /\ \A i \in 1..4 : e[i] = add(rules[i]) /\ g[i] = put(rules[i])
        BY <3>1, <3>2, <2>3
      <3>4. /\ e[1] = add(Scripts) /\ e[2] = add(Links) /\ e[3] = add(Styles) /\ e[4] = <<>>
            /\ g[1] = <<>> /\ g[2] = <<>> /\ g[3] = <<>> /\ g[4] = node
        <4>1. 1 \in 1..4 /\ 2 \in 1..4 /\ 3 \in 1..4 /\ 4 \in 1..4
          OBVIOUS
        <4> QED
          BY <3>1, <3>3, <4>1, <1>2, Zenon
      <3>5. FlattenSeq(e) = ((e[1] \o e[2]) \o e[3]) \o e[4]
        BY <3>3, FlattenFew, Zenon
      <3>6. FlattenSeq(g) = ((g[1] \o g[2]) \o g[3]) \o g[4]
        BY <3>3, FlattenFew, Zenon
      <3>7. FlattenSeq(e) = nonce
        BY <3>4, <3>5, <1>2, <1>4, Zenon
      <3>8. FlattenSeq(g) = node
        BY <3>4, <3>6, <1>4, Zenon
      <3> QED
        BY <3>7, <3>8, <2>7, Zenon DEF e, g
    <2> QED
      BY <2>4, <2>5, <2>6, <2>7
  <1> HIDE DEF adds, puts
  <1>6. [t EXCEPT !.added = adds] = Nonced(t, d)
    BY <1>5, Zenon DEF Nonced, nonce
  <1>7. <<Nonced(t, d)>> \o puts = Emitted(t, d)
    <2> DEFINE x == Nonced(t, d)
               y == Node(XSRFToken)
    <2>1. <<x>> \o <<>> = <<x>> /\ <<x>> \o <<y>> = <<x, y>>
      <3> HIDE DEF x, y
      <3>1. <<x>> \in Seq({x, y}) /\ Len(<<x>> \o <<y>>) = 2
            /\ (<<x>> \o <<y>>)[1] = x /\ (<<x>> \o <<y>>)[2] = y /\ <<x>> \o <<y>> \in Seq({x, y})
        OBVIOUS
      <3>2. <<x>> \o <<>> = <<x>>
        BY <3>1, ConcatEmptySeq
      <3> DEFINE z == <<x>> \o <<y>>
      <3>4. z \in Seq({x, y}) /\ Len(z) = 2 /\ z[1] = x /\ z[2] = y
        BY <3>1
      <3> HIDE DEF z
      <3>3. z = <<x, y>>
        BY <3>4
      <3> QED
        BY <3>2, <3>3 DEF z
    <2>2. puts = IF IsForm(t) /\ "xsrf" \notin d THEN <<y>> ELSE <<>>
      BY <1>5 DEF node
    <2> HIDE DEF x, y
    <2>3. Emitted(t, d) = IF IsForm(t) /\ "xsrf" \notin d THEN <<x, y>> ELSE <<x>>
      BY Zenon DEF Emitted, x, y
    <2>4. <<x>> \o puts = Emitted(t, d)
      BY <2>1, <2>2, <2>3, Zenon
    <2> QED
      BY <2>4 DEF x
  <1> QED
    BY <1>1, <1>6, <1>7, Zenon

\* The tokens of a rewritten text.
Out == [kind : Kinds \cup {"node"}, tag : STRING \cup {"input"}, attributes : Seq(STRING \X STRING),
        added : Seq({CSPNonce, XSRFToken})]

\* The nonce changes nothing else in a token.
LEMMA NoncedIs ==
  ASSUME NEW t \in Tokens, NEW d
  PROVE  LET u == Nonced(t, d)
         IN  /\ u \in Out /\ u.kind # "node"
             /\ [u EXCEPT !.added = <<>>] = t
             /\ NeedsNonce(u) <=> NeedsNonce(t)
             /\ IsForm(u) <=> IsForm(t)
             /\ u.added = IF NeedsNonce(u) /\ "csp" \notin d THEN <<CSPNonce>> ELSE <<>>
             /\ t.kind \notin {"start", "selfclosing"} => u = t /\ ~IsForm(t)
  <1> DEFINE u == Nonced(t, d)
             a == IF NeedsNonce(t) /\ "csp" \notin d THEN <<CSPNonce>> ELSE <<>>
  <1>1. /\ t = [kind |-> t.kind, tag |-> t.tag, attributes |-> t.attributes, added |-> t.added]
        /\ t.kind \in Kinds /\ t.tag \in STRING /\ t.attributes \in Seq(STRING \X STRING)
        /\ t.added = <<>>
    BY DEF Tokens
  <1>2. a \in Seq({CSPNonce, XSRFToken})
    <2>1. <<CSPNonce>> \in Seq({CSPNonce, XSRFToken}) /\ <<>> \in Seq({CSPNonce, XSRFToken})
      OBVIOUS
    <2> QED
      BY <2>1, Zenon
  <1>3. u = [t EXCEPT !.added = a]
    BY Zenon DEF Nonced
  <1> HIDE DEF a
  <1>4. u = [kind |-> t.kind, tag |-> t.tag, attributes |-> t.attributes, added |-> a]
    BY <1>1, <1>3
  <1> HIDE DEF u
  <1>5. /\ u.kind = t.kind /\ u.tag = t.tag /\ u.attributes = t.attributes /\ u.added = a
        /\ u \in Out
    BY <1>1, <1>2, <1>4 DEF Out
  <1>6. [u EXCEPT !.added = <<>>] = t
    BY <1>1, <1>4
  <1>7. u.kind # "node"
    BY <1>1, <1>5 DEF Kinds
  <1>8. \A key : ValueOf(u, key) = ValueOf(t, key)
    BY <1>5, Zenon DEF ValueOf
  <1>9. NeedsNonce(u) <=> NeedsNonce(t)
    BY <1>5, <1>8, Zenon DEF NeedsNonce
  <1>10. IsForm(u) <=> IsForm(t)
    BY <1>5, Zenon DEF IsForm
  <1>11. u.added = IF NeedsNonce(u) /\ "csp" \notin d THEN <<CSPNonce>> ELSE <<>>
    BY <1>5, <1>9, Zenon DEF a
  <1>12. t.kind \notin {"start", "selfclosing"} => ~NeedsNonce(t) /\ ~IsForm(t)
    BY DEF NeedsNonce, IsForm
  <1>13. ~NeedsNonce(t) => u = t
    BY <1>1, <1>4, Zenon DEF a
  <1> QED
    BY <1>5, <1>6, <1>7, <1>9, <1>10, <1>11, <1>12, <1>13, Zenon DEF u

\* Every token, tag or not, becomes what Emitted says.
LEMMA TextEmitted ==
  ASSUME NEW text \in Seq(Tokens), NEW d
  PROVE  LoadTrustedTemplate(text, d) = FlattenSeq([i \in DOMAIN text |-> Emitted(text[i], d)])
  <1> DEFINE e == [i \in DOMAIN text |-> IF text[i].kind \in {"start", "selfclosing"}
                                        THEN ProcessTag(FlattenSeq(ConfigsOf(d)), text[i]) ELSE <<text[i]>>]
             g == [i \in DOMAIN text |-> Emitted(text[i], d)]
  <1>1. ASSUME NEW i \in DOMAIN text PROVE e[i] = g[i]
    <2>1. text[i] \in Tokens
      OBVIOUS
    <2> DEFINE t == text[i]
    <2> HIDE DEF t
    <2>2. CASE t.kind \in {"start", "selfclosing"}
      BY <2>1, <2>2, TagsProcessed, Zenon DEF RulesOf, t
    <2>3. CASE t.kind \notin {"start", "selfclosing"}
      <3>1. Nonced(t, d) = t /\ ~IsForm(t)
        BY <2>1, <2>3, NoncedIs DEF t
      <3>2. Emitted(t, d) = <<t>>
        BY <3>1, Zenon DEF Emitted
      <3> QED
        BY <2>3, <3>2, Zenon DEF t
    <2> QED
      BY <2>2, <2>3
  <1>2. DOMAIN e = DOMAIN text /\ DOMAIN g = DOMAIN text /\ e = [i \in DOMAIN e |-> e[i]] /\ g = [i \in DOMAIN g |-> g[i]]
    OBVIOUS
  <1>3. LoadTrustedTemplate(text, d) = FlattenSeq(e)
    BY Zenon DEF LoadTrustedTemplate, Transform
  <1> HIDE DEF e, g
  <1>4. e = g
    BY <1>1, <1>2
  <1> QED
    BY <1>3, <1>4, Zenon DEF g

\* One token more of a page.
LEMMA BareAppend ==
  ASSUME NEW p \in Seq(Out), NEW x \in Out, NEW text \in Seq(Tokens), Bare(p) = text,
         x.kind # "node" => [x EXCEPT !.added = <<>>] \in Tokens
  PROVE  /\ x.kind = "node" => Bare(Append(p, x)) = text
         /\ x.kind # "node" => Bare(Append(p, x)) = Append(text, [x EXCEPT !.added = <<>>])
  <1> DEFINE q == Append(p, x)
             n == Len(p)
             bare(t) == IF t.kind = "node" THEN <<>> ELSE <<[t EXCEPT !.added = <<>>]>>
             e == [k \in DOMAIN q |-> bare(q[k])]
             g == [k \in DOMAIN p |-> bare(p[k])]
             B == {[t EXCEPT !.added = <<>>] : t \in Out}
  <1>1. /\ n \in Nat /\ q \in Seq(Out) /\ DOMAIN q = 1..(n + 1) /\ DOMAIN p = 1..n
        /\ q[n + 1] = x /\ \A k \in 1..n : q[k] = p[k]
    OBVIOUS
  <1>2. FlattenSeq(g) = text /\ Bare(q) = FlattenSeq(e)
    BY Zenon DEF Bare
  <1>3. \A t \in Out : bare(t) \in Seq(B)
    <2>1. ASSUME NEW t \in Out PROVE bare(t) \in Seq(B)
      <3>1. [t EXCEPT !.added = <<>>] \in B
        BY Zenon
      <3> DEFINE y == [t EXCEPT !.added = <<>>]
      <3> HIDE DEF B, y
      <3>2. <<y>> \in Seq(B) /\ <<>> \in Seq(B)
        BY <3>1 DEF y
      <3> QED
        BY <3>2, Zenon DEF y
    <2> QED
      BY <2>1
  <1> HIDE DEF bare, B
  <1>4. /\ e \in [1..(n + 1) -> Seq(B)] /\ e[n + 1] = bare(x)
        /\ [k \in 1..n |-> e[k]] = g
    <2> HIDE DEF q, n
    <2>1. /\ \A k \in 1..(n + 1) : q[k] \in Out /\ e[k] = bare(q[k])
          /\ \A k \in 1..n : k \in 1..(n + 1)
      BY <1>1
    <2>2. e \in [1..(n + 1) -> Seq(B)]
      BY <1>1, <1>3
    <2>3. n + 1 \in 1..(n + 1)
      BY <1>1
    <2>4. e[n + 1] = bare(x)
      BY <2>1, <2>3, <1>1, Zenon
    <2>5. \A k \in 1..n : e[k] = bare(p[k])
      BY <2>1, <1>1, Zenon
    <2>6. g = [k \in 1..n |-> bare(p[k])]
      BY <1>1, Zenon
    <2> HIDE DEF e, g
    <2>7. [k \in 1..n |-> e[k]] = g
      BY <2>5, <2>6
    <2> QED
      BY <2>2, <2>4, <2>7
  <1> HIDE DEF e, g, q, n
  <1>5. FlattenSeq(e) = text \o bare(x)
    BY <1>1, <1>2, <1>4, FlattenStep
  <1>6. CASE x.kind = "node"
    <2>1. bare(x) = <<>>
      BY <1>6 DEF bare
    <2>2. text \o <<>> = text
      BY ConcatEmptySeq
    <2> QED
      BY <1>2, <1>5, <1>6, <2>1, <2>2, Zenon DEF q
  <1>7. CASE x.kind # "node"
    <2> DEFINE y == [x EXCEPT !.added = <<>>]
    <2>1. bare(x) = <<y>>
      BY <1>7 DEF bare
    <2>2. y \in Tokens
      BY <1>7
    <2> HIDE DEF y
    <2>3. text \o <<y>> = Append(text, y)
      BY <2>2
    <2> QED
      BY <1>2, <1>5, <1>7, <2>1, <2>3, Zenon DEF q, y
  <1> QED
    BY <1>6, <1>7

\* What a rewritten text should be: all that was there, with functions where they belong.
Placed(p, d) ==
  /\ \A k \in DOMAIN p : p[k].kind # "node" =>
       p[k].added = IF NeedsNonce(p[k]) /\ "csp" \notin d THEN <<CSPNonce>> ELSE <<>>
  /\ \A k \in DOMAIN p : p[k].kind = "node" =>
       k > 1 /\ IsForm(p[k - 1]) /\ "xsrf" \notin d /\ p[k].added = <<XSRFToken>>
  /\ "xsrf" \notin d => \A k \in DOMAIN p : IsForm(p[k]) => k < Len(p) /\ p[k + 1].kind = "node"

\* A token that gets no token of the request may follow any page.
LEMMA PlacedOne ==
  ASSUME NEW p \in Seq(Out), NEW d, Placed(p, d), NEW u \in Out, u.kind # "node",
         u.added = IF NeedsNonce(u) /\ "csp" \notin d THEN <<CSPNonce>> ELSE <<>>,
         ~(IsForm(u) /\ "xsrf" \notin d)
  PROVE  Placed(Append(p, u), d)
  <1> DEFINE q == Append(p, u)
             n == Len(p)
  <1>1. /\ n \in Nat /\ Len(q) = n + 1 /\ DOMAIN q = 1..(n + 1) /\ DOMAIN p = 1..n
        /\ q[n + 1] = u /\ \A k \in 1..n : q[k] = p[k]
    OBVIOUS
  <1> HIDE DEF q
  <1>2. \A k \in DOMAIN p :
          /\ p[k].kind # "node" =>
               p[k].added = IF NeedsNonce(p[k]) /\ "csp" \notin d THEN <<CSPNonce>> ELSE <<>>
          /\ p[k].kind = "node" =>
               k > 1 /\ IsForm(p[k - 1]) /\ "xsrf" \notin d /\ p[k].added = <<XSRFToken>>
          /\ "xsrf" \notin d /\ IsForm(p[k]) => k < n /\ p[k + 1].kind = "node"
    BY Zenon DEF Placed
  <1> HIDE DEF n
  <1>3. ASSUME NEW k \in 1..(n + 1)
        PROVE  /\ q[k].kind # "node" =>
                    q[k].added = IF NeedsNonce(q[k]) /\ "csp" \notin d THEN <<CSPNonce>> ELSE <<>>
               /\ q[k].kind = "node" =>
                    k > 1 /\ IsForm(q[k - 1]) /\ "xsrf" \notin d /\ q[k].added = <<XSRFToken>>
               /\ "xsrf" \notin d /\ IsForm(q[k]) => k < n + 1 /\ q[k + 1].kind = "node"
    <2>1. CASE k = n + 1
      <3>1. q[k] = u
        BY <2>1, <1>1, Zenon
      <3> QED
        BY <3>1, Zenon
    <2>2. CASE k # n + 1
      <3>1. k \in 1..n /\ (k > 1 => k - 1 \in 1..n) /\ (k < n => k + 1 \in 1..n /\ k < n + 1)
        BY <2>2, <1>1
      <3>2. q[k] = p[k] /\ (k > 1 => q[k - 1] = p[k - 1]) /\ (k < n => q[k + 1] = p[k + 1])
        BY <3>1, <1>1, Zenon
      <3>3. /\ p[k].kind # "node" =>
                 p[k].added = IF NeedsNonce(p[k]) /\ "csp" \notin d THEN <<CSPNonce>> ELSE <<>>
            /\ p[k].kind = "node" =>
                 k > 1 /\ IsForm(p[k - 1]) /\ "xsrf" \notin d /\ p[k].added = <<XSRFToken>>
            /\ "xsrf" \notin d /\ IsForm(p[k]) => k < n /\ p[k + 1].kind = "node"
        <4>1. k \in DOMAIN p
          BY <3>1, <1>1, Zenon
        <4> QED
          BY <4>1, <1>2, Zenon
      <3> QED
        BY <3>1, <3>2, <3>3, Zenon
    <2> QED
      BY <2>1, <2>2
  <1>4. Placed(q, d)
    BY <1>1, <1>3, Zenon DEF Placed
  <1> QED
    BY <1>4 DEF q

\* So may a form that is followed by its token.
LEMMA PlacedForm ==
  ASSUME NEW p \in Seq(Out), NEW d, Placed(p, d), NEW u \in Out, u.kind # "node",
         u.added = IF NeedsNonce(u) /\ "csp" \notin d THEN <<CSPNonce>> ELSE <<>>,
         IsForm(u), "xsrf" \notin d, NEW y \in Out, y = Node(XSRFToken)
  PROVE  Placed(Append(Append(p, u), y), d)
  <1> DEFINE q == Append(Append(p, u), y)
             n == Len(p)
  <1>1. /\ n \in Nat /\ Len(q) = n + 2 /\ DOMAIN q = 1..(n + 2) /\ DOMAIN p = 1..n
        /\ q[n + 1] = u /\ q[n + 2] = y /\ \A k \in 1..n : q[k] = p[k]
    <2> DEFINE r == Append(p, u)
    <2>1. /\ n \in Nat /\ r \in Seq(Out) /\ Len(r) = n + 1 /\ DOMAIN p = 1..n
          /\ r[n + 1] = u /\ \A k \in 1..n : r[k] = p[k]
      OBVIOUS
    <2> HIDE DEF r, n
    <2>2. /\ Len(Append(r, y)) = n + 2 /\ DOMAIN Append(r, y) = 1..(n + 2)
          /\ Append(r, y)[n + 2] = y /\ \A k \in 1..(n + 1) : Append(r, y)[k] = r[k]
      BY <2>1
    <2>3. n + 1 \in 1..(n + 1) /\ \A k \in 1..n : k \in 1..(n + 1)
      BY <2>1
    <2> QED
      BY <2>1, <2>2, <2>3, Zenon DEF r
  <1> HIDE DEF q
  <1>2. \A k \in DOMAIN p :
          /\ p[k].kind # "node" =>
               p[k].added = IF NeedsNonce(p[k]) /\ "csp" \notin d THEN <<CSPNonce>> ELSE <<>>
          /\ p[k].kind = "node" =>
               k > 1 /\ IsForm(p[k - 1]) /\ "xsrf" \notin d /\ p[k].added = <<XSRFToken>>
          /\ "xsrf" \notin d /\ IsForm(p[k]) => k < n /\ p[k + 1].kind = "node"
    BY Zenon DEF Placed
  <1> HIDE DEF n
  <1>5. y.kind = "node" /\ y.added = <<XSRFToken>> /\ ~IsForm(y)
    BY DEF Node, IsForm
  <1>3. ASSUME NEW k \in 1..(n + 2)
        PROVE  /\ q[k].kind # "node" =>
                    q[k].added = IF NeedsNonce(q[k]) /\ "csp" \notin d THEN <<CSPNonce>> ELSE <<>>
               /\ q[k].kind = "node" =>
                    k > 1 /\ IsForm(q[k - 1]) /\ "xsrf" \notin d /\ q[k].added = <<XSRFToken>>
               /\ "xsrf" \notin d /\ IsForm(q[k]) => k < n + 2 /\ q[k + 1].kind = "node"
    <2>1. CASE k = n + 1
      <3>1. q[k] = u /\ k < n + 2 /\ k + 1 = n + 2
        BY <2>1, <1>1
      <3>2. q[k + 1] = y
        BY <3>1, <1>1, Zenon
      <3> QED
        BY <3>1, <3>2, <1>5, Zenon
    <2>3. CASE k = n + 2
      <3>1. q[k] = y /\ k > 1 /\ k - 1 = n + 1
        BY <2>3, <1>1
      <3>2. q[k - 1] = u
        BY <3>1, <1>1, Zenon
      <3> QED
        BY <3>1, <3>2, <1>5, Zenon
    <2>2. CASE k # n + 1 /\ k # n + 2
      <3>1. k \in 1..n /\ (k > 1 => k - 1 \in 1..n) /\ (k < n => k + 1 \in 1..n /\ k < n + 2)
        BY <2>2, <1>1
      <3>2. q[k] = p[k] /\ (k > 1 => q[k - 1] = p[k - 1]) /\ (k < n => q[k + 1] = p[k + 1])
        BY <3>1, <1>1, Zenon
      <3>3. /\ p[k].kind # "node" =>
                 p[k].added = IF NeedsNonce(p[k]) /\ "csp" \notin d THEN <<CSPNonce>> ELSE <<>>
            /\ p[k].kind = "node" =>
                 k > 1 /\ IsForm(p[k - 1]) /\ "xsrf" \notin d /\ p[k].added = <<XSRFToken>>
            /\ "xsrf" \notin d /\ IsForm(p[k]) => k < n /\ p[k + 1].kind = "node"
        <4>1. k \in DOMAIN p
          BY <3>1, <1>1, Zenon
        <4> QED
          BY <4>1, <1>2, Zenon
      <3> QED
        BY <3>1, <3>2, <3>3, Zenon
    <2> QED
      BY <2>1, <2>2, <2>3
  <1>4. Placed(q, d)
    BY <1>1, <1>3, Zenon DEF Placed
  <1> QED
    BY <1>4 DEF q

\* What a token becomes is made of tokens again.
LEMMA EmittedType ==
  ASSUME NEW t \in Tokens, NEW d
  PROVE  Emitted(t, d) \in Seq(Out) /\ Nonced(t, d) \in Out /\ Node(XSRFToken) \in Out
  <1> DEFINE u == Nonced(t, d)
             y == Node(XSRFToken)
  <1>1. u \in Out
    BY NoncedIs
  <1>2. y \in Out
    <2> DEFINE A == <<>>
               F == <<XSRFToken>>
    <2>1. A \in Seq(STRING \X STRING) /\ F \in Seq({CSPNonce, XSRFToken})
      OBVIOUS
    <2>2. y = [kind |-> "node", tag |-> "input", attributes |-> A, added |-> F]
      BY DEF Node
    <2> HIDE DEF A, F, y
    <2>4. "node" \in Kinds \cup {"node"}
      OBVIOUS
    <2>5. "input" \in STRING \cup {"input"}
      OBVIOUS
    <2> QED
      BY <2>1, <2>2, <2>4, <2>5, Zenon DEF Out
  <1> HIDE DEF u, y
  <1>3. <<u, y>> \in Seq(Out) /\ <<u>> \in Seq(Out)
    BY <1>1, <1>2
  <1>4. Emitted(t, d) = <<u, y>> \/ Emitted(t, d) = <<u>>
    BY Zenon DEF Emitted, u, y
  <1> QED
    BY <1>1, <1>2, <1>3, <1>4, Zenon DEF u, y

\* p is a rewriting of the text: nothing is lost, and functions are where they belong.
Rewritten(p, text, d) == p \in Seq(Out) /\ Bare(p) = text /\ Placed(p, d)

\* It stays one when a token is added to the text and what it becomes to p.
LEMMA RewrittenStep ==
  ASSUME NEW d, NEW text \in Seq(Tokens), NEW p, Rewritten(p, text, d), NEW t \in Tokens
  PROVE  Rewritten(p \o Emitted(t, d), Append(text, t), d)
  <1> DEFINE u == Nonced(t, d)
             y == Node(XSRFToken)
             q == Append(p, u)
  <1>1. /\ u \in Out /\ u.kind # "node" /\ [u EXCEPT !.added = <<>>] = t
        /\ u.added = IF NeedsNonce(u) /\ "csp" \notin d THEN <<CSPNonce>> ELSE <<>>
        /\ IsForm(u) <=> IsForm(t)
    BY NoncedIs
  <1>2. y \in Out /\ y.kind = "node"
    BY EmittedType DEF Node
  <1>3. p \in Seq(Out) /\ Bare(p) = text /\ Placed(p, d)
    BY DEF Rewritten
  <1> HIDE DEF u, y
  <1>4. q \in Seq(Out) /\ Bare(q) = Append(text, t)
    <2>1. q \in Seq(Out)
      BY <1>1, <1>3
    <2>2. Bare(Append(p, u)) = Append(text, [u EXCEPT !.added = <<>>])
      BY <1>1, <1>3, BareAppend
    <2> QED
      BY <1>1, <2>1, <2>2
  <1>5. CASE IsForm(t) /\ "xsrf" \notin d
    <2>1. Emitted(t, d) = <<u, y>>
      BY <1>5, Zenon DEF Emitted, u, y
    <2>2. <<u, y>> \in Seq(Out) /\ p \o <<u, y>> = Append(q, y)
      <3>1. <<u, y>> \in Seq(Out) /\ Len(<<u, y>>) = 2 /\ <<u, y>>[1] = u /\ <<u, y>>[2] = y
        BY <1>1, <1>2
      <3> DEFINE m == <<u, y>>
                 n == Len(p)
      <3> HIDE DEF m
      <3>2. /\ Append(q, y) \in Seq(Out) /\ Len(Append(q, y)) = n + 2 /\ n \in Nat
            /\ Append(q, y)[n + 1] = u /\ Append(q, y)[n + 2] = y
            /\ \A k \in 1..n : Append(q, y)[k] = p[k]
        BY <1>1, <1>2, <1>3, <1>4
      <3>3. /\ p \o m \in Seq(Out) /\ Len(p \o m) = n + 2
            /\ \A k \in 1..(n + 2) : (p \o m)[k] = IF k <= n THEN p[k] ELSE m[k - n]
        BY <3>1, <1>3, ConcatProperties DEF m
      <3>4. ASSUME NEW k \in 1..(n + 2) PROVE (p \o m)[k] = Append(q, y)[k]
        <4> HIDE DEF n, q
        <4>1. CASE k = n + 1
          <5>1. ~(k <= n) /\ k - n = 1
            BY <4>1, <3>2
          <5> QED
            BY <5>1, <4>1, <3>1, <3>2, <3>3, Zenon DEF m
        <4>2. CASE k = n + 2
          <5>1. ~(k <= n) /\ k - n = 2
            BY <4>2, <3>2
          <5> QED
            BY <5>1, <4>2, <3>1, <3>2, <3>3, Zenon DEF m
        <4>3. CASE k # n + 1 /\ k # n + 2
          <5>1. k <= n /\ k \in 1..n
            BY <4>3, <3>2
          <5> QED
            BY <5>1, <3>2, <3>3, Zenon
        <4> QED
          BY <4>1, <4>2, <4>3
      <3>5. p \o m = Append(q, y)
        <4> HIDE DEF n, q
        <4> QED
          BY <3>2, <3>3, <3>4, SeqEqual
      <3> QED
        BY <3>1, <3>5 DEF m
    <2>3. Bare(Append(q, y)) = Append(text, t)
      <3> HIDE DEF q
      <3>1. Append(text, t) \in Seq(Tokens)
        OBVIOUS
      <3> QED
        BY <3>1, <1>2, <1>4, BareAppend
    <2>4. Placed(Append(q, y), d)
      BY <1>1, <1>2, <1>3, <1>5, PlacedForm DEF y
    <2>5. Append(q, y) \in Seq(Out)
      BY <1>2, <1>4
    <2> QED
      BY <2>1, <2>2, <2>3, <2>4, <2>5, Zenon DEF Rewritten
  <1>6. CASE ~(IsForm(t) /\ "xsrf" \notin d)
    <2>1. Emitted(t, d) = <<u>>
      BY <1>6, Zenon DEF Emitted, u
    <2>2. <<u>> \in Seq(Out) /\ p \o <<u>> = q
      BY <1>1, <1>3
    <2>3. Placed(q, d)
      BY <1>1, <1>3, <1>6, PlacedOne
    <2> QED
      BY <2>1, <2>2, <2>3, <1>4, Zenon DEF Rewritten
  <1> QED
    BY <1>5, <1>6

\* The whole of a text, by induction on its length.
LEMMA TextRewritten ==
  ASSUME NEW text \in Seq(Tokens), NEW d
  PROVE  Rewritten(LoadTrustedTemplate(text, d), text, d)
  <1> DEFINE n == Len(text)
             e == [i \in DOMAIN text |-> Emitted(text[i], d)]
             first(k) == [i \in 1..k |-> text[i]]
             out(k) == [i \in 1..k |-> e[i]]
             Good == {k \in Nat : k <= n => Rewritten(FlattenSeq(out(k)), first(k), d)}
  <1>1. n \in Nat /\ DOMAIN text = 1..n /\ text = first(n)
    OBVIOUS
  <1>2. \A i \in 1..n : e[i] = Emitted(text[i], d) /\ text[i] \in Tokens
    BY <1>1
  <1>3. e = out(n)
    BY <1>1
  <1> HIDE DEF n, e
  <1>4. 0 \in Good
    <2>1. out(0) = <<>> /\ first(0) = <<>>
      OBVIOUS
    <2> HIDE DEF out, first
    <2>2. <<>> \in Seq(Out) /\ FlattenSeq(<<>>) = <<>>
      BY FlattenAppend, EmptySeq
    <2>3. Bare(<<>>) = <<>>
      <3>1. [k \in DOMAIN <<>> |-> IF <<>>[k].kind = "node" THEN <<>> ELSE <<[<<>>[k] EXCEPT !.added = <<>>]>>] = <<>>
        OBVIOUS
      <3> QED
        BY <3>1, <2>2, Zenon DEF Bare
    <2>4. Placed(<<>>, d)
      BY DEF Placed
    <2>5. Rewritten(FlattenSeq(out(0)), first(0), d)
      BY <2>1, <2>2, <2>3, <2>4, Zenon DEF Rewritten
    <2> QED
      BY <2>5
  <1>5. ASSUME NEW k \in 0..n, k \in Good, k < n PROVE k + 1 \in Good
    <2>1. /\ k \in Nat /\ k <= n /\ k + 1 \in 1..n /\ k + 1 \in 1..(k + 1) /\ k + 1 \in Nat
          /\ \A i \in 1..(k + 1) : i \in 1..n
          /\ \A i \in 1..k : i \in 1..(k + 1)
      BY <1>1, <1>5
    <2>2. Rewritten(FlattenSeq(out(k)), first(k), d)
      BY <2>1, <1>5
    <2>3. first(k) \in Seq(Tokens) /\ text[k + 1] \in Tokens
      BY <2>1, <1>2
    <2>4. first(k + 1) = Append(first(k), text[k + 1])
      <3> DEFINE a == first(k)
                 b == first(k + 1)
                 x == text[k + 1]
      <3>1. /\ Len(a) = k /\ \A i \in 1..k : a[i] = text[i]
            /\ b \in Seq(Tokens) /\ Len(b) = k + 1 /\ \A i \in 1..(k + 1) : b[i] = text[i]
        BY <2>1, <1>2
      <3> HIDE DEF a, b, first
      <3>2. a \in Seq(Tokens) /\ x \in Tokens
        BY <2>3 DEF a
      <3>3. x = text[k + 1]
        OBVIOUS
      <3> HIDE DEF x
      <3>4. /\ Append(a, x) \in Seq(Tokens) /\ Len(Append(a, x)) = k + 1
            /\ Append(a, x)[k + 1] = x /\ \A i \in 1..k : Append(a, x)[i] = a[i]
        BY <3>1, <3>2, <2>1
      <3>5. ASSUME NEW i \in 1..(k + 1) PROVE Append(a, x)[i] = b[i]
        <4>1. i \in 1..k \/ i = k + 1
          BY <2>1
        <4> QED
          BY <4>1, <3>1, <3>3, <3>4, <2>1, Zenon
      <3>6. Append(a, x) = b
        BY <3>1, <3>4, <3>5, SeqEqual
      <3> QED
        BY <3>6 DEF a, b, x
    <2>5. /\ Rewritten(FlattenSeq(out(k)) \o Emitted(text[k + 1], d), Append(first(k), text[k + 1]), d)
      BY <2>2, <2>3, RewrittenStep
    <2>6. FlattenSeq(out(k + 1)) = FlattenSeq(out(k)) \o Emitted(text[k + 1], d)
      <3> DEFINE g == out(k + 1)
      <3>1. \A i \in 1..(k + 1) : e[i] \in Seq(Out)
        <4> SUFFICES ASSUME NEW i \in 1..(k + 1) PROVE e[i] \in Seq(Out)
          OBVIOUS
        <4>1. e[i] = Emitted(text[i], d) /\ text[i] \in Tokens
          BY <2>1, <1>2
        <4> QED
          BY <4>1, EmittedType
      <3>2. g \in [1..(k + 1) -> Seq(Out)] /\ \A i \in 1..(k + 1) : g[i] = e[i]
        BY <3>1
      <3>3. g[k + 1] = Emitted(text[k + 1], d)
        BY <3>2, <2>1, <1>2, Zenon
      <3> HIDE DEF g
      <3>4. [i \in 1..k |-> g[i]] = out(k)
        BY <3>2, <2>1
      <3>5. FlattenSeq(g) = FlattenSeq([i \in 1..k |-> g[i]]) \o g[k + 1]
        BY <3>2, <2>1, FlattenStep
      <3> QED
        BY <3>3, <3>4, <3>5, Zenon DEF g
    <2>7. Rewritten(FlattenSeq(out(k + 1)), first(k + 1), d)
      BY <2>4, <2>5, <2>6, Zenon
    <2> QED
      BY <2>1, <2>7
  <1> HIDE DEF Good
  <1>6. \A k \in 0..n : k \in Good
    BY <1>1, <1>4, <1>5, AllLengths
  <1>7. n \in Good /\ n <= n
    BY <1>1, <1>6
  <1>8. Rewritten(FlattenSeq(out(n)), first(n), d)
    BY <1>7 DEF Good
  <1>9. LoadTrustedTemplate(text, d) = FlattenSeq(e)
    BY TextEmitted, Zenon DEF e
  <1> QED
    BY <1>1, <1>3, <1>8, <1>9, Zenon

\* A page that is the text p with the functions of request i in place of their calls.
Renders(r, p, i) ==
  /\ DOMAIN r = DOMAIN p /\ Len(r) = Len(p) /\ Bare(r) = Bare(p)
  /\ \A k \in DOMAIN p :
       /\ r[k].kind = p[k].kind /\ (NeedsNonce(r[k]) <=> NeedsNonce(p[k]))
       /\ IsForm(r[k]) <=> IsForm(p[k])
       /\ p[k].added = <<>> => r[k].added = <<>>
       /\ \A f : p[k].added = <<f>> => r[k].added = <<<<f, i>>>>

\* Executing a rewritten text calls its functions, and changes nothing else.
LEMMA RenderedIs ==
  ASSUME NEW p \in Seq(Out), NEW funcs, NEW i, \A f \in DOMAIN funcs : funcs[f] = i,
         Calls(p) \subseteq DOMAIN funcs
  PROVE  Renders(Rendered(p, funcs), p, i)
  <1> DEFINE r == Rendered(p, funcs)
             make(k) == [j \in DOMAIN p[k].added |-> <<p[k].added[j], funcs[p[k].added[j]]>>]
  <1>1. r = [k \in DOMAIN p |-> [p[k] EXCEPT !.added = make(k)]]
    BY DEF Rendered
  <1>2. ASSUME NEW k \in DOMAIN p
        PROVE  /\ r[k] = [p[k] EXCEPT !.added = make(k)]
               /\ p[k] \in Out
    BY <1>1
  <1>3. ASSUME NEW k \in DOMAIN p
        PROVE  /\ r[k].kind = p[k].kind /\ r[k].tag = p[k].tag /\ r[k].attributes = p[k].attributes
               /\ r[k].added = make(k) /\ [r[k] EXCEPT !.added = <<>>] = [p[k] EXCEPT !.added = <<>>]
    <2> DEFINE m == make(k)
               x == p[k]
    <2>1. r[k] = [x EXCEPT !.added = m] /\ x \in Out
      BY <1>2
    <2> HIDE DEF m, x, r, make
    <2>2. /\ r[k].kind = x.kind /\ r[k].tag = x.tag /\ r[k].attributes = x.attributes
          /\ r[k].added = m /\ [r[k] EXCEPT !.added = <<>>] = [x EXCEPT !.added = <<>>]
      BY <2>1 DEF Out
    <2> QED
      BY <2>2 DEF m, x
  <1>4. DOMAIN r = DOMAIN p /\ Len(r) = Len(p)
    BY <1>1
  <1> HIDE DEF r, make
  <1>5. Bare(r) = Bare(p)
    <2> DEFINE a == [k \in DOMAIN r |-> IF r[k].kind = "node" THEN <<>> ELSE <<[r[k] EXCEPT !.added = <<>>]>>]
               b == [k \in DOMAIN p |-> IF p[k].kind = "node" THEN <<>> ELSE <<[p[k] EXCEPT !.added = <<>>]>>]
    <2>1. Bare(r) = FlattenSeq(a) /\ Bare(p) = FlattenSeq(b)
      BY Zenon DEF Bare
    <2>2. ASSUME NEW k \in DOMAIN p PROVE a[k] = b[k]
      BY <1>3, <1>4, Zenon
    <2>3. DOMAIN a = DOMAIN p /\ DOMAIN b = DOMAIN p /\ a = [k \in DOMAIN a |-> a[k]] /\ b = [k \in DOMAIN b |-> b[k]]
      BY <1>4, Zenon
    <2> HIDE DEF a, b
    <2>4. a = b
      BY <2>2, <2>3
    <2> QED
      BY <2>1, <2>4, Zenon
  <1>6. ASSUME NEW k \in DOMAIN p
        PROVE  /\ NeedsNonce(r[k]) <=> NeedsNonce(p[k])
               /\ IsForm(r[k]) <=> IsForm(p[k])
    <2>1. \A key : ValueOf(r[k], key) = ValueOf(p[k], key)
      BY <1>3, Zenon DEF ValueOf
    <2>2. r[k].kind = p[k].kind /\ r[k].tag = p[k].tag
      BY <1>3
    <2> QED
      BY <2>1, <2>2, Zenon DEF NeedsNonce, IsForm
  <1>7. ASSUME NEW k \in DOMAIN p, p[k].added = <<>> PROVE r[k].added = <<>>
    <2>1. make(k) = <<>>
      BY <1>7 DEF make
    <2> QED
      BY <1>3, <2>1, Zenon
  <1>8. ASSUME NEW k \in DOMAIN p, NEW f, p[k].added = <<f>> PROVE r[k].added = <<<<f, i>>>>
    <2> DEFINE x == p[k].added
    <2>1. DOMAIN x = {1} /\ x[1] = f
      BY <1>8
    <2>2. f \in Calls(p)
      BY <2>1 DEF Calls
    <2>3. funcs[f] = i
      BY <2>2
    <2>4. make(k) = [j \in DOMAIN x |-> <<x[j], funcs[x[j]]>>]
      BY DEF make
    <2> HIDE DEF x
    <2>5. make(k) = [j \in {1} |-> <<f, i>>]
      BY <2>1, <2>3, <2>4
    <2>6. [j \in {1} |-> <<f, i>>] = <<<<f, i>>>>
      <3> DEFINE y == <<f, i>>
      <3> HIDE DEF y
      <3>1. [j \in {1} |-> y] = <<y>>
        OBVIOUS
      <3> QED
        BY <3>1 DEF y
    <2> QED
      BY <1>3, <2>5, <2>6, Zenon
  <1> QED
    BY <1>3, <1>4, <1>5, <1>6, <1>7, <1>8, Zenon DEF r, Renders

-----------------------------------------------------------------------------
(* What the pages of the requests are.                                      *)

\* What is parsed is the rewriting of what was loaded.
TextsInv ==
  /\ files \in Seq([name : STRING, text : Seq(Tokens)])
  /\ phase = "loading" => files # <<>>
  /\ DOMAIN parsed = DOMAIN source
  /\ \A name \in DOMAIN parsed :
       /\ source[name] \in Seq(Tokens)
       /\ parsed[name] = LoadTrustedTemplate(source[name], disabled)

\* Every function of a request that shares its FuncMap with nobody answers for this
\* request; and its page is its text, executed with such functions.
OwnInv(i) ==
  /\ req[i].pc \in {"handler", "commit"} => req[i].bound = <<>>
  /\ req[i].map # "shared" =>
       /\ \A f \in DOMAIN req[i].funcs : req[i].funcs[f] = i
       /\ \A f \in DOMAIN req[i].bound : req[i].bound[f] = i
  /\ req[i].pc = "done" =>
       /\ Text(i) \in DOMAIN parsed /\ Calls(parsed[Text(i)]) \subseteq DOMAIN req[i].bound
       /\ req[i].page = Rendered(parsed[Text(i)], req[i].bound)

\* Both together are what every step keeps.
PInv == TextsInv /\ \A i \in Requests : OwnInv(i)

\* A request leaves the templates and the other requests as they are.
LEMMA OthersOwn ==
  ASSUME PInv, NEW i \in Requests, phase' # "loading",
         UNCHANGED <<files, source, disabled, root, parsed>>,
         \A j \in Requests \ {i} : req'[j] = req[j], OwnInv(i)'
  PROVE  PInv'
  <1>1. TextsInv'
    BY DEF PInv, TextsInv
  <1>2. ASSUME NEW j \in Requests \ {i} PROVE OwnInv(j)'
    <2>1. req'[j] = req[j] /\ parsed' = parsed /\ Text(j)' = Text(j)
      BY DEF Text
    <2> QED
      BY <2>1 DEF PInv, OwnInv
  <1> QED
    BY <1>1, <1>2 DEF PInv

\* A file is put in place of one of the same name, or ignored.
LEMMA LoadsText ==
  ASSUME IInv, PInv, LoadFile
  PROVE  PInv'
  <1> DEFINE F == [name : STRING, text : Seq(Tokens)]
             f == Head(files)
             p == LoadTrustedTemplate(f.text, disabled)
  <1>1. /\ phase = "loading" /\ files \in Seq(F) /\ files # <<>>
        /\ \/ parsed' = parsed /\ source' = source
           \/ parsed' = Put(parsed, f.name, p) /\ source' = Put(source, f.name, f.text)
        /\ files' = Tail(files) /\ phase' = IF files' = <<>> THEN "serving" ELSE "loading"
        /\ disabled' = disabled /\ req' = req
    BY DEF LoadFile, PInv, TextsInv
  <1> HIDE DEF F
  <1>2. f \in F /\ files' \in Seq(F)
    BY <1>1, HeadTailProperties
  <1>3. f.text \in Seq(Tokens)
    BY <1>2 DEF F
  <1> HIDE DEF f
  <1>4. DOMAIN parsed' = DOMAIN source'
    BY <1>1 DEF Put, PInv, TextsInv
  <1>5. ASSUME NEW name \in DOMAIN parsed'
        PROVE  /\ source'[name] \in Seq(Tokens)
               /\ parsed'[name] = LoadTrustedTemplate(source'[name], disabled')
    <2>0. CASE parsed' = parsed /\ source' = source
      BY <1>1, <2>0 DEF PInv, TextsInv
    <2> SUFFICES ASSUME parsed' = Put(parsed, f.name, p), source' = Put(source, f.name, f.text)
                 PROVE  /\ source'[name] \in Seq(Tokens)
                        /\ parsed'[name] = LoadTrustedTemplate(source'[name], disabled')
      BY <1>1, <2>0
    <2>1. CASE name = f.name
      <3>1. source'[name] = f.text /\ parsed'[name] = p
        BY <2>1 DEF Put
      <3> QED
        BY <3>1, <1>1, <1>3
    <2>2. CASE name # f.name
      <3>1. name \in DOMAIN parsed /\ source'[name] = source[name] /\ parsed'[name] = parsed[name]
        BY <2>2 DEF Put, PInv, TextsInv
      <3> QED
        BY <3>1, <1>1 DEF PInv, TextsInv
    <2> QED
      BY <2>1, <2>2
  <1>6. TextsInv'
    BY <1>1, <1>2, <1>4, <1>5 DEF TextsInv, F
  <1>7. ASSUME NEW i \in Requests PROVE OwnInv(i)'
    <2>1. req[i].pc = "handler" /\ req'[i] = req[i]
      BY <1>1 DEF IInv
    <2> QED
      BY <2>1 DEF PInv, OwnInv
  <1> QED
    BY <1>6, <1>7 DEF PInv

\* A handler gives no functions, its own, or those of the shared map.
LEMMA WriteOwn ==
  ASSUME IInv, PInv, NEW i \in Requests, NEW name, NEW map \in {"none", "own", "shared"},
         WriteTemplate(i, name, map)
  PROVE  PInv'
  <1> DEFINE own == IF map = "own" THEN Put(<<>>, OwnFunc, i) ELSE <<>>
             r == [req[i] EXCEPT !.pc = "commit", !.name = name, !.map = map, !.funcs = own]
  <1>1. /\ phase = "serving" /\ req[i].pc = "handler" /\ Goes(i, r)
        /\ UNCHANGED <<files, source, disabled, root, parsed, phase>>
    BY DEF WriteTemplate, At, tplVars
  <1>2. \A f \in DOMAIN own : own[f] = i
    BY DEF Put
  <1> HIDE DEF own
  <1>3. r.pc = "commit" /\ r.bound = req[i].bound /\ r.map = map /\ r.funcs = own
    BY DEF IInv, Fields
  <1> HIDE DEF r
  <1>4. req'[i] = r /\ \A j \in Requests \ {i} : req'[j] = req[j]
    BY <1>1, GoesTo
  <1>5. OwnInv(i)'
    <2>1. req[i].bound = <<>>
      BY <1>1 DEF PInv, OwnInv
    <2> QED
      BY <2>1, <1>2, <1>3, <1>4 DEF OwnInv
  <1> QED
    BY <1>1, <1>4, <1>5, OthersOwn

\* A Commit gives its function to the map of the response it is called with.
LEMMA ProvidesOwn ==
  ASSUME IInv, PInv, NEW i \in Requests, NEW f, Provides(i, f)
  PROVE  PInv'
  <1>1. /\ phase = "serving" /\ req[i].pc = "commit"
        /\ UNCHANGED <<files, source, disabled, root, parsed, phase>>
    BY DEF Provides, At, tplVars
  <1>2. OwnInv(i) /\ DOMAIN req[i] = Fields
    BY DEF PInv, IInv
  <1>3. CASE req[i].map = "shared"
    <2> DEFINE r == [req[i] EXCEPT !.todo = @ \ {f}]
    <2>1. Goes(i, r)
      BY <1>3 DEF Provides
    <2>2. r.pc = "commit" /\ r.bound = req[i].bound /\ r.map = "shared"
      BY <1>1, <1>2, <1>3 DEF Fields
    <2> HIDE DEF r
    <2>3. req'[i] = r /\ \A j \in Requests \ {i} : req'[j] = req[j]
      BY <2>1, GoesTo
    <2>4. OwnInv(i)'
      BY <1>1, <1>2, <2>2, <2>3 DEF OwnInv
    <2> QED
      BY <1>1, <2>3, <2>4, OthersOwn
  <1>4. CASE req[i].map # "shared"
    <2> DEFINE m == Put(req[i].funcs, f, i)
               r == [req[i] EXCEPT !.todo = @ \ {f}, !.funcs = m]
    <2>1. Goes(i, r)
      BY <1>4 DEF Provides
    <2>2. \A g \in DOMAIN m : m[g] = i
      BY <1>2, <1>4 DEF Put, OwnInv
    <2> HIDE DEF m
    <2>3. r.pc = "commit" /\ r.bound = req[i].bound /\ r.funcs = m
      BY <1>1, <1>2 DEF Fields
    <2> HIDE DEF r
    <2>4. req'[i] = r /\ \A j \in Requests \ {i} : req'[j] = req[j]
      BY <2>1, GoesTo
    <2>5. OwnInv(i)'
      BY <1>1, <1>2, <2>2, <2>3, <2>4 DEF OwnInv
    <2> QED
      BY <1>1, <2>4, <2>5, OthersOwn
  <1> QED
    BY <1>3, <1>4

\* An execution renders the text with the functions it is given, or panics.
LEMMA ExecutesOwn ==
  ASSUME IInv, PInv, NEW i \in Requests, phase' # "loading", Execute(i, req[i].bound),
         UNCHANGED <<files, source, disabled, root, parsed>>
  PROVE  PInv'
  <1> DEFINE g == req[i].bound
             page == Rendered(parsed[Text(i)], g)
  <1>1. OwnInv(i) /\ DOMAIN req[i] = Fields
    BY DEF PInv, IInv
  <1>2. CASE Executes(i, g)
    <2> DEFINE r == [req[i] EXCEPT !.pc = "done", !.page = page]
    <2>1. Goes(i, r)
      BY <1>2 DEF Execute
    <2>2. /\ r.pc = "done" /\ r.page = page /\ r.bound = g /\ r.funcs = req[i].funcs
          /\ r.map = req[i].map /\ r.name = req[i].name
      BY <1>1 DEF Fields
    <2> HIDE DEF r
    <2>3. req'[i] = r /\ \A j \in Requests \ {i} : req'[j] = req[j]
      BY <2>1, GoesTo
    <2>4. Text(i)' = Text(i) /\ parsed' = parsed
      BY <2>2, <2>3 DEF Text
    <2>5. Text(i) \in DOMAIN parsed /\ Calls(parsed[Text(i)]) \subseteq DOMAIN g
      BY <1>2 DEF Executes
    <2>6. OwnInv(i)'
      BY <1>1, <2>2, <2>3, <2>4, <2>5 DEF OwnInv
    <2> QED
      BY <2>3, <2>6, OthersOwn
  <1>3. CASE ~Executes(i, g)
    <2> DEFINE r == [req[i] EXCEPT !.pc = "panicked"]
    <2>1. Goes(i, r)
      BY <1>3 DEF Execute
    <2>2. /\ r.pc = "panicked" /\ r.bound = g /\ r.funcs = req[i].funcs /\ r.map = req[i].map
      BY <1>1 DEF Fields
    <2> HIDE DEF r
    <2>3. req'[i] = r /\ \A j \in Requests \ {i} : req'[j] = req[j]
      BY <2>1, GoesTo
    <2>4. OwnInv(i)'
      BY <1>1, <2>2, <2>3 DEF OwnInv
    <2> QED
      BY <2>3, <2>4, OthersOwn
  <1> QED
    BY <1>2, <1>3

\* A clone has the functions of the map of its request.
LEMMA CloneOwn ==
  ASSUME IInv, PInv, NEW i \in Requests, CloneWithFuncs(i)
  PROVE  PInv'
  <1> DEFINE m == FuncMap(i)
             r == [req[i] EXCEPT !.pc = "execute", !.bound = m]
  <1>1. /\ phase = "serving" /\ Goes(i, r) /\ OwnInv(i) /\ DOMAIN req[i] = Fields
        /\ UNCHANGED <<files, source, disabled, root, parsed, phase>>
    BY DEF CloneWithFuncs, At, tplVars, PInv, IInv
  <1>2. r.pc = "execute" /\ r.bound = m /\ r.map = req[i].map /\ r.funcs = req[i].funcs
    BY <1>1 DEF Fields
  <1>3. req[i].map # "shared" => m = req[i].funcs
    BY DEF FuncMap
  <1> HIDE DEF m, r
  <1>4. req'[i] = r /\ \A j \in Requests \ {i} : req'[j] = req[j]
    BY <1>1, GoesTo
  <1>5. OwnInv(i)'
    BY <1>1, <1>2, <1>3, <1>4 DEF OwnInv
  <1> QED
    BY <1>1, <1>4, <1>5, OthersOwn

\* A clone that fails is a page that fails.
LEMMA CloneFailsOwn ==
  ASSUME IInv, PInv, NEW i \in Requests, CloneFails(i)
  PROVE  PInv'
  <1> DEFINE r == [req[i] EXCEPT !.pc = "panicked"]
  <1>1. /\ phase = "serving" /\ Goes(i, r) /\ OwnInv(i) /\ DOMAIN req[i] = Fields
        /\ UNCHANGED <<files, source, disabled, root, parsed, phase>>
    BY DEF CloneFails, At, tplVars, PInv, IInv
  <1>2. r.pc = "panicked" /\ r.bound = req[i].bound /\ r.map = req[i].map /\ r.funcs = req[i].funcs
    BY <1>1 DEF Fields
  <1> HIDE DEF r
  <1>3. req'[i] = r /\ \A j \in Requests \ {i} : req'[j] = req[j]
    BY <1>1, GoesTo
  <1>4. OwnInv(i)'
    BY <1>1, <1>2, <1>3 DEF OwnInv
  <1> QED
    BY <1>1, <1>3, <1>4, OthersOwn

\* Every step keeps it.
LEMMA OwnKept == IInv /\ PInv /\ [Next]_vars => PInv'
  <1> SUFFICES ASSUME IInv, PInv, [Next]_vars PROVE PInv'
    OBVIOUS
  <1>1. CASE LoadFile
    BY <1>1, LoadsText
  <1>2. CASE ReadFails
    BY <1>2 DEF ReadFails, tplVars, PInv, TextsInv, OwnInv, Text
  <1>3. CASE \E i \in Requests : \E name \in DOMAIN parsed \cup {NoName}, map \in {"none", "own", "shared"} :
               WriteTemplate(i, name, map)
    BY <1>3, WriteOwn
  <1>4. CASE \E i \in Requests : \E f \in {CSPNonce, XSRFToken} : Provides(i, f)
    BY <1>4, ProvidesOwn
  <1>5. ASSUME NEW i \in Requests, ExecuteDirectly(i) PROVE PInv'
    <2>1. /\ phase = "serving" /\ req[i].pc = "commit" /\ Execute(i, <<>>)
          /\ UNCHANGED <<files, source, disabled, root, parsed, phase>>
      BY <1>5 DEF ExecuteDirectly, At
    <2>2. req[i].bound = <<>>
      BY <2>1 DEF PInv, OwnInv
    <2> QED
      BY <2>1, <2>2, ExecutesOwn
  <1>6. CASE \E i \in Requests : CloneFails(i)
    BY <1>6, CloneFailsOwn
  <1>7. CASE \E i \in Requests : CloneWithFuncs(i)
    BY <1>7, CloneOwn
  <1>8. ASSUME NEW i \in Requests, ExecuteClone(i) PROVE PInv'
    <2>1. /\ phase = "serving" /\ Execute(i, req[i].bound)
          /\ UNCHANGED <<files, source, disabled, root, parsed, phase>>
      BY <1>8 DEF ExecuteClone, At, tplVars
    <2> QED
      BY <2>1, ExecutesOwn
  <1>9. CASE \E i, j \in Requests : ConcurrentMapWrites(i, j)
    <2>1. phase' = "dead" /\ UNCHANGED <<tplVars, shared, req>>
      BY <1>9 DEF ConcurrentMapWrites
    <2> QED
      BY <2>1 DEF tplVars, PInv, TextsInv, OwnInv, Text
  <1>10. CASE UNCHANGED vars
    BY <1>10 DEF vars, tplVars, PInv, TextsInv, OwnInv, Text
  <1> QED
    BY <1>1, <1>2, <1>3, <1>4, <1>5, <1>6, <1>7, <1>8, <1>9, <1>10 DEF Next

\* A page that was executed with functions of its own request is as it should be.
LEMMA OwnPages == PInv => PageIsOwn
  <1> SUFFICES ASSUME PInv, NEW i \in Requests, req[i].pc = "done", req[i].map # "shared"
               PROVE  LET page == req[i].page
                      IN  /\ Bare(page) = source[Text(i)]
                          /\ \A k \in DOMAIN page : page[k].kind # "node" =>
                               page[k].added = IF NeedsNonce(page[k]) /\ "csp" \notin disabled
                                                 THEN <<<<CSPNonce, i>>>> ELSE <<>>
                          /\ \A k \in DOMAIN page : page[k].kind = "node" =>
                               /\ k > 1 /\ IsForm(page[k - 1]) /\ "xsrf" \notin disabled
                               /\ page[k].added = <<<<XSRFToken, i>>>>
                          /\ "xsrf" \notin disabled => \A k \in DOMAIN page :
                               IsForm(page[k]) => k < Len(page) /\ page[k + 1].kind = "node"
    BY Zenon DEF PageIsOwn
  <1> DEFINE text == source[Text(i)]
             p == parsed[Text(i)]
             g == req[i].bound
             r == req[i].page
  <1>1. /\ text \in Seq(Tokens) /\ p = LoadTrustedTemplate(text, disabled)
        /\ Calls(p) \subseteq DOMAIN g /\ \A f \in DOMAIN g : g[f] = i
        /\ r = Rendered(p, g)
    BY DEF PInv, TextsInv, OwnInv
  <1> HIDE DEF text, p, g, r
  <1>2. p \in Seq(Out) /\ Bare(p) = text /\ Placed(p, disabled)
    BY <1>1, TextRewritten, Zenon DEF Rewritten
  <1>3. Renders(r, p, i)
    BY <1>1, <1>2, RenderedIs, Zenon
  <1>4. /\ DOMAIN r = DOMAIN p /\ Len(r) = Len(p) /\ Bare(r) = Bare(p)
        /\ \A k \in DOMAIN p :
             /\ r[k].kind = p[k].kind /\ (NeedsNonce(r[k]) <=> NeedsNonce(p[k]))
             /\ IsForm(r[k]) <=> IsForm(p[k])
             /\ p[k].added = <<>> => r[k].added = <<>>
             /\ \A f : p[k].added = <<f>> => r[k].added = <<<<f, i>>>>
    BY <1>3, Zenon DEF Renders
  <1>5. ASSUME NEW k \in DOMAIN r, r[k].kind # "node"
        PROVE  r[k].added = IF NeedsNonce(r[k]) /\ "csp" \notin disabled THEN <<<<CSPNonce, i>>>> ELSE <<>>
    <2>1. p[k].added = IF NeedsNonce(p[k]) /\ "csp" \notin disabled THEN <<CSPNonce>> ELSE <<>>
      BY <1>2, <1>4, <1>5, Zenon DEF Placed
    <2> QED
      BY <1>4, <2>1, Zenon
  <1>6. DOMAIN p = 1..Len(p) /\ Len(p) \in Nat
    BY <1>2
  <1>7. ASSUME NEW k \in DOMAIN r, r[k].kind = "node"
        PROVE  /\ k > 1 /\ IsForm(r[k - 1]) /\ "xsrf" \notin disabled
               /\ r[k].added = <<<<XSRFToken, i>>>>
    <2>1. k > 1 /\ IsForm(p[k - 1]) /\ "xsrf" \notin disabled /\ p[k].added = <<XSRFToken>>
      BY <1>2, <1>4, <1>7, Zenon DEF Placed
    <2>2. k - 1 \in DOMAIN p
      BY <1>4, <1>6, <2>1
    <2> QED
      BY <1>4, <2>1, <2>2, Zenon
  <1>8. ASSUME "xsrf" \notin disabled, NEW k \in DOMAIN r, IsForm(r[k])
        PROVE  k < Len(r) /\ r[k + 1].kind = "node"
    <2>1. k < Len(p) /\ p[k + 1].kind = "node"
      BY <1>2, <1>4, <1>8, Zenon DEF Placed
    <2>2. k + 1 \in DOMAIN p
      BY <1>4, <1>6, <2>1
    <2> QED
      BY <1>4, <2>1, <2>2, Zenon
  <1> QED
    BY <1>2, <1>4, <1>5, <1>7, <1>8, Zenon DEF text, r

\* For any templates, of any length, and any number of concurrent requests: a page
\* keeps all that was in its file, in order, and has the nonce and the tokens of its
\* own request where they belong and nowhere else.
THEOREM PagesAreOwn == Spec => []PageIsOwn
  <1>1. Init => PInv
    <2> SUFFICES ASSUME Init PROVE PInv
      OBVIOUS
    <2>1. TextsInv
      <3>1. PICK load \in Loads : files = load.files
        BY DEF Init
      <3>2. files \in Seq([name : STRING, text : Seq(Tokens)])
        BY <3>1, LoadsAreTexts, Zenon
      <3> QED
        BY <3>2 DEF Init, TextsInv
    <2>2. ASSUME NEW i \in Requests PROVE OwnInv(i)
      <3>1. PICK mux \in Muxes : req[i] = Arriving(mux)
        BY DEF Init
      <3> QED
        BY <3>1 DEF Arriving, OwnInv
    <2> QED
      BY <2>1, <2>2 DEF PInv
  <1> QED
    BY <1>1, OwnKept, OwnPages, InvariantAlways, PTL DEF Spec
=============================================================================
