--------------------------- MODULE SessionsProofs ---------------------------
(***************************************************************************)
(* Theorems about Sessions, for any users, passwords, browsers, requests    *)
(* at the same time and any number of tokens.                               *)
(***************************************************************************)
EXTENDS Sessions, TLAPS

People == Users \cup {Nobody}

Open    == [pc : {"before", "handler", "list"}, browser : Browsers, route : Routes,
            name : People, password : Passwords, token : Nat, user : People, shows : {Nobody}]
Written == [pc : {"commit"}, browser : Browsers, token : Nat, user : People,
            action : {"none", "set", "clear"}, name : People, shows : People]
Done    == [pc : {"respond"}, browser : Browsers, token : Nat, shows : People,
            cookie : SUBSET Nat]
AnyRequest == {Idle} \cup Open \cup Written \cup Done

TypeOK ==
  /\ Valid \subseteq Nat /\ sessionTokens \in [Valid -> People]
  /\ userSessions \in [DOMAIN userSessions -> Nat]
  /\ notes \in [Users -> SUBSET Nat]
  /\ drawn \in Nat
  /\ jar \in [Browsers -> Nat]
  /\ req \in [Slots -> AnyRequest]
  /\ earned \subseteq Nat \X People
  /\ ended \subseteq Nat

\* A token that occurs anywhere has been drawn, so that the next is new.
Drawn ==
  /\ \A t \in Valid : t <= drawn
  /\ \A b \in Browsers : jar[b] <= drawn
  /\ \A e \in earned : e[1] <= drawn
  /\ \A t \in ended : t <= drawn

\* What a request in the given place has found out: its user, if there is one, was
\* once logged in under its token.
RequestOK(r, d, e) ==
  /\ r.pc # "idle" => r.token <= d /\ (r.shows # Nobody => <<r.token, r.shows>> \in e)
  /\ r.pc \in {"handler", "list"} =>
       /\ r.user # Nobody => <<r.token, r.user>> \in e
       /\ r.route \notin Skips => r.user # Nobody
  /\ r.pc = "commit" =>
       /\ r.action = "set" => r.name = r.user
       /\ r.action = "clear" => <<r.token, r.user>> \in e
  /\ r.pc = "respond" => \A c \in r.cookie : c <= d

RequestsOK == \A s \in Slots : RequestOK(req[s], drawn, earned)

\* The part of NotesPrivate that is not about requests.
EarnedOK ==
  /\ \A t \in Valid : \E e \in earned : e[1] = t /\ e[2] = GetUser(t)
  /\ \A e, f \in earned : e[1] = f[1] => e = f
  /\ \A u \in Users : \A t \in notes[u] : <<t, u>> \in earned

IInv == TypeOK /\ Drawn /\ RequestsOK /\ EarnedOK /\ SessionsMatch /\ LogoutFinal

-----------------------------------------------------------------------------
(* One request moves on, and the sessions stay.                             *)

\* A request is of one shape, which its place tells.
LEMMA Shapes ==
  ASSUME TypeOK, NEW s \in Slots
  PROVE  /\ req[s] \in AnyRequest
         /\ req[s].pc \in {"before", "handler", "list"} => req[s] \in Open
         /\ req[s].pc = "commit" => req[s] \in Written
         /\ req[s].pc = "respond" => req[s] \in Done
<1>1. req[s] \in AnyRequest
  BY DEF TypeOK
<1> QED
  BY <1>1 DEF AnyRequest, Idle, Open, Written, Done

\* GetUser returns a user or nobody.
LEMMA GetUserType ==
  ASSUME TypeOK, NEW t
  PROVE  GetUser(t) \in People
BY DEF TypeOK, GetUser, People, Valid

\* A request in a place that suits what it has found out may replace the one in its
\* slot, more may be earned, and more tokens drawn.
LEMMA RequestMoves ==
  ASSUME IInv, NEW s \in Slots, NEW r \in AnyRequest, Goes(s, r),
         drawn' \in Nat, drawn <= drawn', earned \subseteq earned',
         RequestOK(r, drawn', earned')
  PROVE  /\ req' \in [Slots -> AnyRequest]
         /\ RequestsOK'
<1>1. req' \in [Slots -> AnyRequest]
  BY DEF IInv, TypeOK, Goes
<1>2. ASSUME NEW q \in Slots
      PROVE  RequestOK(req'[q], drawn', earned')
  <2>1. CASE q = s
    BY <2>1 DEF IInv, TypeOK, Goes
  <2>2. CASE q # s
    <3>1. req'[q] = req[q] /\ RequestOK(req[q], drawn, earned)
      BY <2>2 DEF IInv, TypeOK, Goes, RequestsOK
    <3>2. req[q].pc # "idle" => req[q].token \in Nat
      BY DEF IInv, TypeOK, AnyRequest, Idle, Open, Written, Done
    <3>3. req[q].pc = "respond" => req[q].cookie \subseteq Nat
      BY DEF IInv, TypeOK, AnyRequest, Idle, Open, Written, Done
    <3> QED
      BY <3>1, <3>2, <3>3 DEF RequestOK, IInv, TypeOK
  <2> QED
    BY <2>1, <2>2
<1> QED
  BY <1>1, <1>2 DEF RequestsOK

\* A step that leaves the sessions and the history alone keeps the invariant, if what
\* it does to notes and cookies is in order.
LEMMA SessionsStay ==
  ASSUME IInv, NEW s \in Slots, NEW r \in AnyRequest, Goes(s, r),
         RequestOK(r, drawn, earned),
         UNCHANGED <<sessionTokens, userSessions, drawn, earned, ended>>,
         notes' \in [Users -> SUBSET Nat],
         \A u \in Users : \A t \in notes'[u] : <<t, u>> \in earned,
         jar' \in [Browsers -> Nat], \A b \in Browsers : jar'[b] <= drawn
  PROVE  IInv'
<1>1. drawn' \in Nat /\ drawn <= drawn' /\ earned \subseteq earned'
      /\ RequestOK(r, drawn', earned')
  BY DEF IInv, TypeOK
<1>2. req' \in [Slots -> AnyRequest] /\ RequestsOK'
  BY <1>1, RequestMoves
<1>3. TypeOK'
  BY <1>2 DEF IInv, TypeOK, Valid
<1>4. Drawn'
  BY DEF IInv, Drawn, Valid
<1>5. EarnedOK'
  BY DEF IInv, EarnedOK, Valid, GetUser
<1>6. SessionsMatch' /\ LogoutFinal'
  BY DEF IInv, SessionsMatch, LogoutFinal, Valid, GetUser
<1> QED
  BY <1>2, <1>3, <1>4, <1>5, <1>6 DEF IInv

-----------------------------------------------------------------------------
(* The steps of a request up to its answer.                                 *)

\* Notes and cookies are in order if nobody touches them.
LEMMA NotesAndJars ==
  ASSUME IInv, UNCHANGED <<notes, jar>>
  PROVE  /\ notes' \in [Users -> SUBSET Nat]
         /\ \A u \in Users : \A t \in notes'[u] : <<t, u>> \in earned
         /\ jar' \in [Browsers -> Nat] /\ \A b \in Browsers : jar'[b] <= drawn
BY DEF IInv, TypeOK, EarnedOK, Drawn

\* A request that is written without a wish for a session or its end.
LEMMA WritesType ==
  ASSUME IInv, NEW s \in Slots, req[s].pc \in {"before", "handler", "list"}
  PROVE  /\ Writes(req[s]) \in AnyRequest
         /\ RequestOK(Writes(req[s]), drawn, earned)
<1>1. req[s] \in Open /\ RequestOK(req[s], drawn, earned)
  BY Shapes DEF IInv, RequestsOK
<1>2. req[s].shows = Nobody /\ Nobody \in People
  BY <1>1 DEF Open, People
<1>3. Writes(req[s]) \in Written
  BY <1>1, <1>2 DEF Open, Written, Writes
<1> QED
  BY <1>1, <1>2, <1>3 DEF AnyRequest, Writes, RequestOK

\* A request that arrives carries a token that was drawn, and has found out nothing.
LEMMA SendKeeps ==
  ASSUME IInv, NEW s \in Slots, NEW b \in Browsers, NEW route \in Routes,
         NEW u \in People, NEW p \in Passwords, Send(s, b, route, u, p)
  PROVE  IInv'
<1> DEFINE r == Request(b, route, u, p)
<1>1. r \in Open
  BY DEF Request, Open, IInv, TypeOK, People
<1>2. RequestOK(r, drawn, earned)
  BY DEF Request, RequestOK, IInv, Drawn
<1> QED
  BY <1>1, <1>2, SessionsStay, NotesAndJars DEF Send, db, AnyRequest

\* A request that another interceptor refuses asks for nothing.
LEMMA RefusedKeeps ==
  ASSUME IInv, NEW s \in Slots, Refused(s)
  PROVE  IInv'
BY WritesType, SessionsStay, NotesAndJars DEF Refused, db, At

\* The index page asks for nothing either.
LEMMA IndexKeeps ==
  ASSUME IInv, NEW s \in Slots, Index(s)
  PROVE  IInv'
BY WritesType, SessionsStay, NotesAndJars DEF Index, db, At

\* What Before finds under a valid token was earned with that token.
LEMMA AuthBeforeKeeps ==
  ASSUME IInv, NEW s \in Slots, AuthBefore(s)
  PROVE  IInv'
<1> DEFINE user == GetUser(req[s].token)
           pass == user # Nobody \/ req[s].route \in Skips
           r    == [req[s] EXCEPT !.user = user, !.pc = "handler"]
<1>1. req[s] \in Open /\ RequestOK(req[s], drawn, earned) /\ req[s].pc = "before"
  BY Shapes DEF IInv, RequestsOK, AuthBefore, At
<1>2. CASE pass
  <2>1. user \in People
    BY GetUserType DEF IInv
  <2>2. r \in Open /\ r.token = req[s].token /\ r.user = user /\ r.pc = "handler"
        /\ r.route = req[s].route /\ r.shows = req[s].shows
    BY <1>1, <2>1 DEF Open
  <2>3. user # Nobody => <<req[s].token, user>> \in earned
    <3>1. SUFFICES ASSUME user # Nobody
                   PROVE  <<req[s].token, user>> \in earned
      OBVIOUS
    <3>2. req[s].token \in Valid
      BY <3>1 DEF GetUser, Valid
    <3>3. PICK e \in earned : e[1] = req[s].token /\ e[2] = user
      BY <3>2 DEF IInv, EarnedOK
    <3>4. e \in Nat \X People
      BY DEF IInv, TypeOK
    <3> QED
      BY <3>3, <3>4
  <2>4. RequestOK(r, drawn, earned)
    BY <1>1, <1>2, <2>2, <2>3 DEF RequestOK
  <2>5. Goes(s, r) /\ UNCHANGED <<db, jar, earned, ended>>
    BY <1>2 DEF AuthBefore
  <2> QED
    BY <2>2, <2>4, <2>5, SessionsStay, NotesAndJars DEF db, AnyRequest
<1>3. CASE ~pass
  BY <1>1, <1>3, WritesType, SessionsStay, NotesAndJars DEF AuthBefore, db
<1> QED
  BY <1>2, <1>3

\* A login asks for a session of the user it names.
LEMMA LoginKeeps ==
  ASSUME IInv, NEW s \in Slots, Login(s)
  PROVE  IInv'
<1>1. req[s] \in Open /\ RequestOK(req[s], drawn, earned) /\ req[s].pc = "handler"
  BY Shapes DEF IInv, RequestsOK, Login, At
<1>2. Writes(req[s]) \in AnyRequest /\ RequestOK(Writes(req[s]), drawn, earned)
  BY <1>1, WritesType
<1>3. CreateSession(req[s]) \in Written
  BY <1>1 DEF CreateSession, Writes, Written, Open, People
<1>4. RequestOK(CreateSession(req[s]), drawn, earned)
  BY <1>1 DEF CreateSession, Writes, RequestOK, Open
<1>5. /\ UNCHANGED <<sessionTokens, userSessions, notes, jar, drawn, earned, ended>>
      /\ Goes(s, Writes(req[s])) \/ Goes(s, CreateSession(req[s]))
  BY DEF Login, AddOrAuthUser, db
<1> QED
  BY <1>2, <1>3, <1>4, <1>5, SessionsStay, NotesAndJars DEF AnyRequest

\* Only a request that Before found a user for gets to log out.
LEMMA LogoutKeeps ==
  ASSUME IInv, NEW s \in Slots, Logout(s)
  PROVE  IInv'
<1> DEFINE r == [Writes(req[s]) EXCEPT !.action = "clear"]
<1>1. /\ req[s] \in Open /\ RequestOK(req[s], drawn, earned)
      /\ req[s].pc = "handler" /\ req[s].route = "logout"
  BY Shapes DEF IInv, RequestsOK, Logout, At
<1>2. r \in Written
  BY <1>1 DEF Writes, Written, Open, People
<1>3. <<req[s].token, req[s].user>> \in earned
  BY <1>1 DEF RequestOK, Skips
<1>4. RequestOK(r, drawn, earned)
  BY <1>1, <1>3 DEF Writes, RequestOK, Open
<1> QED
  BY <1>2, <1>4, SessionsStay, NotesAndJars DEF Logout, db, AnyRequest

\* Only a request that Before found a user for writes a note, one of that user.
LEMMA PostNoteKeeps ==
  ASSUME IInv, NEW s \in Slots, PostNote(s)
  PROVE  IInv'
<1> DEFINE r == [req[s] EXCEPT !.pc = "list"]
<1>1. /\ req[s] \in Open /\ RequestOK(req[s], drawn, earned)
      /\ req[s].pc = "handler" /\ req[s].route = "post"
  BY Shapes DEF IInv, RequestsOK, PostNote, At
<1>2. r \in Open
  BY <1>1 DEF Open
<1>3. <<req[s].token, req[s].user>> \in earned
  BY <1>1 DEF RequestOK, Skips
<1>4. RequestOK(r, drawn, earned)
  BY <1>1 DEF RequestOK, Open
<1>5. /\ Goes(s, r) /\ UNCHANGED <<sessionTokens, userSessions, jar, drawn, earned, ended>>
      /\ notes' = [notes EXCEPT ![req[s].user] = @ \cup {req[s].token}]
  BY DEF PostNote, AddOrEditNote
<1>6. /\ notes' \in [Users -> SUBSET Nat]
      /\ \A u \in Users : \A t \in notes'[u] : <<t, u>> \in earned
  BY <1>1, <1>3, <1>5 DEF IInv, TypeOK, EarnedOK, Open
<1>7. jar' \in [Browsers -> Nat] /\ \A b \in Browsers : jar'[b] <= drawn
  BY <1>5 DEF IInv, TypeOK, Drawn
<1> QED
  BY <1>2, <1>4, <1>5, <1>6, <1>7, SessionsStay DEF AnyRequest

\* The notes that are shown are those of the user that Before found.
LEMMA GetNotesKeeps ==
  ASSUME IInv, NEW s \in Slots, GetNotes(s)
  PROVE  IInv'
<1> DEFINE r == [Writes(req[s]) EXCEPT !.shows = req[s].user]
<1>1. /\ req[s] \in Open /\ RequestOK(req[s], drawn, earned)
      /\ req[s].pc \in {"handler", "list"}
  BY Shapes DEF IInv, RequestsOK, GetNotes, At
<1>2. r \in Written
  BY <1>1 DEF Writes, Written, Open, People
<1>3. RequestOK(r, drawn, earned)
  BY <1>1 DEF Writes, RequestOK, Open
<1> QED
  BY <1>2, <1>3, SessionsStay, NotesAndJars DEF GetNotes, db, AnyRequest

\* A Commit with nothing to do changes no cookie.
LEMMA CommitNothingKeeps ==
  ASSUME IInv, NEW s \in Slots, CommitNothing(s)
  PROVE  IInv'
<1> DEFINE r == Committed(req[s], {})
<1>1. req[s] \in Written /\ RequestOK(req[s], drawn, earned)
  BY Shapes DEF IInv, RequestsOK, CommitNothing, At
<1>2. r \in Done /\ RequestOK(r, drawn, earned)
  BY <1>1 DEF Committed, Done, Written, RequestOK
<1> QED
  BY <1>2, SessionsStay, NotesAndJars DEF CommitNothing, db, AnyRequest

\* The cookie that a browser stores was drawn; an answer that is lost changes nothing.
LEMMA AnswerKeeps ==
  ASSUME IInv, NEW s \in Slots, Respond(s) \/ Lost(s)
  PROVE  IInv'
<1>1. req[s] \in Done /\ RequestOK(req[s], drawn, earned) /\ req[s].pc = "respond"
  BY Shapes DEF IInv, RequestsOK, Respond, Lost, At
<1>2. RequestOK(Idle, drawn, earned) /\ Idle \in AnyRequest
  BY DEF RequestOK, Idle, AnyRequest
<1>3. Goes(s, Idle) /\ UNCHANGED <<sessionTokens, userSessions, notes, drawn, earned, ended>>
  BY DEF Respond, Lost, db
<1>4. jar' \in [Browsers -> Nat] /\ \A b \in Browsers : jar'[b] <= drawn
  <2>1. CASE jar' = jar
    BY <2>1 DEF IInv, TypeOK, Drawn
  <2>2. ASSUME NEW c \in req[s].cookie, jar' = [jar EXCEPT ![req[s].browser] = c]
        PROVE  jar' \in [Browsers -> Nat] /\ \A b \in Browsers : jar'[b] <= drawn
    <3>1. c \in Nat /\ c <= drawn
      BY <1>1, <2>2 DEF Done, RequestOK
    <3> QED
      BY <2>2, <3>1 DEF IInv, TypeOK, Drawn
  <2> QED
    BY <2>1, <2>2 DEF Respond, Lost
<1>5. /\ notes' \in [Users -> SUBSET Nat]
      /\ \A u \in Users : \A t \in notes'[u] : <<t, u>> \in earned
  BY <1>3 DEF IInv, TypeOK, EarnedOK
<1> QED
  BY <1>2, <1>3, <1>4, <1>5, SessionsStay

-----------------------------------------------------------------------------
(* The steps that make or end a session.                                    *)

\* Ending a session takes it out of both maps and leaves the others.
LEMMA ForgetsOne ==
  ASSUME IInv, NEW u \in DOMAIN userSessions, ForgetSession(u)
  PROVE  /\ DOMAIN userSessions' = DOMAIN userSessions \ {u}
         /\ \A v \in DOMAIN userSessions' : userSessions'[v] = userSessions[v]
         /\ Valid' = Valid \ {userSessions[u]}
         /\ \A t \in Valid' : sessionTokens'[t] = sessionTokens[t]
         /\ userSessions' \in [DOMAIN userSessions' -> Nat]
         /\ sessionTokens' \in [Valid' -> People]
         /\ SessionsMatch'
<1>1. userSessions[u] \in Valid
  BY DEF IInv, SessionsMatch
<1>2. /\ userSessions' = [v \in DOMAIN userSessions \ {u} |-> userSessions[v]]
      /\ sessionTokens' = [t \in Valid \ {userSessions[u]} |-> sessionTokens[t]]
  BY DEF ForgetSession, Without, Restrict, Valid
<1>3. /\ DOMAIN userSessions' = DOMAIN userSessions \ {u}
      /\ \A v \in DOMAIN userSessions' : userSessions'[v] = userSessions[v]
      /\ Valid' = Valid \ {userSessions[u]}
      /\ \A t \in Valid' : sessionTokens'[t] = sessionTokens[t]
  BY <1>2 DEF Valid
<1>4. userSessions' \in [DOMAIN userSessions' -> Nat] /\ sessionTokens' \in [Valid' -> People]
  BY <1>2, <1>3 DEF IInv, TypeOK
<1>5. SessionsMatch'
  BY <1>3 DEF IInv, SessionsMatch, GetUser, Valid
<1> QED
  BY <1>3, <1>4, <1>5

\* The session that a logout was sent with, if it is still there, is that of the user
\* whose session is ended.
LEMMA CommitClearKeeps ==
  ASSUME IInv, NEW s \in Slots, CommitClear(s)
  PROVE  IInv'
<1> DEFINE u == req[s].user
           r == Committed(req[s], {NoToken})
<1>1. req[s] \in Written /\ RequestOK(req[s], drawn, earned) /\ <<req[s].token, u>> \in earned
  BY Shapes DEF IInv, RequestsOK, CommitClear, At, RequestOK
<1>2. r \in Done /\ RequestOK(r, drawn, earned)
  BY <1>1 DEF Committed, Done, Written, RequestOK, NoToken, IInv, TypeOK
<1>3. /\ UNCHANGED <<notes, jar, drawn, earned>> /\ Goes(s, r)
      /\ ended' = ended \cup {req[s].token}
  BY DEF CommitClear, DelSession
<1>4. req' \in [Slots -> AnyRequest] /\ RequestsOK'
  BY <1>2, <1>3, RequestMoves DEF AnyRequest, IInv, TypeOK
<1>5. req[s].token \in Valid => u \in DOMAIN userSessions /\ userSessions[u] = req[s].token
  <2>1. SUFFICES ASSUME req[s].token \in Valid
                 PROVE  u \in DOMAIN userSessions /\ userSessions[u] = req[s].token
    OBVIOUS
  <2>2. PICK e \in earned : e[1] = req[s].token /\ e[2] = GetUser(req[s].token)
    BY <2>1 DEF IInv, EarnedOK
  <2>3. e = <<req[s].token, u>>
    BY <1>1, <2>2 DEF IInv, EarnedOK
  <2>4. GetUser(req[s].token) = u
    BY <2>2, <2>3
  <2> QED
    BY <2>1, <2>4 DEF IInv, SessionsMatch, GetUser, Valid
<1>6. /\ userSessions' \in [DOMAIN userSessions' -> Nat]
      /\ sessionTokens' \in [Valid' -> People] /\ Valid' \subseteq Valid \ {req[s].token}
      /\ \A t \in Valid' : sessionTokens'[t] = sessionTokens[t]
      /\ SessionsMatch'
  <2>1. CASE u \in DOMAIN userSessions
    <3>1. ForgetSession(u)
      BY <2>1 DEF CommitClear, DelSession
    <3>2. /\ Valid' = Valid \ {userSessions[u]}
          /\ \A t \in Valid' : sessionTokens'[t] = sessionTokens[t]
          /\ userSessions' \in [DOMAIN userSessions' -> Nat]
          /\ sessionTokens' \in [Valid' -> People]
          /\ SessionsMatch'
      BY <2>1, <3>1, ForgetsOne
    <3> QED
      BY <1>5, <2>1, <3>2
  <2>2. CASE u \notin DOMAIN userSessions
    BY <1>5, <2>2 DEF CommitClear, DelSession, IInv, TypeOK, SessionsMatch, Valid, GetUser
  <2> QED
    BY <2>1, <2>2
<1>7. TypeOK'
  BY <1>1, <1>3, <1>4, <1>6 DEF IInv, TypeOK, Written
<1>8. Drawn'
  BY <1>1, <1>3, <1>6 DEF IInv, Drawn, RequestOK, Written
<1>9. EarnedOK'
  <2>1. \A t \in Valid' : GetUser(t)' = GetUser(t)
    BY <1>6 DEF GetUser, Valid
  <2> QED
    BY <1>3, <1>6, <2>1 DEF IInv, EarnedOK
<1>10. LogoutFinal'
  BY <1>3, <1>6 DEF IInv, LogoutFinal
<1> QED
  BY <1>4, <1>6, <1>7, <1>8, <1>9, <1>10 DEF IInv

\* A user who has no session is given a new token, known to nobody.
LEMMA CommitSetKeeps ==
  ASSUME IInv, NEW s \in Slots, CommitSet(s)
  PROVE  IInv'
<1> DEFINE u == req[s].user
<1>0. PICK token : token = userSessions'[u]
  OBVIOUS
<1> DEFINE r == Committed(req[s], {token})
<1>1. req[s] \in Written /\ RequestOK(req[s], drawn, earned) /\ req[s].name = u
  BY Shapes DEF IInv, RequestsOK, CommitSet, At, RequestOK
<1>2. /\ UNCHANGED <<notes, jar, ended>> /\ Goes(s, r)
      /\ earned' = earned \cup {<<token, u>>}
  BY <1>0, <1>1 DEF CommitSet, GetToken, db
<1>3. u \in People /\ drawn \in Nat
  BY <1>1 DEF Written, IInv, TypeOK
<1>4. /\ drawn' \in Nat /\ drawn <= drawn' /\ token \in Nat /\ token <= drawn'
      /\ Valid \subseteq Valid' /\ Valid' \subseteq Nat
      /\ userSessions' \in [DOMAIN userSessions' -> Nat]
      /\ sessionTokens' \in [Valid' -> People]
      /\ \A t \in Valid : sessionTokens'[t] = sessionTokens[t]
      /\ \A t \in Valid' \ Valid : t = drawn + 1 /\ t <= drawn' /\ sessionTokens'[t] = u
      /\ token \in Valid' /\ sessionTokens'[token] = u
      /\ \A t \in Valid' \ Valid : t = token
      /\ token \in Valid \/ token = drawn + 1
      /\ SessionsMatch'
  <2>1. CASE u \in DOMAIN userSessions
    <3>1. UNCHANGED <<userSessions, sessionTokens, drawn>>
      BY <2>1 DEF CommitSet, GetToken, db
    <3>2. token \in Valid /\ sessionTokens[token] = u
      BY <1>0, <2>1, <3>1 DEF IInv, SessionsMatch, Valid, GetUser
    <3> QED
      BY <1>0, <1>3, <2>1, <3>1, <3>2 DEF IInv, TypeOK, SessionsMatch, Valid, GetUser, Drawn
  <2>2. CASE u \notin DOMAIN userSessions
    <3>1. /\ userSessions' = With(userSessions, u, drawn + 1)
          /\ sessionTokens' = With(sessionTokens, drawn + 1, u)
          /\ drawn' = drawn + 1
      BY <2>2 DEF CommitSet, GetToken, GenToken
    <3>2. drawn + 1 \notin Valid /\ drawn + 1 \in Nat
      BY <1>3 DEF IInv, Drawn, TypeOK
    <3>3. /\ DOMAIN userSessions' = DOMAIN userSessions \cup {u}
          /\ \A v \in DOMAIN userSessions : userSessions'[v] = userSessions[v]
          /\ token = drawn + 1
          /\ userSessions' = [v \in DOMAIN userSessions \cup {u} |->
                               IF v = u THEN drawn + 1 ELSE userSessions[v]]
      BY <1>0, <2>2, <3>1 DEF With
    <3>4. /\ Valid' = Valid \cup {drawn + 1}
          /\ \A t \in Valid : sessionTokens'[t] = sessionTokens[t]
          /\ sessionTokens'[drawn + 1] = u
          /\ sessionTokens' = [t \in Valid \cup {drawn + 1} |->
                                IF t = drawn + 1 THEN u ELSE sessionTokens[t]]
      BY <3>1, <3>2 DEF With, Valid
    <3>5. SessionsMatch'
      BY <2>2, <3>2, <3>3, <3>4 DEF IInv, SessionsMatch, GetUser, Valid
    <3>6. /\ userSessions' \in [DOMAIN userSessions' -> Nat]
          /\ sessionTokens' \in [Valid' -> People]
      BY <1>3, <3>2, <3>3, <3>4 DEF IInv, TypeOK
    <3> QED
      BY <1>3, <3>1, <3>2, <3>3, <3>4, <3>5, <3>6 DEF IInv, TypeOK
  <2> QED
    BY <2>1, <2>2
<1>5. r \in Done /\ RequestOK(r, drawn', earned')
  BY <1>1, <1>2, <1>3, <1>4 DEF Committed, Done, Written, RequestOK
<1>6. req' \in [Slots -> AnyRequest] /\ RequestsOK'
  BY <1>2, <1>4, <1>5, RequestMoves DEF AnyRequest
<1>7. TypeOK'
  BY <1>2, <1>3, <1>4, <1>6 DEF IInv, TypeOK
<1>8. Drawn'
  <2>1. \A t \in Valid' : t <= drawn'
    BY <1>3, <1>4 DEF IInv, Drawn, TypeOK
  <2>2. \A b \in Browsers : jar'[b] <= drawn'
    BY <1>2, <1>3, <1>4 DEF IInv, Drawn, TypeOK
  <2>3. \A e \in earned : e[1] \in Nat
    BY DEF IInv, TypeOK
  <2>4. \A e \in earned' : e[1] <= drawn'
    BY <1>2, <1>3, <1>4, <2>3 DEF IInv, Drawn
  <2>5. \A t \in ended' : t <= drawn'
    BY <1>2, <1>3, <1>4 DEF IInv, Drawn, TypeOK
  <2> QED
    BY <2>1, <2>2, <2>4, <2>5 DEF Drawn
<1>9. EarnedOK'
  <2>1. \A t \in Valid : GetUser(t)' = GetUser(t)
    BY <1>4 DEF GetUser, Valid
  <2>2. GetUser(token)' = u
    BY <1>4 DEF GetUser, Valid
  <2>3. \A t \in Valid' : \E e \in earned' : e[1] = t /\ e[2] = GetUser(t)'
    <3>1. TAKE t \in Valid'
    <3>2. CASE t \in Valid
      BY <1>2, <2>1, <3>2 DEF IInv, EarnedOK
    <3>3. CASE t \notin Valid
      <4>1. t = token /\ GetUser(t)' = u
        BY <1>4, <3>3 DEF GetUser, Valid
      <4>2. <<token, u>> \in earned'
        BY <1>2
      <4> QED
        BY <4>1, <4>2
    <3> QED
      BY <3>2, <3>3
  <2>4. \A e \in earned : e[1] = token => e = <<token, u>>
    <3>1. TAKE e \in earned
    <3>2. HAVE e[1] = token
    <3>3. token \in Valid
      BY <1>3, <1>4, <3>2 DEF IInv, Drawn
    <3>4. GetUser(token) = u
      BY <2>1, <2>2, <3>3
    <3>5. PICK f \in earned : f[1] = token /\ f[2] = u
      BY <3>3, <3>4 DEF IInv, EarnedOK
    <3>6. e = f /\ f \in Nat \X People
      BY <3>2, <3>5 DEF IInv, EarnedOK, TypeOK
    <3> QED
      BY <3>5, <3>6
  <2>5. \A e, f \in earned' : e[1] = f[1] => e = f
    <3>1. \A e, f \in earned : e[1] = f[1] => e = f
      BY DEF IInv, EarnedOK
    <3> QED
      BY <1>2, <2>4, <3>1
  <2>6. \A v \in Users : \A t \in notes'[v] : <<t, v>> \in earned'
    BY <1>2 DEF IInv, EarnedOK
  <2> QED
    BY <2>3, <2>5, <2>6 DEF EarnedOK
<1>10. LogoutFinal'
  <2>1. drawn + 1 \notin ended
    BY <1>3 DEF IInv, Drawn, TypeOK
  <2> QED
    BY <1>2, <1>4, <2>1 DEF IInv, LogoutFinal
<1> QED
  BY <1>4, <1>6, <1>7, <1>8, <1>9, <1>10 DEF IInv

-----------------------------------------------------------------------------
(* The theorems.                                                            *)

\* The invariant holds of an empty database.
LEMMA InitIInv == Init => IInv
<1>1. SUFFICES ASSUME Init PROVE IInv
  OBVIOUS
<1>2. Valid = {} /\ DOMAIN userSessions = {}
  BY <1>1 DEF Init, Valid
<1>3. TypeOK
  BY <1>1, <1>2 DEF Init, TypeOK, NoToken, AnyRequest
<1>4. Drawn /\ EarnedOK /\ SessionsMatch /\ LogoutFinal
  BY <1>1, <1>2 DEF Init, Drawn, EarnedOK, SessionsMatch, LogoutFinal, NoToken
<1>5. RequestsOK
  BY <1>1 DEF Init, RequestsOK, RequestOK, Idle
<1> QED
  BY <1>3, <1>4, <1>5 DEF IInv

\* Every step of the program or of a browser keeps it.
LEMMA NextIInv == IInv /\ [Next]_vars => IInv'
<1>1. SUFFICES ASSUME IInv, [Next]_vars PROVE IInv'
  OBVIOUS
<1>2. ASSUME NEW s \in Slots, NEW b \in Browsers, NEW route \in Routes,
             NEW u \in Users \cup {Nobody}, NEW p \in Passwords, Send(s, b, route, u, p)
      PROVE  IInv'
  BY <1>1, <1>2, SendKeeps DEF People
<1>3. ASSUME NEW s \in Slots, Handle(s)
      PROVE  IInv'
  BY <1>1, <1>3, AuthBeforeKeeps, LoginKeeps, LogoutKeeps, IndexKeeps, PostNoteKeeps,
     GetNotesKeeps, CommitClearKeeps, CommitSetKeeps, CommitNothingKeeps DEF Handle
<1>4. ASSUME NEW s \in Slots, Refused(s) \/ Respond(s) \/ Lost(s)
      PROVE  IInv'
  BY <1>1, <1>4, RefusedKeeps, AnswerKeeps
<1>5. CASE UNCHANGED vars
  <2>1. TypeOK' /\ Drawn'
    BY <1>1, <1>5 DEF IInv, TypeOK, Drawn, Valid, vars, db
  <2>2. EarnedOK' /\ SessionsMatch' /\ LogoutFinal'
    BY <1>1, <1>5 DEF IInv, EarnedOK, SessionsMatch, LogoutFinal, GetUser, Valid, vars, db
  <2>3. RequestsOK'
    BY <1>1, <1>5 DEF IInv, RequestsOK, vars, db
  <2> QED
    BY <2>1, <2>2, <2>3 DEF IInv
<1> QED
  BY <1>1, <1>2, <1>3, <1>4, <1>5 DEF Next

\* The inductive invariant holds of every request and session that the handlers of
\* server.go, the interceptor of auth.go and fakedb.go lead to.
THEOREM Invariant == Spec => []IInv
BY InitIInv, NextIInv, PTL DEF Spec

\* The two maps of the database stay inverse to one another, whatever requests
\* overlap (fakedb.go, DB.GetToken and DB.DelSession).
THEOREM MapsMatch == Spec => []SessionsMatch
<1>1. IInv => SessionsMatch
  BY DEF IInv
<1> QED
  BY <1>1, Invariant, PTL

\* A token that a logout was sent with is not valid again (auth.go, Commit).
THEOREM LogoutStays == Spec => []LogoutFinal
<1>1. IInv => LogoutFinal
  BY DEF IInv
<1> QED
  BY <1>1, Invariant, PTL

\* Sessions stand for users whose password was given, and notes are shown to and
\* written by requests with such a session (server.go, the handlers of notes).
THEOREM NotesStayPrivate == Spec => []NotesPrivate
<1>1. IInv => NotesPrivate
  BY DEF IInv, EarnedOK, RequestsOK, RequestOK, NotesPrivate
<1> QED
  BY <1>1, Invariant, PTL

\* A step that takes a session away is the Commit of a logout of its user.
LEMMA OnlyLogoutEnds ==
  ASSUME IInv, [Next]_vars, NEW t \in Valid, t \notin DOMAIN sessionTokens'
  PROVE  \E s \in Slots :
           /\ req[s].pc = "commit" /\ req'[s].pc = "respond" /\ req[s].action = "clear"
           /\ <<req[s].token, sessionTokens[t]>> \in earned
<1>1. sessionTokens' # sessionTokens
  BY DEF Valid
<1>2. ASSUME NEW s \in Slots, CommitSet(s)
      PROVE  FALSE
  BY <1>2 DEF CommitSet, GetToken, With, db, Valid
<1>3. PICK s \in Slots : CommitClear(s)
  BY <1>1, <1>2 DEF Next, Handle, Send, AuthBefore, Login, AddOrAuthUser, Logout, Index,
     PostNote, AddOrEditNote, GetNotes, CommitNothing, Refused, Respond, Lost, vars, db
<1>4. /\ req[s].pc = "commit" /\ req[s].action = "clear" /\ req[s] \in Written
      /\ RequestOK(req[s], drawn, earned)
  BY <1>3, Shapes DEF IInv, RequestsOK, CommitClear, At
<1>5. req'[s].pc = "respond"
  BY <1>3 DEF CommitClear, Goes, Committed, IInv, TypeOK
<1>6. req[s].user \in DOMAIN userSessions /\ t = userSessions[req[s].user]
  BY <1>1, <1>3 DEF CommitClear, DelSession, ForgetSession, Without, Restrict, Valid
<1>7. sessionTokens[t] = req[s].user
  BY <1>6 DEF IInv, SessionsMatch, GetUser, Valid
<1> QED
  BY <1>4, <1>5, <1>7 DEF RequestOK

\* A session ends only in the Commit of a logout sent with a session of its user
\* (fakedb.go, DB.DelSession).
THEOREM SessionsEndByLogout == Spec => OnlyOwnLogoutEnds
<1>1. IInv /\ [Next]_vars =>
        [\A t \in Valid : t \notin DOMAIN sessionTokens' =>
           \E s \in Slots :
             /\ req[s].pc = "commit" /\ req'[s].pc = "respond" /\ req[s].action = "clear"
             /\ <<req[s].token, sessionTokens[t]>> \in earned]_vars
  BY OnlyLogoutEnds
<1> QED
  BY <1>1, Invariant, PTL DEF Spec, OnlyOwnLogoutEnds
=============================================================================
