------------------------------ MODULE Sessions ------------------------------
(***************************************************************************)
(* Logins, logouts and notes of the sample application: requests of several *)
(* browsers handled at the same time, each by its own goroutine, against    *)
(* the database in storage/fakedb.go.  A method of the database holds its   *)
(* lock and is one step; between them anything may happen.                  *)
(*                                                                         *)
(* The interceptor secure/auth finds the user of the session cookie in its  *)
(* Before, the handler asks for a session or for its end, and the Commit of *)
(* the interceptor carries that out.  What the other interceptors refuse,   *)
(* before auth or after it, is answered with Commit called all the same.    *)
(***************************************************************************)
EXTENDS Naturals, Functions

CONSTANTS
  Users, Passwords, Browsers,
  Slots,       \* requests handled at the same time
  MaxTokens,   \* bound on the session tokens that are drawn
  Nobody       \* no user: the "" of the code

ASSUME SessionsAssumption == Nobody \notin Users /\ MaxTokens \in Nat

Tokens  == 1..MaxTokens
NoToken == 0

VARIABLES
  credentials,    \* user -> password
  sessionTokens,  \* token -> user
  userSessions,   \* user -> token
  notes,          \* [Users -> tokens presented by the requests that wrote a note]
  drawn,          \* tokens drawn so far; the next is a new one
  jar,            \* [Browsers -> session cookie]
  req,            \* [Slots -> the request that is being handled]
  earned,         \* history: <<token, user>>: given to a request with user's password
  ended           \* history: tokens presented by logouts that have committed

db   == <<credentials, sessionTokens, userSessions, notes, drawn>>
vars == <<db, jar, req, earned, ended>>

Routes == {"notes", "post", "logout", "login", "index"}
Skips  == {"login", "index"}    \* registered with auth.Skip

Idle == [pc |-> "idle"]

\* "before": until auth's Before.  "handler": ServeHTTP.  "list": after the note was
\* stored.  "commit": the response was written.  "respond": committed.
Request(b, route, name, password) ==
  [pc |-> "before", browser |-> b, route |-> route, name |-> name, password |-> password,
   token |-> jar[b], user |-> Nobody, shows |-> Nobody]

Init ==
  /\ credentials = <<>> /\ sessionTokens = <<>> /\ userSessions = <<>>
  /\ notes = [u \in Users |-> {}] /\ drawn = 0
  /\ jar = [b \in Browsers |-> NoToken]
  /\ req = [s \in Slots |-> Idle]
  /\ earned = {} /\ ended = {}

-----------------------------------------------------------------------------
(* The database.                                                            *)

GetUser(token) == IF token \in DOMAIN sessionTokens THEN sessionTokens[token] ELSE Nobody

\* A token drawn from the user's name alone.
SameToken(user) == IF \E e \in earned : e[2] = user
                     THEN (CHOOSE e \in earned : e[2] = user)[1] ELSE drawn + 1

\* A random token is one that nobody has.
GenToken(user)  == drawn + 1

Without(f, x) == Restrict(f, DOMAIN f \ {x})
With(f, x, y) == [z \in DOMAIN f \cup {x} |-> IF z = x THEN y ELSE f[z]]

\* A login that renews the session.
RenewToken(user) ==
  /\ userSessions'  = With(userSessions, user, GenToken(user))
  /\ sessionTokens' = With(IF user \in DOMAIN userSessions
                             THEN Without(sessionTokens, userSessions[user]) ELSE sessionTokens,
                           GenToken(user), user)
  /\ drawn' = drawn + 1
  /\ UNCHANGED <<credentials, notes>>

GetToken(user) ==
  IF user \in DOMAIN userSessions THEN UNCHANGED db
  ELSE /\ userSessions'  = With(userSessions, user, GenToken(user))
       /\ sessionTokens' = With(sessionTokens, GenToken(user), user)
       /\ drawn' = drawn + 1
       /\ UNCHANGED <<credentials, notes>>

ForgetUserOnly(user) ==
  /\ userSessions' = Without(userSessions, user)
  /\ UNCHANGED sessionTokens

ForgetSession(user) ==
  /\ userSessions' = Without(userSessions, user)
  /\ sessionTokens' = Without(sessionTokens, userSessions[user])

DelSession(user) ==
  /\ IF user \in DOMAIN userSessions
       THEN ForgetSession(user)
       ELSE UNCHANGED <<userSessions, sessionTokens>>
  /\ UNCHANGED <<credentials, notes, drawn>>

\* The first password given for a name is the password of that user.
Authenticates(user, password) ==
  user \in DOMAIN credentials => credentials[user] = password

AddOrAuthUser(user, password) ==
  /\ credentials' = With(credentials, user, password)
  /\ UNCHANGED <<sessionTokens, userSessions, notes, drawn>>

AddOrEditNote(user, token) ==
  /\ notes' = [notes EXCEPT ![user] = @ \cup {token}]
  /\ UNCHANGED <<credentials, sessionTokens, userSessions, drawn>>

-----------------------------------------------------------------------------
(* A request.                                                               *)

At(s, place) == req[s].pc = place

\* What there is left of a request once its response is written, and once it has
\* been committed.
Writes(r) == [pc |-> "commit", browser |-> r.browser, token |-> r.token, user |-> r.user,
              action |-> "none", name |-> Nobody, shows |-> r.shows]
Committed(r, cookie) == [pc |-> "respond", browser |-> r.browser, token |-> r.token,
                         shows |-> r.shows, cookie |-> cookie]
Goes(s, r)   == req' = [req EXCEPT ![s] = r]

\* Only a login names a user.
Send(s, b, route, name, password) ==
  /\ At(s, "idle")
  /\ (route = "login") = (name # Nobody)
  /\ Goes(s, Request(b, route, name, password))
  /\ UNCHANGED <<db, jar, earned, ended>>

\* Another interceptor refuses the request, before auth has seen it or after.
Refused(s) ==
  /\ At(s, "before") \/ At(s, "handler")
  /\ Goes(s, Writes(req[s]))
  /\ UNCHANGED <<db, jar, earned, ended>>

AuthBefore(s) ==
  /\ At(s, "before")
  /\ LET user == GetUser(req[s].token)
         pass == user # Nobody \/ req[s].route \in Skips
     IN  Goes(s, IF pass THEN [req[s] EXCEPT !.user = user, !.pc = "handler"]
                         ELSE Writes(req[s]))
  /\ UNCHANGED <<db, jar, earned, ended>>

\* auth.CreateSession: the user that logs in takes the place of the one that the
\* cookie stood for.
KeepsUser(r)     == [Writes(r) EXCEPT !.action = "set", !.name = r.name]
CreateSession(r) == [Writes(r) EXCEPT !.action = "set", !.name = r.name, !.user = r.name]

Login(s) ==
  /\ At(s, "handler") /\ req[s].route = "login"
  /\ LET r == req[s]
     IN  \/ /\ Authenticates(r.name, r.password)
            /\ AddOrAuthUser(r.name, r.password)
            /\ Goes(s, CreateSession(r))
         \/ /\ ~Authenticates(r.name, r.password)
            /\ UNCHANGED db
            /\ Goes(s, Writes(r))
  /\ UNCHANGED <<jar, earned, ended>>

Logout(s) ==
  /\ At(s, "handler") /\ req[s].route = "logout"
  /\ Goes(s, [Writes(req[s]) EXCEPT !.action = "clear"])
  /\ UNCHANGED <<db, jar, earned, ended>>

Index(s) ==
  /\ At(s, "handler") /\ req[s].route = "index"
  /\ Goes(s, Writes(req[s]))
  /\ UNCHANGED <<db, jar, earned, ended>>

PostNote(s) ==
  /\ At(s, "handler") /\ req[s].route = "post"
  /\ AddOrEditNote(req[s].user, req[s].token)
  /\ Goes(s, [req[s] EXCEPT !.pc = "list"])
  /\ UNCHANGED <<jar, earned, ended>>

GetNotes(s) ==
  /\ At(s, "list") \/ (At(s, "handler") /\ req[s].route = "notes")
  /\ Goes(s, [Writes(req[s]) EXCEPT !.shows = req[s].user])
  /\ UNCHANGED <<db, jar, earned, ended>>

-----------------------------------------------------------------------------
(* auth's Commit, and the answer.                                           *)

CommitClear(s) ==
  /\ At(s, "commit") /\ req[s].action = "clear"
  /\ DelSession(req[s].user)
  /\ ended' = ended \cup {req[s].token}
  /\ Goes(s, Committed(req[s], {NoToken}))
  /\ UNCHANGED <<jar, earned>>

\* No token is drawn past the bound.
CommitSet(s) ==
  /\ At(s, "commit") /\ req[s].action = "set"
  /\ req[s].user \in DOMAIN userSessions \/ drawn < MaxTokens
  /\ GetToken(req[s].user)
  /\ earned' = earned \cup {<<userSessions'[req[s].user], req[s].name>>}
  /\ Goes(s, Committed(req[s], {userSessions'[req[s].user]}))
  /\ UNCHANGED <<jar, ended>>

CommitNothing(s) ==
  /\ At(s, "commit") /\ req[s].action = "none"
  /\ Goes(s, Committed(req[s], {}))
  /\ UNCHANGED <<db, jar, earned, ended>>

\* The browser stores the cookie of the answer.
Respond(s) ==
  /\ At(s, "respond")
  /\ \/ req[s].cookie = {} /\ jar' = jar
     \/ \E c \in req[s].cookie : jar' = [jar EXCEPT ![req[s].browser] = c]
  /\ Goes(s, Idle)
  /\ UNCHANGED <<db, earned, ended>>

\* The answer is lost with its connection.
Lost(s) ==
  /\ At(s, "respond")
  /\ Goes(s, Idle)
  /\ UNCHANGED <<db, jar, earned, ended>>

Handle(s) ==
  \/ AuthBefore(s) \/ Login(s) \/ Logout(s) \/ Index(s) \/ PostNote(s) \/ GetNotes(s)
  \/ CommitClear(s) \/ CommitSet(s) \/ CommitNothing(s)

Next == \E s \in Slots :
  \/ \E b \in Browsers, route \in Routes, u \in Users \cup {Nobody}, p \in Passwords :
       Send(s, b, route, u, p)
  \/ Handle(s) \/ Refused(s) \/ Respond(s) \/ Lost(s)

Spec == Init /\ [][Next]_vars

-----------------------------------------------------------------------------
(* Properties.                                                              *)

Valid == DOMAIN sessionTokens

\* The two maps of the database are inverse to one another, whatever logins and
\* logouts of one user overlap: a session that one of them forgets and the other
\* still finds could not be ended any more.
SessionsMatch ==
  /\ \A u \in DOMAIN userSessions : userSessions[u] \in Valid /\ GetUser(userSessions[u]) = u
  /\ \A t \in Valid : sessionTokens[t] \in DOMAIN userSessions /\ userSessions[GetUser(t)] = t

\* The token that a logout was sent with is dead once its Commit has run, and stays
\* so whatever logins follow or were under way.
LogoutFinal == ended \cap Valid = {}

\* A session stands for a user whose password was given by the request that got its
\* token, also if that request carried the cookie of somebody else; a user's notes
\* are shown to, and written by, requests with such a token and no others.
NotesPrivate ==
  /\ \A t \in Valid : \E e \in earned : e[1] = t /\ e[2] = GetUser(t)
  /\ \A e, f \in earned : e[1] = f[1] => e = f
  /\ \A s \in Slots : req[s].pc # "idle" /\ req[s].shows # Nobody =>
       <<req[s].token, req[s].shows>> \in earned
  /\ \A u \in Users : \A t \in notes[u] : <<t, u>> \in earned

\* A session ends only in the Commit of a logout sent with a session of the same
\* user; a login, a refused request or somebody else's logout ends none.
OnlyOwnLogoutEnds ==
  [][\A t \in Valid : t \notin DOMAIN sessionTokens' =>
       \E s \in Slots :
         /\ req[s].pc = "commit" /\ req'[s].pc = "respond" /\ req[s].action = "clear"
         /\ <<req[s].token, sessionTokens[t]>> \in earned]_vars
=============================================================================
