----------------------------- MODULE Templates -----------------------------
(***************************************************************************)
(* A template from its files to the pages of concurrent requests: loaded    *)
(* and rewritten once (htmlinject), then written by handlers of several     *)
(* ServeMuxes, given its functions by the Commits of csp and xsrfhtml, and  *)
(* executed by the dispatcher.                                              *)
(*                                                                         *)
(* Functions are known by the request they answer for.  Beside CSPNonce and *)
(* XSRFToken a handler may pass a function of the program's, in a FuncMap   *)
(* of its own or in one that all requests share.                            *)
(***************************************************************************)
EXTENDS HtmlInject, FiniteSets

CONSTANTS
  Loads,      \* calls of LoadFiles: [root, files], the name of the template it is
              \* given, NoName for nil, and a sequence of files [name, text]
  Disables,   \* LoadConfigs
  Muxes,      \* what the interceptors of the ServeMuxes provide
  Requests,   \* numbers of requests
  NoName

\* What LoadFiles is given: names, and texts as the tokenizer cuts them.
ASSUME LoadsAreTexts ==
  \A load \in Loads : load.files \in Seq([name : STRING, text : Seq(Tokens)])

VARIABLES
  files,      \* files LoadFiles has still to load
  source,     \* history: name -> text before rewriting of the file that counts
  disabled,   \* the LoadConfig
  root,       \* name of the template that is executed for the name ""
  parsed,     \* name -> rewritten text
  executed,   \* the template itself, not a clone, was executed
  phase,      \* "loading", "serving", "failed", or "dead" after a fatal error
  shared,     \* the FuncMap of the program: function -> request
  req         \* [Requests -> request]

tplVars == <<files, source, disabled, root, parsed, executed>>
vars    == <<tplVars, phase, shared, req>>

OwnFunc == "own"

\* m with v under key k, the way a Go map takes it.
Put(m, k, v) == [x \in DOMAIN m \cup {k} |-> IF x = k THEN v ELSE m[x]]

\* A request before its handler writes.  mux: what its interceptors provide; todo:
\* those of them that have not committed; funcs: the FuncMap, if not shared; bound:
\* the functions of the clone; page: what was sent.
Arriving(mux) == [pc |-> "handler", mux |-> mux, todo |-> mux, name |-> NoName,
                  map |-> "none", funcs |-> <<>>, bound |-> <<>>, page |-> <<>>]

Init ==
  /\ \E load \in Loads : files = load.files /\ root = load.root
  /\ source = <<>> /\ parsed = <<>> /\ executed = FALSE
  /\ disabled \in Disables
  /\ phase = IF files = <<>> THEN "failed" ELSE "loading"
  /\ shared = Put(<<>>, OwnFunc, 0)
  /\ req \in [Requests -> {Arriving(mux) : mux \in Muxes}]

-----------------------------------------------------------------------------
(* LoadFiles, and loadFilesFS, which is the same on an embedded file system. *)

\* Parsing nothing but white space leaves a template of that name as it is.
Blank(text)  == \A k \in DOMAIN text : text[k].kind = "space"
Ignored(f)   == f.name \in DOMAIN parsed /\ Blank(f.text)

LoadFile ==
  /\ phase = "loading"
  /\ LET f == Head(files)
     IN  /\ root' = IF root = NoName THEN f.name ELSE root
         /\ IF Ignored(f)
              THEN UNCHANGED <<parsed, source>>
              ELSE /\ parsed' = Put(parsed, f.name, LoadTrustedTemplate(f.text, disabled))
                   /\ source' = Put(source, f.name, f.text)
  /\ files' = Tail(files)
  /\ phase' = IF files' = <<>> THEN "serving" ELSE "loading"
  /\ UNCHANGED <<disabled, executed, shared, req>>

\* A file that cannot be read: the program gets nil, and stops.
ReadFails ==
  /\ phase = "loading"
  /\ phase' = "failed"
  /\ UNCHANGED <<tplVars, shared, req>>

-----------------------------------------------------------------------------
(* A request.                                                               *)

At(i, place) == phase = "serving" /\ req[i].pc = place
Goes(i, r)   == req' = [req EXCEPT ![i] = r]

\* ExecuteTemplate passes nil, ExecuteTemplateWithFuncs what it is given; the name
\* is "" (here NoName) or one of an associated template.
WriteTemplate(i, name, map) ==
  /\ At(i, "handler")
  /\ Goes(i, [req[i] EXCEPT !.pc = "commit", !.name = name, !.map = map,
                            !.funcs = IF map = "own" THEN Put(<<>>, OwnFunc, i) ELSE <<>>])
  /\ UNCHANGED <<tplVars, phase, shared>>

\* Commit of csp or of xsrfhtml, which makes a map if there is none.
Provides(i, f) ==
  /\ At(i, "commit") /\ f \in req[i].todo
  /\ IF req[i].map = "shared"
       THEN /\ shared' = Put(shared, f, i)
            /\ Goes(i, [req[i] EXCEPT !.todo = @ \ {f}])
       ELSE /\ UNCHANGED shared
            /\ Goes(i, [req[i] EXCEPT !.todo = @ \ {f}, !.funcs = Put(@, f, i)])
  /\ UNCHANGED <<tplVars, phase>>

FuncMap(i) == IF req[i].map = "shared" THEN shared ELSE req[i].funcs

Text(i) == IF req[i].name = NoName THEN root ELSE req[i].name

\* Every function of a text is called when it is executed; one that was not replaced
\* panics.
Calls(text) == UNION {{text[k].added[j] : j \in DOMAIN text[k].added} : k \in DOMAIN text}
Executes(i, funcs) == Text(i) \in DOMAIN parsed /\ Calls(parsed[Text(i)]) \subseteq DOMAIN funcs

Rendered(text, funcs) ==
  [k \in DOMAIN text |->
     [text[k] EXCEPT !.added = [j \in DOMAIN @ |-> <<@[j], funcs[@[j]]>>]]]

Execute(i, funcs) ==
  Goes(i, IF Executes(i, funcs)
            THEN [req[i] EXCEPT !.pc = "done", !.page = Rendered(parsed[Text(i)], funcs)]
            ELSE [req[i] EXCEPT !.pc = "panicked"])

ExecuteDirectly(i) ==
  /\ At(i, "commit") /\ req[i].todo = {}
  /\ DOMAIN FuncMap(i) = {}
  /\ executed' = (executed \/ Text(i) \in DOMAIN parsed)
  /\ Execute(i, <<>>)
  /\ UNCHANGED <<files, source, disabled, root, parsed, phase, shared>>

\* A template that was executed cannot be cloned.
CloneFails(i) ==
  /\ At(i, "commit") /\ req[i].todo = {}
  /\ DOMAIN FuncMap(i) # {} /\ executed
  /\ Goes(i, [req[i] EXCEPT !.pc = "panicked"])
  /\ UNCHANGED <<tplVars, phase, shared>>

CloneWithFuncs(i) ==
  /\ At(i, "commit") /\ req[i].todo = {}
  /\ DOMAIN FuncMap(i) # {} /\ ~executed
  /\ Goes(i, [req[i] EXCEPT !.pc = "execute", !.bound = FuncMap(i)])
  /\ UNCHANGED <<tplVars, phase, shared>>

\* Without a clone: the functions are those that were given last.
ExecuteOriginal(i) ==
  /\ At(i, "execute")
  /\ LET last == CHOOSE j \in Requests :
                   /\ req[j].pc \in {"execute", "done"}
                   /\ \A k \in Requests : req[k].pc \in {"execute", "done"} => k <= j
     IN  Execute(i, req[last].bound)
  /\ UNCHANGED <<tplVars, phase, shared>>

\* The clone's execution marks the template.
ExecuteMarks(i) ==
  /\ At(i, "execute")
  /\ Execute(i, req[i].bound)
  /\ executed' = TRUE
  /\ UNCHANGED <<files, source, disabled, root, parsed, phase, shared>>

ExecuteClone(i) ==
  /\ At(i, "execute")
  /\ Execute(i, req[i].bound)
  /\ UNCHANGED <<tplVars, phase, shared>>

\* Go may stop the program when a map is written while another goroutine uses it.
ConcurrentMapWrites(i, j) ==
  /\ i # j /\ req[i].map = "shared" /\ req[j].map = "shared"
  /\ At(i, "commit") /\ At(j, "commit") /\ req[i].todo # {}
  /\ phase' = "dead"
  /\ UNCHANGED <<tplVars, shared, req>>

Next ==
  \/ LoadFile \/ ReadFails
  \/ \E i \in Requests :
       \/ \E name \in DOMAIN parsed \cup {NoName}, map \in {"none", "own", "shared"} :
            WriteTemplate(i, name, map)
       \/ \E f \in {CSPNonce, XSRFToken} : Provides(i, f)
       \/ ExecuteDirectly(i) \/ CloneFails(i) \/ CloneWithFuncs(i) \/ ExecuteClone(i)
       \/ \E j \in Requests : ConcurrentMapWrites(i, j)

Spec == Init /\ [][Next]_vars

-----------------------------------------------------------------------------
(* Properties.                                                              *)

\* What needs the nonce: scripts, styles, preloaded scripts.  Of an attribute given
\* twice the last value counts, as in the code; browsers take the first.
NeedsNonce(token) ==
  /\ token.kind \in {"start", "selfclosing"}
  /\ \/ token.tag \in {"script", "style"}
     \/ token.tag = "link" /\ ValueOf(token, "rel") = "preload" /\ ValueOf(token, "as") = "script"

IsForm(token) == token.kind \in {"start", "selfclosing"} /\ token.tag = "form"

\* A page without what was put into it.
Bare(page) ==
  FlattenSeq([k \in DOMAIN page |->
    IF page[k].kind = "node" THEN <<>> ELSE <<[page[k] EXCEPT !.added = <<>>]>>])

\* The page of a request whose handler shares its FuncMap with nobody: in order, all
\* that was in the last file of that name (a blank one replaces none), with the nonce
\* of this very request in every tag that needs one and nowhere else, and as first
\* child of every form the token of this request, and none elsewhere.
PageIsOwn ==
  \A i \in Requests : req[i].pc = "done" /\ req[i].map # "shared" =>
    LET page == req[i].page
    IN  /\ Bare(page) = source[Text(i)]
        /\ \A k \in DOMAIN page : page[k].kind # "node" =>
             page[k].added = IF NeedsNonce(page[k]) /\ "csp" \notin disabled
                               THEN <<<<CSPNonce, i>>>> ELSE <<>>
        /\ \A k \in DOMAIN page : page[k].kind = "node" =>
             /\ k > 1 /\ IsForm(page[k - 1]) /\ "xsrf" \notin disabled
             /\ page[k].added = <<<<XSRFToken, i>>>>
        /\ "xsrf" \notin disabled => \A k \in DOMAIN page :
             IsForm(page[k]) => k < Len(page) /\ page[k + 1].kind = "node"

Asks(i) == IF Text(i) \in DOMAIN parsed THEN Calls(parsed[Text(i)]) ELSE {}

\* A page fails only if it asks for a function that no interceptor of its ServeMux
\* provides, or does not exist, or a request without any function was answered from
\* the same template before it.  Concurrent requests do not make one another fail, and
\* neither do functions that the template has no name for: the comment of Write
\* (default_dispatcher.go:39) says that defining one panics, but it does not.
PagesSurvive ==
  \A i \in Requests : req[i].pc = "panicked" =>
    \/ Text(i) \notin DOMAIN parsed
    \/ ~(Asks(i) \subseteq req[i].mux)
    \/ \E j \in Requests \ {i} :
         req[j].pc \in {"done", "panicked"} /\ req[j].mux = {} /\ req[j].map = "none"
=============================================================================
