# go-safeweb in TLA+

Specifications of go-safeweb, written from its Go code: what happens to one request,
with arbitrary interceptors and with the plugins of the repository; how muxes are
configured and handlers registered; how servers start and stop; how the form of a request
is parsed and read; how templates are rewritten and shared; the sessions of the sample
application; the report collector and the linter. TLC checks them on small instances;
TLAPS proves nearly all of their safety for every value of the constants: a request
through any number of interceptors, arbitrary ones or the repository's in any order, any
number of servers, requests, forms, templates, sessions and configuration files.
`PROJECT.json` says which lines every definition models.

## 1. The system

A program makes a `ServeMuxConfig`, installs interceptors, turns it into a `ServeMux`,
registers handlers and gives it to a `Server`. For every request net/http calls
`ServeMux.ServeHTTP`, which picks a `registeredHandler` and its `handlerConfig` and
runs `processRequest`. That makes a `flight`, the `ResponseWriter` that interceptors
and handler see, and runs: the `Before` of each interceptor in order until one writes,
the handler, and inside the first `Write` or `WriteError` the `Commit` of every
interceptor in reverse order, then the `Dispatcher`, which alone touches the
`http.ResponseWriter`. A panic clears the headers and goes on to net/http.

| Component | State | Operations | What makes it correct |
|---|---|---|---|
| flight (`flight.go`) | `written`, the header, the place in chain and commit loop | `Write`, `WriteError`, `Header`, `AddCookie`, return, panic | one response at most, after all commits; nothing runs after it; every request ends; a crash leaves no headers |
| header (`header.go`) | wrapped map, claimed names, the closures handed out | `Claim`, its closure, `Set`, `Add`, `Del`, `addCookie` | a claimed name belongs to its claimant; cookies are only appended |
| dispatcher (`default_dispatcher.go`) | none | `Write`, `Error` | a body leaves under the Content-Type of its kind |
| mux (`mux.go`, `migration.go`) | interceptors of a config, routes, handlers per method | `Intercept`, `HandleMethodNotAllowed`, `Clone`, `Mux`, `Handle`, serving | requests run through the interceptors the mux was made with; a registration sticks |
| dev mode (`dev.go`) | two globals under a lock | `UseLocalDev`, `IsLocalDev`, freeze | a request sees one mode |
| server (`server.go`) | `started`, `srv`, exported fields | `Serve` and variants, `Shutdown`, `Close`, `Clone` | one start; a stop is final, and only its own |
| request (`incoming_request.go`) | two `sync.Once`s shared by copies, parsed forms of each copy | `PostForm`, `MultipartForm`, `WithContext`, `WithStrippedURLPrefix` | one parse; what was parsed is there for everybody after |
| form (`form.go`) | values, last error | typed readers, `Slice`, `Err` | all that was asked for is handed over, or there is an error |
| file server (`fileserver.go`) | header and status of the writer | `WriteHeader`, `Write` | one response; of a refused file no byte is sent |
| responses, templates (`response.go`, `default_dispatcher.go`) | a template shared by requests, the FuncMap of a response | `ExecuteTemplate` and variants, clone, execution | a page has the nonce and token of its own request |
| csp, xsrf, hsts, coop, reporting, static headers (`plugins/*`) | per request: nonce, claimed headers, cookie | `Before`, `Commit` | what `Commit` needs, `Before` left; no interceptor undoes another's headers |
| cors, fetchmetadata, framing, hostcheck | none | decision in `Before` | no handler runs for a request that has to be stopped; an origin is named only to itself |
| htmlinject | none | loading and rewriting of templates | every script and form gets its nonce and token, nothing else changes |
| collector | none | a request of violation reports | every good report arrives once |
| bancheck | bans read from files | check of imports and functions | a use is reported unless that ban exempts the package |
| sample application | users, sessions, notes; the cookies of browsers | login, logout, notes | the session maps agree; a logout is final; notes are private |
| safesql | none | wrappers | a property of Go's types |
| test harness | channel and pipe | `Accept`, `Close`, `MakeRequest` | nobody waits for ever |

Components interact by calls on the goroutine of the request. Shared state across
goroutines is the mux (written by `Handle`, read by requests), the dev mode, the
fields of `Server`, templates and shared FuncMaps, and the sample application's database.
Inside a request the plugins share the headers with their claims, the `FlightValues` of its
context, and the FuncMap of the response.

What is hard: panics at any place with half of the work done; the write that starts a
commit phase on top of arbitrary user code; `Handle` that panics after a first
assignment; slices and pointers shared by shallow copies; starters and stoppers of a
server without a lock; parse-once functions whose first outcome later callers do not
see; an interceptor in the middle of the chain that answers, so that `Commit`s run whose
`Before` did not; templates that are cloned by one request while another executes them;
sessions that are made and ended in the commit phase, a while after they were asked for. `PROJECT.json` lists each at its line under `hazards`.

## 2. Modules

| Module | Models | Built on |
|---|---|---|
| `Header` | `header.go`, as actions on the headers of one flight | |
| `Dispatcher` | `default_dispatcher.go`, as the set of outcomes of one call | |
| `OneResponse` | abstract: a request is answered once, after all commits, or fails | |
| `Flight` | `flight.go` with arbitrary interceptors and handler | `Header`, `Dispatcher`, refines `OneResponse` |
| `FlightProofs` | theorems about `Flight` | `Flight` |
| `Mux` | `mux.go`, `migration.go`, `dev.go` | |
| `MuxProofs` | theorems about `Mux` | `Mux` |
| `Server` | `server.go` | relies on `Flight` for "handlers end" |
| `ServerProofs` | theorems about `Server` | `Server` |
| `Request` | `incoming_request.go` and `xsrfhtml`'s `Before` | |
| `RequestProofs` | theorems about `Request` | `Request` |
| `Program` | a flight whose code is given: calls, `FlightValues`, FuncMap, `fileserver.go` | `Flight` |
| `Plugins` | `plugins/*`: the calls that each `Before` and `Commit` makes for a request | `Program` |
| `Stack` | the stacks of `defaults`, the sample application and the echo example, and handlers | `Plugins`, refines `Flight` |
| `StackProofs` | theorems about `Stack`, `Plugins` and `Program` | `Stack`, `FlightProofs` |
| `Sessions` | `storage/fakedb.go`, `secure/auth`, the handlers of `server.go` | |
| `SessionsProofs` | theorems about `Sessions` | `Sessions` |
| `HtmlInject` | `htmlinject.go`: rewriting, as operators on tokens | |
| `Templates` | loading, sharing, cloning and executing a template | `HtmlInject` |
| `TemplatesProofs` | theorems about `Templates` | `Templates` |
| `Form`, `Collector`, `Bancheck` | `form.go`; the collector's handler; the checks of bancheck | |
| `Decisions` | the three before it, one at a time | |
| `DecisionsProofs` | theorems about `Form`, `Collector`, `Bancheck` | `Decisions` |
| `MC*` | constants of the runs | |

**Flight.** `pc` says where the goroutine is: in user code of actor `cur` (interceptor
1..N or handler N+1), in the commit loop at `commitAt`, unwinding a panic, returned or
crashed. A user step is any call the types allow: header methods, `Write` of any kind of
response, `WriteError`, a panic (of its own, or of a framework method that refuses), a
return. `Commit` gets a `ResponseHeadersWriter`, so it can touch headers but not write.
With `Recovers` the code may also recover a panic below it and go on, which is what
makes "written but not dispatched" observable. `wire` is what the first response header
on the connection was and who sent it. The loop counter stays in `commitAt` after the
loop. `FlightValues` is in `Program`.

**Header.** `setters[a]` are the names for which actor `a` got a closure. `promised` is
history: what the claimant last left in the name. Names are distinct canonical keys. The
methods are enabled when they do not panic; the panic is `UserPanic`.

**Dispatcher.** Data and templates are abstract: kinds that encode may fail, before or
after the first byte, and redirects and errors with a code that is none, after their
headers are set. It writes the raw headers, so it is not bound by claims; its three
names are exempt in `ClaimsHonoured` and pinned down by `BodyTyped` instead.

**Mux.** `append` is modelled with slices over arrays, so that two slices over one array
can disturb each other. `Handle` is five steps (look for the pattern, enter it, route it,
configure, store), of which the last three may panic, and the program may recover and call
again. A request arrives between any two of them. A request that reads the map of methods
while it is written, or a `RegisteredHandler` that reads the map of patterns while one is
entered, may make the Go runtime end the program (`crashed`). The configurations of a
handler are a list, in which one may be twice. Interceptors may be installed and
`UseLocalDev` called at any time. One registering goroutine.

**Server.** `Serve`, `ListenAndServe` and their TLS variants are one call; every read and
write of `started` and `srv` is a step. A starting goroutine sees its own writes in order.
A stopping goroutine is ordered after nothing: reading `started` or `srv` it may get the
zero value although it was set (`Racy`). net/http's server is what `server.go` uses of it:
closed, the goroutines serving, requests in flight.

**Request.** Each `IncomingRequest` points to `sync.Once`s (`once`, kept by copies) and to
an `http.Request` of its own (`forms`). What net/http's parsers leave is external: a broken
body leaves a part, a bad query string fails with the whole form present.
`xsrfhtml`'s `Before` is spelled out since it parses the form before the handler does.

**Program.** A plugin or handler is a script: the calls on the `ResponseWriter` it will
make, chosen when it is called, as a function of the request. Every step takes one call
off the script and takes the step of `Flight` that this call is; `frame` keeps the rest of
a caller's script while commits run. `Put` and the FuncMap change no variable of `Flight`.
`http.FileServer` is external: a script of calls to the `ResponseWriter` that
`fileserver.go` gives it, whose `WriteHeader` and `Write` turn into calls on the flight.

**Plugins.** A request is a record of what the plugins look at: method, host, TLS, the
Fetch Metadata headers, `Origin`, the xsrf cookie and the token sent with it, the session,
the preflight headers, the configuration of the handler, and, for the properties only, who
made the browser send it (`sender`). `BrowserAssumption` is what is assumed of browsers:
of what a page can cause, only a script carries `X-Cors`, and then an `Origin`; the type of
a form is any, one with a boundary included. A browser that knows no Fetch Metadata sends
none. The
text of a policy or header is one value, as far as a browser would tell two texts apart;
tokens are known by the cookie they are tied to, and cryptography and random sources are
not modelled. `Shares` (in `Header`) says whose closures an actor may use, since the csp
interceptors hand theirs on through `FlightValues`; empty for arbitrary code.

**Stack.** `BeforeOf` and `CommitOf` are the scripts of the installed interceptors; the
stack, the request and the dev mode stay what they are. An interceptor "own" stands for
one a program adds itself, which may write a page, claim `Vary`, add to it, or panic.

**Sessions.** A request of a browser is a record that moves through `before`, `handler`,
`commit`, `respond`. Every database method holds the lock throughout and is one step. The
interceptors around `auth` may refuse a request before or after `auth`, which is also how a
form without its fields ends. A new token is one nobody has. `earned` and `ended` are
history: which token was given to a request that knew a user's password, and which tokens
were presented by logouts that have committed.

**HtmlInject and Templates.** A text is a sequence of tokens of golang.org/x/net/html; the
rewriter is a function on such sequences. A loaded template is a map from names to
rewritten texts; a page is a text whose functions are replaced by what they return, which
is known by the request they were made for. A request's FuncMap is absent, its own, or one
that the program shares between requests: in that case nothing is promised, and Go may
even stop the program. `executed` is html/template's rule that a template cannot be cloned
after it was executed.

**Form, Collector, Bancheck.** Values are known by the types they parse as; report bodies
by what decoding makes of them; exemptions by what matching gives. `lost` and `errors` are
history. A package that uses a method of a predeclared type makes the check of functions
panic, at any place among them.

## 3. Runs

Deadlock is checked by `Flight`, `FlightPromise`, `Request` and `Stack`; the others model
programs that may simply have nothing left to do.

| Run | Instance | Shows |
|---|---|---|
| `Flight` | N = 2, three names, two values, up to two cookies and one added value per other name, recovering code, two initial header maps (860 000 states) | safety of one flight, and that it ends |
| `FlightPromise` | N = 3, only Set-Cookie, no recovery (1 700 states) | refinement of `OneResponse` with liveness; a written response is handed on or the request crashes |
| `Mux` | a config and a clone, one mux, two interceptors, two configurations of which both match the first, either, both or one of them twice passed to `Handle`, a good and a refused pattern, one request in flight (972 000 states) | `RequestsPassAll`, `RegistrationSticks`, `RequestSeesOneDevMode` |
| `Server` | a server and a clone, one starter with two starts, two stoppers, one request (216 000 states) | `OneStart`, `StartedIsBuilt`, `StopIsFinal`, `StopsOnlyItsOwn`, `StopEndsServe` |
| `Request` | a request and two copies, every method, Content-Type and body (130 000 states) | `BodyReadOnce`, `ParsedReachesCopies`, `XsrfLeavesForm` |
| `Stack` | seven stacks of twelve interceptors, dev mode on and off, requests of users, links, forms, frames, images and scripts of this site and others, old browsers and new, all configurations, all handlers (270 000 states) | what answers carry, which handlers run, pages, commits, cookies, files; every step is one of `Flight` |
| `Sessions` | two users, passwords, browsers, concurrent requests; two tokens; symmetric (1 731 000 states) | `SessionsMatch`, `LogoutFinal`, `NotesPrivate`, `OnlyOwnLogoutEnds` |
| `Templates` | two concurrent requests on muxes with csp and xsrfhtml, with csp, with neither; all texts of up to three tokens around one of nine kinds; files loaded by several names, two by the same, one of them empty (815 000 states) | `PageIsOwn`, `PagesSurvive` |
| `Decisions` | three calls on forms of two parameters; lists of up to three reports; two configuration files, or none, and functions without a package (57 000 states) | `FormHonest`, `ReportsReachProgram`, `BansStand` |

Three further runs and their counterexamples are in section 6.

Why the bounds suffice. Two interceptors show every relation between a writer, one before
and one after it; three are used for control alone, so that the commit loop has a middle.
A second value of a name distinguishes "kept" from "overwritten". Cookies are bounded by
two (`MaxCookies`), so that one is appended after another; `MaxValues` = 1 means `Add` is
called on an empty name only, which differs from `Set` in nothing the properties tell
apart. The theorems hold for every bound. Two
stoppers cover Shutdown with Close in either order, two starts a start after a stop.
`Capacity` bounds interceptors and the array behind them to 2: every append after the
first goes into a shared array. In `Stack` the bounds on cookies and values are larger than
any script reaches. The stacks are the ones the repository installs, each with an "own"
interceptor, and others for what these leave out: several csp interceptors in one request,
xsrfangular, xsrfblockall, a broken hsts, cors with a trusted origin; N = 12 is the longest.
In `Sessions` two overlapping requests show every race between two database calls, and two
tokens (`MaxTokens`) a session after one that was ended, or one per user; the symmetry is
sound as users, passwords, browsers and slots occur in no definition by name. `Calls` = 3
lets a `Slice` and another read follow a failed one; three reports put a bad one in the
middle.

Mutants. Next to definitions stand variants that a bug would make of them
(`MayWriteAgain`, `SharedSlice`, `CspAlone`...). Put in the place of the definition, each
breaks the property it is listed with; nothing else uses them.

## 4. Fairness

`Flight` assumes weak fairness of `Framework`: the steps of the framework and the return
of the code it called. That is the assumption that interceptors and handlers return or
panic; the framework has no timeout of its own. It is not assumed that they write, nor
that a panic is left alone: `RequestEnds` holds with recovering code because user code
that goes on for ever without returning is what fairness rules out.
`Stack`, `Sessions`, `Templates` and `Decisions` state safety only.
`Server` assumes that goroutines inside a call run on, that `Serve` of a closed
http.Server returns, and that requests end (which is `RequestEnds`); nothing is assumed of
a `Serve` that is not closed or of `Shutdown`'s context.

## 5. Proofs

Every theorem holds for all values of the constants that satisfy the named assumptions.
Those in `ASSUME`s of the modules say what kind of thing a constant is; the others, which
the theorem itself states, are given with it below. The instances of the runs satisfy all
of them, except `EveryList`, which only makes the instance of `Stack` larger.

**One request** (`FlightProofs`), for all N, names, values and initial headers.

- `TypeCorrect`: the type invariant; it carries the bounds of both loops.
- `DispatchedOnce`, `CommitsFirst`: from the inductive invariant `Order /\ Progress`.
  `CommitsBeforeDispatch` is not inductive, since it says nothing before the dispatch;
  `Order` adds that the commits made so far are exactly the last N - `commitAt`
  interceptors in reverse order, that nothing has happened to an unwritten response, and
  that during the commits nothing is dispatched. `Progress` says where a written response
  that has not been dispatched can be if nobody recovers.
- `ClaimsAreHonoured`, `CrashClears`, `BodiesTyped`: from the inductive invariant `Headers`
  (what each claimant promised is there, closures are exclusive, a crash leaves nothing,
  the header on the wire has the type of its response), over the lemmas that one header
  method (`HeaderCallKeeps`) and one dispatcher call (`HandedKeeps`) keep it.
- `ChainEndsAtWrite`, `CookiesAreKept`: action properties, from the type invariant.
- `FlightRefines`: the safety part of the refinement of `OneResponse`, for programs that do
  not recover panics.

**The repository's interceptors** (`StackProofs`), for any stacks of the interceptors that
`Plugins` knows, in any order, number and combination, and any requests.

- `StackRefinesFlight`: every step is one of `Flight`'s specification or changes none of
  its variables, so that the theorems above hold of the repository's own plugins, handlers
  and file server. The invariant `StackInv` says that a script consists of calls that its
  actor can make and uses closures it may use (`ScriptOK`). `EveryList`: in that `Flight`,
  closures may be given lists of any length, since any number of csp interceptors may add
  to one.
- `StackKeepsFlight` states the invariants of a flight of the stacks directly, and needs no
  such assumption: a closure keeps them whatever list it is given.
- `GuardsHold` (`HandlerGuarded`): `Decided` says that a request in or past actor i is one
  that each interceptor before i lets pass or will answer with the rest of its script.
- `PagesAreBound`, `CommitsComplete`: `Nonced` (behind a csp interceptor there is a nonce
  in `FlightValues`, or the script still puts it there) and `Committing`, `AllBound` (in the
  commit loop, each interceptor passed has put its function).
- `OneCookieGiven`: `Cookies` counts the cookies of the scripts still to run together with
  those in the header. `OneTying`: at most one interceptor gives out the cookie of xsrf;
  `NoneGiven`: the code around the ServeMux does not use its name.
- `AnswersAreProtected`: `Upheld` follows what each interceptor has to leave on the answer
  (`Goals`): it is still coming in its script, or reached, and then the name is claimed, so
  that nothing later in the chain and no `Commit` undoes it; `Carried` is the same of the
  wire. csp shares its closures and needs an argument of its own (`Shared`).
- `OriginsHonest` (`CorsHonest`): `Allows` says whom the header names, `Named` what the
  wire does. That nothing from a page of another site gets past cors rests on `X-Cors`, the
  origin and `BrowserAssumption`, not on the banned types. `NoneAllowed`: the code around the ServeMux does not use the names of cors;
  `OwnFirst`: interceptors of the program that add to `Vary` run before cors, without which
  the property is false.

- `FilesAreServed` (`FileOrError`), without further assumptions: while http.FileServer acts,
  the header map of its writer has at most one value per name, all of them what its script
  set (`Writer`). The script itself is a prefix of header sets, a refusal being of plain text
  that must not be sniffed, then `WriteHeader`'s copies, each a deletion and an addition, then
  the write (`Serving`, over `FileDispatched`, which computes what the copies leave, and
  `FirstCall`, which says what one call of the script turns it into). `Served` is what is then
  on the wire: the file with its headers, or one error page.

`WhoCalls` says which calls each actor makes at all, which the proofs about answers, origins
and cookies rest on.

**Muxes** (`MuxProofs`): `PassAll`, `Sticks`, `OneDevMode`, for any configs, muxes, patterns
and handlers. `RequestsPassAll` is not inductive since configs and muxes share arrays:
`ArraysOwned` says that each array is appended to by one config only, behind what all
others see of it, and `MuxesKeepSlice` that the slice a mux was made with still holds what
it held then. `Sticks` rests on `MethodsStick` (a stored handler stays), `EntriesRouted` (a
pattern that was entered is routed, is about to be, or was refused) and
`RegistrationsRouted`, which carries that over to the registrations that have returned.
`PatternsEntered` says which patterns a half-done `Handle` has entered.

**Servers** (`ServerProofs`): `TypeCorrect`, `StartedBuilt` and `StopsOwn` for any number of
servers, starting and stopping goroutines. `Counted` ties the count of serving goroutines
to where they are, over lemmas on cardinalities; `SrvOwned` and `ServersHeld` say who can
hold which http.Server. `StartsAtMostOnce` and `StopsForGood` assume `OneStarter`: with two,
the run `DocOneStart` violates the first. A stopping goroutine that reads stale fields is
covered.

**Requests** (`RequestProofs`): `ReadOnce`, `CopiesSeeForm`, `XsrfLeavesWhole`, for any number
of copies and calls. `HeirsWhole` says that once a form was returned whole, every request
that shares the `sync.Once` and exists later has it; `XsrfOK` what `Before` has parsed.

**Sessions** (`SessionsProofs`): all four properties of `Sessions` for any users, passwords,
browsers, slots and tokens from one inductive invariant, `IInv`. `SessionsMatch` and
`LogoutFinal` are not inductive: they need that every token that occurs anywhere was drawn
(`Drawn`), so that a new one revives none; what a request in each place has found out
(`RequestsOK`: the user that its Before found was earned under its token, and a logout has
one); and that a token was earned for one user only (`EarnedOK`). Lemma `SessionsStay`
covers the steps that leave the sessions alone; `CommitClearKeeps` and `CommitSetKeeps` are
the two that do not.

**Templates** (`TemplatesProofs`), for any files and any number of overlapping requests.

- `PagesAllSurvive`: what a request that has committed provides is in its own FuncMap or
  the shared one (`MapHas`), only a request without either executes the template itself
  (`Plain`), and it fails only for the reasons the property allows (`Fails`).
- `PagesAreOwn` (`PageIsOwn`), from the assumption `LoadsAreTexts`: the files hold tokens
  that a tokenizer can return. Its first part is about the rewriting alone. `FlattenSeq` is
  a recursive function; `FlattenStep` says what it does to one sequence more, and
  `FlattenFew` to the at most four rules. `TagsProcessed` shows that `ProcessTag`, which
  goes through the rules, makes of a tag what the property asks for (`Emitted`), and
  `TextRewritten` that a text of any length keeps all its tokens and has its functions
  where they belong and nowhere else (`Rewritten`). `RenderedIs` carries this over to the
  page. The second part is the invariant `PInv`: what is parsed is the rewriting of what was
  loaded last under that name (`TextsInv`), and the functions of a FuncMap that is not
  shared, of the clone and of the page answer for this request (`OwnInv`).

The induction over the length of a text in `TextRewritten` does not use the induction
theorems of the library. `AllLengths` says that a set of lengths with 0 in it, and with each
length the next, has them all; it follows from the least length that is missing, which
`LeastIs` takes from the library's theorem on well-founded relations.

**Decisions** (`DecisionsProofs`). `FormsAreHonest`, for forms that are sequences of values
per parameter (`FormsAre`). `BansAllStand`, for any configuration files (`ConfigsAre`) whose
bans can be told apart (`OwnIds`): what was reported and what is still to be checked make
up what should be reported (`BansAreReported`), imports before functions (`InOrder`).
`ReportsReach`, for lists of any length (`PostsAre`): of the first n reports, those that
decode were handed over (`HandedOf`). Least positions exist by the library's theorem on
well-founded relations (`LeastIs`).

Only model-checked is liveness, which the provers do not reach: `RequestEnds`,
`WrittenIsDispatched`, the fairness part of `ImplementsOneResponse`, and `StopEndsServe`.
Every invariant and every action property that a run checks is a theorem.

## 6. Where documentation and code differ

Three runs end in a counterexample, quoted in `PROJECT.json`:

- `DocBeforePanicAnswered`: `interceptor.go:28` promises a 500 for a panicking `Before`;
  `processRequest` panics again.
- `DocOneStart`: two starters race past "server already started" (`server.go:85`); both
  serve the http.Server that one of them has built.
- `DocErrorStays`: the second `PostForm` forgets the error (`incoming_request.go:87`).

Met while modelling, and modelled as the code has it, without a run:

- `mux.go:88` says commits run for interceptors whose `Before` was called; they run for all
  (`flight.go:126`). `CommitsGoThrough` says which answer this breaks off: a template
  written before the first csp interceptor, whose `Commit` finds no nonce and panics.
- A 204 for a handler that wrote nothing is sent without commits (`flight.go:74`, against
  `interceptor.go:32`).
- After a refused pattern a second `Handle` for it returns, and nothing is routed
  (`mux.go:112`); `RegistrationSticks` excepts refused patterns.
- cors says that form types are banned (`cors.go:41`), but looks up the text of
  `Content-Type` as it stands (`cors.go:231`): `multipart/form-data` with the boundary that
  every browser adds, or `text/plain` with a charset, is let through. `CorsHonest` bans the
  exact texts only; forms are stopped by the missing `X-Cors` (`cors.go:227`).
- `default_dispatcher.go:39` says that a function that is not in the template "will result
  in a panic"; a clone takes it, and the page is written (`default_dispatcher.go:65`).
  `PagesSurvive` holds because of that: the commits of csp bring a nonce also for a template
  that was loaded without.
- Of an attribute that a tag has twice, htmlinject matches the last value
  (`htmlinject.go:259`), where browsers take the first. `NeedsNonce` reads as the code does,
  so `PageIsOwn` says nothing against it.
- bancheck panics on a package that uses a method of a predeclared type
  (`banned_api.go:84`: `error.Error` has no package).
- `Server.Clone` shares the array of `OnShutdown` with the original (`server.go:134`).
- `UseLocalDev` is refused only after `Mux()`, not after "any other part of the framework"
  (`dev.go:37`).
- A `Slice` for a parameter that was not sent sets the error of a `Form` to nil
  (`form.go:133`), so that `Err` can miss an earlier one; `FormHonest` allows just that.
- A FuncMap that a program passes to more than one request is written by the commits of
  all of them (`csp.go:204`).
- `checkBannedAPIs` drops the errors of its checks (`banned_api.go:58`); `BansStand` allows
  what that hides. `config.go:39` calls exemptions regular expressions; they are globs.
- The sample application's `dispatcher` (`secure/dispatcher.go`) is given to no mux.

## 7. Not modelled

A URL that does not parse a second time (`hsts.go:98`); routing by pattern, TLS, connections and timeouts (net/http's); formatting and encoding of
bodies; header canonicalization; the directives of a policy; cryptography; tokenizing HTML
and parsing templates (libraries'); status codes, URL accessors and test recorders, which
keep no state; safesql, whose guarantee is in Go's types; the harness of the repository's
own integration tests; generated and test code.

## 8. Plan

Done: the modules of section 2 and the proofs of section 5. No invariant or action property
of the runs is left to prove; liveness stays with TLC.
