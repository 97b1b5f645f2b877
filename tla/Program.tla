------------------------------ MODULE Program ------------------------------
(***************************************************************************)
(* A flight whose interceptors and handler are given programs: the calls    *)
(* that the Before, ServeHTTP or Commit on top of the stack has still to    *)
(* make.  Every step below takes one call off the script and is a step of   *)
(* Flight, or leaves Flight's variables alone; which scripts there are is   *)
(* said by the modules that extend this one.                                *)
(*                                                                         *)
(* Beside the headers a request has its FlightValues (flight.go) and the    *)
(* FuncMap of the template response it is about to write (response.go).     *)
(*                                                                         *)
(* The file server (fileserver.go) gives http.FileServer an                 *)
(* http.ResponseWriter of its own, whose methods turn into calls on the     *)
(* flight; they are the calls "fsset", "fsstatus" and "fswrite".            *)
(***************************************************************************)
EXTENDS Flight, SequencesExt

VARIABLES
  script,    \* calls the code on top of the stack has still to make
  frame,     \* calls left to the code that called Write, below a commit phase
  values,    \* keys that were put into the FlightValues
  funcs,     \* functions in the FuncMap of the template response
  fs         \* fileServerResponseWriter: header, committed, errored;
             \* and, as history, whether bytes of a file were sent

programVars == <<script, frame, values, funcs, fs>>
allVars     == <<vars, programVars>>

\* The calls, named after the methods.
ClaimOf(n)      == [op |-> "claim", name |-> n]
SetterOf(n, vs) == [op |-> "setter", name |-> n, vals |-> vs]
SetOf(n, v)     == [op |-> "set", name |-> n, val |-> v]
AddOf(n, v)     == [op |-> "add", name |-> n, val |-> v]
DelOf(n)        == [op |-> "del", name |-> n]
CookieOf(v)     == [op |-> "cookie", val |-> v]
PutOf(k)        == [op |-> "put", key |-> k]
FuncOf(f)       == [op |-> "func", key |-> f]
WriteOf(kind)   == [op |-> "write", kind |-> kind]
PanicOf         == [op |-> "panic"]
FSSet(n, v)     == [op |-> "fsset", name |-> n, val |-> v]
FSStatus(ok)    == [op |-> "fsstatus", ok |-> ok]
FSWrite         == [op |-> "fswrite"]

Running == InUser \/ InCommit
Ready   == Running /\ script # <<>>
Call    == Head(script)
Actor   == IF InUser THEN cur ELSE commitAt

ProgramInit(first) ==
  /\ script = first /\ frame = <<>>
  /\ values = {} /\ funcs = {}
  /\ fs = [header |-> NoHeaders, committed |-> FALSE, errored |-> FALSE, sent |-> FALSE]

-----------------------------------------------------------------------------
(* Calls that do not write.                                                 *)

\* Whose closure for a name the running code has got hold of.
Holders(n) == {b \in Lenders(Actor) : n \in setters[b]}

HeaderStep ==
  /\ Ready
  /\ \/ Call.op = "claim"  /\ Claim(Actor, Call.name)
     \/ Call.op = "set"    /\ Set(Call.name, Call.val)
     \/ Call.op = "add"    /\ Add(Call.name, Call.val)
     \/ Call.op = "del"    /\ Del(Call.name)
     \/ Call.op = "cookie" /\ AddCookie(Call.val)
     \/ /\ Call.op = "setter"
        /\ \E b \in Holders(Call.name) : UseSetter(b, Call.name, Call.vals)
  /\ script' = Tail(script)
  /\ UNCHANGED <<flightVars, frame, values, funcs, fs>>

\* A header method that is refused, a second write, or a panic of the code's own.
Refuses(c) == \/ c.op \in {"claim", "set", "add", "del"} /\ ~WritableHeader(c.name)
              \/ c.op = "write" /\ ~MayWrite
              \/ c = PanicOf

PanicStep ==
  /\ Ready /\ Refuses(Call)
  /\ UserPanic
  /\ script' = <<>> /\ frame' = <<>>
  /\ UNCHANGED <<values, funcs, fs>>

PutStep ==
  /\ Ready /\ Call.op = "put"
  /\ values' = values \cup {Call.key}
  /\ script' = Tail(script)
  /\ UNCHANGED <<vars, frame, funcs, fs>>

FuncStep ==
  /\ Ready /\ Call.op = "func"
  /\ funcs' = funcs \cup {Call.key}
  /\ script' = Tail(script)
  /\ UNCHANGED <<vars, frame, values, fs>>

-----------------------------------------------------------------------------
(* Writing, and the frames it puts on the stack.                            *)

\* The commit phase starts with the last interceptor's Commit, if there is one.
WriteStep(last) ==
  /\ Ready /\ InUser /\ Call.op = "write"
  /\ IF Call.kind = "error" THEN WriteError ELSE Write(Call.kind)
  /\ frame' = Tail(script) /\ script' = last
  /\ UNCHANGED <<values, funcs, fs>>

CommitStep(next) ==
  /\ script = <<>>
  /\ CommitReturn
  /\ script' = next
  /\ UNCHANGED <<frame, values, funcs, fs>>

DispatchStep ==
  /\ script = <<>>
  /\ DispatchResponse
  /\ script' = IF pc' = "user" THEN frame ELSE <<>>
  /\ frame' = <<>>
  /\ UNCHANGED <<values, funcs, fs>>

BeforeStep(next) ==
  /\ script = <<>>
  /\ BeforeReturn
  /\ script' = IF pc' = "user" THEN next ELSE <<>>
  /\ UNCHANGED <<frame, values, funcs, fs>>

HandlerStep ==
  /\ script = <<>>
  /\ HandlerReturnWritten \/ HandlerReturnNothing
  /\ UNCHANGED programVars

EndStep ==
  /\ ClearAndRepanic \/ ServerFinish \/ OuterRecover
  /\ UNCHANGED programVars

-----------------------------------------------------------------------------
(* The file server's writer.                                                *)

FSSetStep ==
  /\ Ready /\ InUser /\ Call.op = "fsset"
  /\ fs' = [fs EXCEPT !.header[Call.name] = <<Call.val>>]
  /\ script' = Tail(script)
  /\ UNCHANGED <<vars, frame, values, funcs>>

\* The names WriteHeader takes over from http.FileServer.
Copied(n) == fs.header[n] # <<>> /\ n # "Content-Type" /\ WritableHeader(n)

CopyOrder == SetToSeq({n \in Names : Copied(n)})

\* Each is deleted, then its value is added, for http.FileServer has put one there;
\* the order of the names is free.
CopyCalls ==
  [k \in 1..2 * Len(CopyOrder) |->
     LET n == CopyOrder[(k + 1) \div 2]
     IN  IF k % 2 = 1 THEN DelOf(n) ELSE AddOf(n, Head(fs.header[n]))]

\* Only the first status counts, and any but 200 OK becomes a 404.
FSStatusStep ==
  /\ Ready /\ InUser /\ Call.op = "fsstatus"
  /\ IF fs.committed
       THEN UNCHANGED fs /\ script' = Tail(script)
       ELSE /\ fs' = [fs EXCEPT !.committed = TRUE, !.errored = ~Call.ok]
            /\ script' = CopyCalls \o <<WriteOf(IF Call.ok THEN "file" ELSE "error")>>
                           \o Tail(script)
  /\ UNCHANGED <<vars, frame, values, funcs>>

\* The bytes of an answer that became an error are dropped.
DropsNothing    == FALSE
DropsBody       == fs.errored

\* Bytes on the connection without a response.
FSWriteStraight ==
  /\ Ready /\ InUser /\ Call.op = "fswrite"
  /\ wire' = Send("filebody", "ok", wrapped)
  /\ script' = Tail(script)
  /\ UNCHANGED <<headerVars, pc, cur, commitAt, written, resp, commits, dispatched,
                 frame, values, funcs, fs>>

FSWriteStep ==
  /\ Ready /\ InUser /\ Call.op = "fswrite"
  /\ IF ~fs.committed THEN script' = <<FSStatus(TRUE)>> \o script /\ UNCHANGED <<vars, fs>>
     ELSE /\ script' = Tail(script)
          /\ fs' = [fs EXCEPT !.sent = @ \/ ~DropsBody]
          /\ IF ~DropsBody /\ resp = "file" THEN FileBody ELSE UNCHANGED vars
  /\ UNCHANGED <<frame, values, funcs>>
=============================================================================
