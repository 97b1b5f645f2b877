----------------------------- MODULE OneResponse -----------------------------
(***************************************************************************)
(* What a flight promises whoever waits for the response, with the calls,   *)
(* the headers and the panics abstracted away: every request ends, it is    *)
(* given to the dispatcher at most once, a written response only after      *)
(* every interceptor has committed, and a request that does not fail has    *)
(* been answered.                                                           *)
(***************************************************************************)
CONSTANT Interceptors

VARIABLES
  phase,       \* "open", "writing", "answered", "failed"
  committed,   \* interceptors that have committed
  over         \* the request has ended

vars == <<phase, committed, over>>

Init == phase = "open" /\ committed = {} /\ over = FALSE

StartWriting ==
  /\ ~over /\ phase = "open"
  /\ phase' = "writing"
  /\ UNCHANGED <<committed, over>>

Commit(i) ==
  /\ ~over /\ phase = "writing" /\ i \notin committed
  /\ committed' = committed \cup {i}
  /\ UNCHANGED <<phase, over>>

Answer ==
  /\ ~over /\ phase = "writing" /\ committed = Interceptors
  /\ phase' = "answered"
  /\ UNCHANGED <<committed, over>>

\* Nothing was written: an empty answer ends the request, without commits.
AnswerEmpty ==
  /\ ~over /\ phase = "open"
  /\ phase' = "answered" /\ over' = TRUE
  /\ UNCHANGED committed

End ==
  /\ ~over /\ phase = "answered"
  /\ over' = TRUE
  /\ UNCHANGED <<phase, committed>>

Fail ==
  /\ ~over
  /\ phase' = "failed" /\ over' = TRUE
  /\ UNCHANGED committed

Next ==
  \/ StartWriting \/ Answer \/ AnswerEmpty \/ End \/ Fail
  \/ \E i \in Interceptors : Commit(i)

Spec == Init /\ [][Next]_vars /\ WF_vars(Next)
=============================================================================
