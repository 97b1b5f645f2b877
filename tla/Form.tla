-------------------------------- MODULE Form --------------------------------
(***************************************************************************)
(* form.go: a Form that is read parameter by parameter, each call returning *)
(* what was sent or a default, and one error for all of them, asked for at  *)
(* the end.  A value is known by the types it is a numeral or word of.      *)
(***************************************************************************)
EXTENDS Naturals, Sequences

CONSTANTS Params, Calls     \* Calls bounds the number of calls on one Form

Types     == {"int64", "uint64", "float64", "bool", "string"}
SliceTypes == Types \cup {"unsupported"}
Values    == {"1", "-1", "1.5", "true", "word"}

\* strconv: the values that are one of the type.
Parses(type) ==
  CASE type = "int64"   -> {"1", "-1"}
    [] type = "uint64"  -> {"1"}
    [] type = "float64" -> {"1", "-1", "1.5"}
    [] type = "bool"    -> {"1", "true"}
    [] OTHER            -> Values

NoErr       == "nil"
Unsupported == "type not supported"
Default     == <<"default">>
Nil         == <<"nil">>

VARIABLES
  form,   \* [values, err]; a parameter that was not sent has no values
  last,   \* history: the last call and what it returned
  lost,   \* history: what was sent and not handed over, and whether a Slice for a
          \* parameter that was not sent came after that
  calls

formVars == <<form, last, lost, calls>>

\* A parameter that was sent has at least one value.
FormInit(values) ==
  /\ form = [values |-> values, err |-> NoErr]
  /\ last = [type |-> "none"] /\ lost = [sent |-> {}, wiped |-> FALSE] /\ calls = 0

Sent(p) == form.values[p] # <<>>

Returns(type, p, many, result) ==
  /\ last' = [type |-> type, param |-> p, many |-> many, result |-> result]
  /\ calls' = calls + 1

\* A call that finds a value it cannot hand over.
Fails(err, p) ==
  /\ form' = [form EXCEPT !.err = err]
  /\ lost' = [sent |-> lost.sent \cup {p}, wiped |-> FALSE]

\* Int64, Uint64, Float64, Bool and String: the first value counts, no parameter is
\* no error.
ReadParam(type, p) ==
  /\ calls < Calls
  /\ LET first == Head(form.values[p])
     IN  IF Sent(p) /\ first \notin Parses(type)
           THEN Fails(first, p) /\ Returns(type, p, FALSE, Default)
           ELSE /\ UNCHANGED <<form, lost>>
                /\ Returns(type, p, FALSE, IF Sent(p) THEN <<first>> ELSE Default)

\* clearSlice, whose result overwrites the error of the form, also with nil.
ClearSlice(type, p) ==
  /\ IF type \in Types
       THEN form' = [form EXCEPT !.err = NoErr] /\ lost' = [lost EXCEPT !.wiped = TRUE]
       ELSE Fails(Unsupported, p)
  /\ Returns(type, p, TRUE, Nil)

\* The values of the parameter that are not of the type; the first stops the call.
BadValues(type, p) ==
  {i \in DOMAIN form.values[p] : form.values[p][i] \notin Parses(type)}
FirstBad(type, p) == CHOOSE i \in BadValues(type, p) : \A j \in BadValues(type, p) : i <= j

\* A call that hands over what it parsed up to there.
SliceKeepsPrefix(type, p) ==
  /\ calls < Calls /\ Sent(p) /\ type \in Types /\ BadValues(type, p) # {}
  /\ Fails(form.values[p][FirstBad(type, p)], p)
  /\ Returns(type, p, TRUE, SubSeq(form.values[p], 1, FirstBad(type, p) - 1))

Slice(type, p) ==
  /\ calls < Calls
  /\ IF ~Sent(p) \/ type \notin Types THEN ClearSlice(type, p)
     ELSE IF BadValues(type, p) = {}
       THEN UNCHANGED <<form, lost>> /\ Returns(type, p, TRUE, form.values[p])
       ELSE /\ Fails(form.values[p][FirstBad(type, p)], p)
            /\ Returns(type, p, TRUE, Nil)

FormNext ==
  \/ \E type \in Types, p \in Params : ReadParam(type, p)
  \/ \E type \in SliceTypes, p \in Params : Slice(type, p)

-----------------------------------------------------------------------------

\* What a handler gets out of a form: a call hands over all it asked for, each value
\* of the type asked for, or nothing; and if a form has no error at the end, all that
\* was sent and asked for was handed over.  That fails only behind a Slice for a
\* parameter that was not sent, which wipes out the error of an earlier call.
FormHonest ==
  /\ last.type # "none" /\ last.result \notin {Default, Nil} =>
       /\ \A i \in DOMAIN last.result : last.result[i] \in Parses(last.type)
       /\ last.result = IF last.many THEN form.values[last.param]
                                     ELSE <<Head(form.values[last.param])>>
  /\ form.err = NoErr /\ lost.sent # {} => lost.wiped
  /\ last.type # "none" /\ last.result \in {Default, Nil} /\ Sent(last.param) =>
       form.err # NoErr
=============================================================================
