----------------------------- MODULE Decisions -----------------------------
(***************************************************************************)
(* Three pieces of code that run on their own, one goroutine and one call   *)
(* after the other: the readers of a Form, the collector's handler, and the *)
(* check of bancheck.  A behaviour is one of them on one of its inputs.     *)
(***************************************************************************)
EXTENDS Form, Collector, Bancheck

CONSTANTS
  Forms,       \* values of forms
  Posts,       \* requests to the collector
  ConfigFiles  \* sequences of configuration files

VARIABLE runs  \* which of them runs

vars == <<formVars, collectorVars, banVars, runs>>

\* The inputs of code that does not run do not matter.
Inputs(name, some) == IF runs = name THEN some ELSE {CHOOSE i \in some : TRUE}

Init ==
  /\ runs \in {"form", "collector", "bancheck"}
  /\ \E values \in Inputs("form", Forms) : FormInit(values)
  /\ \E p \in Inputs("collector", Posts) : CollectorInit(p)
  /\ \E c \in Inputs("bancheck", ConfigFiles) : BanInit(c)

Next ==
  \/ runs = "form" /\ FormNext /\ UNCHANGED <<collectorVars, banVars, runs>>
  \/ runs = "collector" /\ CollectorNext /\ UNCHANGED <<formVars, banVars, runs>>
  \/ runs = "bancheck" /\ BanNext /\ UNCHANGED <<formVars, collectorVars, runs>>

Spec == Init /\ [][Next]_vars
=============================================================================
