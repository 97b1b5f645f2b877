------------------------------ MODULE Bancheck ------------------------------
(***************************************************************************)
(* cmd/bancheck: the uses of banned APIs in one package.  The configuration *)
(* files are read first; then the imports are checked, in order, then the   *)
(* functions, in the order Go ranges over a map.  An exemption is known by  *)
(* what matching its pattern with the package gives: "match", "other", or   *)
(* "bad" for a pattern that is none.                                        *)
(***************************************************************************)
EXTENDS Naturals, Sequences

CONSTANTS
  UsedImports,     \* the imports of the package, in order
  UsedFunctions    \* the functions it uses

VARIABLES
  configs,   \* configuration files still to be read
  imports,   \* banned imports read so far: [name, id, exemptions]
  fns,       \* banned functions
  uses,      \* [imports, functions, predeclared]: uses still to be checked; the last
             \* says whether one is of a method of no package, as error.Error is
  reported,  \* <<api, ban>> of each diagnostic
  errors,    \* history: errors of a check, which checkBannedAPIs drops
  lint       \* "reading", "imports", "functions", "done", "failed" or "panicked"

banVars == <<configs, imports, fns, uses, reported, errors, lint>>

\* Without a configuration file there is an error.
BanInit(files) ==
  /\ configs = files /\ imports = <<>> /\ fns = <<>>
  /\ \E p \in BOOLEAN :
       uses = [imports |-> UsedImports, functions |-> UsedFunctions, predeclared |-> p]
  /\ reported = {} /\ errors = {}
  /\ lint = IF files = <<>> THEN "failed" ELSE "reading"

ReadConfig ==
  /\ lint = "reading" /\ configs # <<>>
  /\ IF Head(configs).readable
       THEN /\ imports' = imports \o Head(configs).imports
            /\ fns' = fns \o Head(configs).functions
            /\ configs' = Tail(configs)
            /\ UNCHANGED lint
       ELSE lint' = "failed" /\ UNCHANGED <<configs, imports, fns>>
  /\ UNCHANGED <<uses, reported, errors>>

ConfigsRead ==
  /\ lint = "reading" /\ configs = <<>>
  /\ lint' = "imports"
  /\ UNCHANGED <<configs, imports, fns, uses, reported, errors>>

-----------------------------------------------------------------------------

\* bannedAPIMap: the positions of the bans of a name, whose order it keeps.
BansOf(api, bans) == {k \in DOMAIN bans : bans[k].name = api}

\* isPkgAllowed: the first exemption that matches or is no pattern decides.
Decides(ban) == {k \in DOMAIN ban.exemptions : ban.exemptions[k] \in {"match", "bad"}}
First(S)     == CHOOSE k \in S : \A l \in S : k <= l
IsPkgAllowed(ban) ==
  IF Decides(ban) = {} THEN "no" ELSE ban.exemptions[First(Decides(ban))]

\* The first ban that exempts the package ends the check.
ReportsUntilAllowed(api, bans) ==
  {k \in BansOf(api, bans) : \A l \in BansOf(api, bans) : l <= k => IsPkgAllowed(bans[l]) = "no"}

\* reportIfBanned: an error ends it, an exemption of one ban does not touch the others.
Reports(api, bans) ==
  {k \in BansOf(api, bans) :
     /\ IsPkgAllowed(bans[k]) = "no"
     /\ \A l \in BansOf(api, bans) : l < k => IsPkgAllowed(bans[l]) # "bad"}

IsError(api, bans) == \E k \in BansOf(api, bans) : IsPkgAllowed(bans[k]) = "bad"

Report(api, bans) ==
  /\ reported' = reported \cup {<<api, bans[k].id>> : k \in Reports(api, bans)}
  /\ errors' = IF IsError(api, bans) THEN errors \cup {lint} ELSE errors

\* The rest of the imports goes unchecked after an error, the functions do not.
CheckImport ==
  /\ lint = "imports" /\ uses.imports # <<>>
  /\ LET api == Head(uses.imports)
     IN  /\ Report(api, imports)
         /\ uses' = [uses EXCEPT !.imports = IF IsError(api, imports) THEN <<>> ELSE Tail(@)]
  /\ UNCHANGED <<configs, imports, fns, lint>>

ImportsChecked ==
  /\ lint = "imports" /\ uses.imports = <<>>
  /\ lint' = "functions"
  /\ UNCHANGED <<configs, imports, fns, uses, reported, errors>>

CheckFunction(api) ==
  /\ lint = "functions" /\ api \in uses.functions
  /\ Report(api, fns)
  /\ uses' = [uses EXCEPT !.functions = IF IsError(api, fns) THEN {} ELSE @ \ {api},
                         !.predeclared = @ /\ ~IsError(api, fns)]
  /\ UNCHANGED <<configs, imports, fns, lint>>

\* fn.Pkg() is nil for a method of a predeclared type: the check panics.
CheckPredeclared ==
  /\ lint = "functions" /\ uses.predeclared
  /\ lint' = "panicked"
  /\ UNCHANGED <<configs, imports, fns, uses, reported, errors>>

FunctionsChecked ==
  /\ lint = "functions" /\ uses.functions = {} /\ ~uses.predeclared
  /\ lint' = "done"
  /\ UNCHANGED <<configs, imports, fns, uses, reported, errors>>

BanNext == ReadConfig \/ ConfigsRead \/ CheckImport \/ ImportsChecked
             \/ (\E api \in UsedFunctions : CheckFunction(api))
             \/ CheckPredeclared \/ FunctionsChecked

-----------------------------------------------------------------------------

\* A use is reported for exactly the bans that do not exempt the package, whatever
\* other bans of the same API exempt and whichever file they are in; but an exemption
\* that is no pattern may hide the uses of its kind, imports or functions, and a check
\* that panicked may have missed some.
Stands(ban) == \A k \in DOMAIN ban.exemptions : ban.exemptions[k] # "match"

Used(kind) == IF kind = "imports" THEN {UsedImports[i] : i \in DOMAIN UsedImports} ELSE UsedFunctions
Bans(kind) == IF kind = "imports" THEN imports ELSE fns

BansStand ==
  \A kind \in {"imports", "functions"} : \A k \in DOMAIN Bans(kind) :
    LET ban == Bans(kind)[k]
        due == ban.name \in Used(kind) /\ Stands(ban)
        is  == <<ban.name, ban.id>> \in reported
    IN  /\ is => due
        /\ lint = "done" /\ due /\ ~is => kind \in errors
=============================================================================
