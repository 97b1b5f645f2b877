---------------------------- MODULE MCDecisions ----------------------------
(* Instances of Decisions for TLC. *)
EXTENDS Decisions

SomeValues == {<<>>, <<"1">>, <<"word">>} \cup {<<"-1", v>> : v \in Values} \cup {<<"1", "word", "true">>}
MCForms    == [Params -> SomeValues]

-----------------------------------------------------------------------------

SomeReports == [type : {"csp-violation", "deprecation"}, body : {"object", "null", "mistyped", "none"}]
Lists   == UNION {[1..n -> SomeReports] : n \in 0..3}
Lines   == {[lineno |-> l, lineNumber |-> m, mistyped |-> t] : l \in {0, 1}, m \in {0, 2}, t \in BOOLEAN}

Bodies ==
  {[kind |-> "broken off"], [kind |-> "not json"]}
    \cup {[kind |-> "list", reports |-> l] : l \in Lists}
    \cup {[kind |-> "report", lineno |-> l, lineNumber |-> m, inner |-> i] :
            l \in {0, 3}, m \in {0, 4}, i \in {<<>>} \cup {<<r>> : r \in Lines}}

MCPosts == [method : {"POST", "GET"}, contentType : {"csp-report", "reports+json", "html"}, body : Bodies]

-----------------------------------------------------------------------------

Ban(id, name, exemptions) == [id |-> id, name |-> name, exemptions |-> exemptions]

Exemptions == {<<>>, <<"other">>, <<"match">>, <<"bad">>, <<"other", "match">>, <<"match", "bad">>}

\* None, or two files that ban the same names.
File(readable, bannedImports, bannedFns) ==
  [readable |-> readable, imports |-> bannedImports, functions |-> bannedFns]

MCConfigFiles ==
  {<<File(TRUE, <<Ban(1, "net", e)>>, <<Ban(2, "net.Dial", f), Ban(3, "net.Dial", <<>>)>>),
     File(r, <<Ban(4, "net", f), Ban(5, "os", <<>>)>>, <<Ban(6, "os.Exit", e), Ban(7, "net.Dial", e)>>)>> :
     e \in Exemptions, f \in Exemptions, r \in BOOLEAN} \cup {<<>>}

MCImports == <<"net", "fmt", "os">>
=============================================================================
