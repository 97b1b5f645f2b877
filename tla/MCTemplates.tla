---------------------------- MODULE MCTemplates ----------------------------
(* Instances of Templates for TLC. *)
EXTENDS Templates

Attrs(rel, as) == << <<"rel", rel>>, <<"as", as>> >>

Script  == Token("start", "script", <<>>)
Style   == Token("selfclosing", "style", <<>>)
Form    == Token("start", "form", <<>>)
Preload == Token("start", "link", Attrs("preload", "script"))
Font    == Token("start", "link", Attrs("preload", "font"))
Twice   == Token("start", "link", Append(Attrs("preload", "script"), <<"as", "font">>))
Image   == Token("start", "link", <<<<"as", "script">>>>)
End     == Token("end", "form", <<>>)
Words   == Token("text", "", <<>>)
Space   == Token("space", "", <<>>)

Tags  == {Script, Style, Form, Preload, Font, Twice, Image, End, Words}
Texts == {<<t>> : t \in Tags} \cup {<<t, Form>> : t \in Tags} \cup {<<Script, t, Words>> : t \in Tags}

File(name, text) == [name |-> name, text |-> text]

Load(into, sources) == [root |-> into, files |-> sources]

\* No file; one; one beside it; two of the same name, also with a blank one; into a template of another name,
\* or of the name of one of the files.
Pages  == <<File("page", <<Script, Words, End>>), File("other", <<Words>>)>>
Again  == <<File("page", <<Words>>), File("page", <<Form, Script, End>>)>>
Blanks  == {Load(NoName, <<File("page", <<Form, Script>>), File("page", blank)>>) :
              blank \in {<<>>, <<Space>>}}
             \cup {Load(NoName, <<File("page", <<Space>>), File("page", <<Form, Script>>)>>)}
MCLoads ==
  {Load(NoName, <<>>), Load(NoName, Pages), Load("layout", Pages), Load("other", Pages),
   Load(NoName, Again)} \cup Blanks
    \cup {Load(NoName, <<File("page", t)>>) : t \in Texts}

MCMuxes == {{}, {CSPNonce}, {CSPNonce, XSRFToken}}
=============================================================================
