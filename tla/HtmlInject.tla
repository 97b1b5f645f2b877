----------------------------- MODULE HtmlInject -----------------------------
(***************************************************************************)
(* plugins/htmlinject: how the text of a template is rewritten before it is *)
(* parsed.  The tokenizer is golang.org/x/net/html's; a text is a sequence  *)
(* of its tokens, and a template function that was put into it stands for   *)
(* itself: in "added" of a tag, or as a token of its own.                   *)
(***************************************************************************)
EXTENDS Naturals, SequencesExt

\* A token as the tokenizer hands it over: attributes in order, keys may repeat.
\* A "space" is a text of white space only.
Token(kind, tag, attributes) ==
  [kind |-> kind, tag |-> tag, attributes |-> attributes, added |-> <<>>]

Kinds == {"start", "selfclosing", "end", "text", "space", "comment", "doctype", "unfinished"}

Tokens == [kind : Kinds, tag : STRING, attributes : Seq(STRING \X STRING), added : {<<>>}]

\* The hidden input that calls f.
Node(f) == [kind |-> "node", tag |-> "input", attributes |-> <<>>, added |-> <<f>>]

CSPNonce  == "CSPNonce"
XSRFToken == "XSRFToken"

Rule(tag, with, attributes, nodes) ==
  [onTag |-> tag, withAttributes |-> with, addAttributes |-> attributes, addNodes |-> nodes]

CSPNonces(f) ==
  << Rule("script", {}, <<f>>, <<>>),
     Rule("link", {<<"rel", "preload">>, <<"as", "script">>}, <<f>>, <<>>),
     Rule("style", {}, <<f>>, <<>>) >>

XSRFTokens(f) == << Rule("form", {}, <<>>, <<Node(f)>>) >>

-----------------------------------------------------------------------------

\* An attribute given twice has its last value here, one not given is "".
ValueOf(token, key) ==
  LET at == {i \in DOMAIN token.attributes : token.attributes[i][1] = key}
  IN  IF at = {} THEN "" ELSE token.attributes[Max(at)][2]

Matches(rule, token) == \A w \in rule.withAttributes : ValueOf(token, w[1]) = w[2]

\* The positions of the rules that a tag triggers.
TriggeredRules(rules, token) ==
  {i \in DOMAIN rules : rules[i].onTag = token.tag /\ Matches(rules[i], token)}

ProcessTag(rules, token) ==
  LET triggered == TriggeredRules(rules, token)
  IN  <<[token EXCEPT !.added =
           FlattenSeq([i \in DOMAIN rules |-> IF i \in triggered THEN rules[i].addAttributes ELSE <<>>])]>>
        \o FlattenSeq([i \in DOMAIN rules |-> IF i \in triggered THEN rules[i].addNodes ELSE <<>>])

\* All other tokens, the unfinished one at the end of the text among them, are
\* copied.
Transform(text, configs) ==
  FlattenSeq([i \in DOMAIN text |->
    IF text[i].kind \in {"start", "selfclosing"} THEN ProcessTag(FlattenSeq(configs), text[i])
                                                 ELSE <<text[i]>>])

\* A LoadConfig is the set of what it disables.
ConfigsOf(disabled) ==
  (IF "csp" \in disabled THEN <<>> ELSE <<CSPNonces(CSPNonce)>>)
    \o IF "xsrf" \in disabled THEN <<>> ELSE <<XSRFTokens(XSRFToken)>>

LoadTrustedTemplate(text, disabled) == Transform(text, ConfigsOf(disabled))
=============================================================================
