--------------------------- MODULE MCMatchClient ---------------------------
(***************************************************************************)
(* Every text of a few tokens that the lexer reads up to its last token or *)
(* to its end: JSON, truncated JSON, what only jsonsl takes for JSON, and  *)
(* each of these with one wrong token at the end.                          *)
(***************************************************************************)
EXTENDS MatchClient

J == INSTANCE JsonGrammar

CONSTANT MaxTokens

Token == {<<"{">>, <<"}">>, <<"[">>, <<"]">>, <<",">>, <<":">>,
          <<"quote", "a", "quote">>, <<"1">>}

Reads(bytes) ==
  LET read[i \in 0 .. Len(bytes)] ==
        IF i = 0 THEN J!Start ELSE J!Step(FALSE, read[i - 1], bytes[i])
  IN  J!Viable(read[Len(bytes)])

TokenText[n \in 0 .. MaxTokens] ==
  IF n = 0 THEN {<<>>}
  ELSE {bytes \o token : bytes \in {b \in TokenText[n - 1] : Reads(b)}, token \in Token}

(* Longer ones, in which paths lead down: the same key at several levels,  *)
(* once with an escape, and white space about its colon.                   *)
KeyA     == <<"quote", "a", "quote">>
KeyB     == <<"quote", "b", "quote">>
EscapedA == <<"quote", "bslash", "u", "0061", "quote">>
InObject == <<"{">> \o KeyB \o <<":", "sp", "{">> \o KeyB \o <<":", "1", ",">>
              \o EscapedA \o <<"tab", ":", "sp", "1", ",">> \o KeyA
              \o <<":", "[", "2", "]", "}", "}">>
InArray  == <<"{">> \o KeyA \o <<":", "2", ",">> \o KeyB \o <<":", "[", "{">> \o KeyA
              \o <<"sp", ":", "1", "}", ",", "1", ",", "sp", "{">> \o KeyA \o <<":", "sp">>
              \o KeyB \o <<"}", "]", "}">>

MCDocuments == UNION {TokenText[n] : n \in 0 .. MaxTokens} \cup {InObject, InArray}

A == Name(<<"a">>)
B == Name(<<"b">>)
MCPaths == {<<Root>>, <<Root, A>>, <<Root, Index(-1)>>, <<Root, A, Index(1)>>,
            <<Root, Index(-1), Index(0)>>, <<Root, B, A>>, <<Root, B, Index(0), A>>,
            <<Root, B, Index(-1), A>>, <<Root, B, Index(-1)>>}

MCOptions == {BlankMatch,
              [BlankMatch EXCEPT !.extra_options = "GET_FOLLOWING_SIBLINGS"],
              [BlankMatch EXCEPT !.ensure_unique = <<"1">>]}
=============================================================================
