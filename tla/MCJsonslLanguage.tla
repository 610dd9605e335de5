------------------------- MODULE MCJsonslLanguage -------------------------
(***************************************************************************)
(* Three families of texts without callbacks: token by token, so that      *)
(* objects with several members fit the bound; every text of the           *)
(* characters of numbers; and every text of the characters of strings.     *)
(* And one under any client, with pieces of strings, words and numbers as  *)
(* a feed may cut them.                                                    *)
(***************************************************************************)
EXTENDS JsonslLanguage

Tokens  == {<<"{">>, <<"}">>, <<"[">>, <<"]">>, <<",">>, <<":">>,
            <<"quote", "quote">>, <<"1">>}
Numbers == {<<"[">>, <<"]">>, <<",">>, <<"0">>, <<"7">>, <<"-">>, <<"+">>, <<".">>,
            <<"e">>, <<"true">>, <<"quote">>}
Strings == {<<"[">>, <<"{">>, <<":">>, <<"quote">>, <<"bslash">>, <<"n">>, <<"a">>,
            <<"tab">>, <<"sp">>, <<"]">>}
Pieces  == Tokens \cup
           {<<"quote", "a", "bslash">>, <<"n", "tab">>, <<"true", "a">>,
            <<"-", "1", ".">>, <<"e", "+">>}

MCFamilies == {[chunks |-> Tokens, longest |-> 10, levels |-> {0}],
               [chunks |-> Numbers, longest |-> 6, levels |-> {0}],
               [chunks |-> Strings, longest |-> 6, levels |-> {0}],
               [chunks |-> Pieces, longest |-> 6, levels |-> {0, 2, 4}]}
MCChunk    == UNION {f.chunks : f \in MCFamilies}
=============================================================================
