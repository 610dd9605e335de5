---------------------------- MODULE MCValidator ----------------------------
(***************************************************************************)
(* Every value of at most MaxTokens tokens, whatever its tokens are: what  *)
(* a caller passes as a value need not begin like JSON.                    *)
(***************************************************************************)
EXTENDS ValidatorClient, SequencesExt

CONSTANT MaxTokens

Token == {<<"{">>, <<"}">>, <<"[">>, <<"]">>, <<",">>, <<":">>,
          <<"quote", "quote">>, <<"quote">>, <<"1">>, <<"sp">>}

MCValues == {FlattenSeq(tokens) : tokens \in UNION {[1 .. n -> Token] : n \in 0 .. MaxTokens}}

MCDepths == {Unlimited, 0, 1}
MCModes  == Mode
=============================================================================
