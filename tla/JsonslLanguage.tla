-------------------------- MODULE JsonslLanguage --------------------------
(***************************************************************************)
(* The lexer beside the grammar: a client feeds the lexer chunk by chunk,  *)
(* with callbacks or without, and two recognisers read every symbol the    *)
(* lexer consumes.                                                         *)
(***************************************************************************)
EXTENDS JsonslClient, JsonslReaders, FiniteSets

CONSTANT Families   \* a text is made of the chunks of one of these, up to
                    \* its longest, by a client that sets these levels

ASSUME FamiliesAssumption ==
  \A f \in Families : /\ f.chunks \subseteq Chunk /\ f.longest \in 0 .. MaxText
                      /\ f.levels \subseteq CallbackLevel

VARIABLE family   \* the family of the texts this client feeds

languageVars == <<jsnVars, readers, family>>

LanguageInit == JsonslInit /\ ReadersInit /\ family \in Families

Fits(bytes) == Len(text) + Len(bytes) <= family.longest

(* Level 0 is a client without callbacks: its keys make no difference. *)
FeedChunk ==
  /\ \E bytes \in family.chunks, maxLevel \in family.levels, keys \in BOOLEAN :
       (keys => maxLevel > 0) /\ Fits(bytes) /\ CallFeed(bytes, maxLevel, keys)
  /\ UNCHANGED <<readers, family>>

FeedStep == FeedRead /\ UNCHANGED family

AnswerCallback ==
  /\ \E stop, ignore \in BOOLEAN, maxLevel \in family.levels : Answer(stop, ignore, maxLevel)
  /\ UNCHANGED <<readers, family>>

FeedReturned == ~Running /\ cb = NoCallback

(* The client is done with this text, read to its end or not. *)
Restart ==
  /\ FeedReturned /\ text # <<>>
  /\ Reset /\ ReadersReset /\ UNCHANGED family

LanguageNext == FeedChunk \/ FeedStep \/ AnswerCallback \/ Restart

(* Once called, jsonsl_feed() runs to its return, and so does a callback.  *)
LanguageSpec == /\ LanguageInit /\ [][LanguageNext]_languageVars
                /\ WF_languageVars(FeedStep) /\ WF_languageVars(AnswerCallback)

-----------------------------------------------------------------------------
(* jsonsl_feed() returns: no byte and no answer to a callback makes it     *)
(* look at the same byte for ever.                                         *)
FeedReturns == []<>FeedReturned
=============================================================================
