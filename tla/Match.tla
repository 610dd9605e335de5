------------------------------- MODULE Match -------------------------------
(***************************************************************************)
(* Match::exec_match(): the lexer's client that searches a document for a  *)
(* path, in one pass or, when the path has negative indices, in one pass   *)
(* per stretch between them (rounds).                                      *)
(*                                                                         *)
(* A pass is a feed of the lexer of Jsonsl and the answers to its          *)
(* callbacks.  Three sets of callbacks take turns: the matching ones, those*)
(* that compare the elements of an array with a unique value, and the one  *)
(* that counts siblings once the match is known.  Offsets into the         *)
(* document are from 0; `at` of an unset Loc is Null.                      *)
(***************************************************************************)
EXTENDS Jsonsl, PathInfo, HashKey, FiniteSetsExt

VARIABLES
  doc,        \* the value and nvalue arguments
  path,       \* the path argument
  m,          \* the Match object
  ctx,        \* ParseContext: jpr, the last key and the unique candidate
  mres,       \* the mres field the stack's states carry
  callbacks,  \* which functions the lexer calls back
  round,      \* locals of exec_match_negix()
  pc          \* where exec_match() is

matchVars == <<doc, path, m, ctx, mres, callbacks, round, pc>>
searchVars == <<jsnVars, matchVars>>

-----------------------------------------------------------------------------
Null  == -1
NoLoc == [at |-> Null, length |-> 0]
Loc   == [at : Nat \cup {Null}, length : Int]

(* jsonsl_jpr_match_t; a state's mres and a fresh Match's are POSSIBLE. *)
MatchRes == {"POSSIBLE", "COMPLETE", "NOMATCH", "TYPE_MISMATCH", "UNKNOWN"}

(* The fields of Match that are bits are BOOLEAN; ensure_unique holds the  *)
(* bytes, <<>> when it is not asked for.  The element count of a number is *)
(* not kept (see State), nor so num_children of a match that is one.       *)
BlankMatch ==
  [type |-> "NONE", status |-> "SUCCESS", matchres |-> "POSSIBLE", sflags |-> {},
   match_level |-> 0, position |-> 0, num_siblings |-> 0, num_children |-> 0,
   immediate_parent_found |-> FALSE, get_last |-> FALSE,
   extra_options |-> "GET_MATCH_ONLY", unique_item_found |-> FALSE,
   loc_deepest |-> NoLoc, loc_key |-> NoLoc, ensure_unique |-> <<>>]

BlankContext == [jpr |-> <<>>, hk_at |-> 0, hk_len |-> 0, unique_at |-> 0]
BlankRound   == [cur_start |-> 1, next |-> 1, offset |-> 0, at |-> 0, length |-> 0]
NoResults    == [l \in Level |-> "POSSIBLE"]

(* Bytes of the text the lexer is fed, and of the document. *)
TextSlice(at, length) == SubSeq(text, at + 1, at + length)
DocSlice(loc) == SubSeq(doc, loc.at + 1, loc.at + loc.length)

-----------------------------------------------------------------------------
(* The state a callback is about, its parent, and the document's key. *)

State_    == stack[cb.level]
HasParent == cb.level > 1
Parent    == stack[cb.level - 1]
Key       == GetHk(TextSlice(ctx.hk_at, ctx.hk_len))

(* hk_rawloc(): the key with its quotes. *)
RawKeyInside == [at |-> round.at + ctx.hk_at, length |-> ctx.hk_len]   \* mutant
RawKey    == [at |-> round.at + ctx.hk_at - 1, length |-> ctx.hk_len + 2]

(* jsonsl_path_match() and jsonsl__match_continue(), component 0 of the    *)
(* code being jpr[1]: the component that names a child is at its parent's  *)
(* level, the one after it tells what the child must be.                   *)
NamesNext ==   \* mutant: elements counted from 1
  IF Parent.type = "OBJECT" THEN ctx.jpr[cb.level].pstr = Key
                            ELSE ctx.jpr[cb.level].idx = Parent.nelem

NamesChild ==
  IF Parent.type = "OBJECT" THEN ctx.jpr[cb.level].pstr = Key
                            ELSE ctx.jpr[cb.level].idx = Parent.nelem - 1

MatchContinue ==
  IF cb.level = Len(ctx.jpr) THEN "COMPLETE"
    ELSE IF State_.type = "LIST" /\ ctx.jpr[cb.level + 1].ptype = "NUMERIC" THEN "POSSIBLE"
    ELSE IF State_.type = "OBJECT" /\ ctx.jpr[cb.level + 1].ptype # "NUMERIC" THEN "POSSIBLE"
    ELSE "TYPE_MISMATCH"

PathMatch == IF HasParent /\ ~NamesChild THEN "NOMATCH" ELSE MatchContinue

(* Answers to a callback; callbacks and ctx change only where said. *)
GoOn == Answer(FALSE, State_.ignore_callback, max_callback_level)
Stop == Answer(TRUE, State_.ignore_callback, max_callback_level)
Skip == Answer(FALSE, TRUE, max_callback_level)
Keep == UNCHANGED <<doc, path, round, pc>>

-----------------------------------------------------------------------------
(* push_callback() *)

Matching(action) == callbacks = "MATCH" /\ cb.action = action

KeyBegins ==
  /\ Matching("PUSH") /\ State_.type = "HKEY"
  /\ ctx' = [ctx EXCEPT !.hk_at = cb.at + 1]
  /\ GoOn /\ Keep
  /\ UNCHANGED <<m, mres, callbacks>>

(* The parent is not a match candidate: nothing is done. *)
PushElsewhere ==
  /\ Matching("PUSH") /\ State_.type # "HKEY"
  /\ HasParent /\ mres[cb.level - 1] # "POSSIBLE"
  /\ GoOn /\ Keep
  /\ UNCHANGED <<m, ctx, mres, callbacks>>

Candidate ==
  /\ Matching("PUSH") /\ State_.type # "HKEY"
  /\ HasParent => mres[cb.level - 1] = "POSSIBLE"
  /\ mres' = [mres EXCEPT ![cb.level] = PathMatch]

PushComplete ==
  /\ Candidate /\ PathMatch = "COMPLETE"
  /\ LET inObject == HasParent /\ Parent.type = "OBJECT"
         inList   == HasParent /\ Parent.type = "LIST"
         refused  == m.ensure_unique # <<>> /\ State_.type # "LIST"
     IN /\ m' = [m EXCEPT
                   !.matchres = IF refused THEN "TYPE_MISMATCH" ELSE "COMPLETE",
                   !.type = State_.type,
                   !.loc_deepest.at = round.at + cb.at,
                   !.match_level = cb.level,
                   !.loc_key = IF inObject THEN RawKey ELSE @,
                   !.position = CASE inObject -> Parent.nelem \div 2 - 1
                                  [] inList   -> Parent.nelem - 1
                                  [] OTHER    -> @]
        /\ IF m.ensure_unique = <<>> THEN GoOn /\ UNCHANGED callbacks
           ELSE IF refused THEN Stop /\ UNCHANGED callbacks
           ELSE /\ callbacks' = "UNIQUE"
                /\ Answer(FALSE, State_.ignore_callback, cb.level + 2)
  /\ Keep /\ UNCHANGED ctx

PushNoMatch ==
  /\ Candidate /\ PathMatch = "NOMATCH"
  /\ Skip /\ Keep /\ UNCHANGED <<m, ctx, callbacks>>

PushPossible ==
  /\ Candidate /\ PathMatch = "POSSIBLE"
  /\ m' = [m EXCEPT !.match_level = cb.level, !.loc_deepest.at = round.at + cb.at]
  /\ GoOn /\ Keep /\ UNCHANGED <<ctx, callbacks>>

PushMismatch ==
  /\ Candidate /\ PathMatch = "TYPE_MISMATCH"
  /\ m' = [m EXCEPT !.matchres = "TYPE_MISMATCH"]
  /\ Skip /\ Keep /\ UNCHANGED <<ctx, callbacks>>

-----------------------------------------------------------------------------
(* pop_callback() *)

KeyEnds ==
  /\ Matching("POP") /\ State_.type = "HKEY"
  /\ ctx' = [ctx EXCEPT !.hk_len = cb.at - (State_.pos_begin + 1)]
  /\ GoOn /\ Keep /\ UNCHANGED <<m, mres, callbacks>>

EndedAfter(match) ==   \* mutant: a number ends like a container
  [match EXCEPT
     !.loc_deepest.length = cb.at - State_.pos_begin + 1,
     !.sflags = IF State_.type = "SPECIAL" THEN State_.special_flags ELSE @,
     !.immediate_parent_found = TRUE,
     !.num_children = State_.nelem]

(* The match with its end, before get_last looks at it. *)
Ended(match) ==
  [match EXCEPT
     !.loc_deepest.length =
        cb.at - State_.pos_begin + (IF State_.type = "SPECIAL" THEN 0 ELSE 1),
     !.sflags = IF State_.type = "SPECIAL" THEN State_.special_flags ELSE @,
     !.immediate_parent_found = TRUE,
     !.num_children = State_.nelem]

(* get_last: the match becomes the array's last child, which ends where    *)
(* the array does but for the white space before the bracket.              *)
LastChild   == stack[cb.level + 1]
ChildEnd    == Max({i \in LastChild.pos_begin + 1 .. cb.at : text[i] \notin Whitespace}
                     \cup {LastChild.pos_begin})
Transposed(match) ==
  [match EXCEPT
     !.loc_deepest = [at |-> round.at + LastChild.pos_begin,
                      length |-> ChildEnd - LastChild.pos_begin],
     !.match_level = cb.level + 1,
     !.sflags = LastChild.special_flags,
     !.type = LastChild.type,
     !.num_children = LastChild.nelem,
     !.num_siblings = State_.nelem - 1,
     !.position = State_.nelem - 1,
     !.loc_key = NoLoc]

(* The part of pop_callback() for the match itself. *)
PopMatched(match) ==
  /\ mres[cb.level] = "COMPLETE"
  /\ m' = IF ~match.get_last THEN Ended(match)
            ELSE IF State_.type # "LIST" THEN [Ended(match) EXCEPT !.matchres = "TYPE_MISMATCH"]
            ELSE IF State_.nelem = 0 THEN [Ended(match) EXCEPT !.matchres = "UNKNOWN"]
            ELSE Transposed(Ended(match))

AwaitsAlways == ~m.get_last \/ m.extra_options = "GET_FOLLOWING_SIBLINGS"   \* mutant
AwaitsNever  == FALSE                                                       \* mutant
AwaitsSibling == ~m.get_last /\ m.extra_options = "GET_FOLLOWING_SIBLINGS"

PopComplete ==
  /\ Matching("POP") /\ State_.type # "HKEY"
  /\ PopMatched(m)
  /\ IF AwaitsSibling THEN callbacks' = "SIBLING" /\ GoOn
                      ELSE Stop /\ UNCHANGED callbacks
  /\ Keep /\ UNCHANGED <<ctx, mres>>

PopElsewhere ==
  /\ Matching("POP") /\ State_.type # "HKEY"
  /\ mres[cb.level] # "COMPLETE"
  /\ State_.type \in Container => mres[cb.level] # "POSSIBLE"
  /\ GoOn /\ Keep /\ UNCHANGED <<m, ctx, mres, callbacks>>

(* The deepest existing parent of a path that is not there. *)
PopParent ==
  /\ Matching("POP") /\ State_.type \in Container /\ mres[cb.level] = "POSSIBLE"
  /\ m' = [m EXCEPT
             !.loc_deepest.length = cb.at - State_.pos_begin + 1,
             !.num_siblings = IF State_.type = "OBJECT" THEN State_.nelem \div 2
                                                        ELSE State_.nelem,
             !.type = State_.type,
             !.immediate_parent_found = @ \/ cb.level = Len(ctx.jpr) - 1]
  /\ Stop /\ Keep /\ UNCHANGED <<ctx, mres, callbacks>>

-----------------------------------------------------------------------------
(* unique_callback() *)

UniqueBegins ==
  /\ callbacks = "UNIQUE" /\ cb.action = "PUSH"
  /\ ctx' = [ctx EXCEPT !.unique_at = cb.at]
  /\ GoOn /\ Keep /\ UNCHANGED <<m, mres, callbacks>>

(* The end of the array itself. *)
UniqueArrayEnds ==
  /\ callbacks = "UNIQUE" /\ cb.action = "POP"
  /\ PopMatched(m)
  /\ callbacks' = IF AwaitsSibling THEN "SIBLING" ELSE "MATCH"
  /\ Answer(~AwaitsSibling, State_.ignore_callback, cb.level + 1)
  /\ Keep /\ UNCHANGED <<ctx, mres>>

(* strncmp over the element, without its first and last byte for a string. *)
Inner(bytes) == SubSeq(bytes, 2, Len(bytes) - 1)
DuplicateRaw ==   \* mutant: strings compared like numbers
  TextSlice(ctx.unique_at, cb.at - State_.pos_begin) = m.ensure_unique

Duplicate ==
  LET length == cb.at - State_.pos_begin
      want   == m.ensure_unique
  IN IF State_.type = "STRING"
     THEN /\ Len(want) >= 2 /\ Len(want) = length + 1
          /\ Inner(TextSlice(ctx.unique_at, length + 1)) = Inner(want)
     ELSE Len(want) = length /\ TextSlice(ctx.unique_at, length) = want

UniqueElementEnds ==
  /\ callbacks = "UNIQUE" /\ cb.action = "POP"
  /\ mres[cb.level] # "COMPLETE"
  /\ CASE State_.type \in Container -> m' = [m EXCEPT !.matchres = "TYPE_MISMATCH"] /\ Stop
       [] State_.type \notin Container /\ Duplicate ->
            m' = [m EXCEPT !.unique_item_found = TRUE] /\ Stop
       [] OTHER -> UNCHANGED m /\ GoOn
  /\ Keep /\ UNCHANGED <<ctx, mres, callbacks>>

(* next_sibling_push_callback(): the next sibling of the match or, when    *)
(* the match was the last, its parent's end.                               *)
NextSibling ==
  LET ofParent  == cb.action = "POP"
      parent    == IF ofParent THEN State_ ELSE Parent
      parentRes == IF ofParent THEN mres[cb.level] ELSE mres[cb.level - 1]
      counted   == IF parent.type = "OBJECT"
                   THEN (parent.nelem + (IF ofParent THEN 0 ELSE 1)) \div 2
                   ELSE parent.nelem
  IN
  /\ callbacks = "SIBLING" /\ cb # NoCallback
  /\ m' = IF (ofParent \/ HasParent) /\ parentRes = "POSSIBLE"
          THEN [m EXCEPT !.num_siblings = counted - 1] ELSE m
  /\ Stop /\ Keep /\ UNCHANGED <<ctx, mres, callbacks>>

-----------------------------------------------------------------------------
(* err_callback(): an error ends in the status. *)
Lex ==
  /\ pc = "FEED" /\ Feed
  /\ m' = [m EXCEPT !.status = err']
  /\ UNCHANGED <<doc, path, ctx, mres, callbacks, round, pc>>

Callback ==
  /\ pc = "FEED" /\ cb # NoCallback
  /\ \/ KeyBegins \/ PushElsewhere \/ PushComplete \/ PushNoMatch
     \/ PushPossible \/ PushMismatch
     \/ KeyEnds \/ PopComplete \/ PopElsewhere \/ PopParent
     \/ UniqueBegins \/ UniqueArrayEnds \/ UniqueElementEnds
     \/ NextSibling

(* exec_match_simple(): the beginning. *)
StartFeed(jpr, match, bytes) ==
  /\ m' = [match EXCEPT !.status = "SUCCESS"]
  /\ ctx' = [BlankContext EXCEPT !.jpr = jpr]
  /\ callbacks' = "MATCH"
  /\ CallFeed(bytes, Len(jpr) + 1, TRUE)
  /\ pc' = "FEED"

(* exec_match(): the caller has set the options of the Match. *)
Search(document, p, match) ==
  /\ pc = "IDLE"
  /\ doc' = document /\ path' = p
  /\ IF HasNegix(p)
     THEN /\ round' = [BlankRound EXCEPT !.length = Len(document)]
          /\ m' = match /\ pc' = "ROUND"
          /\ UNCHANGED <<jsnVars, ctx, callbacks>>
     ELSE /\ round' = BlankRound
          /\ StartFeed(p, match, document)
  /\ UNCHANGED mres

(* The loop of exec_match_negix(): the components up to the next negative  *)
(* index, in the buffer of the previous round's match; clear() before it.  *)
NextNegative == Min({i \in round.cur_start .. Len(path) - 1 : path[i + 1].is_neg}
                      \cup {Len(path)})

ClearMatch(lastNegative) == [BlankMatch EXCEPT !.get_last = lastNegative]

BeginRound ==
  /\ pc = "ROUND"
  /\ round' = [round EXCEPT !.next = NextNegative]
  /\ StartFeed(<<Root>> \o SubSeq(path, round.cur_start + 1, NextNegative),
               ClearMatch(NextNegative < Len(path)),
               DocSlice([at |-> round.at, length |-> round.length]))
  /\ UNCHANGED <<doc, path, mres>>

(* jsonsl_feed() has returned. *)
Returned == /\ pc = "FEED" /\ cb = NoCallback
            /\ err # "SUCCESS" \/ stopfl \/ pos = Len(text)

EndFeed ==
  /\ Returned
  /\ Reset
  /\ mres' = NoResults

EndSimple ==
  /\ ~HasNegix(path)
  /\ EndFeed
  /\ pc' = "DONE"
  /\ UNCHANGED <<doc, path, m, ctx, callbacks, round>>

(* After a round, match_level counts from the top of the whole document,   *)
(* the first level of a later round being the last of the one before.      *)
RoundLevelLess == m.match_level + round.offset - 1   \* mutant
RoundLevel == m.match_level + round.offset - (IF round.offset = 0 THEN 0 ELSE 1)

EndRound ==
  /\ HasNegix(path)
  /\ EndFeed
  /\ LET failed == m.status # "SUCCESS"
         last   == m.matchres # "COMPLETE" \/ round.next + 1 >= Len(path)
     IN /\ m' = [m EXCEPT !.match_level = RoundLevel,
                          !.immediate_parent_found =
                             IF ~failed /\ last THEN RoundLevel >= Len(path) - 1 ELSE @]
        /\ IF failed \/ last
           THEN pc' = "DONE" /\ UNCHANGED round
           ELSE /\ pc' = "ROUND"
                /\ round' = [cur_start |-> round.next + 1, next |-> round.next,
                             offset |-> RoundLevel,
                             at |-> m.loc_deepest.at, length |-> m.loc_deepest.length]
  /\ UNCHANGED <<doc, path, ctx, callbacks>>

(* Match::clear(), before the object is used again. *)
Clear ==
  /\ pc \in {"IDLE", "DONE"}
  /\ m' = BlankMatch /\ pc' = "IDLE"
  /\ doc' = <<>> /\ path' = <<>> /\ ctx' = BlankContext
  /\ callbacks' = "MATCH" /\ round' = BlankRound
  /\ UNCHANGED <<jsnVars, mres>>

ExecMatch == BeginRound \/ Lex \/ Callback \/ EndSimple \/ EndRound

MatchInit ==
  /\ JsonslInit
  /\ doc = <<>> /\ path = <<>> /\ m = BlankMatch /\ ctx = BlankContext
  /\ mres = NoResults /\ callbacks = "MATCH" /\ round = BlankRound /\ pc = "IDLE"
=============================================================================
