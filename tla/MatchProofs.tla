---------------------------- MODULE MatchProofs ----------------------------
(***************************************************************************)
(* The search of Match::exec_match(), for every document, every path and   *)
(* every stack size: the inductive invariant that ties the lexer's stack to*)
(* the components of the path, and what follows from it for the Match.     *)
(***************************************************************************)
EXTENDS MatchClient, JsonslSteps

-----------------------------------------------------------------------------
(* The search. *)

MatchRec ==
  [type : Kind, status : Error \cup {"SUCCESS"}, matchres : MatchRes, sflags : SUBSET Flag,
   match_level : Nat, position : Nat, num_siblings : Nat, num_children : Nat,
   immediate_parent_found : BOOLEAN, get_last : BOOLEAN,
   extra_options : {"GET_MATCH_ONLY", "GET_FOLLOWING_SIBLINGS"}, unique_item_found : BOOLEAN,
   loc_deepest : Loc, loc_key : Loc, ensure_unique : Seq(STRING)]

ContextRec == [jpr : Seq(Component), hk_at : Nat, hk_len : Nat, unique_at : Nat]
RoundRec   == [cur_start : Nat, next : Nat, offset : Nat, at : Nat, length : Nat]

SearchTypes ==
  /\ doc \in Seq(STRING) /\ path \in Seq(Component)
  /\ m \in MatchRec /\ ctx \in ContextRec /\ round \in RoundRec
  /\ mres \in [Level -> MatchRes \ {"UNKNOWN"}]
  /\ callbacks \in {"MATCH", "UNIQUE", "SIBLING"}
  /\ pc \in {"IDLE", "ROUND", "FEED", "DONE"}

Depth == Len(ctx.jpr)

(* Between two passes the lexer is as good as new. *)
Resting ==
  /\ text = <<>> /\ pos = 0 /\ cb = NoCallback /\ err = "SUCCESS" /\ ~stopfl
  /\ level = 0 /\ stack[0] = BlankState /\ mres = NoResults

(* The components that are left, in the stretch of the document they are   *)
(* searched in.                                                            *)
RoundStands ==
  /\ round.cur_start \in 1 .. Len(path)
  /\ round.at + round.length <= Len(doc)

(* The text is the stretch of the document that begins at round.at. *)
FeedsDocument ==
  /\ round.at + Len(text) <= Len(doc)
  /\ \A i \in 1 .. Len(text) : text[i] = doc[round.at + i]

(* Levels 1 to depth of the stack are those of the path.                   *)
OnPath(depth) ==
  /\ depth \in 0 .. Depth /\ depth <= Reach
  /\ cb.action = "PUSH" => depth < level
  /\ \A l \in 1 .. depth :
       /\ ~stack[l].ignore_callback /\ stack[l].type # "HKEY"
       /\ mres[l] = IF l = Depth THEN "COMPLETE" ELSE "POSSIBLE"
       /\ l < Depth => stack[l].type \in Container
  /\ depth > 0 /\ depth = Depth /\ m.matchres = "COMPLETE" => m.type = stack[depth].type
  /\ depth > 0 => m.loc_deepest.at = round.at + stack[depth].pos_begin
  /\ m.loc_deepest.length = 0

(* The key in hand, with its quotes, and the position after it. *)
KeyEnd == ctx.hk_at + ctx.hk_len + 1
KeyInHand == ctx.hk_at > 0 /\ text[ctx.hk_at] = Quote /\ text[KeyEnd] = Quote

InKey(depth) == depth < Reach /\ stack[depth + 1].type = "HKEY"

AfterKey(depth) ==
  level = depth /\ cb = NoCallback /\ stack[depth].type = "OBJECT" /\ stack[depth].nelem % 2 = 1

ValueBegins(depth) ==
  /\ cb.action = "PUSH" /\ cb.level = depth + 1 /\ depth > 0
  /\ stack[depth].type = "OBJECT" /\ stack[depth + 1].type # "HKEY"

(* What is beyond is ignored but for a state that has just begun and for   *)
(* keys: the last key read of the object the search is in.                 *)
Beyond(depth) ==
  /\ m.loc_key = NoLoc /\ m.matchres # "COMPLETE"
  /\ depth < Reach => \/ cb.action = "PUSH" /\ cb.level = depth + 1
                      \/ stack[depth + 1].ignore_callback
                      \/ InKey(depth)
  /\ InKey(depth) => /\ ~stack[depth + 1].ignore_callback
                     /\ cb.action # "PUSH" => ctx.hk_at = stack[depth + 1].pos_begin + 1
  /\ AfterKey(depth) => KeyInHand /\ KeyEnd <= pos /\ (expecting # ":" => KeyEnd < pos)
  /\ ValueBegins(depth) => KeyInHand /\ KeyEnd < cb.at

Descending ==
  /\ max_callback_level = Depth + 1 /\ OnPath(m.match_level)
  /\ IF m.match_level = Depth THEN m.matchres = "COMPLETE" ELSE Beyond(m.match_level)

Comparing ==
  /\ max_callback_level = Depth + 2 /\ OnPath(Depth) /\ m.match_level = Depth
  /\ m.matchres = "COMPLETE"

(* The match is over; the parent's next child or its end is awaited.       *)
Counting ==
  /\ max_callback_level = Depth + 1 /\ m.match_level = Depth
  /\ m.matchres = "COMPLETE" /\ m.extra_options = "GET_FOLLOWING_SIBLINGS"
  /\ CASE cb = NoCallback -> /\ level = Depth - 1 /\ ~Top.ignore_callback
                             /\ Top.type \in Container \cup {"ROOT"}
                             /\ Top.nelem > 0
                             /\ Top.type = "OBJECT" => Top.nelem % 2 = 0
       [] cb.action = "PUSH" -> /\ level = Depth /\ stack[Depth - 1].nelem > 0
                                /\ Depth > 1 /\ stack[Depth - 1].type = "OBJECT" => Top.type = "HKEY"
       [] cb.action = "POP"  -> /\ cb.level = Depth - 1 /\ stack[cb.level].nelem > 0
                                /\ stack[cb.level].type = "OBJECT" => stack[cb.level].nelem % 2 = 0

(* What the Match says of the document, at any time. *)
Placed ==
  /\ m.matchres = "COMPLETE" \/ m.loc_deepest.length # 0 => Within(m.loc_deepest)
  /\ m.loc_deepest.length = 1 =>
       m.matchres \in {"COMPLETE", "TYPE_MISMATCH"} /\ m.type \notin Container
  /\ m.loc_key # NoLoc => /\ Within(m.loc_key)
                          /\ m.loc_key.at + m.loc_key.length < m.loc_deepest.at
                          /\ doc[m.loc_key.at + 1] = Quote
                          /\ doc[m.loc_key.at + m.loc_key.length] = Quote

Searching ==
  /\ Depth > 0 /\ FeedsDocument /\ call_HKEY
  /\ \A l \in Level : mres[l] = "COMPLETE" => l = Depth
  /\ ~stopfl => CASE callbacks = "MATCH"   -> Descending
                  [] callbacks = "UNIQUE"  -> Comparing
                  [] callbacks = "SIBLING" -> Counting

SearchInv ==
  /\ LexerInv /\ SearchTypes /\ Placed
  /\ IF pc = "FEED" THEN Searching ELSE Resting
  /\ pc = "ROUND" => RoundStands

-----------------------------------------------------------------------------
(* Largest and smallest numbers.                                           *)

\* The end of an array's last child is between its beginning and the array's.
LEMMA ChildEndFacts ==
  ASSUME NEW begin \in Nat, NEW at \in Nat, LastChild.pos_begin = begin, cb.at = at
  PROVE  /\ ChildEnd \in Nat /\ begin <= ChildEnd /\ (ChildEnd <= at \/ ChildEnd = begin)
         /\ \A i \in begin + 1 .. at : text[i] \notin Whitespace => i <= ChildEnd
<1> DEFINE Ends == {i \in begin + 1 .. at : text[i] \notin Whitespace} \cup {begin}
<1>1. Ends \in SUBSET (0 .. at + begin) /\ Ends # {} /\ at + begin \in Nat
  OBVIOUS
<1>2. \A i \in Ends : i \in Nat /\ begin <= i /\ (i <= at \/ i = begin)
  OBVIOUS
<1>3. ChildEnd = Max(Ends)
  BY DEF ChildEnd
<1> HIDE DEF Ends
<1>4. Max(Ends) \in Ends /\ \A i \in Ends : i <= Max(Ends)
  BY <1>1, MaxIsIn
<1>5. \A i \in begin + 1 .. at : text[i] \notin Whitespace => i \in Ends
  BY DEF Ends
<1> QED
  BY <1>2, <1>3, <1>4, <1>5

\* The next negative index is one of those that are left, or none.
LEMMA NextNegativeFacts ==
  ASSUME path \in Seq(Component), round.cur_start \in 1 .. Len(path)
  PROVE  NextNegative \in Nat /\ round.cur_start <= NextNegative /\ NextNegative <= Len(path)
<1> DEFINE Candidates == {i \in round.cur_start .. Len(path) - 1 : path[i + 1].is_neg} \cup {Len(path)}
<1>1. \A i \in Candidates : i \in Nat /\ round.cur_start <= i /\ i <= Len(path)
  OBVIOUS
<1>2. Candidates # {} /\ NextNegative = Min(Candidates)
  BY DEF NextNegative
<1> HIDE DEF Candidates
<1>3. Min(Candidates) \in Candidates
  BY <1>1, <1>2, MinIsIn
<1> QED
  BY <1>1, <1>2, <1>3

-----------------------------------------------------------------------------
(* Types of what the proofs look at. *)

(* Offsets, lengths and levels are natural numbers but where Null is said. *)
LEMMA SearchFacts ==
  ASSUME SearchTypes
  PROVE  /\ m.loc_deepest \in Loc /\ m.loc_deepest.at \in Nat \cup {Null} /\ m.loc_deepest.length \in Int
         /\ m.loc_key \in Loc /\ m.match_level \in Nat
         /\ ctx.jpr \in Seq(Component) /\ Depth \in Nat /\ ctx.hk_at \in Nat /\ ctx.hk_len \in Nat
         /\ KeyEnd \in Nat
         /\ round.at \in Nat /\ round.length \in Nat /\ round.offset \in Nat /\ round.next \in Nat
         /\ doc \in Seq(STRING) /\ Len(doc) \in Nat
<1>1. m.loc_deepest \in Loc /\ m.loc_key \in Loc /\ m.match_level \in Nat
  BY DEF SearchTypes, MatchRec
<1>2. ctx.jpr \in Seq(Component) /\ ctx.hk_at \in Nat /\ ctx.hk_len \in Nat
  BY DEF SearchTypes, ContextRec
<1>3. round.at \in Nat /\ round.length \in Nat /\ round.offset \in Nat /\ round.next \in Nat
  BY DEF SearchTypes, RoundRec
<1>4. m.loc_deepest.at \in Nat \cup {Null} /\ m.loc_deepest.length \in Int
  BY <1>1 DEF Loc
<1>5. Depth \in Nat
  BY <1>2 DEF Depth
<1>6. KeyEnd \in Nat
  BY <1>2 DEF KeyEnd
<1>7. doc \in Seq(STRING) /\ Len(doc) \in Nat
  BY DEF SearchTypes
<1> QED
  BY <1>1, <1>2, <1>3, <1>4, <1>5, <1>6, <1>7

(* Where a callback finds the search.                                      *)
LEMMA AtCallback ==
  ASSUME SearchInv, pc = "FEED", cb # NoCallback
  PROVE  /\ LexerInv /\ JsonslInv /\ SearchTypes /\ Placed /\ Searching /\ ~stopfl
         /\ level \in Nat /\ pos \in Nat /\ text \in Seq(STRING)
         /\ cb.action \in {"PUSH", "POP"} /\ cb.level = Reach /\ cb.level \in Level
         /\ cb.level \in Nat /\ cb.level > 0 /\ cb.at \in Nat /\ cb.at < Len(text)
         /\ cb.action = "PUSH" => level = cb.level /\ State_.pos_begin = cb.at
         /\ cb.action = "POP" => level = cb.level - 1 /\ State_.pos_begin < cb.at
         /\ State_ \in State /\ State_.type \in Type \ {"ROOT"} /\ State_.nelem \in Nat
         /\ State_.pos_begin \in Nat /\ ~State_.ignore_callback /\ State_.special_flags \in SUBSET Flag
         /\ cb.level < max_callback_level /\ cb.level - 1 \in Level
         /\ cb.level - 1 \in Nat /\ stack[cb.level - 1].nelem > 0 /\ stack[cb.level - 1].nelem \in Nat
         /\ Depth \in Nat /\ Depth > 0
<1>1. LexerInv /\ JsonslInv /\ SearchTypes /\ Placed /\ Searching
  BY DEF SearchInv, LexerInv
<1>2. ~stopfl /\ cb.action \in {"PUSH", "POP"} /\ cb.level < max_callback_level
      /\ ~State_.ignore_callback
  BY <1>1 DEF LexerInv, CallbackWanted, State_
<1>3. /\ level \in Nat /\ cb.level = Reach /\ cb.level \in Level /\ cb.level > 0 /\ cb.at < Len(text)
      /\ cb.level \in Nat /\ cb.level - 1 \in Level /\ cb.level - 1 \in Nat
  BY <1>1, <1>2, ReachFacts, LevelsAssumption DEF Level
<1>4. cb.at \in Nat
  BY <1>1 DEF JsonslInv, JsonslTypeOK, CallbackRec
<1>5. /\ cb.action = "PUSH" => level = cb.level /\ State_.pos_begin = cb.at
      /\ cb.action = "POP" => level + 1 = cb.level /\ State_.pos_begin < cb.at /\ stack[level].nelem > 0
      /\ OpenedBy(State_.type, text[State_.pos_begin + 1])
  BY <1>1 DEF JsonslInv, CallbackSeesItsState, State_
<1>6. /\ State_ \in State /\ State_.type \in Type /\ State_.nelem \in Nat
      /\ State_.pos_begin \in Nat /\ State_.special_flags \in SUBSET Flag
      /\ stack[cb.level - 1].nelem \in Nat
  BY <1>1, <1>3, StackFacts DEF JsonslInv, State_
<1>7. State_.type # "ROOT"
  BY <1>5 DEF OpenedBy, Stringy
<1>8. stack[cb.level - 1].nelem > 0
  <2>1. CASE cb.action = "PUSH"
    BY <1>1, <1>3, <1>5, <2>1 DEF JsonslInv, KeysPairWithValues
  <2>2. CASE cb.action = "POP"
    BY <1>3, <1>5, <2>2
  <2> QED
    BY <1>2, <2>1, <2>2
<1>9. Depth \in Nat /\ Depth > 0 /\ pos \in Nat /\ text \in Seq(STRING)
  BY <1>1, SearchFacts, CursorFacts DEF Searching, JsonslInv
<1>10. cb.action = "POP" => level = cb.level - 1
  BY <1>3, <1>5
<1> QED
  BY <1>1, <1>2, <1>3, <1>4, <1>5, <1>6, <1>7, <1>8, <1>9, <1>10

-----------------------------------------------------------------------------
(* The lexer moves.                                                        *)

(* Where the stack stands before and after a handler.                      *)
LEMMA AtFeed ==
  ASSUME LexerInv, Feed
  PROVE  /\ JsonslInv /\ Running /\ cb = NoCallback /\ Reach = level /\ level \in Nat /\ pos \in Nat
         /\ level \in Level /\ \A l \in 0 .. level : l \in Level
         /\ Top \in State /\ Top.nelem \in Nat /\ UNCHANGED <<text, clientVars>>
         /\ \/ QuietStep /\ cb' = NoCallback /\ Reach' = level
            \/ PopStep /\ (IF cb' = NoCallback THEN Reach' = level - 1
                           ELSE Reach' = level /\ cb'.action = "POP" /\ cb'.level = level /\ cb'.at = pos)
            \/ \E type \in Type \ {"ROOT"} :
                 /\ PushStep(type) /\ Reach' = level + 1
                 /\ cb' # NoCallback => cb'.action = "PUSH" /\ cb'.level = level + 1 /\ cb'.at = pos
                 /\ cb'.action # "POP"
<1>1. JsonslInv /\ Running /\ cb = NoCallback /\ level \in Nat /\ level \in Level /\ Reach = level
      /\ \A l \in 0 .. level : l \in Level
  BY FeedTakes, ReachFacts DEF LexerInv, Running
<1>2. Top \in State /\ Top.nelem \in Nat /\ pos \in Nat
  BY <1>1, LevelTypes, CursorFacts DEF State, JsonslInv
<1>3. CASE QuietStep
  <2>1. cb' = NoCallback /\ Reach' = level
    BY <1>1, <1>3 DEF QuietStep, Reach, NoCallback
  <2> QED
    BY <1>1, <1>2, <1>3, <2>1 DEF QuietStep
<1>4. CASE PopStep
  <2>1. cb' = NoCallback => Reach' = level - 1
    BY <1>4 DEF PopStep, Reach, NoCallback
  <2>2. cb' # NoCallback => cb'.action = "POP" /\ cb'.level = level /\ cb'.at = pos
    BY <1>4 DEF PopStep, Delivered
  <2>3. cb' # NoCallback => Reach' = level
    BY <1>1, <1>4, <2>2 DEF PopStep, Reach
  <2> QED
    BY <1>1, <1>2, <1>4, <2>1, <2>2, <2>3 DEF PopStep
<1>5. ASSUME NEW type \in Type \ {"ROOT"}, PushStep(type)
      PROVE  /\ Reach' = level + 1 /\ UNCHANGED <<text, clientVars>>
             /\ cb' # NoCallback => cb'.action = "PUSH" /\ cb'.level = level + 1 /\ cb'.at = pos
             /\ cb'.action # "POP"
  <2>1. cb' = NoCallback \/ cb' = [action |-> "PUSH", level |-> level + 1, at |-> pos]
    BY <1>5 DEF PushStep, Delivered
  <2> QED
    BY <1>5, <2>1 DEF PushStep, Reach, NoCallback
<1> QED
  BY <1>1, <1>2, <1>3, <1>4, <1>5, FeedTakes

(* The levels of the path stay, and their end is reported.                 *)
LEMMA OnPathFeed ==
  ASSUME LexerInv, SearchTypes, Feed, NEW d \in Nat, OnPath(d), d < max_callback_level, call_HKEY,
         UNCHANGED <<ctx, mres, round>>, m'.loc_deepest = m.loc_deepest,
         m'.type = m.type, m'.matchres = m.matchres
  PROVE  OnPath(d)'
<1>1. /\ cb = NoCallback /\ Reach = level /\ level \in Nat /\ level \in Level
      /\ \A l \in 0 .. level : l \in Level
  BY AtFeed
<1>2. /\ d <= level /\ d \in 0 .. Depth /\ Depth' = Depth
      /\ \A l \in 1 .. d : /\ ~stack[l].ignore_callback /\ stack[l].type # "HKEY"
                           /\ mres[l] = IF l = Depth THEN "COMPLETE" ELSE "POSSIBLE"
                           /\ l < Depth => stack[l].type \in Container
      /\ d > 0 => m.loc_deepest.at = round.at + stack[d].pos_begin
      /\ d > 0 /\ d = Depth /\ m.matchres = "COMPLETE" => m.type = stack[d].type
      /\ m.loc_deepest.length = 0
  BY <1>1 DEF OnPath, Depth
<1>3. ASSUME \A l \in 1 .. d : SameState(stack'[l], stack[l]) \/ 
                               /\ stack'[l].type = stack[l].type
                               /\ stack'[l].pos_begin = stack[l].pos_begin
                               /\ stack'[l].ignore_callback = stack[l].ignore_callback,
             d <= Reach', cb'.action = "PUSH" => d < level'
      PROVE  OnPath(d)'
  <2>1. \A l \in 1 .. d : /\ stack'[l].type = stack[l].type
                          /\ stack'[l].pos_begin = stack[l].pos_begin
                          /\ stack'[l].ignore_callback = stack[l].ignore_callback
    BY <1>3 DEF SameState
  <2>2. d > 0 => stack'[d].pos_begin = stack[d].pos_begin /\ stack'[d].type = stack[d].type
    BY <2>1
  <2> QED
    BY <1>2, <1>3, <2>1, <2>2 DEF OnPath
<1>4. CASE QuietStep /\ cb' = NoCallback /\ Reach' = level
  <2>1. \A l \in 1 .. d : SameState(stack'[l], stack[l])
    BY <1>1, <1>2, <1>4 DEF QuietStep
  <2> QED
    BY <1>2, <1>3, <1>4, <2>1 DEF NoCallback
<1>5. CASE PopStep /\ (IF cb' = NoCallback THEN Reach' = level - 1
                       ELSE Reach' = level /\ cb'.action = "POP" /\ cb'.level = level /\ cb'.at = pos)
  <2>1. \A l \in 1 .. d : SameState(stack'[l], stack[l])
    BY <1>1, <1>2, <1>5 DEF PopStep
  <2>2. d = level => cb' # NoCallback
    <3>1. d = level => d > 0 /\ ~Top.ignore_callback
      BY <1>1, <1>2, <1>5 DEF PopStep, Top
    <3> QED
      BY <3>1, <1>5 DEF PopStep, Delivered, NoCallback
  <2>3. d <= Reach' /\ cb'.action # "PUSH"
    BY <1>1, <1>2, <1>5, <2>2 DEF NoCallback
  <2> QED
    BY <1>3, <2>1, <2>3
<1>6. ASSUME NEW type \in Type \ {"ROOT"}, PushStep(type), Reach' = level + 1
      PROVE  OnPath(d)'
  <2>1. ASSUME NEW l \in 1 .. d
        PROVE  /\ stack'[l].type = stack[l].type
               /\ stack'[l].pos_begin = stack[l].pos_begin
               /\ stack'[l].ignore_callback = stack[l].ignore_callback
    <3>1. l = level \/ l \in Level \ {level, level + 1}
      BY <1>1, <1>2
    <3> QED
      BY <1>6, <3>1 DEF PushStep, SameState, Top
  <2>2. d <= Reach' /\ d < level'
    BY <1>1, <1>2, <1>6 DEF PushStep
  <2> QED
    BY <1>3, <2>1, <2>2
<1> QED
  BY <1>4, <1>5, <1>6, AtFeed

(* What is beyond stays ignored; a value that begins after a key does so   *)
(* after its colon.                                                        *)
LEMMA BeyondFeed ==
  ASSUME LexerInv, SearchTypes, Feed, NEW d \in Nat, OnPath(d), Beyond(d), d < Depth,
         max_callback_level = Depth + 1, call_HKEY,
         UNCHANGED <<ctx, mres, round>>, m'.loc_key = m.loc_key, m'.matchres = m.matchres
  PROVE  Beyond(d)'
<1>1. /\ JsonslInv /\ cb = NoCallback /\ Reach = level /\ level \in Nat /\ level \in Level /\ pos \in Nat
      /\ UNCHANGED text /\ \A l \in 0 .. level : l \in Level
  BY AtFeed
<1>2. /\ d <= level /\ ~stack[d].ignore_callback
      /\ \A l \in 0 .. level - 1 : stack[l].ignore_callback => stack[l + 1].ignore_callback
  <2>1. d = 0 => ~stack[d].ignore_callback
    BY DEF LexerInv, IgnoreInherits
  <2>2. d # 0 => ~stack[d].ignore_callback
    BY DEF OnPath
  <2> QED
    BY <1>1, <2>1, <2>2 DEF OnPath, LexerInv, IgnoreInherits
<1>3. /\ Depth \in Nat /\ KeyEnd \in Nat /\ KeyEnd' = KeyEnd /\ (KeyInHand => KeyInHand')
      /\ ctx' = ctx
  BY <1>1, SearchFacts DEF KeyEnd, KeyInHand
<1>4. m'.loc_key = NoLoc /\ m'.matchres # "COMPLETE"
  BY DEF Beyond
<1>5. d < level => stack[d + 1].ignore_callback \/ stack[d + 1].type = "HKEY"
  BY <1>1 DEF Beyond, InKey, NoCallback
<1>6. d < level /\ stack[d + 1].type = "HKEY" =>
        ~stack[d + 1].ignore_callback /\ ctx.hk_at = stack[d + 1].pos_begin + 1
  BY <1>1 DEF Beyond, InKey, NoCallback
<1>7. level = d /\ stack[d].type = "OBJECT" /\ stack[d].nelem % 2 = 1 =>
        KeyInHand /\ KeyEnd <= pos /\ (expecting # ":" => KeyEnd < pos)
  BY <1>1 DEF Beyond, AfterKey
<1>8. CASE QuietStep /\ cb' = NoCallback /\ Reach' = level
  <2>1. /\ level' = level /\ pos' \in {pos, pos + 1} /\ (expecting' = expecting \/ pos' = pos + 1)
        /\ \A l \in Level : SameState(stack'[l], stack[l])
    BY <1>8 DEF QuietStep
  <2>2. d < level => SameState(stack'[d + 1], stack[d + 1])
    BY <1>1, <2>1
  <2>3. SameState(stack'[d], stack[d])
    BY <1>1, <1>2, <2>1
  <2>4. ~ValueBegins(d)'
    BY <1>8 DEF ValueBegins, NoCallback
  <2>5. AfterKey(d)' => KeyInHand' /\ KeyEnd <= pos' /\ (expecting' # ":" => KeyEnd < pos')
    BY <1>1, <1>3, <1>7, <2>1, <2>3 DEF AfterKey, SameState
  <2>6. d < Reach' => stack'[d + 1].ignore_callback \/ InKey(d)'
    BY <1>5, <1>8, <2>2 DEF InKey, SameState
  <2>7. InKey(d)' => ~stack'[d + 1].ignore_callback /\ ctx.hk_at = stack'[d + 1].pos_begin + 1
    BY <1>6, <1>8, <2>2 DEF InKey, SameState
  <2> QED
    BY <1>3, <1>4, <2>4, <2>5, <2>6, <2>7 DEF Beyond
<1>9. CASE PopStep /\ (IF cb' = NoCallback THEN Reach' = level - 1
                       ELSE Reach' = level /\ cb'.action = "POP" /\ cb'.level = level /\ cb'.at = pos)
  <2>1. /\ level # 0 /\ level' = level - 1
        /\ \A l \in Level : SameState(stack'[l], stack[l])
        /\ (Top.type = "HKEY") = (stack[level - 1].type = "OBJECT" /\ stack[level - 1].nelem % 2 = 1)
        /\ cb' = Delivered("POP", level, Top.type, Top.ignore_callback)
    BY <1>9 DEF PopStep
  <2>2. d < level => SameState(stack'[d + 1], stack[d + 1])
    BY <1>1, <2>1
  <2>3. SameState(stack'[d], stack[d])
    BY <1>1, <1>2, <2>1
  <2>4. cb'.action # "PUSH" /\ ~ValueBegins(d)'
    BY <1>9 DEF ValueBegins, NoCallback
  <2>5. Reach' <= level /\ (d < Reach' => d < level)
    BY <1>1, <1>2, <1>9
  <2>6. ~AfterKey(d)'
    <3> SUFFICES ASSUME AfterKey(d)' PROVE FALSE
      OBVIOUS
    <3>1. level - 1 = d /\ cb' = NoCallback /\ stack[d].type = "OBJECT" /\ stack[d].nelem % 2 = 1
      BY <2>1, <2>3 DEF AfterKey, SameState
    <3>2. Top.type = "HKEY" /\ level = d + 1
      BY <1>1, <2>1, <3>1
    <3>3. ~Top.ignore_callback /\ max_callback_level > level
      BY <1>3, <1>6, <3>2 DEF Top
    <3> QED
      BY <2>1, <3>1, <3>3 DEF Delivered, NoCallback
  <2>7. d < Reach' => stack'[d + 1].ignore_callback \/ InKey(d)'
    BY <1>5, <2>2, <2>5 DEF InKey, SameState
  <2>8. InKey(d)' => ~stack'[d + 1].ignore_callback /\ ctx.hk_at = stack'[d + 1].pos_begin + 1
    BY <1>6, <2>2, <2>5 DEF InKey, SameState
  <2> QED
    BY <1>3, <1>4, <2>4, <2>6, <2>7, <2>8 DEF Beyond
<1>10. ASSUME NEW type \in Type \ {"ROOT"}, PushStep(type), Reach' = level + 1,
              cb' # NoCallback => cb'.action = "PUSH" /\ cb'.level = level + 1 /\ cb'.at = pos,
              cb'.action # "POP"
       PROVE  Beyond(d)'
  <2>1. /\ level' = level + 1 /\ stack'[level + 1].type = type
        /\ stack'[level + 1].ignore_callback = Top.ignore_callback
        /\ stack'[level].type = Top.type /\ stack'[level].ignore_callback = Top.ignore_callback
        /\ \A l \in Level \ {level, level + 1} : stack'[l] = stack[l]
        /\ Top.type \in Container \cup {"ROOT"}
        /\ cb' = Delivered("PUSH", level + 1, type, Top.ignore_callback)
    BY <1>10 DEF PushStep, SameState
  <2>2. ~AfterKey(d)'
    BY <1>1, <1>2, <2>1 DEF AfterKey
  <2>3. CASE level = d
    <3>1. cb' # NoCallback
      BY <1>2, <1>3, <2>1, <2>3 DEF Delivered, Top, NoCallback
    <3>2. cb'.action = "PUSH" /\ cb'.level = d + 1 /\ cb'.at = pos
      BY <1>10, <2>3, <3>1
    <3>3. InKey(d)' => ~stack'[d + 1].ignore_callback
      BY <1>2, <2>1, <2>3 DEF Top
    <3>4. ValueBegins(d)' => KeyInHand' /\ KeyEnd < cb'.at
      <4> SUFFICES ASSUME ValueBegins(d)' PROVE KeyInHand' /\ KeyEnd < cb'.at
        OBVIOUS
      <4>1. Top.type = "OBJECT" /\ type # "HKEY"
        BY <2>1, <2>3 DEF ValueBegins
      <4>2. Top.nelem % 2 = 1 /\ expecting # ":"
        BY <1>1, <1>10, <4>1, ValueAfterColon DEF LexerInv
      <4> QED
        BY <1>3, <1>7, <2>3, <3>2, <4>1, <4>2 DEF Top
    <3> QED
      BY <1>3, <1>4, <2>2, <3>2, <3>3, <3>4 DEF Beyond
  <2>4. CASE level # d
    <3>1. d < level /\ d + 1 \in Level /\ d + 1 <= level
      BY <1>1, <1>2, <2>4
    <3>2. stack'[d + 1].type = stack[d + 1].type
          /\ stack'[d + 1].ignore_callback = stack[d + 1].ignore_callback
      <4>1. CASE d + 1 = level
        BY <2>1, <4>1 DEF Top
      <4>2. CASE d + 1 # level
        BY <1>1, <2>1, <3>1, <4>2
      <4> QED
        BY <4>1, <4>2
    <3>3. stack[d + 1].type # "HKEY"
      <4>1. CASE d + 1 = level
        BY <2>1, <4>1 DEF Top, Container
      <4>2. CASE d + 1 # level
        BY <1>1, <3>1, <4>2, LevelTypes DEF Container
      <4> QED
        BY <4>1, <4>2
    <3>4. stack'[d + 1].ignore_callback /\ ~InKey(d)'
      BY <1>5, <3>1, <3>2, <3>3 DEF InKey
    <3>5. cb'.action = "PUSH" => cb'.level # d + 1
      BY <1>1, <1>10, <3>1 DEF NoCallback
    <3> QED
      BY <1>4, <2>2, <3>4, <3>5 DEF Beyond, ValueBegins
  <2> QED
    BY <2>3, <2>4
<1> QED
  BY <1>8, <1>9, <1>10, AtFeed

(* The sibling, or the end of the parent, is reported when it comes.       *)
LEMMA CountingFeed ==
  ASSUME LexerInv, SearchTypes, Feed, Counting, Depth > 0, call_HKEY, UNCHANGED <<ctx>>,
         m'.match_level = m.match_level, m'.matchres = m.matchres,
         m'.extra_options = m.extra_options
  PROVE  Counting'
<1>1. /\ cb = NoCallback /\ level \in Nat /\ level \in Level /\ Depth \in Nat /\ Depth' = Depth
      /\ Top \in State /\ Top.nelem \in Nat
  BY AtFeed, SearchFacts DEF Depth
<1>2. /\ level = Depth - 1 /\ ~Top.ignore_callback /\ Top.type \in Container \cup {"ROOT"}
      /\ Top.nelem > 0 /\ (Top.type = "OBJECT" => Top.nelem % 2 = 0)
      /\ max_callback_level = Depth + 1
      /\ m.match_level = Depth /\ m.matchres = "COMPLETE" /\ m.extra_options = "GET_FOLLOWING_SIBLINGS"
  BY <1>1 DEF Counting, NoCallback
<1>3. max_callback_level' = Depth' + 1 /\ m'.match_level = Depth' /\ m'.matchres = "COMPLETE"
      /\ m'.extra_options = "GET_FOLLOWING_SIBLINGS"
  BY <1>1, <1>2, AtFeed DEF clientVars
<1>4. CASE QuietStep /\ cb' = NoCallback
  <2>1. level' = level /\ SameState(Top', Top)
    BY <1>1, <1>4 DEF QuietStep, Top
  <2> QED
    BY <1>1, <1>2, <1>3, <1>4, <2>1 DEF Counting, SameState, NoCallback
<1>5. CASE PopStep
  <2>1. SameState(stack'[level], Top) /\ Top.type # "HKEY"
    BY <1>1, <1>2, <1>5 DEF PopStep, Top, Container
  <2>2. cb' = [action |-> "POP", level |-> level, at |-> pos]
    BY <1>1, <1>2, <1>5, <2>1 DEF PopStep, Delivered
  <2> QED
    BY <1>1, <1>2, <1>3, <2>1, <2>2 DEF Counting, SameState, NoCallback
<1>6. ASSUME NEW type \in Type \ {"ROOT"}, PushStep(type)
      PROVE  Counting'
  <2>1. /\ level' = level + 1 /\ stack'[level].type = Top.type
        /\ stack'[level].nelem = Top.nelem + 1 /\ Top'.type = type
    BY <1>6 DEF PushStep, SameState, Top
  <2>2. cb' = [action |-> "PUSH", level |-> level + 1, at |-> pos]
    BY <1>1, <1>2, <1>6 DEF PushStep, Delivered
  <2>3. Top.type = "OBJECT" => type = "HKEY"
    BY <1>2, <1>6 DEF PushStep, OpensKey
  <2>4. level' = Depth /\ stack'[Depth - 1].nelem > 0
        /\ (stack'[Depth - 1].type = "OBJECT" => Top'.type = "HKEY")
    BY <1>1, <1>2, <2>1, <2>3
  <2> QED
    BY <1>1, <1>3, <2>2, <2>4 DEF Counting, NoCallback
<1> QED
  BY <1>4, <1>5, <1>6, AtFeed

(* A handler keeps the search.                                             *)
LEMMA LexKeeps ==
  ASSUME SearchInv, Lex
  PROVE  SearchInv'
<1>1. /\ pc = "FEED" /\ Feed /\ m' = [m EXCEPT !.status = err']
      /\ UNCHANGED <<doc, path, ctx, mres, callbacks, round, pc>>
  BY DEF Lex
<1>2. LexerInv /\ SearchTypes /\ Placed /\ Searching
  BY <1>1 DEF SearchInv
<1>3. LexerInv'
  BY <1>1, <1>2, LexerFeedKeeps
<1>4. /\ m \in MatchRec /\ m' \in MatchRec
      /\ m'.loc_deepest = m.loc_deepest /\ m'.loc_key = m.loc_key
      /\ m'.match_level = m.match_level /\ m'.matchres = m.matchres
      /\ m'.extra_options = m.extra_options /\ m'.type = m.type
  <2>1. err' \in Error \cup {"SUCCESS"}
    BY <1>3 DEF LexerInv, JsonslInv, JsonslTypeOK
  <2>2. m \in MatchRec
    BY <1>2 DEF SearchTypes
  <2> QED
    BY <1>1, <2>1, <2>2 DEF MatchRec
<1>5. SearchTypes'
  BY <1>1, <1>2, <1>4 DEF SearchTypes
<1>6. Placed'
  BY <1>1, <1>2, <1>4 DEF Placed, Within
<1>7. UNCHANGED <<text, max_callback_level, call_HKEY, stopfl>> /\ ~stopfl /\ Depth' = Depth
  BY <1>1, <1>2, AtFeed DEF clientVars, Running, Depth
<1>8. Depth > 0 /\ FeedsDocument' /\ call_HKEY' /\ Depth' > 0
      /\ \A l \in Level : mres'[l] = "COMPLETE" => l = Depth'
  BY <1>1, <1>2, <1>7 DEF Searching, FeedsDocument
<1>9. CASE callbacks = "MATCH"
  <2>1. /\ Descending /\ call_HKEY /\ max_callback_level = Depth + 1 /\ OnPath(m.match_level)
        /\ m.match_level \in Nat /\ Depth \in Nat /\ m.match_level <= Depth
    BY <1>2, <1>7, <1>9, SearchFacts DEF Searching, Descending, OnPath
  <2>2. OnPath(m.match_level)'
    BY <1>1, <1>2, <1>4, <2>1, OnPathFeed
  <2>3. Descending'
    <3>1. CASE m.match_level = Depth
      BY <1>1, <1>4, <1>7, <2>1, <2>2, <3>1 DEF Descending
    <3>2. CASE m.match_level # Depth
      <4>1. Beyond(m.match_level) /\ m.match_level < Depth
        BY <2>1, <3>2 DEF Descending
      <4>2. Beyond(m.match_level)'
        BY <1>1, <1>2, <1>4, <2>1, <4>1, BeyondFeed
      <4> QED
        BY <1>1, <1>4, <1>7, <2>1, <2>2, <3>2, <4>2 DEF Descending
    <3> QED
      BY <3>1, <3>2
  <2> QED
    BY <1>1, <1>3, <1>5, <1>6, <1>8, <1>9, <2>3 DEF SearchInv, Searching
<1>10. CASE callbacks = "UNIQUE"
  <2>1. /\ call_HKEY /\ max_callback_level = Depth + 2 /\ OnPath(Depth) /\ Depth \in Nat
        /\ m.match_level = Depth /\ m.matchres = "COMPLETE"
    BY <1>2, <1>7, <1>10, SearchFacts DEF Searching, Comparing
  <2>2. OnPath(Depth)'
    BY <1>1, <1>2, <1>4, <1>7, <2>1, OnPathFeed
  <2>3. Comparing'
    BY <1>1, <1>4, <1>7, <2>1, <2>2 DEF Comparing
  <2> QED
    BY <1>1, <1>3, <1>5, <1>6, <1>8, <1>10, <2>3 DEF SearchInv, Searching
<1>11. CASE callbacks = "SIBLING"
  <2>1. Counting /\ call_HKEY
    BY <1>2, <1>7, <1>11 DEF Searching
  <2>2. Counting'
    BY <1>1, <1>2, <1>4, <1>8, <2>1, CountingFeed
  <2> QED
    BY <1>1, <1>3, <1>5, <1>6, <1>8, <1>11, <2>2 DEF SearchInv, Searching
<1> QED
  BY <1>2, <1>9, <1>10, <1>11 DEF SearchTypes

-----------------------------------------------------------------------------
(* The client answers.                                                     *)

(* What an answer leaves: the stack but for the flag that ignores.         *)
LEMMA AnswerFacts ==
  ASSUME SearchInv, pc = "FEED", NEW stop \in BOOLEAN, NEW ignore \in BOOLEAN, NEW maxLevel \in Nat,
         Answer(stop, ignore, maxLevel)
  PROVE  /\ LexerInv' /\ cb # NoCallback /\ cb' = NoCallback /\ (stopfl' <=> stop)
         /\ max_callback_level' = maxLevel /\ Reach' = level
         /\ UNCHANGED <<text, pos, expecting, level, call_HKEY>>
         /\ \A l \in Level : /\ stack'[l].type = stack[l].type /\ stack'[l].nelem = stack[l].nelem
                             /\ stack'[l].pos_begin = stack[l].pos_begin
                             /\ l # cb.level => stack'[l].ignore_callback = stack[l].ignore_callback
         /\ stack'[cb.level].ignore_callback <=> ignore
<1>1. LexerInv /\ LexerInv' /\ cb # NoCallback
  BY LexerAnswerKeeps DEF SearchInv, Answer
<1>2. /\ cb' = NoCallback /\ stopfl' = stop /\ max_callback_level' = maxLevel
      /\ stack' = [stack EXCEPT ![cb.level].ignore_callback = ignore]
      /\ UNCHANGED <<text, pos, expecting, level, call_HKEY>>
  BY DEF Answer, feedVars, tokenVars
<1>3. cb.level \in Level /\ stack \in [Level -> State] /\ \A l \in Level : stack[l] \in State
  BY <1>1, AtCallback, StackFacts DEF JsonslInv
<1>4. \A l \in Level : /\ stack'[l].type = stack[l].type /\ stack'[l].nelem = stack[l].nelem
                       /\ stack'[l].pos_begin = stack[l].pos_begin
                       /\ l # cb.level => stack'[l].ignore_callback = stack[l].ignore_callback
  BY <1>2, <1>3 DEF State
<1>5. stack'[cb.level].ignore_callback = ignore
  BY <1>2, <1>3 DEF State
<1>6. Reach' = level
  BY <1>2 DEF Reach, NoCallback
<1> QED
  BY <1>1, <1>2, <1>4, <1>5, <1>6

(* The search goes on, when the lexer is not stopped, as the callbacks say.*)
LEMMA AnsweredKeeps ==
  ASSUME SearchInv, pc = "FEED", NEW stop \in BOOLEAN, NEW ignore \in BOOLEAN, NEW maxLevel \in Nat,
         Answer(stop, ignore, maxLevel), Keep, SearchTypes', Placed', ctx'.jpr = ctx.jpr,
         \A l \in Level : mres'[l] = "COMPLETE" => l = Depth,
         ~stop /\ callbacks' = "MATCH" => Descending',
         ~stop /\ callbacks' = "UNIQUE" => Comparing',
         ~stop /\ callbacks' = "SIBLING" => Counting'
  PROVE  SearchInv'
<1>1. /\ LexerInv' /\ (stopfl' <=> stop) /\ text' = text /\ call_HKEY' = call_HKEY
      /\ UNCHANGED <<doc, path, round, pc>> /\ Searching
  BY AnswerFacts DEF Keep, SearchInv
<1>2. Depth' = Depth
  BY DEF Depth
<1>3. Depth' > 0 /\ FeedsDocument' /\ call_HKEY' /\ \A l \in Level : mres'[l] = "COMPLETE" => l = Depth'
  BY <1>1, <1>2 DEF Searching, FeedsDocument
<1>4. Searching'
  BY <1>1, <1>3 DEF SearchTypes, Searching
<1> QED
  BY <1>1, <1>4 DEF SearchInv

(* Nothing on the path is ignored by the answer.                           *)
LEMMA PathStays ==
  ASSUME SearchInv, pc = "FEED", NEW stop \in BOOLEAN, NEW ignore \in BOOLEAN, NEW maxLevel \in Nat,
         Answer(stop, ignore, maxLevel), round' = round, ctx'.jpr = ctx.jpr,
         m'.loc_deepest = m.loc_deepest,
         m'.matchres = "COMPLETE" => m.matchres = "COMPLETE" /\ m'.type = m.type,
         NEW d \in Nat, OnPath(d), d <= level, ~ignore \/ d < cb.level,
         \A l \in 1 .. d : mres'[l] = mres[l]
  PROVE  OnPath(d)'
<1>1. /\ cb' = NoCallback /\ Reach' = level /\ Depth' = Depth /\ level \in Nat
      /\ \A l \in 0 .. level : l \in Level
  BY AnswerFacts, AtCallback, ReachFacts DEF Depth, LexerInv
<1>2. \A l \in Level : /\ stack'[l].type = stack[l].type
                       /\ stack'[l].pos_begin = stack[l].pos_begin
                       /\ l # cb.level => stack'[l].ignore_callback = stack[l].ignore_callback
  BY AnswerFacts
<1>3. stack'[cb.level].ignore_callback <=> ignore
  BY AnswerFacts
<1>4. ASSUME NEW l \in 1 .. d
      PROVE  /\ stack'[l].type = stack[l].type /\ stack'[l].pos_begin = stack[l].pos_begin
             /\ ~stack'[l].ignore_callback
  <2>1. l \in Level /\ l <= d /\ l \in Nat
    BY <1>1
  <2>2. ~stack[l].ignore_callback
    BY DEF OnPath
  <2>3. cb.level \in Nat /\ (l = cb.level => ~ignore)
    BY <1>1, <2>1, AtCallback, AnswerFacts
  <2> QED
    BY <1>2, <1>3, <2>1, <2>2, <2>3
<1>5. /\ d \in 0 .. Depth
      /\ \A l \in 1 .. d : /\ stack[l].type # "HKEY"
                           /\ mres[l] = IF l = Depth THEN "COMPLETE" ELSE "POSSIBLE"
                           /\ l < Depth => stack[l].type \in Container
      /\ d > 0 => m.loc_deepest.at = round.at + stack[d].pos_begin
      /\ d > 0 /\ d = Depth /\ m.matchres = "COMPLETE" => m.type = stack[d].type
      /\ m.loc_deepest.length = 0
  BY DEF OnPath
<1>6. d > 0 => stack'[d].pos_begin = stack[d].pos_begin /\ stack'[d].type = stack[d].type
  BY <1>4
<1> QED
  BY <1>1, <1>4, <1>5, <1>6 DEF OnPath, NoCallback

(* A matching callback is about the next level of the path, or about the   *)
(* end of the last one.                                                    *)
LEMMA MatchPlace ==
  ASSUME SearchInv, pc = "FEED", cb # NoCallback, callbacks = "MATCH"
  PROVE  /\ Descending /\ m.match_level \in Nat /\ Depth \in Nat /\ m.match_level <= Depth
         /\ OnPath(m.match_level) /\ max_callback_level = Depth + 1 /\ cb.level <= Depth
         /\ m.match_level > level => cb.action = "POP" /\ cb.level = m.match_level
         /\ cb.action = "PUSH" => /\ m.match_level < Depth /\ cb.level = m.match_level + 1
                                  /\ Beyond(m.match_level)
         /\ cb.action = "POP" =>
              \/ /\ cb.level = m.match_level /\ State_.type # "HKEY"
                 /\ mres[cb.level] = IF cb.level = Depth THEN "COMPLETE" ELSE "POSSIBLE"
                 /\ cb.level < Depth => State_.type \in Container
                 /\ m.loc_deepest.at = round.at + State_.pos_begin
                 /\ m.loc_deepest.length = 0
              \/ /\ m.match_level < Depth /\ cb.level = m.match_level + 1
                 /\ State_.type = "HKEY" /\ Beyond(m.match_level)
<1> DEFINE d == m.match_level
<1>1. /\ Descending /\ OnPath(d) /\ max_callback_level = Depth + 1 /\ d \in Nat /\ Depth \in Nat
      /\ d <= Depth /\ d <= Reach /\ (d # Depth => Beyond(d))
      /\ (cb.action = "PUSH" => d < level)
  <2>1. Descending
    BY AtCallback DEF Searching
  <2>2. d \in Nat /\ Depth \in Nat
    BY AtCallback, SearchFacts
  <2>3. OnPath(d) /\ max_callback_level = Depth + 1 /\ (d # Depth => Beyond(d))
    BY <2>1 DEF Descending
  <2>4. d <= Depth /\ d <= Reach /\ (cb.action = "PUSH" => d < level)
    BY <2>2, <2>3 DEF OnPath
  <2> QED
    BY <2>1, <2>2, <2>3, <2>4
<1>2. /\ cb.level = Reach /\ cb.level \in Nat /\ cb.level > 0 /\ cb.level <= Depth
      /\ cb.action \in {"PUSH", "POP"} /\ level \in Nat
      /\ (cb.action = "PUSH" => level = cb.level) /\ (cb.action = "POP" => level = cb.level - 1)
      /\ ~stack[cb.level].ignore_callback
  BY <1>1, AtCallback DEF State_
<1>3. /\ \A l \in 0 .. Reach - 1 : stack[l].ignore_callback => stack[l + 1].ignore_callback
      /\ JsonslInv /\ (cb.action = "POP" => stack[level].type \in Container \cup {"ROOT"})
  BY AtCallback DEF LexerInv, IgnoreInherits, CallbackWanted
<1>4. ASSUME d < Reach
      PROVE  d < Depth /\ Beyond(d) /\ cb.level = d + 1
             /\ (cb.action = "POP" => State_.type = "HKEY")
  <2>1. d < Depth /\ Beyond(d)
    BY <1>1, <1>2, <1>4
  <2>2. ~stack[d + 1].ignore_callback
    <3> SUFFICES ASSUME stack[d + 1].ignore_callback PROVE FALSE
      OBVIOUS
    <3> DEFINE Ignored == {l \in d + 1 .. Reach : ~stack[l].ignore_callback}
    <3>1. Ignored \in SUBSET Nat /\ Ignored # {}
      BY <1>1, <1>2, <1>4
    <3>2. PICK l \in Ignored : \A k \in Ignored : l <= k
      <4> HIDE DEF Ignored
      <4> QED
        BY <3>1, Smallest
    <3>3. l \in Nat /\ l > d + 1 /\ l <= Reach /\ ~stack[l].ignore_callback
      BY <1>1, <1>2
    <3>4. l - 1 \notin Ignored
      BY <3>2, <3>3, <3>1
    <3>5. stack[l - 1].ignore_callback /\ l - 1 \in 0 .. Reach - 1 /\ l - 1 + 1 = l
      BY <1>1, <1>2, <3>3, <3>4
    <3> QED
      BY <1>3, <3>3, <3>5
  <2>3. (cb.action = "PUSH" /\ cb.level = d + 1) \/ stack[d + 1].type = "HKEY"
    BY <1>4, <2>1, <2>2 DEF Beyond, InKey
  <2>4. CASE stack[d + 1].type = "HKEY"
    <3>1. d + 1 >= level
      <4> SUFFICES ASSUME d + 1 < level PROVE FALSE
        BY <1>1, <1>2
      <4>1. d + 1 \in 1 .. level
        BY <1>1, <1>2
      <4>2. stack[d + 1].type \in Container
        BY <1>3, <4>1 DEF JsonslInv, StackMirrorsText
      <4> QED
        BY <2>4, <4>2 DEF Container
    <3>2. CASE cb.action = "PUSH"
      BY <1>1, <1>2, <1>4, <3>1, <3>2, <2>1
    <3>3. CASE cb.action = "POP"
      <4>1. level # d + 1
        BY <1>3, <2>4, <3>3 DEF Container
      <4>2. cb.level = d + 1
        BY <1>1, <1>2, <1>4, <3>1, <3>3, <4>1
      <4> QED
        BY <2>1, <2>4, <4>2 DEF State_
    <3> QED
      BY <1>2, <3>2, <3>3
  <2>5. CASE cb.action = "PUSH" /\ cb.level = d + 1
    BY <2>1, <2>5
  <2> QED
    BY <2>3, <2>4, <2>5
<1>5. CASE cb.action = "PUSH"
  BY <1>1, <1>2, <1>4, <1>5
<1>6. CASE cb.action = "POP" /\ d = Reach
  <2>1. cb.level = d /\ d \in 1 .. d /\ d > 0
    BY <1>1, <1>2, <1>6
  <2>2. /\ State_.type # "HKEY" /\ m.loc_deepest.at = round.at + State_.pos_begin
        /\ mres[cb.level] = IF cb.level = Depth THEN "COMPLETE" ELSE "POSSIBLE"
        /\ cb.level < Depth => State_.type \in Container
        /\ m.loc_deepest.length = 0
    BY <1>1, <2>1 DEF OnPath, State_
  <2> QED
    BY <1>1, <1>2, <1>6, <2>1, <2>2
<1>7. CASE cb.action = "POP" /\ d # Reach
  <2>1. d < Reach /\ d <= level
    BY <1>1, <1>2, <1>7
  <2> QED
    BY <1>1, <1>2, <1>4, <1>7, <2>1
<1> QED
  BY <1>2, <1>5, <1>6, <1>7

-----------------------------------------------------------------------------
(* push_callback() *)

(* The key's position is kept for its value. *)
LEMMA KeyBeginsKeeps ==
  ASSUME SearchInv, pc = "FEED", cb # NoCallback, KeyBegins
  PROVE  SearchInv'
<1>0. PICK d \in Nat : d = m.match_level
  BY AtCallback, SearchFacts
<1>1. /\ callbacks = "MATCH" /\ cb.action = "PUSH" /\ State_.type = "HKEY"
      /\ ctx' = [ctx EXCEPT !.hk_at = cb.at + 1]
      /\ GoOn /\ Keep /\ UNCHANGED <<m, mres, callbacks>>
  BY DEF KeyBegins, Matching
<1>2. /\ Descending /\ OnPath(d) /\ d \in Nat /\ d < Depth /\ cb.level = d + 1 /\ Beyond(d)
      /\ max_callback_level = Depth + 1 /\ Depth \in Nat
  BY <1>0, <1>1, MatchPlace
<1>3. /\ State_.ignore_callback \in BOOLEAN /\ ~State_.ignore_callback /\ level = cb.level
      /\ State_.pos_begin = cb.at /\ cb.at \in Nat /\ SearchTypes /\ Placed /\ cb.level \in Level
      /\ max_callback_level \in Nat /\ ctx \in ContextRec
  BY <1>1, <1>2, AtCallback DEF State, SearchTypes
<1>4. /\ Answer(FALSE, State_.ignore_callback, max_callback_level)
      /\ cb' = NoCallback /\ Reach' = level /\ level' = level
      /\ max_callback_level' = max_callback_level
      /\ stack'[cb.level].type = State_.type /\ stack'[cb.level].pos_begin = State_.pos_begin
      /\ ~stack'[cb.level].ignore_callback
  <2>1. Answer(FALSE, State_.ignore_callback, max_callback_level)
    BY <1>1 DEF GoOn
  <2> QED
    BY <1>3, <2>1, AnswerFacts DEF State_
<1>5. ctx'.jpr = ctx.jpr /\ ctx'.hk_at = cb.at + 1 /\ ctx' \in ContextRec /\ Depth' = Depth
  BY <1>1, <1>3 DEF ContextRec, Depth
<1>6. SearchTypes' /\ Placed'
  BY <1>1, <1>3, <1>5 DEF SearchTypes, Placed, Within, Keep
<1>7. OnPath(d)'
  <2>1. round' = round /\ m' = m /\ mres' = mres /\ d <= level
    BY <1>1, <1>2, <1>3 DEF Keep
  <2> QED
    BY <1>2, <1>3, <1>4, <1>5, <2>1, PathStays
<1>8. Beyond(d)'
  BY <1>1, <1>2, <1>3, <1>4, <1>5 DEF Beyond, InKey, AfterKey, ValueBegins, NoCallback
<1>9. Descending'
  BY <1>0, <1>1, <1>2, <1>4, <1>5, <1>7, <1>8 DEF Descending
<1>10. \A l \in Level : mres'[l] = "COMPLETE" => l = Depth
  BY <1>1, AtCallback DEF Searching
<1> QED
  BY <1>1, <1>3, <1>4, <1>5, <1>6, <1>9, <1>10, AnsweredKeeps

(* The parent of a state that begins is a candidate.                       *)
LEMMA PushElsewhereNever ==
  ASSUME SearchInv, pc = "FEED", cb # NoCallback, PushElsewhere
  PROVE  FALSE
<1>1. callbacks = "MATCH" /\ cb.action = "PUSH" /\ cb.level > 1 /\ mres[cb.level - 1] # "POSSIBLE"
  BY DEF PushElsewhere, Matching, HasParent
<1>2. /\ OnPath(m.match_level) /\ m.match_level \in Nat /\ m.match_level < Depth /\ Depth \in Nat
      /\ cb.level = m.match_level + 1
  BY <1>1, MatchPlace
<1>3. m.match_level \in 1 .. m.match_level /\ cb.level - 1 = m.match_level
  BY <1>1, <1>2
<1>4. mres[m.match_level] = "POSSIBLE"
  BY <1>2, <1>3 DEF OnPath
<1> QED
  BY <1>1, <1>3, <1>4

(* Where a candidate stands.                                               *)
LEMMA CandidateFacts ==
  ASSUME SearchInv, pc = "FEED", cb # NoCallback, Candidate
  PROVE  /\ callbacks = "MATCH" /\ cb.action = "PUSH" /\ State_.type # "HKEY"
         /\ m.match_level \in Nat /\ Depth \in Nat /\ m.match_level < Depth
         /\ cb.level = m.match_level + 1 /\ level = cb.level /\ cb.level \in Level
         /\ OnPath(m.match_level) /\ Beyond(m.match_level) /\ max_callback_level = Depth + 1
         /\ max_callback_level \in Nat
         /\ SearchTypes /\ Placed /\ m \in MatchRec /\ m.loc_deepest.length = 0 /\ m.loc_key = NoLoc
         /\ State_.type \in Kind /\ ~State_.ignore_callback /\ State_.ignore_callback \in BOOLEAN
         /\ State_.pos_begin = cb.at /\ cb.at \in Nat /\ cb.at < Len(text) /\ round.at \in Nat
         /\ round.at + Len(text) <= Len(doc) /\ Len(text) \in Nat /\ Len(doc) \in Nat
         /\ mres' = [mres EXCEPT ![cb.level] = PathMatch] /\ mres \in [Level -> MatchRes \ {"UNKNOWN"}]
         /\ PathMatch \in {"POSSIBLE", "COMPLETE", "NOMATCH", "TYPE_MISMATCH"}
         /\ PathMatch = "COMPLETE" <=> (HasParent => NamesChild) /\ cb.level = Depth
         /\ PathMatch = "POSSIBLE" => State_.type \in Container /\ cb.level # Depth
         /\ \A l \in 1 .. m.match_level : mres'[l] = mres[l] /\ l # cb.level
         /\ \A l \in Level : mres[l] = "COMPLETE" => l = Depth
<1>1. callbacks = "MATCH" /\ cb.action = "PUSH" /\ State_.type # "HKEY"
      /\ mres' = [mres EXCEPT ![cb.level] = PathMatch]
  BY DEF Candidate, Matching
<1>2. /\ m.match_level \in Nat /\ Depth \in Nat /\ m.match_level < Depth
      /\ cb.level = m.match_level + 1 /\ OnPath(m.match_level) /\ Beyond(m.match_level)
      /\ max_callback_level = Depth + 1 /\ max_callback_level \in Nat
  BY <1>1, MatchPlace
<1>3. /\ level = cb.level /\ cb.level \in Level /\ SearchTypes /\ Placed
      /\ State_.type \in Type \ {"ROOT"} /\ ~State_.ignore_callback /\ State_.ignore_callback \in BOOLEAN
      /\ State_.pos_begin = cb.at /\ cb.at \in Nat /\ cb.at < Len(text) /\ text \in Seq(STRING)
      /\ Searching
  BY <1>1, AtCallback DEF State
<1>4. m.loc_deepest.length = 0 /\ m.loc_key = NoLoc
  BY <1>2 DEF OnPath, Beyond
<1>5. /\ State_.type \in Kind /\ m \in MatchRec /\ mres \in [Level -> MatchRes \ {"UNKNOWN"}]
      /\ Len(text) \in Nat /\ round.at \in Nat /\ Len(doc) \in Nat
      /\ round.at + Len(text) <= Len(doc)
  BY SMTT(30), <1>1, <1>3, SearchFacts DEF SearchTypes, Kind, Searching, FeedsDocument
<1>6. /\ PathMatch \in {"POSSIBLE", "COMPLETE", "NOMATCH", "TYPE_MISMATCH"}
      /\ PathMatch = "COMPLETE" <=> (HasParent => NamesChild) /\ cb.level = Depth
      /\ PathMatch = "POSSIBLE" => State_.type \in Container /\ cb.level # Depth
  BY DEF PathMatch, MatchContinue, Container, Depth
<1>7. \A l \in 1 .. m.match_level : mres'[l] = mres[l] /\ l # cb.level
  <2> SUFFICES ASSUME NEW l \in 1 .. m.match_level PROVE mres'[l] = mres[l] /\ l # cb.level
    OBVIOUS
  <2>1. l # cb.level
    BY <1>2
  <2>2. l \in Level
    BY <1>2, <1>3, LevelsAssumption DEF Level
  <2> QED
    BY <1>1, <1>5, <2>1, <2>2
<1>8. \A l \in Level : mres[l] = "COMPLETE" => l = Depth
  BY <1>3 DEF Searching
<1> QED
  BY <1>1, <1>2, <1>3, <1>4, <1>5, <1>6, <1>7, <1>8

(* A child that is not on the path is ignored.                             *)
LEMMA PushSkips ==
  ASSUME SearchInv, pc = "FEED", cb # NoCallback, Candidate, PathMatch \in {"NOMATCH", "TYPE_MISMATCH"},
         Skip, Keep, UNCHANGED <<ctx, callbacks>>, m' \in MatchRec, m'.matchres # "COMPLETE",
         m'.loc_deepest = m.loc_deepest, m'.loc_key = m.loc_key, m'.match_level = m.match_level
  PROVE  SearchInv'
<1>0. PICK d \in Nat : d = m.match_level
  BY CandidateFacts
<1>1. /\ callbacks = "MATCH" /\ cb.action = "PUSH" /\ State_.type # "HKEY"
      /\ Depth \in Nat /\ d < Depth /\ cb.level = d + 1 /\ level = cb.level /\ cb.level \in Level
      /\ OnPath(d) /\ max_callback_level = Depth + 1 /\ max_callback_level \in Nat
      /\ SearchTypes /\ Placed /\ m.loc_deepest.length = 0 /\ m.loc_key = NoLoc
      /\ mres' = [mres EXCEPT ![cb.level] = PathMatch] /\ mres \in [Level -> MatchRes \ {"UNKNOWN"}]
      /\ \A l \in 1 .. d : mres'[l] = mres[l]
      /\ \A l \in Level : mres[l] = "COMPLETE" => l = Depth
  BY <1>0, CandidateFacts
<1>2. Answer(FALSE, TRUE, max_callback_level) /\ round' = round
  BY DEF Skip, Keep
<1>3. /\ cb' = NoCallback /\ Reach' = level /\ level' = level
      /\ max_callback_level' = max_callback_level
      /\ stack'[cb.level].type = State_.type /\ stack'[cb.level].ignore_callback
  BY <1>1, <1>2, AnswerFacts DEF State_
<1>4. Depth' = Depth /\ ctx' = ctx
  BY DEF Depth
<1>5. SearchTypes'
  <2>1. mres' \in [Level -> MatchRes \ {"UNKNOWN"}]
    BY <1>1 DEF MatchRes
  <2> QED
    BY <1>1, <2>1 DEF SearchTypes, Keep
<1>6. Placed'
  BY <1>1 DEF Placed
<1>7. OnPath(d)'
  <2>1. d <= level /\ d < cb.level
    BY <1>1
  <2> QED
    BY <1>1, <1>2, <1>4, <2>1, PathStays
<1>8. Beyond(d)'
  BY <1>1, <1>3 DEF Beyond, InKey, AfterKey, ValueBegins, NoCallback
<1>9. Descending'
  BY <1>0, <1>1, <1>3, <1>4, <1>7, <1>8 DEF Descending
<1>10. \A l \in Level : mres'[l] = "COMPLETE" => l = Depth
  BY <1>1
<1> QED
  BY <1>1, <1>2, <1>4, <1>5, <1>6, <1>9, <1>10, AnsweredKeeps

(* It is another member or element than the path's, *)
LEMMA PushNoMatchKeeps ==
  ASSUME SearchInv, pc = "FEED", cb # NoCallback, PushNoMatch
  PROVE  SearchInv'
<1>1. /\ Candidate /\ PathMatch = "NOMATCH" /\ Skip /\ Keep /\ UNCHANGED <<m, ctx, callbacks>>
  BY DEF PushNoMatch
<1>2. m \in MatchRec /\ m.matchres # "COMPLETE"
  BY <1>1, CandidateFacts DEF Beyond
<1> QED
  BY <1>1, <1>2, PushSkips

(* or it is the path's and not a container of the kind that is needed. *)
LEMMA PushMismatchKeeps ==
  ASSUME SearchInv, pc = "FEED", cb # NoCallback, PushMismatch
  PROVE  SearchInv'
<1>1. /\ Candidate /\ PathMatch = "TYPE_MISMATCH" /\ Skip /\ Keep /\ UNCHANGED <<ctx, callbacks>>
      /\ m' = [m EXCEPT !.matchres = "TYPE_MISMATCH"]
  BY DEF PushMismatch
<1>2. m \in MatchRec
  BY <1>1, CandidateFacts
<1>3. /\ m' \in MatchRec /\ m'.matchres = "TYPE_MISMATCH" /\ m'.loc_deepest = m.loc_deepest
      /\ m'.loc_key = m.loc_key /\ m'.match_level = m.match_level
  BY <1>1, <1>2 DEF MatchRec, MatchRes
<1> QED
  BY <1>1, <1>3, PushSkips

(* A child on the path: the search goes on in it.                          *)
LEMMA PushPossibleKeeps ==
  ASSUME SearchInv, pc = "FEED", cb # NoCallback, PushPossible
  PROVE  SearchInv'
<1>0. PICK d \in Nat : d = m.match_level
  BY AtCallback, SearchFacts
<1>1. /\ Candidate /\ PathMatch = "POSSIBLE" /\ GoOn /\ Keep /\ UNCHANGED <<ctx, callbacks>>
      /\ m' = [m EXCEPT !.match_level = cb.level, !.loc_deepest.at = round.at + cb.at]
  BY DEF PushPossible
<1>2. /\ callbacks = "MATCH" /\ cb.action = "PUSH" /\ State_.type \in Container
      /\ Depth \in Nat /\ d < Depth /\ cb.level = d + 1 /\ level = cb.level /\ cb.level \in Level
      /\ OnPath(d) /\ Beyond(d) /\ max_callback_level = Depth + 1 /\ max_callback_level \in Nat
      /\ cb.level # Depth /\ State_.pos_begin = cb.at
      /\ State_.ignore_callback \in BOOLEAN /\ ~State_.ignore_callback
      /\ SearchTypes /\ Placed /\ m \in MatchRec /\ m.loc_deepest.length = 0 /\ m.loc_key = NoLoc
      /\ round.at \in Nat /\ cb.at \in Nat
      /\ mres' = [mres EXCEPT ![cb.level] = PathMatch] /\ mres \in [Level -> MatchRes \ {"UNKNOWN"}]
      /\ \A l \in 1 .. d : mres'[l] = mres[l] /\ l # cb.level
      /\ \A l \in Level : mres[l] = "COMPLETE" => l = Depth
  BY <1>0, <1>1, CandidateFacts
<1>3. Answer(FALSE, State_.ignore_callback, max_callback_level) /\ round' = round
  BY <1>1 DEF GoOn, Keep
<1>4. /\ cb' = NoCallback /\ Reach' = level /\ level' = level
      /\ max_callback_level' = max_callback_level
      /\ \A l \in Level : /\ stack'[l].type = stack[l].type /\ stack'[l].nelem = stack[l].nelem
                          /\ stack'[l].pos_begin = stack[l].pos_begin
                          /\ l # cb.level => stack'[l].ignore_callback = stack[l].ignore_callback
      /\ ~stack'[cb.level].ignore_callback
  BY <1>2, <1>3, AnswerFacts
<1>5. Depth' = Depth /\ ctx' = ctx
  BY <1>1 DEF Depth
<1>6. /\ m' \in MatchRec /\ m'.match_level = d + 1 /\ m'.matchres = m.matchres
      /\ m'.loc_deepest.at = round.at + cb.at /\ m'.loc_deepest.length = 0 /\ m'.loc_key = NoLoc
  <2>1. m.loc_deepest \in Loc
    BY <1>2 DEF MatchRec
  <2>2. [m.loc_deepest EXCEPT !.at = round.at + cb.at] \in Loc
    BY <1>2, <2>1 DEF Loc
  <2>3. cb.level \in Nat
    BY <1>2
  <2> QED
    BY <1>1, <1>2, <2>1, <2>2, <2>3 DEF MatchRec, Loc
<1>7. SearchTypes'
  <2>1. mres' \in [Level -> MatchRes \ {"UNKNOWN"}]
    BY <1>1, <1>2 DEF MatchRes
  <2> QED
    BY <1>1, <1>2, <1>6, <2>1 DEF SearchTypes, Keep
<1>8. m'.matchres # "COMPLETE" /\ Placed'
  BY <1>2, <1>6 DEF Placed, Beyond
<1>9. OnPath(d + 1)'
  <2>1. /\ d \in 0 .. Depth
        /\ \A l \in 1 .. d : /\ ~stack[l].ignore_callback /\ stack[l].type # "HKEY"
                             /\ mres[l] = IF l = Depth THEN "COMPLETE" ELSE "POSSIBLE"
                             /\ l < Depth => stack[l].type \in Container
    BY <1>2 DEF OnPath
  <2>2. \A l \in 1 .. d : l \in Level
    BY <1>2, LevelsAssumption DEF Level
  <2>3. ASSUME NEW l \in 1 .. d + 1
        PROVE  /\ ~stack'[l].ignore_callback /\ stack'[l].type # "HKEY"
               /\ mres'[l] = IF l = Depth THEN "COMPLETE" ELSE "POSSIBLE"
               /\ l < Depth => stack'[l].type \in Container
    <3>1. CASE l = d + 1
      BY <1>1, <1>2, <1>4, <3>1 DEF State_, Container
    <3>2. CASE l # d + 1
      <4>1. l \in 1 .. d
        BY <3>2
      <4> QED
        BY <1>2, <1>4, <2>1, <2>2, <4>1
    <3> QED
      BY <3>1, <3>2
  <2>4. stack'[d + 1].pos_begin = cb.at
    BY <1>2, <1>4 DEF State_
  <2>5. d + 1 \in 0 .. Depth /\ d + 1 <= Reach'
    BY <1>2, <1>4
  <2> QED
    BY <1>3, <1>4, <1>5, <1>6, <1>8, <2>3, <2>4, <2>5 DEF OnPath, NoCallback
<1>10. Beyond(d + 1)'
  <2>1. State_.nelem = 0
    BY <1>2, AtCallback DEF LexerInv, CallbackWanted, State_
  <2>2. stack'[d + 1].nelem = 0 /\ 0 % 2 = 0
    BY <1>2, <1>4, <2>1 DEF State_
  <2> QED
    BY <1>2, <1>4, <1>6, <1>8, <2>2 DEF Beyond, InKey, AfterKey, ValueBegins, NoCallback
<1>11. Descending'
  BY <1>2, <1>4, <1>5, <1>6, <1>9, <1>10 DEF Descending
<1>12. \A l \in Level : mres'[l] = "COMPLETE" => l = Depth
  BY <1>1, <1>2
<1> QED
  BY <1>1, <1>2, <1>3, <1>5, <1>7, <1>8, <1>11, <1>12, AnsweredKeeps

(* The key of a match, with its quotes, is in the document before it.      *)
LEMMA RawKeyFacts ==
  ASSUME SearchTypes, FeedsDocument, KeyInHand, KeyEnd < cb.at, cb.at \in Nat, cb.at < Len(text),
         text \in Seq(STRING)
  PROVE  /\ RawKey \in Loc /\ Within(RawKey)
         /\ RawKey.at + RawKey.length < round.at + cb.at
         /\ doc[RawKey.at + 1] = Quote /\ doc[RawKey.at + RawKey.length] = Quote
<1>1. /\ ctx.hk_at \in Nat /\ ctx.hk_len \in Nat /\ round.at \in Nat /\ KeyEnd = ctx.hk_at + ctx.hk_len + 1
      /\ Len(doc) \in Nat /\ Len(text) \in Nat /\ ctx.hk_at > 0 /\ KeyEnd \in Nat
      /\ text[ctx.hk_at] = Quote /\ text[KeyEnd] = Quote
  BY SearchFacts DEF KeyEnd, KeyInHand
<1>2. RawKey.at = round.at + ctx.hk_at - 1 /\ RawKey.length = ctx.hk_len + 2 /\ RawKey \in Loc
  <2> DEFINE at == round.at + ctx.hk_at - 1
             length == ctx.hk_len + 2
  <2>1. at \in Nat /\ length \in Int
    BY SMTT(30), <1>1
  <2>2. RawKey = [at |-> at, length |-> length]
    BY DEF RawKey
  <2> HIDE DEF at, length
  <2>3. RawKey.at = at /\ RawKey.length = length /\ RawKey \in Loc
    BY <2>1, <2>2 DEF Loc
  <2> QED
    BY <2>3 DEF at, length
<1>3. /\ RawKey.at + 1 = round.at + ctx.hk_at /\ RawKey.at + RawKey.length = round.at + KeyEnd
      /\ RawKey.at >= 0 /\ RawKey.length >= 0
  <2>1. /\ RawKey.at = round.at + ctx.hk_at - 1 /\ RawKey.length = ctx.hk_len + 2
        /\ ctx.hk_at \in Nat /\ ctx.hk_len \in Nat /\ round.at \in Nat /\ ctx.hk_at > 0
        /\ KeyEnd = ctx.hk_at + ctx.hk_len + 1
    BY <1>1, <1>2
  <2>2. \A k, l, r \in Int : (r + k - 1) + 1 = r + k
    OBVIOUS
  <2>3. RawKey.at + 1 = round.at + ctx.hk_at
    BY <2>1, <2>2
  <2>4. RawKey.at + RawKey.length = round.at + KeyEnd
    <3>1. RawKey.at + RawKey.length = (round.at + ctx.hk_at - 1) + (ctx.hk_len + 2)
      BY <2>1
    <3>2. (round.at + ctx.hk_at - 1) + (ctx.hk_len + 2) = round.at + (ctx.hk_at + ctx.hk_len + 1)
      <4>1. \A k, l, r \in Nat : (r + k - 1) + (l + 2) = r + (k + l + 1)
        OBVIOUS
      <4>2. ctx.hk_at \in Nat /\ ctx.hk_len \in Nat /\ round.at \in Nat
        BY <2>1
      <4> QED
        BY <4>1, <4>2
    <3> QED
      BY <3>1, <3>2, <2>1
  <2>5. RawKey.at >= 0 /\ RawKey.length >= 0
    BY <2>1
  <2> QED
    BY <2>3, <2>4, <2>5
<1>4. ctx.hk_at \in 1 .. Len(text) /\ KeyEnd \in 1 .. Len(text)
  BY <1>1
<1>5. doc[round.at + ctx.hk_at] = Quote /\ doc[round.at + KeyEnd] = Quote
      /\ round.at + Len(text) <= Len(doc)
  BY <1>1, <1>4 DEF FeedsDocument
<1>6. round.at + KeyEnd < round.at + cb.at /\ round.at + KeyEnd <= Len(doc)
  BY SMTT(30), <1>1, <1>5
<1> QED
  BY <1>2, <1>3, <1>5, <1>6 DEF Within

(* What the Match holds of a complete match that begins.                   *)
LEMMA CompleteFacts ==
  ASSUME SearchInv, pc = "FEED", cb # NoCallback, PushComplete
  PROVE  /\ m' \in MatchRec /\ m'.match_level = Depth /\ m'.loc_deepest.at = round.at + cb.at
         /\ m'.loc_deepest.length = 0
         /\ m'.matchres \in {"COMPLETE", "TYPE_MISMATCH"}
         /\ m'.matchres = "TYPE_MISMATCH" <=> m.ensure_unique # <<>> /\ State_.type # "LIST"
         /\ m'.loc_key # NoLoc => m'.loc_key = RawKey /\ KeyInHand /\ KeyEnd < cb.at
         /\ m'.type = State_.type
<1>1. Candidate /\ PathMatch = "COMPLETE"
  BY DEF PushComplete
<1>2. /\ cb.action = "PUSH" /\ State_.type # "HKEY" /\ State_.type \in Kind
      /\ m.match_level \in Nat /\ Depth \in Nat /\ cb.level = Depth /\ level = cb.level
      /\ cb.level = m.match_level + 1 /\ Beyond(m.match_level)
      /\ m \in MatchRec /\ m.loc_deepest.length = 0 /\ m.loc_key = NoLoc
      /\ cb.at \in Nat /\ round.at \in Nat /\ SearchTypes
  BY <1>1, CandidateFacts
<1>3. /\ JsonslInv /\ stack[cb.level - 1].nelem \in Nat /\ stack[cb.level - 1].nelem > 0
      /\ cb.level - 1 \in Nat
  BY AtCallback
<1> DEFINE inObject == HasParent /\ Parent.type = "OBJECT"
           inList   == HasParent /\ Parent.type = "LIST"
           refused  == m.ensure_unique # <<>> /\ State_.type # "LIST"
           position == CASE inObject -> Parent.nelem \div 2 - 1
                         [] inList   -> Parent.nelem - 1
                         [] OTHER    -> m.position
<1>4. m' = [m EXCEPT !.matchres = IF refused THEN "TYPE_MISMATCH" ELSE "COMPLETE",
                     !.type = State_.type,
                     !.loc_deepest.at = round.at + cb.at,
                     !.match_level = cb.level,
                     !.loc_key = IF inObject THEN RawKey ELSE @,
                     !.position = position]
  BY DEF PushComplete
<1>5. inObject => KeyInHand /\ KeyEnd < cb.at
  <2>1. inObject => ValueBegins(m.match_level)
    BY <1>2 DEF HasParent, Parent, State_, ValueBegins
  <2> QED
    BY <1>2, <2>1 DEF Beyond
<1>6. position \in Nat
  <2>1. m.position \in Nat
    BY <1>2 DEF MatchRec
  <2>2. inObject => Parent.nelem % 2 = 0
    <3>1. cb.level - 1 \in 0 .. level - 1 /\ cb.level - 1 + 1 = cb.level
      BY <1>2, <1>3
    <3>2. (State_.type = "HKEY") = (Parent.type = "OBJECT" /\ Parent.nelem % 2 = 1)
      BY <1>3, <3>1 DEF JsonslInv, KeysPairWithValues, State_, Parent
    <3> QED
      BY <1>2, <1>3, <3>2, Parity DEF Parent
  <2>3. inObject => Parent.nelem \div 2 >= 1
    BY <1>3, <2>2 DEF Parent
  <2>4. ~(inObject /\ inList)
    OBVIOUS
  <2>5. CASE inObject
    BY <1>3, <2>3, <2>4, <2>5 DEF Parent
  <2>6. CASE inList
    BY <1>3, <2>4, <2>6 DEF Parent
  <2>7. CASE ~inObject /\ ~inList
    BY <2>1, <2>7
  <2> QED
    BY <2>5, <2>6, <2>7
<1>7. RawKey \in Loc \/ ~inObject
  <2>1. inObject => FeedsDocument /\ text \in Seq(STRING) /\ cb.at < Len(text)
    BY AtCallback DEF Searching
  <2> QED
    BY <1>2, <1>5, <2>1, RawKeyFacts
<1>8. m.loc_deepest \in Loc /\ m.loc_key \in Loc
      /\ [m.loc_deepest EXCEPT !.at = round.at + cb.at] \in Loc
      /\ [m.loc_deepest EXCEPT !.at = round.at + cb.at].at = round.at + cb.at
      /\ [m.loc_deepest EXCEPT !.at = round.at + cb.at].length = 0
  BY <1>2 DEF MatchRec, Loc
<1> HIDE DEF inObject, refused, position
<1>9. m' \in MatchRec
  BY <1>2, <1>4, <1>6, <1>7, <1>8 DEF MatchRec, MatchRes
<1>10. /\ m'.match_level = Depth /\ m'.loc_deepest = [m.loc_deepest EXCEPT !.at = round.at + cb.at]
       /\ m'.matchres = IF refused THEN "TYPE_MISMATCH" ELSE "COMPLETE"
       /\ m'.loc_key = IF inObject THEN RawKey ELSE NoLoc
       /\ m'.type = State_.type
  BY <1>2, <1>4 DEF MatchRec
<1> QED
  BY <1>5, <1>8, <1>9, <1>10 DEF refused

(* The match is found.                                                     *)
LEMMA PushCompleteKeeps ==
  ASSUME SearchInv, pc = "FEED", cb # NoCallback, PushComplete
  PROVE  SearchInv'
<1>0. PICK d \in Nat : d = m.match_level
  BY AtCallback, SearchFacts
<1>1. Candidate /\ PathMatch = "COMPLETE" /\ Keep /\ UNCHANGED ctx
  BY DEF PushComplete
<1>2. /\ callbacks = "MATCH" /\ cb.action = "PUSH" /\ State_.type # "HKEY"
      /\ Depth \in Nat /\ d < Depth /\ cb.level = d + 1 /\ level = cb.level /\ cb.level \in Level
      /\ OnPath(d) /\ max_callback_level = Depth + 1 /\ max_callback_level \in Nat
      /\ cb.level = Depth /\ State_.pos_begin = cb.at
      /\ State_.ignore_callback \in BOOLEAN /\ ~State_.ignore_callback
      /\ SearchTypes /\ Placed /\ m \in MatchRec
      /\ round.at \in Nat /\ cb.at \in Nat /\ cb.at < Len(text) /\ round.at + Len(text) <= Len(doc)
      /\ Len(text) \in Nat /\ Len(doc) \in Nat
      /\ mres' = [mres EXCEPT ![cb.level] = PathMatch] /\ mres \in [Level -> MatchRes \ {"UNKNOWN"}]
      /\ \A l \in 1 .. d : mres'[l] = mres[l] /\ l # cb.level
      /\ \A l \in Level : mres[l] = "COMPLETE" => l = Depth
  BY <1>0, <1>1, CandidateFacts
<1>3. /\ m' \in MatchRec /\ m'.match_level = Depth /\ m'.loc_deepest.at = round.at + cb.at
      /\ m'.loc_deepest.length = 0 /\ m'.matchres \in {"COMPLETE", "TYPE_MISMATCH"}
      /\ m'.matchres = "TYPE_MISMATCH" <=> m.ensure_unique # <<>> /\ State_.type # "LIST"
      /\ m'.loc_key # NoLoc => m'.loc_key = RawKey /\ KeyInHand /\ KeyEnd < cb.at
      /\ m'.type = State_.type
  BY CompleteFacts
<1>4. Depth' = Depth /\ ctx' = ctx /\ round' = round /\ doc' = doc
  BY <1>1 DEF Depth, Keep
<1>5. SearchTypes'
  <2>1. mres' \in [Level -> MatchRes \ {"UNKNOWN"}]
    BY <1>1, <1>2 DEF MatchRes
  <2>2. callbacks' \in {"MATCH", "UNIQUE"}
    BY <1>2 DEF PushComplete
  <2> QED
    BY <1>1, <1>2, <1>3, <2>1, <2>2 DEF SearchTypes, Keep
<1>6. Placed'
  <2>1. Within(m.loc_deepest)'
    BY <1>2, <1>3, <1>4 DEF Within
  <2>2. m'.loc_key # NoLoc => /\ Within(m.loc_key)'
                              /\ m'.loc_key.at + m'.loc_key.length < m'.loc_deepest.at
                              /\ doc[m'.loc_key.at + 1] = Quote
                              /\ doc[m'.loc_key.at + m'.loc_key.length] = Quote
    <3> SUFFICES ASSUME m'.loc_key # NoLoc
                 PROVE  /\ Within(m.loc_key)'
                        /\ m'.loc_key.at + m'.loc_key.length < m'.loc_deepest.at
                        /\ doc[m'.loc_key.at + 1] = Quote
                        /\ doc[m'.loc_key.at + m'.loc_key.length] = Quote
      OBVIOUS
    <3>1. FeedsDocument /\ text \in Seq(STRING) /\ KeyInHand /\ KeyEnd < cb.at /\ m'.loc_key = RawKey
      BY <1>3, AtCallback DEF Searching
    <3>2. /\ Within(RawKey) /\ RawKey.at + RawKey.length < round.at + cb.at
          /\ doc[RawKey.at + 1] = Quote /\ doc[RawKey.at + RawKey.length] = Quote
      BY <1>2, <3>1, RawKeyFacts
    <3> QED
      BY <1>3, <1>4, <3>1, <3>2 DEF Within
  <2> QED
    BY <1>3, <1>4, <2>1, <2>2 DEF Placed, Within
<1>7. \A l \in Level : mres'[l] = "COMPLETE" => l = Depth
  BY <1>2
<1>8. ASSUME NEW maxLevel \in Nat, Answer(FALSE, State_.ignore_callback, maxLevel)
      PROVE  OnPath(Depth)' /\ max_callback_level' = maxLevel /\ cb' = NoCallback
  <2>1. /\ cb' = NoCallback /\ Reach' = level /\ level' = level
        /\ max_callback_level' = maxLevel
        /\ \A l \in Level : /\ stack'[l].type = stack[l].type
                            /\ stack'[l].pos_begin = stack[l].pos_begin
                            /\ l # cb.level => stack'[l].ignore_callback = stack[l].ignore_callback
        /\ ~stack'[cb.level].ignore_callback
    BY <1>2, <1>8, AnswerFacts
  <2>2. \A l \in 1 .. d : /\ ~stack[l].ignore_callback /\ stack[l].type # "HKEY"
                          /\ mres[l] = IF l = Depth THEN "COMPLETE" ELSE "POSSIBLE"
                          /\ l < Depth => stack[l].type \in Container
    BY <1>2 DEF OnPath
  <2>3. \A l \in 1 .. d : l \in Level
    BY <1>2, LevelsAssumption DEF Level
  <2>4. ASSUME NEW l \in 1 .. Depth
        PROVE  /\ ~stack'[l].ignore_callback /\ stack'[l].type # "HKEY"
               /\ mres'[l] = IF l = Depth THEN "COMPLETE" ELSE "POSSIBLE"
               /\ l < Depth => stack'[l].type \in Container
    <3>1. CASE l = d + 1
      BY <1>1, <1>2, <2>1, <3>1 DEF State_
    <3>2. CASE l # d + 1
      <4>1. l \in 1 .. d
        BY <1>2, <3>2
      <4> QED
        BY <1>2, <2>1, <2>2, <2>3, <4>1
    <3> QED
      BY <3>1, <3>2
  <2>5. stack'[Depth].pos_begin = cb.at /\ m'.type = stack'[Depth].type
    BY <1>2, <1>3, <2>1 DEF State_
  <2>6. Depth \in 0 .. Depth /\ Depth <= Reach'
    BY <1>2, <2>1
  <2>7. OnPath(Depth)'
    BY <1>3, <1>4, <2>1, <2>4, <2>5, <2>6 DEF OnPath, NoCallback
  <2> QED
    BY <2>1, <2>7
<1>9. CASE m.ensure_unique = <<>>
  <2>1. GoOn /\ callbacks' = callbacks /\ m'.matchres = "COMPLETE"
    BY <1>3, <1>9 DEF PushComplete
  <2>2. Answer(FALSE, State_.ignore_callback, max_callback_level)
    BY <2>1 DEF GoOn
  <2>3. Descending'
    BY <1>2, <1>3, <1>4, <1>8, <2>1, <2>2 DEF Descending
  <2> QED
    BY <1>1, <1>2, <1>4, <1>5, <1>6, <1>7, <2>1, <2>2, <2>3, AnsweredKeeps
<1>10. CASE m.ensure_unique # <<>> /\ State_.type # "LIST"
  <2>1. Stop /\ callbacks' = callbacks
    BY <1>10 DEF PushComplete
  <2>2. Answer(TRUE, State_.ignore_callback, max_callback_level)
    BY <2>1 DEF Stop
  <2> QED
    BY <1>1, <1>2, <1>4, <1>5, <1>6, <1>7, <2>1, <2>2, AnsweredKeeps
<1>11. CASE m.ensure_unique # <<>> /\ State_.type = "LIST"
  <2>1. /\ callbacks' = "UNIQUE" /\ Answer(FALSE, State_.ignore_callback, cb.level + 2)
        /\ m'.matchres = "COMPLETE" /\ cb.level + 2 \in Nat
    <3>1. callbacks' = "UNIQUE" /\ Answer(FALSE, State_.ignore_callback, cb.level + 2)
      BY <1>11 DEF PushComplete
    <3>2. m'.matchres = "COMPLETE"
      BY <1>3, <1>11
    <3>3. cb.level + 2 \in Nat
      BY <1>2
    <3> QED
      BY <3>1, <3>2, <3>3
  <2>2. Comparing'
    BY <1>2, <1>3, <1>4, <1>8, <2>1 DEF Comparing
  <2> QED
    BY <1>1, <1>2, <1>4, <1>5, <1>6, <1>7, <2>1, <2>2, AnsweredKeeps
<1> QED
  BY <1>9, <1>10, <1>11

-----------------------------------------------------------------------------
(* pop_callback() *)

(* The key ends where its closing quote is.                                *)
LEMMA KeyEndsKeeps ==
  ASSUME SearchInv, pc = "FEED", cb # NoCallback, KeyEnds
  PROVE  SearchInv'
<1>0. PICK d \in Nat : d = m.match_level
  BY AtCallback, SearchFacts
<1>1. /\ callbacks = "MATCH" /\ cb.action = "POP" /\ State_.type = "HKEY"
      /\ ctx' = [ctx EXCEPT !.hk_len = cb.at - (State_.pos_begin + 1)]
      /\ GoOn /\ Keep /\ UNCHANGED <<m, mres, callbacks>>
  BY DEF KeyEnds, Matching
<1>2. /\ OnPath(d) /\ d < Depth /\ cb.level = d + 1 /\ Beyond(d)
      /\ max_callback_level = Depth + 1 /\ Depth \in Nat
  BY <1>0, <1>1, MatchPlace
<1>3. /\ State_.ignore_callback \in BOOLEAN /\ ~State_.ignore_callback /\ level = cb.level - 1
      /\ cb.at \in Nat /\ SearchTypes /\ Placed /\ cb.level = Reach
      /\ State_.pos_begin \in Nat /\ State_.pos_begin < cb.at
      /\ max_callback_level \in Nat /\ ctx \in ContextRec /\ LexerInv /\ JsonslInv
  BY <1>1, <1>2, AtCallback DEF State, SearchTypes
<1>4. Answer(FALSE, State_.ignore_callback, max_callback_level) /\ round' = round /\ m' = m
      /\ mres' = mres
  BY <1>1 DEF GoOn, Keep
<1>5. /\ cb' = NoCallback /\ Reach' = level /\ level' = level /\ UNCHANGED <<text, pos, expecting>>
      /\ max_callback_level' = max_callback_level
  BY <1>3, <1>4, AnswerFacts
<1>6. /\ ctx'.jpr = ctx.jpr /\ ctx'.hk_at = ctx.hk_at
      /\ ctx'.hk_len = cb.at - (State_.pos_begin + 1) /\ ctx' \in ContextRec /\ Depth' = Depth
  <2>1. cb.at - (State_.pos_begin + 1) \in Nat
    BY <1>3
  <2> QED
    BY <1>1, <1>3, <2>1 DEF ContextRec, Depth
<1>7. SearchTypes' /\ Placed'
  BY <1>1, <1>3, <1>6 DEF SearchTypes, Placed, Within, Keep
<1>8. OnPath(d)'
  <2>1. d <= level
    BY <1>2, <1>3
  <2> QED
    BY <1>2, <1>3, <1>4, <1>6, <2>1, PathStays
<1>9. Beyond(d)'
  <2>1. ctx.hk_at = State_.pos_begin + 1
    BY <1>1, <1>2, <1>3 DEF Beyond, InKey, State_
  <2>2. text[State_.pos_begin + 1] = Quote
    BY <1>1, <1>3 DEF JsonslInv, CallbackSeesItsState, OpenedBy, State_, Stringy, NoCallback
  <2>3. expecting = ":" /\ text[cb.at + 1] = Quote /\ pos = cb.at + 1
    BY <1>1, <1>3 DEF LexerInv, ObjectTurns, State_
  <2>4. KeyEnd' = cb.at + 1
    BY <1>3, <1>6, <2>1 DEF KeyEnd
  <2>5. KeyInHand' /\ KeyEnd' <= pos' /\ expecting' = ":"
    BY <1>3, <1>5, <1>6, <2>1, <2>2, <2>3, <2>4 DEF KeyInHand
  <2> QED
    BY <1>2, <1>3, <1>4, <1>5, <2>5 DEF Beyond, InKey, ValueBegins, NoCallback
<1>10. Descending'
  BY <1>0, <1>2, <1>4, <1>5, <1>6, <1>8, <1>9 DEF Descending
<1>11. \A l \in Level : mres'[l] = "COMPLETE" => l = Depth
  BY <1>1, AtCallback DEF Searching
<1> QED
  BY <1>1, <1>3, <1>4, <1>6, <1>7, <1>10, <1>11, AnsweredKeeps

(* Only the states of the path are seen to end.                            *)
LEMMA PopElsewhereNever ==
  ASSUME SearchInv, pc = "FEED", cb # NoCallback, PopElsewhere
  PROVE  FALSE
<1>1. /\ callbacks = "MATCH" /\ cb.action = "POP" /\ State_.type # "HKEY"
      /\ mres[cb.level] # "COMPLETE"
      /\ State_.type \in Container => mres[cb.level] # "POSSIBLE"
  BY DEF PopElsewhere, Matching
<1>2. /\ mres[cb.level] = IF cb.level = Depth THEN "COMPLETE" ELSE "POSSIBLE"
      /\ cb.level < Depth => State_.type \in Container
      /\ cb.level <= Depth /\ cb.level \in Nat /\ Depth \in Nat
  BY <1>1, MatchPlace, AtCallback
<1> QED
  BY <1>1, <1>2

(* A state that ends is inside the document, its last character counted or *)
(* not.                                                                    *)
LEMMA PopLengthFacts ==
  ASSUME SearchInv, pc = "FEED", cb # NoCallback, cb.action = "POP",
         m.loc_deepest.at = round.at + State_.pos_begin,
         NEW n \in {0, 1}, NEW loc \in Loc, loc.at = m.loc_deepest.at,
         loc.length = cb.at - State_.pos_begin + n
  PROVE  Within(loc)
<1>1. /\ State_.pos_begin \in Nat /\ State_.pos_begin < cb.at /\ cb.at \in Nat /\ cb.at < Len(text)
      /\ Len(text) \in Nat /\ Len(doc) \in Nat /\ round.at \in Nat
      /\ round.at + Len(text) <= Len(doc)
  BY AtCallback, SearchFacts DEF Searching, FeedsDocument
<1>2. loc.at = round.at + State_.pos_begin /\ loc.at >= 0 /\ loc.length >= 0
  BY <1>1
<1>3. loc.at + loc.length = round.at + cb.at + n
  BY <1>1, <1>2
<1> QED
  BY <1>1, <1>2, <1>3 DEF Within

(* The deepest parent: the search stops at its end.                        *)
LEMMA PopParentKeeps ==
  ASSUME SearchInv, pc = "FEED", cb # NoCallback, PopParent
  PROVE  SearchInv'
<1>1. /\ callbacks = "MATCH" /\ cb.action = "POP" /\ State_.type \in Container
      /\ mres[cb.level] = "POSSIBLE" /\ Stop /\ Keep /\ UNCHANGED <<ctx, mres, callbacks>>
      /\ m' = [m EXCEPT
             !.loc_deepest.length = cb.at - State_.pos_begin + 1,
             !.num_siblings = IF State_.type = "OBJECT" THEN State_.nelem \div 2
                                                        ELSE State_.nelem,
             !.type = State_.type,
             !.immediate_parent_found = @ \/ cb.level = Len(ctx.jpr) - 1]
  BY DEF PopParent, Matching
<1>2. /\ m.loc_deepest.at = round.at + State_.pos_begin /\ m.loc_deepest.length = 0
      /\ Descending /\ cb.level = m.match_level
      /\ cb.level # Depth /\ max_callback_level = Depth + 1 /\ Depth \in Nat
  BY <1>1, MatchPlace DEF Container
<1>3. m.loc_key = NoLoc /\ m.matchres # "COMPLETE"
  BY <1>2 DEF Descending, Beyond
<1>4. /\ SearchTypes /\ Placed /\ State_.ignore_callback \in BOOLEAN /\ max_callback_level \in Nat
      /\ m \in MatchRec /\ m.loc_deepest \in Loc /\ State_.nelem \in Nat /\ State_.pos_begin \in Nat
      /\ cb.at \in Nat
  BY <1>2, AtCallback, SearchFacts DEF State, SearchTypes
<1>5. /\ m' \in MatchRec /\ m'.loc_key = NoLoc /\ m'.matchres = m.matchres
      /\ m'.loc_deepest.at = m.loc_deepest.at
      /\ m'.loc_deepest.length = cb.at - State_.pos_begin + 1 /\ m'.loc_deepest \in Loc
  <2> DEFINE loc == [m.loc_deepest EXCEPT !.length = cb.at - State_.pos_begin + 1]
             siblings == IF State_.type = "OBJECT" THEN State_.nelem \div 2 ELSE State_.nelem
             found == m.immediate_parent_found \/ cb.level = Len(ctx.jpr) - 1
  <2>1. loc \in Loc /\ loc.at = m.loc_deepest.at /\ loc.length = cb.at - State_.pos_begin + 1
    BY <1>4 DEF Loc
  <2>2. siblings \in Nat /\ found \in BOOLEAN /\ State_.type \in Kind
    BY <1>1, <1>4 DEF Kind, Container, Type
  <2>3. m' = [m EXCEPT !.loc_deepest = loc, !.num_siblings = siblings, !.type = State_.type,
                       !.immediate_parent_found = found]
    BY <1>1, <1>4 DEF MatchRec
  <2> HIDE DEF loc, siblings, found
  <2>4. m'.loc_deepest = loc /\ m'.loc_key = NoLoc /\ m'.matchres = m.matchres /\ m' \in MatchRec
    BY <1>3, <1>4, <2>1, <2>2, <2>3 DEF MatchRec
  <2> QED
    BY <2>1, <2>4
<1>6. Within(m.loc_deepest)'
  <2>1. \A loc \in Loc : loc = m'.loc_deepest => Within(loc)
    BY <1>1, <1>2, <1>5, PopLengthFacts
  <2>2. doc' = doc
    BY <1>1 DEF Keep
  <2> QED
    BY <1>5, <2>1, <2>2 DEF Within
<1>7. SearchTypes' /\ Placed'
  <2>1. m'.loc_deepest.length # 1
    <3>1. State_.pos_begin \in Nat /\ cb.at \in Nat /\ State_.pos_begin < cb.at
      BY <1>1, AtCallback
    <3>2. \A b \in Nat, e \in Nat : b < e => e - b + 1 # 1
      OBVIOUS
    <3> QED
      BY <1>5, <3>1, <3>2
  <2> QED
    BY <1>1, <1>4, <1>5, <1>6, <2>1 DEF SearchTypes, Placed, Keep
<1>8. Answer(TRUE, State_.ignore_callback, max_callback_level)
  BY <1>1 DEF Stop
<1>9. \A l \in Level : mres'[l] = "COMPLETE" => l = Depth
  BY <1>1, AtCallback DEF Searching
<1> QED
  BY <1>1, <1>4, <1>7, <1>8, <1>9, AnsweredKeeps

(* What the Match holds of a match that has ended, the last child of it    *)
(* included.                                                               *)
LEMMA MatchedFacts ==
  ASSUME SearchInv, pc = "FEED", cb # NoCallback, cb.action = "POP", State_.type # "HKEY",
         m.loc_deepest.at = round.at + State_.pos_begin, m.matchres = "COMPLETE",
         m.type = State_.type, PopMatched(m), doc' = doc
  PROVE  /\ m' \in MatchRec /\ Placed'
         /\ ~m.get_last => /\ m'.matchres = "COMPLETE" /\ m'.match_level = m.match_level
                           /\ m'.extra_options = m.extra_options
<1>1. /\ SearchTypes /\ Placed /\ LexerInv /\ JsonslInv /\ m \in MatchRec /\ m.loc_deepest \in Loc
      /\ State_.nelem \in Nat /\ text \in Seq(STRING)
      /\ State_.pos_begin \in Nat /\ State_.pos_begin < cb.at /\ State_.special_flags \in SUBSET Flag
      /\ cb.at \in Nat /\ cb.at < Len(text) /\ Len(text) \in Nat /\ Len(doc) \in Nat
      /\ round.at \in Nat /\ round.at + Len(text) <= Len(doc)
      /\ cb.level = Reach /\ cb.level \in Nat /\ State_.type \in Kind
  <2>1. /\ SearchTypes /\ Placed /\ LexerInv /\ JsonslInv /\ State_.nelem \in Nat
        /\ State_.pos_begin \in Nat /\ State_.pos_begin < cb.at /\ State_.special_flags \in SUBSET Flag
        /\ cb.at \in Nat /\ cb.at < Len(text) /\ cb.level = Reach /\ cb.level \in Nat
        /\ State_.type \in Type \ {"ROOT"} /\ Searching /\ text \in Seq(STRING)
    BY AtCallback
  <2>2. m \in MatchRec /\ m.loc_deepest \in Loc /\ Len(doc) \in Nat /\ round.at \in Nat
    BY <2>1, SearchFacts DEF SearchTypes
  <2> QED
    BY <2>1, <2>2 DEF Kind, Searching, FeedsDocument
<1> DEFINE tail == IF State_.type = "SPECIAL" THEN 0 ELSE 1
           ended == [m.loc_deepest EXCEPT !.length = cb.at - State_.pos_begin + tail]
           flags == IF State_.type = "SPECIAL" THEN State_.special_flags ELSE m.sflags
<1>2. tail \in {0, 1} /\ ended \in Loc /\ ended.at = m.loc_deepest.at
      /\ ended.length = cb.at - State_.pos_begin + tail
  BY SMTT(30), <1>1 DEF Loc
<1>3. flags \in SUBSET Flag
  BY <1>1 DEF MatchRec
<1>4. Ended(m) = [m EXCEPT !.loc_deepest = ended, !.sflags = flags,
                           !.immediate_parent_found = TRUE, !.num_children = State_.nelem]
  BY <1>1 DEF Ended, MatchRec, Loc
<1>5. Within(ended) /\ (ended.length = 1 => State_.type \notin Container)
  <2>1. Within(ended)
    BY <1>1, <1>2, PopLengthFacts
  <2>2. State_.type \in Container => tail = 1
    BY DEF Container
  <2> HIDE DEF tail, ended
  <2>3. State_.type \in Container => ended.length # 1
    BY <1>1, <1>2, <2>2
  <2> QED
    BY <2>1, <2>3
<1> HIDE DEF tail, ended, flags
<1>6. /\ Ended(m) \in MatchRec /\ Ended(m).loc_deepest = ended /\ Ended(m).loc_key = m.loc_key
      /\ Ended(m).matchres = m.matchres /\ Ended(m).match_level = m.match_level
      /\ Ended(m).extra_options = m.extra_options /\ Ended(m).type = State_.type
  BY <1>1, <1>2, <1>3, <1>4 DEF MatchRec
<1>7. m.loc_key # NoLoc => /\ Within(m.loc_key)
                           /\ m.loc_key.at + m.loc_key.length < m.loc_deepest.at
                           /\ doc[m.loc_key.at + 1] = Quote
                           /\ doc[m.loc_key.at + m.loc_key.length] = Quote
  BY <1>1 DEF Placed
<1>8. ASSUME m' \in MatchRec, m'.loc_deepest = ended, m'.loc_key = m.loc_key,
             m'.type = State_.type,
             State_.type \notin Container => m'.matchres \in {"COMPLETE", "TYPE_MISMATCH"}
      PROVE  Placed'
  <2>1. Within(m.loc_deepest)'
    BY <1>5, <1>8 DEF Within
  <2>2. m'.loc_key # NoLoc => Within(m.loc_key)'
    BY <1>7, <1>8 DEF Within
  <2> QED
    BY <1>2, <1>5, <1>7, <1>8, <2>1, <2>2 DEF Placed
<1>9. CASE ~m.get_last
  <2>1. m' = Ended(m)
    BY <1>9 DEF PopMatched
  <2> QED
    BY <1>6, <1>8, <1>9, <2>1
<1>10. CASE m.get_last /\ (State_.type # "LIST" \/ State_.nelem = 0)
  <2>1. PICK res \in MatchRes : /\ m' = [Ended(m) EXCEPT !.matchres = res]
                                /\ State_.type # "LIST" => res = "TYPE_MISMATCH"
    BY <1>10 DEF PopMatched, MatchRes
  <2>2. /\ m' \in MatchRec /\ m'.loc_deepest = ended /\ m'.loc_key = m.loc_key
        /\ m'.type = State_.type
        /\ State_.type \notin Container => m'.matchres \in {"COMPLETE", "TYPE_MISMATCH"}
    BY <1>6, <2>1 DEF MatchRec, Container
  <2> QED
    BY <1>8, <1>10, <2>2
<1>11. CASE m.get_last /\ State_.type = "LIST" /\ State_.nelem # 0
  <2>1. m' = Transposed(Ended(m))
    BY <1>11 DEF PopMatched
  <2>2. /\ cb.level + 1 \in Level /\ LastChild.type \notin {"ROOT", "HKEY"} /\ LastChild.pos_begin < pos
    BY <1>1, <1>11 DEF LexerInv, LastChildStays, State_, LastChild
  <2>3. /\ LastChild.pos_begin \in Nat /\ LastChild.nelem \in Nat /\ LastChild.special_flags \in SUBSET Flag
        /\ LastChild.type \in Kind /\ pos \in Nat /\ pos <= Len(text)
    <3>1. /\ LastChild.pos_begin \in Nat /\ LastChild.nelem \in Nat
          /\ LastChild.special_flags \in SUBSET Flag /\ LastChild.type \in Type
      BY <1>1, <2>2, StackFacts DEF JsonslInv, LastChild
    <3> QED
      BY <1>1, <2>2, <3>1, CursorFacts DEF Kind, JsonslInv
  <2>4. /\ ChildEnd \in Nat /\ LastChild.pos_begin <= ChildEnd
        /\ ChildEnd <= cb.at \/ ChildEnd = LastChild.pos_begin
    BY <1>1, <2>3, ChildEndFacts
  <2> DEFINE last == [at |-> round.at + LastChild.pos_begin, length |-> ChildEnd - LastChild.pos_begin]
  <2>5. /\ last \in Loc /\ last.at = round.at + LastChild.pos_begin
        /\ last.length = ChildEnd - LastChild.pos_begin
    <3>1. round.at + LastChild.pos_begin \in Nat /\ ChildEnd - LastChild.pos_begin \in Int
      BY SMTT(30), <1>1, <2>3, <2>4
    <3> QED
      BY <3>1 DEF Loc
  <2>6. last.at >= 0 /\ last.length >= 0 /\ last.at + last.length = round.at + ChildEnd
    <3> HIDE DEF last
    <3> QED
      BY SMTT(30), <1>1, <2>3, <2>4, <2>5
  <2>7. last.at + last.length <= Len(doc)
    <3> HIDE DEF last
    <3> QED
      BY <1>1, <2>2, <2>3, <2>4, <2>6
  <2>8. m' = [Ended(m) EXCEPT !.loc_deepest = last, !.match_level = cb.level + 1,
                              !.sflags = LastChild.special_flags, !.type = LastChild.type,
                              !.num_children = LastChild.nelem,
                              !.num_siblings = State_.nelem - 1, !.position = State_.nelem - 1,
                              !.loc_key = NoLoc]
    BY <2>1 DEF Transposed
  <2>9. State_.nelem - 1 \in Nat /\ cb.level + 1 \in Nat /\ NoLoc \in Loc
    BY <1>1, <1>11 DEF NoLoc, Loc
  <2> HIDE DEF last
  <2>10. /\ m' \in MatchRec /\ m'.loc_deepest = last /\ m'.loc_key = NoLoc
         /\ m'.type = LastChild.type /\ m'.matchres = "COMPLETE"
    BY <1>6, <2>3, <2>5, <2>8, <2>9 DEF MatchRec
  <2>11. Within(m.loc_deepest)'
    BY <2>6, <2>7, <2>10 DEF Within
  <2>12. last.length = 1 => LastChild.type \notin Container
    <3> SUFFICES ASSUME LastChild.type \in Container PROVE last.length >= 2
      BY <2>5
    <3>1. HasClosed(cb.level + 1, cb.at)
      BY <1>1, <1>11 DEF LexerInv, LastChildStays, State_, Before
    <3>2. PICK i \in LastChild.pos_begin + 2 .. cb.at : text[i] \notin Whitespace
      BY <3>1 DEF HasClosed, LastChild
    <3>3. i \in LastChild.pos_begin + 1 .. cb.at
      BY <1>1, <2>3, <3>2
    <3>4. i <= ChildEnd
      BY <1>1, <2>3, <3>2, <3>3, ChildEndFacts
    <3> QED
      BY <1>1, <2>3, <2>4, <2>5, <3>2, <3>4
  <2> QED
    BY <1>11, <2>10, <2>11, <2>12 DEF Placed
<1> QED
  BY <1>9, <1>10, <1>11

(* When siblings are asked for, the parent is where the next one will be.  *)
LEMMA CountingBegins ==
  ASSUME SearchInv, pc = "FEED", cb # NoCallback, cb.action = "POP", State_.type # "HKEY",
         cb.level = Depth, NEW maxLevel \in Nat, maxLevel = Depth + 1,
         Answer(FALSE, State_.ignore_callback, maxLevel), ctx' = ctx, OnPath(Depth),
         m'.match_level = Depth, m'.matchres = "COMPLETE", m'.extra_options = "GET_FOLLOWING_SIBLINGS"
  PROVE  Counting'
<1>1. /\ level = Depth - 1 /\ Depth \in Nat /\ Depth > 0 /\ LexerInv /\ JsonslInv
      /\ State_.ignore_callback \in BOOLEAN /\ level \in Nat /\ level \in Level
      /\ stack[level].nelem \in Nat /\ stack[level].nelem > 0 /\ cb.level \in Nat
  BY AtCallback DEF State
<1>2. /\ stack[level].type \in Container \cup {"ROOT"}
      /\ stack[level].type = "OBJECT" => stack[level].nelem % 2 # 1
  BY <1>1 DEF LexerInv, CallbackWanted, State_
<1>3. stack[level].type = "OBJECT" => stack[level].nelem % 2 = 0
  BY <1>1, <1>2, Parity
<1>4. ~stack[level].ignore_callback
  <2>1. CASE level = 0
    BY <1>1, <2>1 DEF LexerInv, IgnoreInherits
  <2>2. CASE level # 0
    <3>1. level \in 1 .. Depth
      BY <1>1, <2>2
    <3> QED
      BY <3>1 DEF OnPath
  <2> QED
    BY <2>1, <2>2
<1>5. /\ cb' = NoCallback /\ level' = level /\ max_callback_level' = Depth + 1 /\ Depth' = Depth
      /\ stack'[level].type = stack[level].type /\ stack'[level].nelem = stack[level].nelem
      /\ stack'[level].ignore_callback = stack[level].ignore_callback
  <2>1. level # cb.level
    BY <1>1
  <2> QED
    BY <1>1, <2>1, AnswerFacts DEF Depth
<1> QED
  BY <1>1, <1>2, <1>3, <1>4, <1>5 DEF Counting, Top, NoCallback

(* The match ends; the siblings are counted when they are asked for. *)
LEMMA PopCompleteKeeps ==
  ASSUME SearchInv, pc = "FEED", cb # NoCallback, PopComplete
  PROVE  SearchInv'
<1>1. /\ callbacks = "MATCH" /\ cb.action = "POP" /\ State_.type # "HKEY"
      /\ PopMatched(m) /\ mres[cb.level] = "COMPLETE" /\ Keep /\ UNCHANGED <<ctx, mres>>
      /\ IF AwaitsSibling THEN callbacks' = "SIBLING" /\ GoOn ELSE Stop /\ UNCHANGED callbacks
  BY DEF PopComplete, Matching, PopMatched
<1>2. /\ m.loc_deepest.at = round.at + State_.pos_begin
      /\ cb.level = m.match_level /\ cb.level = Depth /\ Descending
      /\ max_callback_level = Depth + 1 /\ Depth \in Nat /\ OnPath(Depth)
  BY <1>1, MatchPlace
<1>3. m.matchres = "COMPLETE" /\ m.type = State_.type
  <2>1. m.matchres = "COMPLETE" /\ Depth > 0
    BY <1>2, AtCallback DEF Descending, Searching
  <2> QED
    BY <1>2, <2>1 DEF OnPath, State_
<1>4. /\ SearchTypes /\ State_.ignore_callback \in BOOLEAN /\ max_callback_level \in Nat
      /\ m \in MatchRec
  BY <1>2, AtCallback DEF State, SearchTypes
<1>5. /\ m' \in MatchRec /\ Placed'
      /\ ~m.get_last => /\ m'.matchres = "COMPLETE" /\ m'.match_level = m.match_level
                        /\ m'.extra_options = m.extra_options
  BY <1>1, <1>2, <1>3, MatchedFacts DEF Keep
<1>6. SearchTypes'
  BY <1>1, <1>4, <1>5 DEF SearchTypes, Keep
<1>7. \A l \in Level : mres'[l] = "COMPLETE" => l = Depth
  BY <1>1, AtCallback DEF Searching
<1>8. CASE AwaitsSibling
  <2>1. callbacks' = "SIBLING" /\ Answer(FALSE, State_.ignore_callback, max_callback_level)
    BY <1>1, <1>8 DEF GoOn
  <2>2. m'.matchres = "COMPLETE" /\ m'.match_level = Depth
        /\ m'.extra_options = "GET_FOLLOWING_SIBLINGS" /\ ctx' = ctx
    BY <1>1, <1>2, <1>5, <1>8 DEF AwaitsSibling
  <2>3. Counting'
    BY <1>1, <1>2, <1>4, <2>1, <2>2, CountingBegins
  <2> QED
    BY <1>1, <1>4, <1>5, <1>6, <1>7, <2>1, <2>3, AnsweredKeeps
<1>9. CASE ~AwaitsSibling
  <2>1. Answer(TRUE, State_.ignore_callback, max_callback_level)
    BY <1>1, <1>9 DEF Stop
  <2> QED
    BY <1>1, <1>4, <1>5, <1>6, <1>7, <2>1, AnsweredKeeps
<1> QED
  BY <1>8, <1>9

-----------------------------------------------------------------------------
(* unique_callback() and next_sibling_push_callback() *)

(* Elements are compared one level above the match, which is an array.     *)
LEMMA UniquePlace ==
  ASSUME SearchInv, pc = "FEED", cb # NoCallback, callbacks = "UNIQUE"
  PROVE  /\ Comparing /\ OnPath(Depth) /\ Depth \in Nat /\ Depth > 0 /\ m.match_level = Depth
         /\ m.matchres = "COMPLETE" /\ max_callback_level = Depth + 2
         /\ cb.action = "PUSH" => Depth < level
         /\ mres[cb.level] = "COMPLETE" <=> cb.level = Depth
         /\ cb.level # Depth => Depth < cb.level /\ Depth <= level /\ cb.level = Depth + 1
<1>1. /\ Comparing /\ Depth \in Nat /\ Depth > 0 /\ cb.level = Reach /\ cb.level \in Nat
      /\ cb.level < max_callback_level /\ level \in Nat /\ cb.level \in Level
      /\ \A l \in Level : mres[l] = "COMPLETE" => l = Depth
      /\ cb.action \in {"PUSH", "POP"}
      /\ (cb.action = "PUSH" => level = cb.level) /\ (cb.action = "POP" => level = cb.level - 1)
  BY AtCallback DEF Searching
<1>2. /\ OnPath(Depth) /\ m.match_level = Depth /\ m.matchres = "COMPLETE"
      /\ max_callback_level = Depth + 2
  BY <1>1 DEF Comparing
<1>3. mres[Depth] = "COMPLETE" /\ Depth <= cb.level /\ (cb.action = "PUSH" => Depth < level)
  BY <1>1, <1>2 DEF OnPath
<1> QED
  BY <1>1, <1>2, <1>3

(* Comparing goes on after an answer that ignores nothing.                 *)
LEMMA ComparingStays ==
  ASSUME SearchInv, pc = "FEED", cb # NoCallback, callbacks = "UNIQUE", cb.level # Depth,
         NEW maxLevel \in Nat, maxLevel = max_callback_level,
         Answer(FALSE, State_.ignore_callback, maxLevel), round' = round, ctx'.jpr = ctx.jpr,
         m' = m, mres' = mres
  PROVE  Comparing'
<1>0. PICK d \in Nat : d = Depth
  BY AtCallback
<1>1. /\ OnPath(d) /\ d <= level /\ m.match_level = d /\ m.matchres = "COMPLETE"
      /\ max_callback_level = d + 2 /\ Depth' = d
  BY <1>0, UniquePlace DEF Depth
<1>2. ~State_.ignore_callback /\ State_.ignore_callback \in BOOLEAN
  BY AtCallback DEF State
<1>3. OnPath(d)'
  BY <1>1, <1>2, PathStays
<1>4. max_callback_level' = maxLevel
  BY <1>2, AnswerFacts
<1> QED
  BY <1>1, <1>3, <1>4 DEF Comparing

(* An element begins, *)
LEMMA UniqueBeginsKeeps ==
  ASSUME SearchInv, pc = "FEED", cb # NoCallback, UniqueBegins
  PROVE  SearchInv'
<1>1. /\ callbacks = "UNIQUE" /\ cb.action = "PUSH" /\ ctx' = [ctx EXCEPT !.unique_at = cb.at]
      /\ GoOn /\ Keep /\ UNCHANGED <<m, mres, callbacks>>
  BY DEF UniqueBegins
<1>2. /\ SearchTypes /\ Placed /\ State_.ignore_callback \in BOOLEAN /\ max_callback_level \in Nat
      /\ ctx \in ContextRec /\ cb.at \in Nat /\ cb.level # Depth
  <2>1. /\ SearchTypes /\ Placed /\ State_ \in State /\ JsonslInv /\ cb.at \in Nat
    BY <1>1, AtCallback
  <2>2. State_.ignore_callback \in BOOLEAN /\ ctx \in ContextRec /\ max_callback_level \in Nat
    BY <2>1 DEF State, SearchTypes, JsonslInv, JsonslTypeOK
  <2>3. cb.level # Depth
    <3>1. cb.action = "PUSH" => level = cb.level /\ level \in Nat
      BY <1>1, AtCallback
    <3>2. cb.action = "PUSH" => Depth < level /\ Depth \in Nat
      BY <1>1, UniquePlace
    <3> QED
      BY <1>1, <3>1, <3>2
  <2> QED
    BY <2>1, <2>2, <2>3
<1>3. ctx' \in ContextRec /\ ctx'.jpr = ctx.jpr
  BY <1>1, <1>2 DEF ContextRec
<1>4. SearchTypes' /\ Placed'
  BY <1>1, <1>2, <1>3 DEF SearchTypes, Placed, Within, Keep
<1>5. Answer(FALSE, State_.ignore_callback, max_callback_level) /\ round' = round
  BY <1>1 DEF GoOn, Keep
<1>6. Comparing'
  BY <1>1, <1>2, <1>3, <1>5, ComparingStays
<1>7. \A l \in Level : mres'[l] = "COMPLETE" => l = Depth
  BY <1>1, AtCallback DEF Searching
<1> QED
  BY <1>1, <1>2, <1>3, <1>4, <1>5, <1>6, <1>7, AnsweredKeeps

(* the array ends, *)
LEMMA UniqueArrayEndsKeeps ==
  ASSUME SearchInv, pc = "FEED", cb # NoCallback, UniqueArrayEnds
  PROVE  SearchInv'
<1>1. /\ callbacks = "UNIQUE" /\ cb.action = "POP" /\ PopMatched(m) /\ mres[cb.level] = "COMPLETE"
      /\ callbacks' = IF AwaitsSibling THEN "SIBLING" ELSE "MATCH"
      /\ Answer(~AwaitsSibling, State_.ignore_callback, cb.level + 1)
      /\ Keep /\ UNCHANGED <<ctx, mres>>
  BY DEF UniqueArrayEnds, PopMatched
<1>2. /\ cb.level = Depth /\ Depth \in Nat /\ Depth > 0 /\ OnPath(Depth) /\ m.match_level = Depth
      /\ m.matchres = "COMPLETE"
  BY <1>1, UniquePlace
<1>3. m.loc_deepest.at = round.at + State_.pos_begin /\ State_.type # "HKEY" /\ m.type = State_.type
  <2>1. Depth \in 1 .. Depth
    BY <1>2
  <2> QED
    BY <1>2, <2>1 DEF OnPath, State_
<1>4. /\ SearchTypes /\ State_.ignore_callback \in BOOLEAN /\ cb.level + 1 \in Nat
      /\ cb.level + 1 = Depth + 1
  BY <1>2, AtCallback DEF State
<1>5. /\ m' \in MatchRec /\ Placed'
      /\ ~m.get_last => /\ m'.matchres = "COMPLETE" /\ m'.match_level = m.match_level
                        /\ m'.extra_options = m.extra_options
  BY <1>1, <1>2, <1>3, MatchedFacts DEF Keep
<1>6. SearchTypes'
  BY <1>1, <1>4, <1>5 DEF SearchTypes, Keep
<1>7. \A l \in Level : mres'[l] = "COMPLETE" => l = Depth
  BY <1>1, AtCallback DEF Searching
<1>8. CASE AwaitsSibling
  <2>1. callbacks' = "SIBLING" /\ Answer(FALSE, State_.ignore_callback, cb.level + 1)
    BY <1>1, <1>8 DEF Answer
  <2>2. m'.matchres = "COMPLETE" /\ m'.match_level = Depth
        /\ m'.extra_options = "GET_FOLLOWING_SIBLINGS" /\ ctx' = ctx
    BY <1>1, <1>2, <1>5, <1>8 DEF AwaitsSibling
  <2>3. Counting'
    BY <1>1, <1>2, <1>3, <1>4, <2>1, <2>2, CountingBegins
  <2> QED
    BY <1>1, <1>4, <1>5, <1>6, <1>7, <2>1, <2>3, AnsweredKeeps
<1>9. CASE ~AwaitsSibling
  <2>1. callbacks' = "MATCH" /\ Answer(TRUE, State_.ignore_callback, cb.level + 1)
    BY <1>1, <1>9 DEF Answer
  <2> QED
    BY <1>1, <1>4, <1>5, <1>6, <1>7, <2>1, AnsweredKeeps
<1> QED
  BY <1>8, <1>9

(* or an element that is compared. *)
LEMMA UniqueElementEndsKeeps ==
  ASSUME SearchInv, pc = "FEED", cb # NoCallback, UniqueElementEnds
  PROVE  SearchInv'
<1>1. /\ callbacks = "UNIQUE" /\ cb.action = "POP" /\ mres[cb.level] # "COMPLETE"
      /\ Keep /\ UNCHANGED <<ctx, mres, callbacks>>
      /\ \/ m' = [m EXCEPT !.matchres = "TYPE_MISMATCH"] /\ Stop
         \/ m' = [m EXCEPT !.unique_item_found = TRUE] /\ Stop
         \/ UNCHANGED m /\ GoOn
  BY DEF UniqueElementEnds
<1>2. /\ SearchTypes /\ Placed /\ State_.ignore_callback \in BOOLEAN /\ max_callback_level \in Nat
      /\ m \in MatchRec /\ cb.level # Depth /\ OnPath(Depth)
  <2>1. SearchTypes /\ Placed /\ State_ \in State /\ JsonslInv
    BY <1>1, AtCallback
  <2>2. State_.ignore_callback \in BOOLEAN /\ m \in MatchRec /\ max_callback_level \in Nat
    BY <2>1 DEF State, SearchTypes, JsonslInv, JsonslTypeOK
  <2>3. cb.level # Depth /\ OnPath(Depth)
    BY <1>1, UniquePlace
  <2> QED
    BY <2>1, <2>2, <2>3
<1>3. m.loc_deepest.length = 0
  BY <1>2 DEF OnPath
<1>4. /\ m' \in MatchRec /\ m'.loc_deepest = m.loc_deepest /\ m'.loc_key = m.loc_key
      /\ m'.matchres = m.matchres \/ m'.matchres = "TYPE_MISMATCH"
  BY <1>1, <1>2 DEF MatchRec, MatchRes
<1>5. SearchTypes'
  BY <1>1, <1>2, <1>4 DEF SearchTypes, Keep
<1>6. Placed'
  BY <1>1, <1>2, <1>3, <1>4 DEF Placed, Within, Keep
<1>7. \A l \in Level : mres'[l] = "COMPLETE" => l = Depth
  BY <1>1, AtCallback DEF Searching
<1>8. CASE Stop
  <2>1. Answer(TRUE, State_.ignore_callback, max_callback_level)
    BY <1>8 DEF Stop
  <2> QED
    BY <1>1, <1>2, <1>5, <1>6, <1>7, <2>1, AnsweredKeeps
<1>9. CASE UNCHANGED m /\ GoOn
  <2>1. Answer(FALSE, State_.ignore_callback, max_callback_level) /\ round' = round /\ m' = m
        /\ mres' = mres
    BY <1>1, <1>9 DEF GoOn, Keep
  <2>2. Comparing'
    BY <1>1, <1>2, <2>1, ComparingStays
  <2> QED
    BY <1>1, <1>2, <1>5, <1>6, <1>7, <2>1, <2>2, AnsweredKeeps
<1> QED
  BY <1>1, <1>8, <1>9

(* There is a match to count from: the siblings after it are never -1.     *)
LEMMA NextSiblingKeeps ==
  ASSUME SearchInv, pc = "FEED", cb # NoCallback, NextSibling
  PROVE  SearchInv'
<1> DEFINE ofParent  == cb.action = "POP"
           parent    == IF ofParent THEN State_ ELSE Parent
           counted   == IF parent.type = "OBJECT"
                        THEN (parent.nelem + (IF ofParent THEN 0 ELSE 1)) \div 2
                        ELSE parent.nelem
<1>1. /\ callbacks = "SIBLING" /\ Stop /\ Keep /\ UNCHANGED <<ctx, mres, callbacks>>
      /\ \/ m' = m
         \/ (ofParent \/ HasParent) /\ m' = [m EXCEPT !.num_siblings = counted - 1]
  BY DEF NextSibling
<1>2. /\ SearchTypes /\ Placed /\ State_.ignore_callback \in BOOLEAN /\ max_callback_level \in Nat
      /\ m \in MatchRec /\ JsonslInv /\ Counting /\ Depth \in Nat /\ Depth > 0
      /\ cb.action \in {"PUSH", "POP"} /\ cb.level \in Nat /\ level \in Nat
      /\ State_.nelem \in Nat /\ stack[cb.level - 1].nelem \in Nat
      /\ (cb.action = "PUSH" => level = cb.level) /\ cb.level - 1 \in Nat
  <2>1. /\ SearchTypes /\ Placed /\ State_ \in State /\ JsonslInv /\ Searching /\ ~stopfl
        /\ Depth \in Nat /\ Depth > 0
        /\ cb.action \in {"PUSH", "POP"} /\ cb.level \in Nat /\ level \in Nat
        /\ State_.nelem \in Nat /\ stack[cb.level - 1].nelem \in Nat
        /\ (cb.action = "PUSH" => level = cb.level) /\ cb.level - 1 \in Nat
    BY <1>1, AtCallback
  <2>2. State_.ignore_callback \in BOOLEAN /\ m \in MatchRec /\ max_callback_level \in Nat
    BY <2>1 DEF State, SearchTypes, JsonslInv, JsonslTypeOK
  <2>3. Counting
    BY <1>1, <2>1 DEF Searching
  <2> QED
    BY <2>1, <2>2, <2>3
<1>3. ASSUME ofParent \/ HasParent
      PROVE  counted - 1 \in Nat
  <2>1. CASE ofParent
    <3>1. State_.nelem > 0 /\ (State_.type = "OBJECT" => State_.nelem % 2 = 0)
      BY <1>2, <2>1 DEF Counting, NoCallback, State_
    <3>2. State_.type = "OBJECT" => State_.nelem \div 2 >= 1
      BY <1>2, <3>1
    <3>3. counted = IF State_.type = "OBJECT" THEN State_.nelem \div 2 ELSE State_.nelem
      BY <1>2, <2>1
    <3> HIDE DEF counted
    <3> QED
      BY <1>2, <3>1, <3>2, <3>3
  <2>2. CASE ~ofParent
    <3>1. cb.action = "PUSH" /\ cb.level > 1 /\ level = cb.level
      BY <1>2, <1>3, <2>2 DEF HasParent
    <3>2. level = Depth /\ stack[Depth - 1].nelem > 0
          /\ (stack[Depth - 1].type = "OBJECT" => Top.type = "HKEY")
      BY <1>2, <3>1 DEF Counting, NoCallback
    <3>3. Parent = stack[Depth - 1] /\ Top = State_
      BY <3>1, <3>2 DEF Parent, Top, State_
    <3>4. Parent.type = "OBJECT" => Parent.nelem % 2 = 1
      <4>1. Depth - 1 \in 0 .. level - 1 /\ Depth - 1 + 1 = level
        BY <1>2, <3>1, <3>2
      <4>2. (Top.type = "HKEY") = (stack[Depth - 1].type = "OBJECT" /\ stack[Depth - 1].nelem % 2 = 1)
        BY <1>2, <4>1 DEF JsonslInv, KeysPairWithValues, Top
      <4> QED
        BY <3>2, <3>3, <4>2
    <3>5. Parent.nelem \in Nat /\ Parent.nelem > 0
      BY <1>2, <3>1, <3>2, <3>3
    <3>6. Parent.type = "OBJECT" => (Parent.nelem + 1) \div 2 >= 1 /\ (Parent.nelem + 1) \div 2 \in Nat
      BY <3>5
    <3>7. counted = IF Parent.type = "OBJECT" THEN (Parent.nelem + 1) \div 2 ELSE Parent.nelem
      BY <2>2
    <3> HIDE DEF counted
    <3> QED
      BY <3>5, <3>6, <3>7
  <2> QED
    BY <2>1, <2>2
<1> HIDE DEF counted, parent, ofParent
<1>4. m' \in MatchRec /\ m'.loc_deepest = m.loc_deepest /\ m'.loc_key = m.loc_key
      /\ m'.matchres = m.matchres /\ m'.type = m.type
  BY <1>1, <1>2, <1>3 DEF MatchRec
<1>5. SearchTypes'
  BY <1>1, <1>2, <1>4 DEF SearchTypes, Keep
<1>6. Placed'
  BY <1>1, <1>2, <1>4 DEF Placed, Within, Keep
<1>7. \A l \in Level : mres'[l] = "COMPLETE" => l = Depth
  BY <1>1, AtCallback DEF Searching
<1>8. Answer(TRUE, State_.ignore_callback, max_callback_level)
  BY <1>1 DEF Stop
<1> QED
  BY <1>1, <1>2, <1>5, <1>6, <1>7, <1>8, AnsweredKeeps

(* Every answer of the search keeps it.                                    *)
LEMMA CallbackKeeps ==
  ASSUME SearchInv, Callback
  PROVE  SearchInv'
<1>1. pc = "FEED" /\ cb # NoCallback
  BY DEF Callback
<1> QED
  BY <1>1, KeyBeginsKeeps, PushElsewhereNever, PushCompleteKeeps, PushNoMatchKeeps,
     PushPossibleKeeps, PushMismatchKeeps, KeyEndsKeeps, PopCompleteKeeps, PopElsewhereNever,
     PopParentKeeps, UniqueBeginsKeeps, UniqueArrayEndsKeeps, UniqueElementEndsKeeps,
     NextSiblingKeeps DEF Callback

-----------------------------------------------------------------------------
(* A search begins and ends.                                               *)

\* The Match as a pass begins with it.
Fresh(match) ==
  /\ match \in MatchRec /\ match.match_level = 0 /\ match.matchres = "POSSIBLE"
  /\ match.loc_deepest = NoLoc /\ match.loc_key = NoLoc

(* A Match that has been cleared is as good as new. *)
LEMMA BlankTypes ==
  /\ BlankMatch \in MatchRec /\ Fresh(BlankMatch) /\ BlankContext \in ContextRec
  /\ BlankRound \in RoundRec /\ NoResults \in [Level -> MatchRes \ {"UNKNOWN"}]
<1>1. NoLoc \in Loc
  BY DEF NoLoc, Loc
<1>2. BlankMatch \in MatchRec
  BY <1>1 DEF BlankMatch, MatchRec, Kind, MatchRes
<1>3. BlankContext \in ContextRec /\ BlankRound \in RoundRec
  BY DEF BlankContext, ContextRec, BlankRound, RoundRec
<1>4. NoResults \in [Level -> MatchRes \ {"UNKNOWN"}]
  BY DEF NoResults, MatchRes
<1> QED
  BY <1>2, <1>3, <1>4 DEF Fresh, BlankMatch

(* The options a caller sets are no trace of a search. *)
LEMMA PreparedIsFresh ==
  ASSUME NEW extra \in {"GET_MATCH_ONLY", "GET_FOLLOWING_SIBLINGS"}, NEW unique \in Seq(STRING),
         NEW match, match = [BlankMatch EXCEPT !.extra_options = extra, !.ensure_unique = unique]
  PROVE  Fresh(match) /\ ~match.get_last
<1>1. match \in MatchRec
  BY BlankTypes DEF MatchRec
<1>2. /\ match.match_level = BlankMatch.match_level /\ match.matchres = BlankMatch.matchres
      /\ match.loc_deepest = BlankMatch.loc_deepest /\ match.loc_key = BlankMatch.loc_key
      /\ match.get_last = BlankMatch.get_last
  BY BlankTypes DEF MatchRec
<1>3. ~BlankMatch.get_last
  BY DEF BlankMatch
<1> QED
  BY <1>1, <1>2, <1>3, BlankTypes DEF Fresh

(* What the match part says when nothing has been found.                   *)
LEMMA FreshPlaced ==
  ASSUME Fresh(m)
  PROVE  Placed
  BY DEF Fresh, Placed, NoLoc

(* A pass begins with a clean lexer, at the root.                          *)
LEMMA StartFeedKeeps ==
  ASSUME LexerInv, Resting, SearchTypes, NEW jpr \in Seq(Component), Len(jpr) > 0, NEW match, Fresh(match),
         NEW bytes \in Seq(STRING), StartFeed(jpr, match, bytes), UNCHANGED mres,
         doc' \in Seq(STRING), path' \in Seq(Component), round' \in RoundRec,
         round'.at + Len(bytes) <= Len(doc'), \A i \in 1 .. Len(bytes) : bytes[i] = doc'[round'.at + i]
  PROVE  SearchInv'
<1>1. /\ m' = [match EXCEPT !.status = "SUCCESS"] /\ ctx' = [BlankContext EXCEPT !.jpr = jpr]
      /\ callbacks' = "MATCH" /\ CallFeed(bytes, Len(jpr) + 1, TRUE) /\ pc' = "FEED"
  BY DEF StartFeed
<1>2. Len(jpr) \in Nat /\ Len(jpr) + 1 \in Nat
  OBVIOUS
<1>3. LexerInv'
  BY <1>1, <1>2, LexerCallKeeps
<1>4. /\ text = <<>> /\ text' = text \o bytes /\ max_callback_level' = Len(jpr) + 1 /\ call_HKEY'
      /\ UNCHANGED <<stopfl, level, stack, cb>>
      /\ cb' = NoCallback /\ level' = 0 /\ stack'[0] = BlankState /\ mres' = NoResults
  BY <1>1 DEF CallFeed, Resting
<1>5. text' = bytes
  BY <1>4
<1>6. /\ m' \in MatchRec /\ m'.match_level = 0 /\ m'.matchres = "POSSIBLE"
      /\ m'.loc_deepest = NoLoc /\ m'.loc_key = NoLoc
  BY <1>1 DEF Fresh, MatchRec
<1>7. /\ ctx' \in ContextRec /\ ctx'.jpr = jpr /\ Depth' = Len(jpr)
  BY <1>1, BlankTypes DEF ContextRec, Depth
<1>8. SearchTypes'
  BY <1>1, <1>6, <1>7 DEF SearchTypes
<1>9. Placed'
  BY <1>6 DEF Placed, NoLoc
<1>10. OnPath(0)'
  BY <1>2, <1>4, <1>6, <1>7 DEF OnPath, Reach, NoCallback, NoLoc
<1>11. Beyond(0)'
  BY <1>4, <1>6 DEF Beyond, InKey, AfterKey, ValueBegins, Reach, NoCallback, BlankState
<1>12. Descending'
  BY <1>4, <1>6, <1>7, <1>10, <1>11 DEF Descending
<1>13. FeedsDocument'
  BY <1>5 DEF FeedsDocument
<1>14. \A l \in Level : mres'[l] = "COMPLETE" => l = Depth'
  BY <1>4 DEF NoResults
<1>15. Searching'
  BY <1>1, <1>4, <1>7, <1>12, <1>13, <1>14 DEF Searching
<1> QED
  BY <1>1, <1>3, <1>8, <1>9, <1>15 DEF SearchInv

(* The call of exec_match(), for any document, path and options, *)
LEMMA SearchKeeps ==
  ASSUME SearchInv, NEW document \in Seq(STRING), NEW p \in Seq(Component), Len(p) > 0,
         NEW match, Fresh(match), Search(document, p, match)
  PROVE  SearchInv'
<1>2. /\ pc = "IDLE" /\ doc' = document /\ path' = p /\ UNCHANGED mres
      /\ IF HasNegix(p)
         THEN /\ round' = [BlankRound EXCEPT !.length = Len(document)]
              /\ m' = match /\ pc' = "ROUND"
              /\ UNCHANGED <<jsnVars, ctx, callbacks>>
         ELSE /\ round' = BlankRound
              /\ StartFeed(p, match, document)
  BY DEF Search
<1>3. Len(p) \in Nat /\ Len(document) \in Nat
  OBVIOUS
<1>4. Fresh(match)
  OBVIOUS
<1>5. LexerInv /\ Resting /\ SearchTypes
  BY <1>2 DEF SearchInv
<1>6. CASE HasNegix(p)
  <2>1. /\ round' = [BlankRound EXCEPT !.length = Len(document)] /\ m' = match /\ pc' = "ROUND"
        /\ UNCHANGED <<jsnVars, ctx, callbacks>>
    BY <1>2, <1>6
  <2>2. round' \in RoundRec /\ round'.cur_start = 1 /\ round'.at = 0 /\ round'.length = Len(document)
    BY <1>3, <2>1 DEF BlankRound, RoundRec
  <2>3. LexerInv'
    BY <1>5, <2>1, LexerStutters
  <2>4. SearchTypes'
    BY <1>2, <1>3, <1>4, <1>5, <2>1, <2>2 DEF SearchTypes, Fresh
  <2>5. Placed'
    BY <1>4, <2>1 DEF Fresh, Placed, NoLoc
  <2>6. Resting'
    BY <1>2, <1>5, <2>1 DEF Resting, jsnVars, feedVars, clientVars
  <2>7. RoundStands'
    BY <1>2, <1>3, <2>2 DEF RoundStands
  <2> QED
    BY <2>1, <2>3, <2>4, <2>5, <2>6, <2>7 DEF SearchInv
<1>7. CASE ~HasNegix(p)
  <2>1. round' = BlankRound /\ StartFeed(p, match, document)
    BY <1>2, <1>7
  <2>2. round' \in RoundRec /\ round'.at = 0
    BY <2>1, BlankTypes DEF BlankRound
  <2>3. round'.at + Len(document) <= Len(doc')
        /\ \A i \in 1 .. Len(document) : document[i] = doc'[round'.at + i]
    BY <1>2, <1>3, <2>2
  <2> QED
    BY <1>2, <1>3, <1>4, <1>5, <2>1, <2>2, <2>3, StartFeedKeeps
<1> QED
  BY <1>6, <1>7

LEMMA AskKeeps ==
  ASSUME SearchInv, Ask
  PROVE  SearchInv'
<1>1. PICK document \in Documents, p \in Paths, match \in Options : Search(document, p, match)
  BY DEF Ask
<1>2. document \in Seq(STRING) /\ p \in Seq(Component) /\ Len(p) > 0
  BY DocumentsAssumption, PathsAssumption
<1>3. Fresh(match)
  BY OptionsAssumption, PreparedIsFresh
<1> QED
  BY <1>1, <1>2, <1>3, SearchKeeps

(* a round in the match of the one before, *)
LEMMA BeginRoundKeeps ==
  ASSUME SearchInv, BeginRound
  PROVE  SearchInv'
<1>1. /\ pc = "ROUND" /\ round' = [round EXCEPT !.next = NextNegative]
      /\ StartFeed(<<Root>> \o SubSeq(path, round.cur_start + 1, NextNegative),
               ClearMatch(NextNegative < Len(path)),
               DocSlice([at |-> round.at, length |-> round.length]))
      /\ UNCHANGED <<doc, path, mres>>
  BY DEF BeginRound
<1>2. LexerInv /\ Resting /\ SearchTypes /\ RoundStands
  BY <1>1 DEF SearchInv
<1>3. /\ path \in Seq(Component) /\ round.cur_start \in 1 .. Len(path) /\ round \in RoundRec
      /\ round.at \in Nat /\ round.length \in Nat /\ doc \in Seq(STRING)
      /\ round.at + round.length <= Len(doc)
  BY <1>2, SearchFacts DEF SearchTypes, RoundStands
<1>4. NextNegative \in Nat /\ round.cur_start <= NextNegative /\ NextNegative <= Len(path)
  BY <1>3, NextNegativeFacts
<1>5. round' \in RoundRec /\ round'.at = round.at
  BY <1>1, <1>3, <1>4 DEF RoundRec
<1> DEFINE rest == SubSeq(path, round.cur_start + 1, NextNegative)
           jpr == <<Root>> \o rest
           match == ClearMatch(NextNegative < Len(path))
           bytes == DocSlice([at |-> round.at, length |-> round.length])
<1>6. jpr \in Seq(Component) /\ Len(jpr) > 0
  <2>1. rest \in Seq(Component)
    <3>1. \A i \in round.cur_start + 1 .. NextNegative : path[i] \in Component
      BY <1>3, <1>4
    <3> QED
      BY <1>3, <1>4, <3>1
  <2>2. Root \in Component
    BY DEF Root, Component
  <2> HIDE DEF rest
  <2> QED
    BY <2>1, <2>2
<1>7. Fresh(match)
  <2> DEFINE last == NextNegative < Len(path)
  <2>1. last \in BOOLEAN
    OBVIOUS
  <2> HIDE DEF last
  <2>2. ClearMatch(last) = [BlankMatch EXCEPT !.get_last = last]
    BY DEF ClearMatch
  <2>3. /\ ClearMatch(last) \in MatchRec
        /\ ClearMatch(last).match_level = BlankMatch.match_level
        /\ ClearMatch(last).matchres = BlankMatch.matchres
        /\ ClearMatch(last).loc_deepest = BlankMatch.loc_deepest
        /\ ClearMatch(last).loc_key = BlankMatch.loc_key
    BY <2>1, <2>2, BlankTypes DEF MatchRec
  <2> QED
    BY <2>3, BlankTypes DEF Fresh, last
<1>8. /\ bytes \in Seq(STRING) /\ Len(bytes) = round.length
      /\ \A i \in 1 .. Len(bytes) : bytes[i] = doc[round.at + i]
  <2>1. bytes = SubSeq(doc, round.at + 1, round.at + round.length)
    BY DEF DocSlice
  <2>2. Len(bytes) = round.length /\ \A i \in 1 .. round.length : bytes[i] = doc[round.at + i]
    <3> HIDE DEF bytes
    <3>1. CASE round.length = 0
      BY <1>3, <2>1, <3>1
    <3>2. CASE round.length > 0
      <4>1. PICK a, n \in Nat : a = round.at /\ n = round.length
        BY <1>3
      <4>2. bytes = SubSeq(doc, a + 1, a + n) /\ n > 0 /\ a + n <= Len(doc)
        BY <1>3, <2>1, <3>2, <4>1
      <4>3. Len(bytes) = n /\ \A i \in 1 .. n : bytes[i] = doc[a + i]
        BY <1>3, <4>2
      <4> QED
        BY <4>1, <4>3
    <3> QED
      BY <1>3, <3>1, <3>2
  <2>3. \A i \in round.at + 1 .. round.at + round.length : doc[i] \in STRING
    BY <1>3
  <2>4. bytes \in Seq(STRING)
    <3> HIDE DEF bytes
    <3> QED
      BY SMTT(30), <1>3, <2>1, <2>3
  <2> QED
    BY <2>2, <2>4
<1>9. StartFeed(jpr, match, bytes)
  BY <1>1
<1> HIDE DEF jpr, match, bytes
<1> QED
  BY <1>1, <1>2, <1>3, <1>5, <1>6, <1>7, <1>8, <1>9, StartFeedKeeps DEF SearchTypes

(* Between two passes.                                                     *)
LEMMA EndFeedFacts ==
  ASSUME SearchInv, EndFeed
  PROVE  LexerInv' /\ Resting' /\ pc = "FEED" /\ SearchTypes /\ Placed /\ mres' = NoResults
<1>1. pc = "FEED" /\ Reset /\ mres' = NoResults /\ LexerInv
  BY DEF EndFeed, Returned, SearchInv
<1>2. LexerInv'
  BY <1>1, LexerResetKeeps
<1>3. Resting'
  BY <1>1, LevelsAssumption DEF Reset, Resting, Level
<1> QED
  BY <1>1, <1>2, <1>3 DEF SearchInv

(* the end of the only pass, *)
LEMMA EndSimpleKeeps ==
  ASSUME SearchInv, EndSimple
  PROVE  SearchInv'
<1>1. EndFeed /\ pc' = "DONE" /\ UNCHANGED <<doc, path, m, ctx, callbacks, round>>
  BY DEF EndSimple
<1>2. LexerInv' /\ Resting' /\ SearchTypes /\ Placed /\ mres' = NoResults
  BY <1>1, EndFeedFacts
<1>3. SearchTypes' /\ Placed'
  BY <1>1, <1>2, BlankTypes DEF SearchTypes, Placed, Within
<1> QED
  BY <1>1, <1>2, <1>3 DEF SearchInv

(* of a round, *)
LEMMA EndRoundKeeps ==
  ASSUME SearchInv, EndRound
  PROVE  SearchInv'
<1> DEFINE failed == m.status # "SUCCESS"
           last   == m.matchres # "COMPLETE" \/ round.next + 1 >= Len(path)
           found  == IF ~failed /\ last THEN RoundLevel >= Len(path) - 1 ELSE m.immediate_parent_found
<1>1. /\ EndFeed /\ UNCHANGED <<doc, path, ctx, callbacks>>
      /\ m' = [m EXCEPT !.match_level = RoundLevel, !.immediate_parent_found = found]
      /\ IF failed \/ last
         THEN pc' = "DONE" /\ UNCHANGED round
         ELSE /\ pc' = "ROUND"
              /\ round' = [cur_start |-> round.next + 1, next |-> round.next,
                           offset |-> RoundLevel,
                           at |-> m.loc_deepest.at, length |-> m.loc_deepest.length]
  BY DEF EndRound
<1>2. LexerInv' /\ Resting' /\ SearchTypes /\ Placed /\ mres' = NoResults
  BY <1>1, EndFeedFacts
<1>3. /\ m \in MatchRec /\ m.loc_deepest \in Loc /\ round \in RoundRec /\ round.next \in Nat
      /\ m.match_level \in Nat /\ round.offset \in Nat /\ path \in Seq(Component) /\ Len(path) \in Nat
  BY <1>2, SearchFacts DEF SearchTypes
<1>4. RoundLevel \in Nat
  BY <1>3 DEF RoundLevel
<1>5. found \in BOOLEAN
  <2>1. m.immediate_parent_found \in BOOLEAN
    BY <1>3 DEF MatchRec
  <2>2. CASE ~failed /\ last
    <3>1. found <=> RoundLevel >= Len(path) - 1
      BY <2>2
    <3>2. found = (RoundLevel >= Len(path) - 1)
      BY <2>2
    <3> HIDE DEF found
    <3> QED
      BY <3>2
  <2>3. CASE ~(~failed /\ last)
    <3>1. found = m.immediate_parent_found
      BY <2>3
    <3> HIDE DEF found
    <3> QED
      BY <2>1, <3>1
  <2> QED
    BY <2>2, <2>3
<1> HIDE DEF found
<1>6. /\ m' \in MatchRec /\ m'.loc_deepest = m.loc_deepest /\ m'.loc_key = m.loc_key
      /\ m'.matchres = m.matchres
  BY <1>1, <1>3, <1>4, <1>5 DEF MatchRec
<1>7. Placed'
  BY <1>1, <1>2, <1>6 DEF Placed, Within
<1>8. CASE failed \/ last
  <2>1. pc' = "DONE" /\ UNCHANGED round
    BY <1>1, <1>8
  <2>2. SearchTypes'
    BY <1>1, <1>2, <1>6, <2>1, BlankTypes DEF SearchTypes
  <2> QED
    BY <1>2, <1>7, <2>1, <2>2 DEF SearchInv
<1>9. CASE ~failed /\ ~last
  <2>1. /\ pc' = "ROUND"
        /\ round' = [cur_start |-> round.next + 1, next |-> round.next, offset |-> RoundLevel,
                     at |-> m.loc_deepest.at, length |-> m.loc_deepest.length]
    BY <1>1, <1>9
  <2>2. /\ Within(m.loc_deepest) /\ round.next + 1 < Len(path)
    BY <1>2, <1>3, <1>9 DEF Placed
  <2>3. m.loc_deepest.at \in Nat /\ m.loc_deepest.length \in Nat
        /\ m.loc_deepest.at + m.loc_deepest.length <= Len(doc)
    <3>1. m.loc_deepest.at \in Int /\ m.loc_deepest.length \in Int
      BY <1>3 DEF Loc, Null
    <3> QED
      BY <2>2, <3>1 DEF Within
  <2>4. /\ round' \in RoundRec /\ round'.cur_start = round.next + 1
        /\ round'.at = m.loc_deepest.at /\ round'.length = m.loc_deepest.length
    BY <1>3, <1>4, <2>1, <2>3 DEF RoundRec
  <2>5. SearchTypes'
    BY <1>1, <1>2, <1>6, <2>1, <2>4, BlankTypes DEF SearchTypes
  <2>6. RoundStands'
    BY <1>1, <1>3, <2>2, <2>3, <2>4 DEF RoundStands
  <2> QED
    BY <1>2, <1>7, <2>1, <2>5, <2>6 DEF SearchInv
<1> QED
  BY <1>8, <1>9

(* and Match::clear(). *)
LEMMA ClearKeeps ==
  ASSUME SearchInv, Clear
  PROVE  SearchInv'
<1>1. /\ pc \in {"IDLE", "DONE"} /\ m' = BlankMatch /\ pc' = "IDLE"
      /\ doc' = <<>> /\ path' = <<>> /\ ctx' = BlankContext
      /\ callbacks' = "MATCH" /\ round' = BlankRound /\ UNCHANGED <<jsnVars, mres>>
  BY DEF Clear
<1>2. LexerInv /\ Resting /\ SearchTypes
  BY <1>1 DEF SearchInv
<1>3. LexerInv'
  BY <1>1, <1>2, LexerStutters
<1>4. Resting'
  BY <1>1, <1>2 DEF Resting, jsnVars, feedVars, clientVars
<1>5. SearchTypes' /\ Placed'
  BY <1>1, <1>2, BlankTypes DEF SearchTypes, Fresh, Placed, NoLoc
<1> QED
  BY <1>1, <1>3, <1>4, <1>5 DEF SearchInv

(* What other modules do does not disturb the search. *)
LEMMA SearchStutters ==
  ASSUME SearchInv, UNCHANGED searchVars
  PROVE  SearchInv'
<1>1. UNCHANGED jsnVars /\ UNCHANGED <<doc, path, m, ctx, mres, callbacks, round, pc>>
  BY DEF searchVars, matchVars
<1>2. UNCHANGED <<text, pos, expecting, max_callback_level, call_HKEY, stopfl, level, stack, cb, err>>
  BY <1>1 DEF jsnVars, feedVars, tokenVars, clientVars
<1>3. LexerInv /\ LexerInv' /\ SearchTypes /\ Placed
  BY <1>1, LexerStutters DEF SearchInv
<1>4. SearchTypes' /\ Placed'
  BY <1>1, <1>3 DEF SearchTypes, Placed, Within
<1>5. Resting => Resting'
  BY <1>1, <1>2 DEF Resting
<1>6. RoundStands => RoundStands'
  BY <1>1 DEF RoundStands
<1>7. Depth' = Depth /\ (FeedsDocument => FeedsDocument')
  BY <1>1, <1>2 DEF Depth, FeedsDocument
<1>8. ASSUME NEW d \in Nat PROVE (OnPath(d) => OnPath(d)') /\ (Beyond(d) => Beyond(d)')
  BY <1>1, <1>2, <1>7
     DEF OnPath, Beyond, Reach, InKey, AfterKey, ValueBegins, KeyInHand, KeyEnd
<1>9. Depth \in Nat /\ m.match_level \in Nat
  BY <1>3, SearchFacts
<1>10. Descending => Descending'
  <2>1. PICK d \in Nat : d = m.match_level
    BY <1>9
  <2> QED
    BY <1>1, <1>2, <1>7, <1>8, <2>1 DEF Descending
<1>11. Comparing => Comparing'
  <2>1. PICK d \in Nat : d = Depth
    BY <1>9
  <2> QED
    BY <1>1, <1>2, <1>7, <1>8, <2>1 DEF Comparing
<1>12. Counting => Counting'
  BY <1>1, <1>2, <1>7 DEF Counting, Top
<1>13. Searching => Searching'
  <2> SUFFICES ASSUME Searching PROVE Searching'
    OBVIOUS
  <2>1. Depth' > 0 /\ FeedsDocument' /\ call_HKEY' /\ (\A l \in Level : mres'[l] = "COMPLETE" => l = Depth')
    BY <1>1, <1>2, <1>7 DEF Searching
  <2>2. CASE stopfl
    BY <1>2, <2>1, <2>2 DEF Searching
  <2>3. CASE ~stopfl /\ callbacks = "MATCH"
    BY <1>1, <1>2, <1>10, <2>1, <2>3 DEF Searching
  <2>4. CASE ~stopfl /\ callbacks = "UNIQUE"
    BY <1>1, <1>2, <1>11, <2>1, <2>4 DEF Searching
  <2>5. CASE ~stopfl /\ callbacks = "SIBLING"
    BY <1>1, <1>2, <1>12, <2>1, <2>5 DEF Searching
  <2> QED
    BY <1>3, <2>2, <2>3, <2>4, <2>5 DEF SearchTypes
<1> QED
  BY <1>1, <1>3, <1>4, <1>5, <1>6, <1>13 DEF SearchInv

(* A new Match and a new parser are in the invariant, *)
LEMMA InitSearches == MatchInit => SearchInv
<1> SUFFICES ASSUME MatchInit PROVE SearchInv
  OBVIOUS
<1>1. /\ JsonslInit /\ doc = <<>> /\ path = <<>> /\ m = BlankMatch /\ ctx = BlankContext
      /\ mres = NoResults /\ callbacks = "MATCH" /\ round = BlankRound /\ pc = "IDLE"
  BY DEF MatchInit
<1>2. Resting /\ level = 0 /\ stack = [l \in Level |-> BlankState] /\ stack[0] = BlankState
  BY <1>1, LevelsAssumption DEF JsonslInit, Resting, Level
<1>3. JsonslInv
  BY <1>1, JsonslInvInit
<1>4. LexerInv
  BY <1>2, <1>3, LexerBlank DEF Resting
<1>5. SearchTypes
  BY <1>1, BlankTypes DEF SearchTypes
<1>6. Placed
  BY <1>1, BlankTypes, FreshPlaced
<1> QED
  BY <1>1, <1>2, <1>4, <1>5, <1>6 DEF SearchInv

(* the steps of exec_match() keep it, *)
LEMMA ExecKeeps ==
  ASSUME SearchInv, ExecMatch
  PROVE  SearchInv'
  BY BeginRoundKeeps, LexKeeps, CallbackKeeps, EndSimpleKeeps, EndRoundKeeps DEF ExecMatch

(* and so does every step of a caller. *)
LEMMA SearchStep == SearchInv /\ [MatchNext]_searchVars => SearchInv'
  BY AskKeeps, ExecKeeps, ClearKeeps, SearchStutters DEF MatchNext

(* In a search each set of callbacks finds what it expects.                *)
LEMMA SearchExpects == SearchInv => ExpectsHold
<1> SUFFICES ASSUME SearchInv, pc = "FEED", cb # NoCallback
             PROVE  ExpectsHold
  BY DEF ExpectsHold
<1>1. CASE callbacks = "UNIQUE"
  <2>1. /\ m.match_level = Depth /\ Depth \in Nat
        /\ mres[cb.level] # "COMPLETE" => cb.level = Depth + 1
    BY <1>1, UniquePlace
  <2> QED
    BY <1>1, <2>1 DEF ExpectsHold
<1>2. CASE callbacks = "SIBLING"
  <2>1. /\ Counting /\ Depth \in Nat /\ level \in Nat /\ cb.action \in {"PUSH", "POP"}
        /\ (cb.action = "PUSH" => level = cb.level)
    BY <1>2, AtCallback DEF Searching
  <2>2. /\ m.match_level = Depth /\ m.matchres = "COMPLETE" /\ m.extra_options = "GET_FOLLOWING_SIBLINGS"
        /\ cb.action = "POP" => cb.level = Depth - 1
    BY <2>1 DEF Counting, NoCallback
  <2>3. cb.action = "PUSH" /\ HasParent /\ Parent.type = "OBJECT" => State_.type = "HKEY"
    BY <2>1 DEF Counting, NoCallback, HasParent, Parent, State_, Top
  <2> QED
    BY <1>2, <2>2, <2>3 DEF ExpectsHold
<1>3. CASE callbacks = "MATCH"
  BY <1>3 DEF ExpectsHold
<1> QED
  BY <1>1, <1>2, <1>3, AtCallback DEF SearchTypes

-----------------------------------------------------------------------------
(* The match is what the path names.  This is an invariant on top of       *)
(* SearchInv: SearchInv says where the search is, NamingInv how it came    *)
(* there.                                                                  *)

BlankBetween(first, last) == \A i \in first + 1 .. last : text[i] \in Whitespace

ColonRead(first, last) ==
  \E i \in first + 1 .. last :
    text[i] = ":" /\ \A j \in first + 1 .. last : j # i => text[j] \in Whitespace

(* The containers on the path are of the kind its components ask for, and  *)
(* nothing but a colon is read between a key and its value.                *)
KindsFit(depth) ==
  \A l \in 1 .. depth : stack[l].type = "LIST" <=> ctx.jpr[l + 1].ptype = "NUMERIC"

Nearing(depth) ==
  /\ KindsFit(depth)
  /\ AfterKey(depth) => IF expecting = ":" THEN BlankBetween(KeyEnd, pos)
                                           ELSE expecting = Quote /\ ColonRead(KeyEnd, pos)
  /\ ValueBegins(depth) => ColonRead(KeyEnd, cb.at)

(* The components of a pass are the whole path, or those before a negative *)
(* index, or the last ones.                                                *)
Aimed ==
  /\ m.get_last => m.extra_options = "GET_MATCH_ONLY"
  /\ \/ ~HasNegix(path) /\ ctx.jpr = path /\ Depth > 0 /\ ~m.get_last
     \/ /\ m.get_last /\ Len(path) > 1
        /\ round.next < Len(path) /\ path[round.next + 1].is_neg
     \/ /\ ~m.get_last /\ Depth > 1 /\ Len(path) > 1
        /\ ctx.jpr[Depth] = LastComponent(path) /\ ~LastComponent(path).is_neg

Chosen ==
  m.matchres = "COMPLETE" =>
    IF m.get_last
    THEN m.loc_deepest.length # 0 => m.loc_key = NoLoc /\ m.position = m.num_siblings
    ELSE IF Depth = 1 THEN m.loc_key = NoLoc ELSE NamedBy(ctx.jpr[Depth])

LastRound ==
  m.status = "SUCCESS" /\ m.matchres = "COMPLETE" /\ m.get_last => round.next + 1 >= Len(path)

Approaching == ~stopfl /\ callbacks = "MATCH" /\ m.match_level < Depth => Nearing(m.match_level)

NamingInv ==
  /\ pc = "ROUND" => round.cur_start < Len(path)
  /\ pc = "FEED" => Aimed /\ Chosen /\ Approaching
  /\ pc = "DONE" => Aimed /\ Chosen /\ LastRound

(* The lexer moves: the levels of the path stay, and white space and the   *)
(* colon are read.                                                         *)
LEMMA NearingFeed ==
  ASSUME LexerInv, SearchTypes, Feed, NEW d \in Nat, OnPath(d), Beyond(d), d < Depth, Nearing(d),
         max_callback_level = Depth + 1, call_HKEY, UNCHANGED <<ctx, mres, round>>
  PROVE  Nearing(d)'
<1>1. /\ JsonslInv /\ ObjectTurns /\ cb = NoCallback /\ level \in Nat /\ level \in Level /\ pos \in Nat
      /\ UNCHANGED text /\ \A l \in 0 .. level : l \in Level
  BY AtFeed DEF LexerInv
<1>2. d <= level /\ d \in Level
  BY <1>1, ReachFacts DEF OnPath, LexerInv
<1>3. /\ Depth \in Nat /\ KeyEnd \in Nat /\ KeyEnd' = KeyEnd /\ ctx' = ctx
  BY SearchFacts DEF KeyEnd
<1>4. AfterKey(d) => KeyEnd <= pos
  BY DEF Beyond
<1>5. ASSUME \A l \in 0 .. d : stack'[l].type = stack[l].type
      PROVE  KindsFit(d)'
  BY <1>3, <1>5 DEF Nearing, KindsFit
<1>6. CASE QuietStep /\ cb' = NoCallback
  <2>1. level' = level /\ \A l \in Level : SameState(stack'[l], stack[l])
    BY <1>6 DEF QuietStep
  <2>2. \A l \in 0 .. d : stack'[l].type = stack[l].type
    BY <1>1, <1>2, <2>1 DEF SameState
  <2>3. ~ValueBegins(d)'
    BY <1>6 DEF ValueBegins, NoCallback
  <2>4. AfterKey(d)' => IF expecting' = ":" THEN BlankBetween(KeyEnd, pos')
                        ELSE expecting' = Quote /\ ColonRead(KeyEnd, pos')
    <3> SUFFICES ASSUME AfterKey(d)'
                 PROVE  IF expecting' = ":" THEN BlankBetween(KeyEnd, pos')
                        ELSE expecting' = Quote /\ ColonRead(KeyEnd, pos')
      OBVIOUS
    <3>1. AfterKey(d) /\ Top.type = "OBJECT" /\ Top.nelem % 2 = 1
      BY <1>1, <1>2, <2>1 DEF AfterKey, SameState, Top
    <3>2. KeyEnd <= pos /\ IF expecting = ":" THEN BlankBetween(KeyEnd, pos)
                           ELSE expecting = Quote /\ ColonRead(KeyEnd, pos)
      BY <1>4, <3>1 DEF Nearing
    <3>3. expecting # ","
      BY <3>2 DEF Quote
    <3>4. CASE UNCHANGED <<pos, expecting>>
      BY <3>2, <3>4
    <3>5. CASE pos' = pos + 1 /\ Char \in Whitespace /\ expecting' = expecting
      <4>1. \A i \in KeyEnd + 1 .. pos' : i \in KeyEnd + 1 .. pos \/ i = pos + 1
        BY <1>1, <1>3, <3>5
      <4>2. KeyEnd + 1 .. pos \subseteq KeyEnd + 1 .. pos' /\ pos + 1 \notin KeyEnd + 1 .. pos
        BY <1>1, <1>3, <3>5
      <4>3. text[pos + 1] \in Whitespace
        BY <3>5 DEF Char
      <4>4. BlankBetween(KeyEnd, pos) => BlankBetween(KeyEnd, pos')
        BY <4>1, <4>3 DEF BlankBetween
      <4>5. ColonRead(KeyEnd, pos) => ColonRead(KeyEnd, pos')
        BY <4>1, <4>2, <4>3 DEF ColonRead
      <4> QED
        BY <3>2, <3>5, <4>4, <4>5
    <3>6. CASE pos' = pos + 1 /\ Char = ":" /\ expecting = ":" /\ expecting' = Quote
      <4>1. \A i \in KeyEnd + 1 .. pos' : i # pos + 1 => i \in KeyEnd + 1 .. pos
        BY <1>1, <1>3, <3>6
      <4>2. pos + 1 \in KeyEnd + 1 .. pos'
        BY <1>1, <1>3, <3>2, <3>6
      <4>3. text[pos + 1] = ":" /\ BlankBetween(KeyEnd, pos)
        BY <3>2, <3>6 DEF Char
      <4>4. ColonRead(KeyEnd, pos')
        BY <4>1, <4>2, <4>3 DEF ColonRead, BlankBetween
      <4> QED
        BY <3>6, <4>4 DEF Quote
    <3> QED
      BY <1>1, <2>1, <3>1, <3>3, <3>4, <3>5, <3>6, ColonAwaited
  <2>6. BlankBetween(KeyEnd, pos)' <=> BlankBetween(KeyEnd, pos')
    BY <1>1, <1>3 DEF BlankBetween
  <2>7. ColonRead(KeyEnd, pos)' <=> ColonRead(KeyEnd, pos')
    BY <1>1, <1>3 DEF ColonRead
  <2> QED
    BY <1>5, <2>2, <2>3, <2>4, <2>6, <2>7 DEF Nearing
<1>7. CASE PopStep
  <2>1. /\ level # 0 /\ level' = level - 1
        /\ \A l \in Level : SameState(stack'[l], stack[l])
        /\ (Top.type = "HKEY") = (stack[level - 1].type = "OBJECT" /\ stack[level - 1].nelem % 2 = 1)
        /\ cb' = Delivered("POP", level, Top.type, Top.ignore_callback)
    BY <1>7 DEF PopStep
  <2>2. \A l \in 0 .. d : stack'[l].type = stack[l].type /\ stack'[l].nelem = stack[l].nelem
    BY <1>1, <1>2, <2>1 DEF SameState
  <2>3. ~ValueBegins(d)'
    BY <2>1 DEF ValueBegins, NoCallback, Delivered
  <2>4. ~AfterKey(d)'
    <3> SUFFICES ASSUME AfterKey(d)' PROVE FALSE
      OBVIOUS
    <3>1. level - 1 = d /\ cb' = NoCallback /\ stack[d].type = "OBJECT" /\ stack[d].nelem % 2 = 1
      BY <2>1, <2>2 DEF AfterKey
    <3>2. Top.type = "HKEY" /\ level = d + 1
      BY <1>1, <2>1, <3>1
    <3>3. InKey(d)
      BY <1>1, <3>2, ReachFacts DEF InKey, Top
    <3>4. ~Top.ignore_callback /\ max_callback_level > level
      BY <1>3, <3>2, <3>3 DEF Beyond, Top
    <3> QED
      BY <2>1, <3>1, <3>4 DEF Delivered, NoCallback
  <2> QED
    BY <1>5, <2>2, <2>3, <2>4 DEF Nearing
<1>8. ASSUME NEW type \in Type \ {"ROOT"}, PushStep(type),
             cb' # NoCallback => cb'.action = "PUSH" /\ cb'.level = level + 1 /\ cb'.at = pos
      PROVE  Nearing(d)'
  <2>1. /\ level' = level + 1 /\ stack'[level + 1].type = type /\ stack'[level].type = Top.type
        /\ \A l \in Level \ {level, level + 1} : stack'[l] = stack[l]
    BY <1>8 DEF PushStep, SameState
  <2>2. \A l \in 0 .. d : stack'[l].type = stack[l].type
    <3> SUFFICES ASSUME NEW l \in 0 .. d PROVE stack'[l].type = stack[l].type
      OBVIOUS
    <3>1. l \in Level /\ l # level + 1 /\ l \in Nat
      BY <1>1, <1>2
    <3> QED
      BY <2>1, <3>1 DEF Top
  <2>3. ~AfterKey(d)'
    BY <1>1, <1>2, <2>1 DEF AfterKey
  <2>4. ValueBegins(d)' => ColonRead(KeyEnd, cb'.at)
    <3> SUFFICES ASSUME ValueBegins(d)' PROVE ColonRead(KeyEnd, cb'.at)
      OBVIOUS
    <3>1. level = d /\ cb'.at = pos
      BY <1>1, <1>8 DEF ValueBegins, NoCallback
    <3>2. Top.type = "OBJECT" /\ type # "HKEY"
      BY <2>1, <3>1 DEF ValueBegins
    <3>3. Top.nelem % 2 = 1 /\ expecting # ":"
      BY <1>1, <1>8, <3>2, ValueAfterColon
    <3> QED
      BY <1>1, <3>1, <3>2, <3>3 DEF Nearing, AfterKey, Top
  <2>5. ColonRead(KeyEnd, cb.at)' <=> ColonRead(KeyEnd, cb'.at)
    BY <1>1, <1>3 DEF ColonRead
  <2> QED
    BY <1>5, <2>2, <2>3, <2>4, <2>5 DEF Nearing
<1> QED
  BY <1>6, <1>7, <1>8, AtFeed

(* What is named stays named as long as nothing of it is moved. *)
LEMMA ChosenStays ==
  ASSUME Chosen, doc' = doc, ctx'.jpr = ctx.jpr, m'.get_last = m.get_last,
         m'.matchres = "COMPLETE" => m.matchres = "COMPLETE",
         m'.loc_key = m.loc_key, m'.position = m.position, m'.loc_deepest.at = m.loc_deepest.at,
         m.get_last => m'.loc_deepest = m.loc_deepest /\ m'.num_siblings = m.num_siblings
  PROVE  Chosen'
<1>1. Depth' = Depth /\ MatchKey' = MatchKey
  BY DEF Depth, MatchKey, DocSlice
<1>2. ASSUME NEW first, NEW last PROVE ColonBetween(first, last)' <=> ColonBetween(first, last)
  BY DEF ColonBetween
<1>3. ColonBetween(m.loc_key.at + m.loc_key.length, m.loc_deepest.at)'
      <=> ColonBetween(m.loc_key.at + m.loc_key.length, m.loc_deepest.at)
  BY DEF ColonBetween
<1>4. NamedBy(ctx.jpr[Depth])' <=> NamedBy(ctx.jpr[Depth])
  BY <1>1, <1>3 DEF NamedBy
<1>5. Chosen' <=>
        (m'.matchres = "COMPLETE" =>
           IF m'.get_last
           THEN m'.loc_deepest.length # 0 => m'.loc_key = NoLoc /\ m'.position = m'.num_siblings
           ELSE IF Depth' = 1 THEN m'.loc_key = NoLoc ELSE NamedBy(ctx.jpr[Depth])')
  BY DEF Chosen
<1> QED
  BY <1>1, <1>4, <1>5 DEF Chosen

(* The components of the pass are the same until the next one begins. *)
LEMMA AimedStays ==
  ASSUME Aimed, path' = path, ctx'.jpr = ctx.jpr, m'.get_last = m.get_last,
         m'.extra_options = m.extra_options, round'.next = round.next
  PROVE  Aimed'
<1>1. Depth' = Depth
  BY DEF Depth
<1>2. HasNegix(path)' <=> HasNegix(path)
  BY DEF HasNegix
<1> QED
  BY <1>1, <1>2 DEF Aimed, LastComponent

(* A handler: the match is not touched, the search comes nearer. *)
LEMMA LexNames ==
  ASSUME SearchInv, NamingInv, Lex
  PROVE  NamingInv'
<1>1. /\ pc = "FEED" /\ Feed /\ m' = [m EXCEPT !.status = err'] /\ pc' = "FEED"
      /\ UNCHANGED <<doc, path, ctx, mres, callbacks, round>>
  BY DEF Lex
<1>2. LexerInv /\ SearchTypes /\ Searching /\ m \in MatchRec
  BY <1>1 DEF SearchInv, SearchTypes
<1>3. /\ m'.get_last = m.get_last /\ m'.matchres = m.matchres /\ m'.loc_key = m.loc_key
      /\ m'.position = m.position /\ m'.loc_deepest = m.loc_deepest
      /\ m'.num_siblings = m.num_siblings /\ m'.extra_options = m.extra_options
      /\ m'.match_level = m.match_level
  BY <1>1, <1>2 DEF MatchRec
<1>4. Aimed' /\ Chosen'
  BY <1>1, <1>3, AimedStays, ChosenStays DEF NamingInv
<1>5. Approaching'
  <2> SUFFICES ASSUME ~stopfl', callbacks' = "MATCH", m'.match_level < Depth'
               PROVE  Nearing(m.match_level)'
    BY DEF Approaching
  <2>1. UNCHANGED stopfl /\ Depth' = Depth
    BY <1>1, <1>2, AtFeed DEF clientVars, Depth
  <2>2. PICK d \in Nat : d = m.match_level
    BY <1>2, SearchFacts
  <2>3. Descending /\ Nearing(d) /\ call_HKEY /\ d < Depth
    BY <1>1, <1>2, <1>3, <2>1, <2>2 DEF Searching, NamingInv, Approaching
  <2>4. OnPath(d) /\ Beyond(d) /\ max_callback_level = Depth + 1
    <3>1. m.match_level # Depth /\ Depth \in Nat
      BY <1>2, <2>2, <2>3, SearchFacts
    <3> QED
      BY <2>2, <2>3, <3>1 DEF Descending
  <2>5. Nearing(d)'
    BY <1>1, <1>2, <2>3, <2>4, NearingFeed
  <2> QED
    BY <1>3, <2>2, <2>5
<1> QED
  BY <1>1, <1>4, <1>5 DEF NamingInv

(* The types of the states on the path outlast an answer. *)
LEMMA KindsStay ==
  ASSUME SearchInv, pc = "FEED", NEW stop \in BOOLEAN, NEW ignore \in BOOLEAN, NEW maxLevel \in Nat,
         Answer(stop, ignore, maxLevel), ctx'.jpr = ctx.jpr, NEW d \in Nat, d <= level, KindsFit(d)
  PROVE  KindsFit(d)'
<1>1. \A l \in Level : stack'[l].type = stack[l].type
  BY AnswerFacts
<1>2. \A l \in 0 .. level : l \in Level
  BY ReachFacts DEF SearchInv, LexerInv
<1>3. \A l \in 1 .. d : l \in Level
  BY <1>2, AtCallback, AnswerFacts
<1> QED
  BY <1>1, <1>3 DEF KindsFit

(* After an answer about a state above the path nothing is read yet. *)
LEMMA NearingAbove ==
  ASSUME SearchInv, pc = "FEED", NEW stop \in BOOLEAN, NEW ignore \in BOOLEAN, NEW maxLevel \in Nat,
         Answer(stop, ignore, maxLevel), ctx'.jpr = ctx.jpr, NEW d \in Nat, level = d + 1, KindsFit(d)
  PROVE  Nearing(d)'
<1>1. KindsFit(d)'
  BY KindsStay
<1>2. level' = level /\ cb' = NoCallback
  BY AnswerFacts
<1>3. ~AfterKey(d)' /\ ~ValueBegins(d)'
  BY <1>2 DEF AfterKey, ValueBegins, NoCallback
<1> QED
  BY <1>1, <1>3 DEF Nearing

(* push_callback(): a key, *)
LEMMA KeyBeginsNames ==
  ASSUME SearchInv, pc = "FEED", cb # NoCallback, NamingInv, KeyBegins
  PROVE  NamingInv'
<1>0. PICK d \in Nat : d = m.match_level
  BY AtCallback, SearchFacts
<1>1. /\ callbacks = "MATCH" /\ cb.action = "PUSH" /\ ctx' = [ctx EXCEPT !.hk_at = cb.at + 1]
      /\ GoOn /\ Keep /\ m' = m
  BY DEF KeyBegins, Matching
<1>2. /\ d < Depth /\ cb.level = d + 1 /\ level = cb.level /\ ~stopfl
      /\ State_.ignore_callback \in BOOLEAN /\ max_callback_level \in Nat /\ ctx \in ContextRec
  <2>1. State_.ignore_callback \in BOOLEAN
    BY AtCallback DEF State
  <2>2. ctx \in ContextRec /\ max_callback_level \in Nat
    BY AtCallback DEF SearchTypes, JsonslInv, JsonslTypeOK
  <2> QED
    BY <1>0, <1>1, <2>1, <2>2, MatchPlace, AtCallback
<1>3. Answer(FALSE, State_.ignore_callback, max_callback_level)
  BY <1>1 DEF GoOn
<1>4. ctx'.jpr = ctx.jpr
  BY <1>1, <1>2 DEF ContextRec
<1>5. KindsFit(d) /\ Aimed /\ Chosen
  BY <1>0, <1>1, <1>2 DEF NamingInv, Approaching, Nearing
<1>6. Nearing(d)'
  BY <1>2, <1>3, <1>4, <1>5, NearingAbove
<1>7. Approaching'
  BY <1>0, <1>1, <1>6 DEF Approaching
<1>8. Aimed' /\ Chosen' /\ pc' = "FEED"
  BY <1>1, <1>4, <1>5, AimedStays, ChosenStays DEF Keep
<1> QED
  BY <1>7, <1>8 DEF NamingInv

(* a child that is not on the path, *)
LEMMA SkipNames ==
  ASSUME SearchInv, pc = "FEED", cb # NoCallback, NamingInv, Candidate, Skip, Keep,
         ctx' = ctx, m'.match_level = m.match_level, m'.get_last = m.get_last,
         m'.matchres # "COMPLETE", m'.extra_options = m.extra_options
  PROVE  NamingInv'
<1>0. PICK d \in Nat : d = m.match_level
  BY AtCallback, SearchFacts
<1>1. /\ d < Depth /\ cb.level = d + 1 /\ level = cb.level /\ callbacks = "MATCH" /\ ~stopfl
      /\ max_callback_level \in Nat
  BY <1>0, CandidateFacts, AtCallback
<1>2. Answer(FALSE, TRUE, max_callback_level)
  BY DEF Skip
<1>3. KindsFit(d) /\ Aimed
  BY <1>0, <1>1 DEF NamingInv, Approaching, Nearing
<1>4. Nearing(d)'
  BY <1>1, <1>2, <1>3, NearingAbove
<1>5. Approaching'
  BY <1>0, <1>4 DEF Approaching
<1>6. Aimed' /\ pc' = "FEED"
  BY <1>3, AimedStays DEF Keep
<1>7. Chosen'
  BY DEF Chosen
<1> QED
  BY <1>5, <1>6, <1>7 DEF NamingInv

LEMMA PushSkipsNames ==
  ASSUME SearchInv, pc = "FEED", cb # NoCallback, NamingInv, PushNoMatch \/ PushMismatch
  PROVE  NamingInv'
<1>1. Candidate /\ Skip /\ Keep /\ ctx' = ctx
      /\ (m' = m \/ m' = [m EXCEPT !.matchres = "TYPE_MISMATCH"])
  BY DEF PushNoMatch, PushMismatch
<1>2. m \in MatchRec /\ m.matchres # "COMPLETE"
  BY <1>1, CandidateFacts DEF Beyond
<1>3. /\ m'.match_level = m.match_level /\ m'.get_last = m.get_last
      /\ m'.matchres # "COMPLETE" /\ m'.extra_options = m.extra_options
  BY <1>1, <1>2 DEF MatchRec
<1> QED
  BY <1>1, <1>3, SkipNames

(* one that is, and is of the kind that the next component asks for, *)
LEMMA PushPossibleNames ==
  ASSUME SearchInv, pc = "FEED", cb # NoCallback, NamingInv, PushPossible
  PROVE  NamingInv'
<1>0. PICK d \in Nat : d = m.match_level
  BY AtCallback, SearchFacts
<1>1. /\ Candidate /\ PathMatch = "POSSIBLE" /\ GoOn /\ Keep /\ ctx' = ctx
      /\ m' = [m EXCEPT !.match_level = cb.level, !.loc_deepest.at = round.at + cb.at]
  BY DEF PushPossible
<1>2. /\ d < Depth /\ cb.level = d + 1 /\ level = cb.level /\ callbacks = "MATCH" /\ ~stopfl
      /\ cb.action = "PUSH" /\ State_.type \in Container /\ cb.level \in Level
      /\ max_callback_level \in Nat /\ State_.ignore_callback \in BOOLEAN
      /\ m \in MatchRec /\ m.matchres # "COMPLETE"
  BY <1>0, <1>1, CandidateFacts, AtCallback DEF Beyond
<1>3. Answer(FALSE, State_.ignore_callback, max_callback_level)
  BY <1>1 DEF GoOn
<1>4. /\ m'.match_level = d + 1 /\ m'.get_last = m.get_last
      /\ m'.matchres # "COMPLETE" /\ m'.extra_options = m.extra_options
  BY <1>1, <1>2 DEF MatchRec
<1>5. KindsFit(d) /\ Aimed
  BY <1>0, <1>2 DEF NamingInv, Approaching, Nearing
<1>6. KindsFit(d + 1)
  <2>1. State_.type = "LIST" <=> ctx.jpr[cb.level + 1].ptype = "NUMERIC"
    BY <1>1 DEF PathMatch, MatchContinue
  <2>2. \A l \in 1 .. d + 1 : l = d + 1 \/ l \in 1 .. d
    OBVIOUS
  <2> QED
    BY <1>2, <1>5, <2>1, <2>2 DEF KindsFit, State_
<1>7. Nearing(d + 1)'
  <2>1. KindsFit(d + 1)'
    <3>1. PICK n \in Nat : n = d + 1
      OBVIOUS
    <3>2. n <= level /\ KindsFit(n) /\ ctx'.jpr = ctx.jpr
      BY <1>1, <1>2, <1>6, <3>1
    <3>3. KindsFit(n)'
      BY <1>2, <1>3, <3>2, KindsStay
    <3> QED
      BY <3>1, <3>3
  <2>2. stack'[d + 1].nelem = 0
    <3>1. State_.nelem = 0
      BY <1>2, AtCallback DEF LexerInv, CallbackWanted, State_
    <3>2. stack'[cb.level].nelem = stack[cb.level].nelem
      BY <1>2, <1>3, AnswerFacts
    <3> QED
      BY <1>2, <3>1, <3>2 DEF State_
  <2>3. cb' = NoCallback
    BY <1>3 DEF Answer
  <2>4. ~AfterKey(d + 1)' /\ ~ValueBegins(d + 1)'
    BY <2>2, <2>3 DEF AfterKey, ValueBegins, NoCallback
  <2> QED
    BY <2>1, <2>4 DEF Nearing
<1>8. Approaching'
  BY <1>4, <1>7 DEF Approaching
<1>9. Aimed' /\ pc' = "FEED"
  BY <1>1, <1>4, <1>5, AimedStays DEF Keep
<1>10. Chosen'
  BY <1>4 DEF Chosen
<1> QED
  BY <1>8, <1>9, <1>10 DEF NamingInv

(* Two texts that agree over a stretch have the same slices of it.         *)
LEMMA SlicesAgree ==
  ASSUME NEW s \in Seq(STRING), NEW t \in Seq(STRING), NEW r \in Nat, NEW k \in Nat, NEW n \in Nat,
         k + n <= Len(t), r + Len(t) <= Len(s), \A i \in 1 .. Len(t) : t[i] = s[r + i]
  PROVE  SubSeq(s, r + k + 1, r + k + n) = SubSeq(t, k + 1, k + n)
<1>1. Len(s) \in Nat /\ Len(t) \in Nat
  OBVIOUS
<1>2. CASE n = 0
  BY <1>2
<1>3. CASE n > 0
  <2>1. SubSeq(s, r + k + 1, r + k + n) = [i \in 1 .. n |-> s[r + k + i]]
    BY <1>1, <1>3
  <2>2. SubSeq(t, k + 1, k + n) = [i \in 1 .. n |-> t[k + i]]
    BY <1>1, <1>3
  <2>3. \A i \in 1 .. n : t[k + i] = s[r + k + i]
    <3> SUFFICES ASSUME NEW i \in 1 .. n PROVE t[k + i] = s[r + k + i]
      OBVIOUS
    <3>1. k + i \in 1 .. Len(t) /\ r + (k + i) = r + k + i
      BY <1>1
    <3> QED
      BY <3>1
  <2> QED
    BY <2>1, <2>2, <2>3
<1> QED
  BY <1>2, <1>3

(* and the last one: the key in hand, with the name that was compared, and *)
(* the colon after it are what the document has there.                     *)
LEMMA KeyIsText ==
  ASSUME SearchTypes, FeedsDocument, KeyInHand, KeyEnd < cb.at, cb.at \in Nat, cb.at < Len(text),
         text \in Seq(STRING), ColonRead(KeyEnd, cb.at)
  PROVE  /\ RawKey # NoLoc
         /\ DocSlice([at |-> RawKey.at + 1, length |-> RawKey.length - 2])
              = TextSlice(ctx.hk_at, ctx.hk_len)
         /\ ColonBetween(RawKey.at + RawKey.length, round.at + cb.at)
<1>1. PICK k \in Nat, n \in Nat, r \in Nat : k = ctx.hk_at /\ n = ctx.hk_len /\ r = round.at
  BY SearchFacts
<1>2. PICK e \in Nat, c \in Nat : e = KeyEnd /\ c = cb.at /\ e = k + n + 1 /\ e < c
  BY <1>1, SearchFacts DEF KeyEnd
<1>3. /\ Len(text) \in Nat /\ Len(doc) \in Nat /\ doc \in Seq(STRING) /\ k > 0 /\ c < Len(text)
      /\ r + Len(text) <= Len(doc)
  BY <1>1, <1>2, SearchFacts DEF FeedsDocument, KeyInHand
<1>4. /\ RawKey.at = r + k - 1 /\ RawKey.length = n + 2
      /\ RawKey = [at |-> r + k - 1, length |-> n + 2]
  BY <1>1 DEF RawKey
<1>5. /\ RawKey.at + RawKey.length = r + e /\ RawKey.at + 1 = r + k /\ RawKey.length - 2 = n
      /\ RawKey.length # 0
  <2>1. (r + k - 1) + (n + 2) = r + e /\ (r + k - 1) + 1 = r + k /\ n + 2 - 2 = n /\ n + 2 # 0
    BY <1>2
  <2> QED
    BY <1>4, <2>1
<1>6. RawKey # NoLoc
  BY <1>5 DEF NoLoc
<1>7. \A i \in 1 .. Len(text) : text[i] = doc[r + i]
  BY <1>1 DEF FeedsDocument
<1>8. SubSeq(doc, r + k + 1, r + k + n) = SubSeq(text, k + 1, k + n)
  <2>1. k + n <= Len(text)
    BY <1>2, <1>3
  <2>2. text \in Seq(STRING) /\ doc \in Seq(STRING) /\ r + Len(text) <= Len(doc)
    BY <1>3
  <2>3. PICK s \in Seq(STRING), t \in Seq(STRING) : s = doc /\ t = text
    BY <2>2
  <2>4. k + n <= Len(t) /\ r + Len(t) <= Len(s) /\ \A i \in 1 .. Len(t) : t[i] = s[r + i]
    BY <1>7, <2>1, <2>2, <2>3
  <2>5. SubSeq(s, r + k + 1, r + k + n) = SubSeq(t, k + 1, k + n)
    BY <2>4, SlicesAgree
  <2> QED
    BY <2>3, <2>5
<1>9. DocSlice([at |-> RawKey.at + 1, length |-> RawKey.length - 2]) = TextSlice(ctx.hk_at, ctx.hk_len)
  <2>1. DocSlice([at |-> r + k, length |-> n]) = SubSeq(doc, r + k + 1, r + k + n)
    BY DEF DocSlice
  <2>2. TextSlice(ctx.hk_at, ctx.hk_len) = SubSeq(text, k + 1, k + n)
    BY <1>1 DEF TextSlice
  <2> QED
    BY <1>5, <1>8, <2>1, <2>2
<1>10. ColonBetween(r + e, r + c)
  <2>1. PICK i \in e + 1 .. c : text[i] = ":" /\ \A j \in e + 1 .. c : j # i => text[j] \in Whitespace
    BY <1>2 DEF ColonRead
  <2>2. r + i \in r + e + 1 .. r + c /\ doc[r + i] = ":"
    <3>1. i \in 1 .. Len(text)
      BY <1>2, <1>3
    <3>2. r + i \in r + e + 1 .. r + c
      BY <1>2
    <3> QED
      BY <1>7, <2>1, <3>1, <3>2
  <2>3. ASSUME NEW j \in r + e + 1 .. r + c, j # r + i
        PROVE  doc[j] \in Whitespace
    <3>1. j - r \in e + 1 .. c /\ j - r # i /\ r + (j - r) = j
      BY <2>3
    <3>2. j - r \in 1 .. Len(text)
      BY <1>2, <1>3, <3>1
    <3>3. text[j - r] \in Whitespace
      BY <2>1, <3>1
    <3> QED
      BY <1>7, <3>1, <3>2, <3>3
  <2> QED
    BY <2>2, <2>3 DEF ColonBetween
<1> QED
  BY <1>1, <1>2, <1>5, <1>6, <1>9, <1>10

(* The child that the last component names. *)
LEMMA CompleteIsChosen ==
  ASSUME SearchInv, pc = "FEED", cb # NoCallback, NamingInv, PushComplete, ~m.get_last
  PROVE  Chosen'
<1>0. PICK d \in Nat : d = m.match_level
  BY AtCallback, SearchFacts
<1>1. Candidate /\ PathMatch = "COMPLETE" /\ Keep /\ ctx' = ctx
  BY DEF PushComplete
<1>2. /\ d < Depth /\ cb.level = d + 1 /\ level = cb.level /\ callbacks = "MATCH" /\ ~stopfl
      /\ cb.action = "PUSH" /\ State_.type # "HKEY" /\ Depth \in Nat /\ cb.level = Depth
      /\ OnPath(d) /\ Beyond(d) /\ m \in MatchRec /\ m.loc_key = NoLoc
      /\ (HasParent => NamesChild)
  BY <1>0, <1>1, CandidateFacts, AtCallback
<1>3. Nearing(d)
  BY <1>0, <1>2 DEF NamingInv, Approaching
<1> DEFINE inObject == HasParent /\ Parent.type = "OBJECT"
           inList   == HasParent /\ Parent.type = "LIST"
           refused  == m.ensure_unique # <<>> /\ State_.type # "LIST"
           position == CASE inObject -> Parent.nelem \div 2 - 1
                         [] inList   -> Parent.nelem - 1
                         [] OTHER    -> m.position
<1>4. m' = [m EXCEPT !.matchres = IF refused THEN "TYPE_MISMATCH" ELSE "COMPLETE",
                     !.type = State_.type,
                     !.loc_deepest.at = round.at + cb.at,
                     !.match_level = cb.level,
                     !.loc_key = IF inObject THEN RawKey ELSE @,
                     !.position = position]
  BY DEF PushComplete
<1>5. inList => position = Parent.nelem - 1
  OBVIOUS
<1> HIDE DEF inObject, inList, refused, position
<1>6. /\ m'.loc_key = IF inObject THEN RawKey ELSE NoLoc
      /\ m'.position = position /\ m'.get_last = m.get_last
  BY <1>2, <1>4 DEF MatchRec
<1>7. m'.loc_deepest.at = round.at + cb.at
  BY CompleteFacts
<1>8. Depth' = Depth /\ ctx'.jpr = ctx.jpr /\ doc' = doc
  BY <1>1 DEF Depth, Keep
<1>9. CASE Depth = 1
  <2>1. ~inObject
    BY <1>2, <1>9 DEF inObject, HasParent
  <2> QED
    BY <1>6, <1>8, <1>9, <2>1 DEF Chosen
<1>10. CASE Depth # 1
  <2>1. d \in 1 .. d /\ HasParent /\ cb.level - 1 = d /\ Parent = stack[d] /\ d + 1 = Depth
    BY <1>2, <1>10 DEF HasParent, Parent
  <2>2. /\ Parent.type \in Container
        /\ Parent.type = "LIST" <=> ctx.jpr[Depth].ptype = "NUMERIC"
    BY <1>2, <1>3, <2>1 DEF OnPath, Nearing, KindsFit
  <2>3. CASE Parent.type = "LIST"
    <3>1. ctx.jpr[Depth].idx = Parent.nelem - 1
      BY <1>2, <2>1, <2>3 DEF NamesChild
    <3>2. inList /\ ~inObject
      BY <2>1, <2>3 DEF inList, inObject
    <3>3. NamedBy(ctx.jpr[Depth])'
      BY <1>5, <1>6, <1>8, <2>2, <2>3, <3>1, <3>2 DEF NamedBy
    <3> QED
      BY <1>6, <1>8, <1>10, <3>3 DEF Chosen
  <2>4. CASE Parent.type = "OBJECT"
    <3>1. ctx.jpr[Depth].pstr = Key /\ inObject /\ ctx.jpr[Depth].ptype # "NUMERIC"
      BY <1>2, <2>1, <2>2, <2>4 DEF NamesChild, inObject
    <3>2. ValueBegins(d)
      BY <1>2, <2>1, <2>4 DEF ValueBegins, State_
    <3>3. /\ KeyInHand /\ KeyEnd < cb.at /\ ColonRead(KeyEnd, cb.at)
      BY <1>2, <1>3, <3>2 DEF Beyond, Nearing
    <3>4. /\ RawKey # NoLoc
          /\ DocSlice([at |-> RawKey.at + 1, length |-> RawKey.length - 2])
               = TextSlice(ctx.hk_at, ctx.hk_len)
          /\ ColonBetween(RawKey.at + RawKey.length, round.at + cb.at)
      BY <3>3, KeyIsText, AtCallback DEF Searching
    <3>5. m'.loc_key = RawKey
      BY <1>6, <3>1
    <3>6. MatchKey' = TextSlice(ctx.hk_at, ctx.hk_len)
      BY <1>8, <3>4, <3>5 DEF MatchKey, DocSlice
    <3>7. ColonBetween(m.loc_key.at + m.loc_key.length, m.loc_deepest.at)'
      BY <1>7, <1>8, <3>4, <3>5 DEF ColonBetween
    <3>8. GetHk(MatchKey') = ctx.jpr[Depth].pstr
      BY <3>1, <3>6 DEF Key
    <3>9. NamedBy(ctx.jpr[Depth])'
      BY <1>8, <3>1, <3>4, <3>5, <3>7, <3>8 DEF NamedBy
    <3> QED
      BY <1>6, <1>8, <1>10, <3>9 DEF Chosen
  <2> QED
    BY <2>2, <2>3, <2>4 DEF Container
<1> QED
  BY <1>9, <1>10

LEMMA PushCompleteNames ==
  ASSUME SearchInv, pc = "FEED", cb # NoCallback, NamingInv, PushComplete
  PROVE  NamingInv'
<1>1. Candidate /\ Keep /\ ctx' = ctx
  BY DEF PushComplete
<1>2. m \in MatchRec /\ Depth' = Depth /\ Depth \in Nat
  BY <1>1, CandidateFacts DEF Depth
<1>3. m'.get_last = m.get_last /\ m'.extra_options = m.extra_options
  BY <1>2 DEF PushComplete, MatchRec
<1>4. m'.match_level = Depth /\ m'.loc_deepest.length = 0
  BY CompleteFacts
<1>5. Aimed' /\ pc' = "FEED"
  BY <1>1, <1>3, AimedStays DEF NamingInv, Keep
<1>6. Chosen'
  <2>1. CASE m.get_last
    BY <1>3, <1>4, <2>1 DEF Chosen
  <2> QED
    BY <2>1, CompleteIsChosen
<1>7. Approaching'
  BY <1>2, <1>4 DEF Approaching
<1> QED
  BY <1>5, <1>6, <1>7 DEF NamingInv

-----------------------------------------------------------------------------
(* pop_callback(), unique_callback() and next_sibling_push_callback() *)

(* The colon is awaited where the key ends. *)
LEMMA KeyEndsNames ==
  ASSUME SearchInv, pc = "FEED", cb # NoCallback, NamingInv, KeyEnds
  PROVE  NamingInv'
<1>0. PICK d \in Nat : d = m.match_level
  BY AtCallback, SearchFacts
<1>1. /\ callbacks = "MATCH" /\ cb.action = "POP" /\ State_.type = "HKEY"
      /\ ctx' = [ctx EXCEPT !.hk_len = cb.at - (State_.pos_begin + 1)]
      /\ GoOn /\ Keep /\ m' = m
  BY DEF KeyEnds, Matching
<1>2. /\ d < Depth /\ cb.level = d + 1 /\ level = d /\ ~stopfl /\ Beyond(d) /\ LexerInv
      /\ cb.level = Reach /\ cb.at \in Nat /\ State_.pos_begin \in Nat
      /\ State_.ignore_callback \in BOOLEAN /\ max_callback_level \in Nat /\ ctx \in ContextRec
  <2>1. State_.ignore_callback \in BOOLEAN
    BY AtCallback DEF State
  <2>2. ctx \in ContextRec /\ max_callback_level \in Nat
    BY AtCallback DEF SearchTypes, JsonslInv, JsonslTypeOK
  <2>3. d < Depth /\ cb.level = d + 1 /\ Beyond(d)
    BY <1>0, <1>1, MatchPlace
  <2>4. level = cb.level - 1
    BY <1>1, AtCallback
  <2> QED
    BY <2>1, <2>2, <2>3, <2>4, AtCallback
<1>3. Answer(FALSE, State_.ignore_callback, max_callback_level)
  BY <1>1 DEF GoOn
<1>4. /\ ctx'.jpr = ctx.jpr /\ ctx'.hk_at = ctx.hk_at
      /\ ctx'.hk_len = cb.at - (State_.pos_begin + 1)
  BY <1>1, <1>2 DEF ContextRec
<1>5. KindsFit(d) /\ Aimed /\ Chosen
  BY <1>0, <1>1, <1>2 DEF NamingInv, Approaching, Nearing
<1>6. Nearing(d)'
  <2>1. KindsFit(d)'
    <3>1. d <= level /\ FALSE \in BOOLEAN
      BY <1>2
    <3> QED
      BY <1>2, <1>3, <1>4, <1>5, <3>1, KindsStay
  <2>2. ctx.hk_at = State_.pos_begin + 1
    BY <1>1, <1>2 DEF Beyond, InKey, State_
  <2>3. expecting = ":" /\ pos = cb.at + 1
    BY <1>1, <1>2 DEF LexerInv, ObjectTurns, State_
  <2>4. KeyEnd' = cb.at + 1
    BY <1>2, <1>4, <2>2 DEF KeyEnd
  <2>5. cb' = NoCallback /\ UNCHANGED <<pos, expecting>>
    BY <1>2, <1>3, AnswerFacts
  <2>6. KeyEnd' + 1 .. pos' = {}
    BY <1>2, <2>3, <2>4, <2>5
  <2>7. BlankBetween(KeyEnd, pos)' /\ expecting' = ":"
    BY <2>3, <2>5, <2>6 DEF BlankBetween
  <2>8. ~ValueBegins(d)'
    BY <2>5 DEF ValueBegins, NoCallback
  <2> QED
    BY <2>1, <2>7, <2>8 DEF Nearing
<1>7. Approaching'
  BY <1>0, <1>1, <1>6 DEF Approaching
<1>8. Aimed' /\ Chosen' /\ pc' = "FEED"
  BY <1>1, <1>4, <1>5, AimedStays, ChosenStays DEF Keep
<1> QED
  BY <1>7, <1>8 DEF NamingInv

(* The end of the match, and with get_last the step to its last child. *)
LEMMA MatchedNames ==
  ASSUME m \in MatchRec, PopMatched(m), Chosen, Aimed, doc' = doc, path' = path, ctx' = ctx,
         round' = round
  PROVE  Chosen' /\ Aimed'
<1> DEFINE ended == [m.loc_deepest EXCEPT
                       !.length = cb.at - State_.pos_begin + (IF State_.type = "SPECIAL" THEN 0 ELSE 1)]
           flags == IF State_.type = "SPECIAL" THEN State_.special_flags ELSE m.sflags
<1>1. Ended(m) = [m EXCEPT !.loc_deepest = ended, !.sflags = flags,
                           !.immediate_parent_found = TRUE, !.num_children = State_.nelem]
  BY DEF Ended, MatchRec, Loc
<1>2. ended.at = m.loc_deepest.at
  BY DEF MatchRec, Loc
<1> HIDE DEF ended, flags
<1>3. /\ Ended(m).get_last = m.get_last /\ Ended(m).extra_options = m.extra_options
      /\ Ended(m).matchres = m.matchres /\ Ended(m).loc_key = m.loc_key
      /\ Ended(m).position = m.position /\ Ended(m).loc_deepest = ended
      /\ Ended(m).num_siblings = m.num_siblings
  BY <1>1 DEF MatchRec
<1>4. CASE ~m.get_last
  <2>1. m' = Ended(m)
    BY <1>4 DEF PopMatched
  <2> QED
    BY <1>2, <1>3, <1>4, <2>1, ChosenStays, AimedStays
<1>5. CASE m.get_last
  <2>1. \/ m' = [Ended(m) EXCEPT !.matchres = "TYPE_MISMATCH"]
        \/ m' = [Ended(m) EXCEPT !.matchres = "UNKNOWN"]
        \/ m' = Transposed(Ended(m))
    BY <1>5 DEF PopMatched
  <2>2. PICK e : e = Ended(m) /\ DOMAIN e = DOMAIN m /\ e = [x \in DOMAIN m |-> e[x]]
             /\ DOMAIN m = {"type", "status", "matchres", "sflags", "match_level", "position",
                            "num_siblings", "num_children", "immediate_parent_found", "get_last",
                            "extra_options", "unique_item_found", "loc_deepest", "loc_key",
                            "ensure_unique"}
    BY <1>1 DEF MatchRec
  <2>3. m'.get_last = m.get_last /\ m'.extra_options = m.extra_options
    BY <1>3, <2>1, <2>2 DEF Transposed
  <2>4. m'.matchres # "COMPLETE" \/ (m'.loc_key = NoLoc /\ m'.position = m'.num_siblings)
    <3>1. CASE m' = [e EXCEPT !.matchres = "TYPE_MISMATCH"]
      BY <2>2, <3>1
    <3>2. CASE m' = [e EXCEPT !.matchres = "UNKNOWN"]
      BY <2>2, <3>2
    <3>3. CASE m' = Transposed(e)
      BY <2>2, <3>3 DEF Transposed
    <3> QED
      BY <2>1, <2>2, <3>1, <3>2, <3>3
  <2>5. Chosen'
    BY <1>5, <2>3, <2>4 DEF Chosen
  <2> QED
    BY <2>3, <2>5, AimedStays
<1> QED
  BY <1>4, <1>5

LEMMA PopCompleteNames ==
  ASSUME SearchInv, pc = "FEED", cb # NoCallback, NamingInv, PopComplete \/ UniqueArrayEnds
  PROVE  NamingInv'
<1>1. /\ PopMatched(m) /\ Keep /\ ctx' = ctx
      /\ callbacks' = "SIBLING" \/ \E maxLevel : Answer(TRUE, State_.ignore_callback, maxLevel)
  <2>1. CASE PopComplete
    BY <2>1 DEF PopComplete, Stop
  <2>2. CASE UniqueArrayEnds
    BY <2>2 DEF UniqueArrayEnds, Answer
  <2> QED
    BY <2>1, <2>2
<1>2. m \in MatchRec
  BY AtCallback DEF SearchTypes
<1>3. Chosen' /\ Aimed'
  BY <1>1, <1>2, MatchedNames DEF Keep, NamingInv
<1>4. Approaching'
  BY <1>1 DEF Approaching, Answer
<1> QED
  BY <1>1, <1>3, <1>4 DEF NamingInv, Keep

(* The deepest parent is no match. *)
LEMMA PopParentNames ==
  ASSUME SearchInv, pc = "FEED", cb # NoCallback, NamingInv, PopParent
  PROVE  NamingInv'
<1>1. /\ callbacks = "MATCH" /\ cb.action = "POP" /\ State_.type \in Container
      /\ mres[cb.level] = "POSSIBLE" /\ Stop /\ Keep /\ ctx' = ctx
      /\ \E loc, n, type, found :
           m' = [m EXCEPT !.loc_deepest = loc, !.num_siblings = n, !.type = type,
                          !.immediate_parent_found = found]
  <2>1. m \in MatchRec
    BY AtCallback DEF SearchTypes
  <2> QED
    BY <2>1 DEF PopParent, Matching, MatchRec
<1>2. m \in MatchRec /\ m.matchres # "COMPLETE"
  <2>1. Descending /\ cb.level = m.match_level /\ cb.level # Depth
    BY <1>1, MatchPlace DEF Container
  <2> QED
    BY <2>1, AtCallback DEF Descending, Beyond, SearchTypes
<1>3. /\ m'.get_last = m.get_last /\ m'.extra_options = m.extra_options
      /\ m'.matchres # "COMPLETE"
  BY <1>1, <1>2 DEF MatchRec
<1>4. Aimed' /\ Chosen'
  BY <1>1, <1>3, AimedStays DEF NamingInv, Keep, Chosen
<1>5. Approaching'
  BY <1>1 DEF Approaching, Stop, Answer
<1> QED
  BY <1>1, <1>4, <1>5 DEF NamingInv, Keep

(* Neither comparing elements nor counting siblings moves the match. *)
LEMMA OthersName ==
  ASSUME SearchInv, pc = "FEED", cb # NoCallback, NamingInv,
         UniqueBegins \/ UniqueElementEnds \/ NextSibling
  PROVE  NamingInv'
<1>1. m \in MatchRec /\ ctx \in ContextRec
  BY AtCallback DEF SearchTypes
<1>2. /\ Keep /\ (ctx' = ctx \/ ctx' = [ctx EXCEPT !.unique_at = cb.at]) /\ callbacks' # "MATCH"
      /\ \/ m' = m
         \/ m' = [m EXCEPT !.matchres = "TYPE_MISMATCH"]
         \/ m' = [m EXCEPT !.unique_item_found = TRUE]
         \/ NextSibling /\ \E n : m' = [m EXCEPT !.num_siblings = n]
  <2>1. CASE UniqueBegins
    BY <2>1 DEF UniqueBegins
  <2>2. CASE UniqueElementEnds
    BY <2>2 DEF UniqueElementEnds
  <2>3. CASE NextSibling
    BY <2>3 DEF NextSibling
  <2> QED
    BY <2>1, <2>2, <2>3
<1>3. NextSibling => ~m.get_last
  <2> SUFFICES ASSUME NextSibling PROVE ~m.get_last
    OBVIOUS
  <2>1. callbacks = "SIBLING"
    BY DEF NextSibling
  <2>2. m.extra_options = "GET_FOLLOWING_SIBLINGS"
    BY <2>1, AtCallback DEF Searching, Counting
  <2> QED
    BY <2>2 DEF NamingInv, Aimed
<1>4. ctx'.jpr = ctx.jpr
  BY <1>1, <1>2 DEF ContextRec
<1>5. /\ m'.get_last = m.get_last /\ m'.extra_options = m.extra_options
      /\ m'.matchres = "COMPLETE" => m.matchres = "COMPLETE"
      /\ m'.loc_key = m.loc_key /\ m'.position = m.position /\ m'.loc_deepest = m.loc_deepest
      /\ m.get_last => m'.num_siblings = m.num_siblings
  BY <1>1, <1>2, <1>3 DEF MatchRec
<1>6. Aimed' /\ Chosen'
  BY <1>2, <1>4, <1>5, AimedStays, ChosenStays DEF NamingInv, Keep
<1>7. Approaching'
  BY <1>2 DEF Approaching
<1> QED
  BY <1>2, <1>6, <1>7 DEF NamingInv, Keep

LEMMA CallbackNames ==
  ASSUME SearchInv, NamingInv, Callback
  PROVE  NamingInv'
<1>1. pc = "FEED" /\ cb # NoCallback
  BY DEF Callback
<1> QED
  BY <1>1, KeyBeginsNames, PushElsewhereNever, PushCompleteNames, PushSkipsNames,
     PushPossibleNames, KeyEndsNames, PopCompleteNames, PopElsewhereNever, PopParentNames,
     OthersName DEF Callback

-----------------------------------------------------------------------------
(* The passes. *)

\* A pass stops before the next negative index, or at the path's end.
LEMMA NextNegativeStops ==
  ASSUME path \in Seq(Component), round.cur_start \in 1 .. Len(path)
  PROVE  \/ NextNegative < Len(path) /\ path[NextNegative + 1].is_neg
         \/ NextNegative = Len(path)
              /\ \A i \in round.cur_start .. Len(path) - 1 : ~path[i + 1].is_neg
<1> DEFINE Negative == {i \in round.cur_start .. Len(path) - 1 : path[i + 1].is_neg}
           Candidates == Negative \cup {Len(path)}
<1>1. \A i \in Candidates : i \in Nat /\ round.cur_start <= i /\ i <= Len(path)
  OBVIOUS
<1>2. Candidates # {} /\ NextNegative = Min(Candidates)
  BY DEF NextNegative
<1>3. Min(Candidates) \in Candidates /\ \A i \in Candidates : Min(Candidates) <= i
  <2> HIDE DEF Candidates
  <2> QED
    BY <1>1, <1>2, MinIsIn
<1>4. CASE NextNegative \in Negative
  BY <1>4
<1>5. CASE NextNegative \notin Negative
  <2>1. NextNegative = Len(path)
    BY <1>2, <1>3, <1>5
  <2>2. \A i \in Negative : FALSE
    <3> SUFFICES ASSUME NEW i \in Negative PROVE FALSE
      OBVIOUS
    <3>1. NextNegative <= i /\ i < Len(path) /\ i \in Nat /\ Len(path) \in Nat
      BY <1>1, <1>2, <1>3
    <3> QED
      BY <2>1, <3>1
  <2> QED
    BY <2>1, <2>2
<1> QED
  BY <1>4, <1>5

(* A pass begins at the root, where nothing is to be named. *)
LEMMA StartFeedNames ==
  ASSUME NEW jpr \in Seq(Component), Len(jpr) > 0, NEW match \in MatchRec, Fresh(match),
         NEW bytes, StartFeed(jpr, match, bytes), Resting,
         match.get_last => match.extra_options = "GET_MATCH_ONLY",
         \/ ~HasNegix(path') /\ jpr = path' /\ ~match.get_last
         \/ /\ match.get_last /\ Len(path') > 1
            /\ round'.next < Len(path') /\ path'[round'.next + 1].is_neg
         \/ /\ ~match.get_last /\ Len(jpr) > 1 /\ Len(path') > 1
            /\ jpr[Len(jpr)] = LastComponent(path') /\ ~LastComponent(path').is_neg
  PROVE  NamingInv'
<1>1. /\ m' = [match EXCEPT !.status = "SUCCESS"] /\ ctx' = [BlankContext EXCEPT !.jpr = jpr]
      /\ callbacks' = "MATCH" /\ CallFeed(bytes, Len(jpr) + 1, TRUE) /\ pc' = "FEED"
  BY DEF StartFeed
<1>2. /\ m'.get_last = match.get_last /\ m'.extra_options = match.extra_options
      /\ m'.match_level = 0 /\ m'.matchres = "POSSIBLE"
  BY <1>1 DEF MatchRec, Fresh
<1>3. ctx'.jpr = jpr /\ Depth' = Len(jpr)
  BY <1>1, BlankTypes DEF ContextRec, Depth
<1>4. /\ UNCHANGED <<stopfl, level, stack, cb>> /\ cb' = NoCallback /\ level' = 0
      /\ stack'[0] = BlankState
  BY <1>1 DEF CallFeed, Resting
<1>5. Aimed'
  BY <1>2, <1>3 DEF Aimed
<1>6. Chosen'
  BY <1>2 DEF Chosen
<1>7. Approaching'
  <2>1. Nearing(0)'
    BY <1>4 DEF Nearing, KindsFit, AfterKey, ValueBegins, NoCallback, BlankState
  <2> QED
    BY <1>2, <2>1 DEF Approaching
<1> QED
  BY <1>1, <1>5, <1>6, <1>7 DEF NamingInv

(* The only pass, or the first of several: the root is no negative index. *)
LEMMA SearchNames ==
  ASSUME SearchInv, NEW document, NEW p \in Seq(Component), Len(p) > 0, ~p[1].is_neg,
         NEW match, Fresh(match), ~match.get_last, Search(document, p, match)
  PROVE  NamingInv'
<1>1. /\ pc = "IDLE" /\ path' = p /\ match \in MatchRec /\ Len(p) \in Nat
      /\ IF HasNegix(p)
         THEN round' = [BlankRound EXCEPT !.length = Len(document)] /\ pc' = "ROUND"
         ELSE StartFeed(p, match, document)
  BY DEF Search, Fresh
<1>2. CASE HasNegix(p)
  <2>1. round'.cur_start = 1
    BY <1>1, <1>2, BlankTypes DEF BlankRound, RoundRec
  <2>2. PICK i \in 1 .. Len(p) : p[i].is_neg
    BY <1>2 DEF HasNegix
  <2>3. Len(p) > 1
    BY <1>1, <2>2
  <2> QED
    BY <1>1, <1>2, <2>1, <2>3 DEF NamingInv
<1>3. CASE ~HasNegix(p)
  <2>1. Resting
    BY <1>1 DEF SearchInv
  <2>2. StartFeed(p, match, document) /\ ~HasNegix(path') /\ path' = p
    BY <1>1, <1>3
  <2> QED
    BY <1>1, <2>1, <2>2, StartFeedNames
<1> QED
  BY <1>2, <1>3

LEMMA AskNames ==
  ASSUME SearchInv, Ask
  PROVE  NamingInv'
<1>1. PICK document \in Documents, p \in Paths, match \in Options : Search(document, p, match)
  BY DEF Ask
<1>2. p \in Seq(Component) /\ Len(p) > 0 /\ ~p[1].is_neg
  BY PathsAssumption
<1>3. Fresh(match) /\ ~match.get_last
  <2>1. PICK extra \in {"GET_MATCH_ONLY", "GET_FOLLOWING_SIBLINGS"}, unique \in Seq(STRING) :
          match = [BlankMatch EXCEPT !.extra_options = extra, !.ensure_unique = unique]
    BY OptionsAssumption
  <2> QED
    BY <2>1, PreparedIsFresh
<1> QED
  BY <1>1, <1>2, <1>3, SearchNames

(* A round stops before the next negative index, or at the path's end. *)
LEMMA BeginRoundNames ==
  ASSUME SearchInv, NamingInv, BeginRound
  PROVE  NamingInv'
<1> DEFINE rest == SubSeq(path, round.cur_start + 1, NextNegative)
           jpr == <<Root>> \o rest
           match == ClearMatch(NextNegative < Len(path))
           bytes == DocSlice([at |-> round.at, length |-> round.length])
<1>1. /\ pc = "ROUND" /\ round' = [round EXCEPT !.next = NextNegative]
      /\ StartFeed(jpr, match, bytes) /\ path' = path
  BY DEF BeginRound
<1>2. PICK c \in Nat, n \in Nat : c = round.cur_start /\ n = NextNegative
  BY <1>1, NextNegativeFacts DEF SearchInv, RoundStands, SearchTypes, RoundRec
<1>3. /\ path \in Seq(Component) /\ round.cur_start \in 1 .. Len(path) /\ round \in RoundRec
      /\ Resting /\ c < Len(path) /\ Len(path) \in Nat
  BY <1>1, <1>2 DEF SearchInv, RoundStands, SearchTypes, NamingInv
<1>4. /\ 1 <= c /\ c <= n /\ n <= Len(path) /\ Len(path) > 1
      /\ \/ n < Len(path) /\ path[n + 1].is_neg
         \/ n = Len(path) /\ \A i \in c .. Len(path) - 1 : ~path[i + 1].is_neg
  BY <1>2, <1>3, NextNegativeFacts, NextNegativeStops
<1>5. round'.next = n
  BY <1>1, <1>2, <1>3 DEF RoundRec
<1>6. /\ rest \in Seq(Component) /\ Len(rest) = n - c
      /\ n > c => rest[n - c] = path[n]
  <2>1. rest = SubSeq(path, c + 1, n)
    BY <1>2
  <2>2. \A i \in c + 1 .. n : path[i] \in Component
    BY <1>3, <1>4
  <2> HIDE DEF rest
  <2>3. rest \in Seq(Component) /\ Len(rest) = n - c
    BY <1>3, <1>4, <2>1, <2>2
  <2>4. ASSUME n > c PROVE rest[n - c] = path[n]
    <3>1. n - c \in 1 .. n - c /\ c + (n - c) = n
      BY <2>4
    <3>2. \A i \in 1 .. n - c : rest[i] = path[c + i]
      BY <1>3, <1>4, <2>1
    <3> QED
      BY <3>1, <3>2
  <2> QED
    BY <2>3, <2>4
<1>7. /\ jpr \in Seq(Component) /\ Len(jpr) = n - c + 1
      /\ n > c => jpr[Len(jpr)] = path[n]
  <2>1. Root \in Component
    BY DEF Root, Component
  <2> HIDE DEF rest
  <2>2. jpr \in Seq(Component) /\ Len(jpr) = n - c + 1
    BY <1>4, <1>6, <2>1
  <2>3. ASSUME n > c PROVE jpr[n - c + 1] = rest[n - c]
    BY <1>6, <2>1, <2>3
  <2> QED
    BY <1>6, <2>2, <2>3
<1>8. /\ match \in MatchRec /\ Fresh(match) /\ match.extra_options = "GET_MATCH_ONLY"
      /\ match.get_last <=> n < Len(path)
  <2> DEFINE last == NextNegative < Len(path)
  <2>1. last \in BOOLEAN
    OBVIOUS
  <2>2. match = ClearMatch(last) /\ (last <=> n < Len(path))
    BY <1>2
  <2> HIDE DEF last, match
  <2>3. match = [BlankMatch EXCEPT !.get_last = last]
    BY <2>2 DEF ClearMatch
  <2>4. /\ match \in MatchRec
        /\ match.match_level = BlankMatch.match_level
        /\ match.matchres = BlankMatch.matchres
        /\ match.loc_deepest = BlankMatch.loc_deepest
        /\ match.loc_key = BlankMatch.loc_key
        /\ match.extra_options = BlankMatch.extra_options
        /\ match.get_last = last
    BY <2>1, <2>3, BlankTypes DEF MatchRec
  <2>5. BlankMatch.extra_options = "GET_MATCH_ONLY"
    BY DEF BlankMatch
  <2>6. match.get_last <=> n < Len(path)
    BY Zenon, <2>2, <2>4
  <2> QED
    BY <2>4, <2>5, <2>6, BlankTypes DEF Fresh
<1> HIDE DEF jpr, rest, match, bytes
<1>9. CASE n < Len(path)
  <2>1. match.get_last /\ path[n + 1].is_neg
    BY <1>4, <1>8, <1>9
  <2>2. Len(jpr) > 0
    BY <1>4, <1>7
  <2> QED
    BY <1>1, <1>3, <1>4, <1>5, <1>7, <1>8, <1>9, <2>1, <2>2, StartFeedNames
<1>10. CASE n = Len(path)
  <2>1. ~match.get_last
    BY <1>3, <1>8, <1>10
  <2>2. Len(jpr) > 1 /\ jpr[Len(jpr)] = LastComponent(path)
    BY <1>3, <1>7, <1>10 DEF LastComponent
  <2>3. ~path[n].is_neg
    <3>1. n - 1 \in c .. Len(path) - 1 /\ (n - 1) + 1 = n
      BY <1>3, <1>10
    <3> QED
      BY <1>4, <1>10, <3>1
  <2>4. Len(jpr) > 0 /\ ~LastComponent(path).is_neg
    BY <1>7, <1>10, <2>2, <2>3 DEF LastComponent
  <2> QED
    BY <1>1, <1>3, <1>4, <1>7, <1>8, <2>1, <2>2, <2>4, StartFeedNames DEF LastComponent
<1> QED
  BY <1>4, <1>9, <1>10

(* get_last is set only for a path with negative indices, and after the    *)
(* last of them only when nothing follows.                                 *)
LEMMA EndSimpleNames ==
  ASSUME SearchInv, NamingInv, EndSimple
  PROVE  NamingInv'
<1>1. /\ ~HasNegix(path) /\ pc = "FEED" /\ pc' = "DONE"
      /\ UNCHANGED <<doc, path, m, ctx, callbacks, round>>
  BY DEF EndSimple, EndFeed, Returned
<1>2. Aimed /\ Chosen /\ SearchTypes
  BY <1>1 DEF NamingInv, SearchInv
<1>3. ~m.get_last
  <2> SUFFICES ASSUME m.get_last PROVE FALSE
    OBVIOUS
  <2>1. PICK n \in Nat : n = round.next
    BY <1>2, SearchFacts
  <2>2. n < Len(path) /\ path[n + 1].is_neg
    BY <1>2, <2>1 DEF Aimed
  <2>3. n + 1 \in 1 .. Len(path)
    BY <1>2, <2>2 DEF SearchTypes
  <2> QED
    BY <1>1, <2>2, <2>3 DEF HasNegix
<1>4. LastRound'
  BY <1>1, <1>3 DEF LastRound
<1>5. Aimed' /\ Chosen'
  BY <1>1, <1>2, AimedStays, ChosenStays
<1> QED
  BY <1>1, <1>4, <1>5 DEF NamingInv

LEMMA EndRoundNames ==
  ASSUME SearchInv, NamingInv, EndRound
  PROVE  NamingInv'
<1> DEFINE failed == m.status # "SUCCESS"
           last   == m.matchres # "COMPLETE" \/ round.next + 1 >= Len(path)
<1>1. /\ pc = "FEED" /\ UNCHANGED <<doc, path, ctx, callbacks>>
      /\ \E n, found : m' = [m EXCEPT !.match_level = n, !.immediate_parent_found = found]
      /\ IF failed \/ last
         THEN pc' = "DONE" /\ UNCHANGED round
         ELSE /\ pc' = "ROUND"
              /\ \E offset, at, length :
                   round' = [cur_start |-> round.next + 1, next |-> round.next,
                             offset |-> offset, at |-> at, length |-> length]
  BY DEF EndRound, EndFeed, Returned
<1>2. Aimed /\ Chosen /\ SearchTypes /\ m \in MatchRec
  BY <1>1 DEF NamingInv, SearchInv, SearchTypes
<1>3. /\ m'.get_last = m.get_last /\ m'.matchres = m.matchres /\ m'.loc_key = m.loc_key
      /\ m'.position = m.position /\ m'.loc_deepest = m.loc_deepest
      /\ m'.num_siblings = m.num_siblings /\ m'.extra_options = m.extra_options
      /\ m'.status = m.status
  BY <1>1, <1>2 DEF MatchRec
<1>4. CASE failed \/ last
  <2>1. pc' = "DONE" /\ round' = round
    BY <1>1, <1>4
  <2>2. Aimed' /\ Chosen'
    BY <1>1, <1>2, <1>3, <2>1, AimedStays, ChosenStays
  <2>3. LastRound'
    BY <1>1, <1>3, <1>4, <2>1 DEF LastRound
  <2> QED
    BY <2>1, <2>2, <2>3 DEF NamingInv
<1>5. CASE ~failed /\ ~last
  <2>1. pc' = "ROUND" /\ round'.cur_start = round.next + 1
    BY <1>1, <1>5
  <2>2. PICK n \in Nat : n = round.next
    BY <1>2, SearchFacts
  <2>3. n + 1 < Len(path)
    BY <1>2, <1>5, <2>2 DEF SearchTypes
  <2> QED
    BY <1>1, <2>1, <2>2, <2>3 DEF NamingInv
<1> QED
  BY <1>4, <1>5

(* Nothing is named where nothing moves, *)
LEMMA NamingStutters ==
  ASSUME SearchInv, NamingInv, UNCHANGED searchVars
  PROVE  NamingInv'
<1>1. UNCHANGED jsnVars /\ UNCHANGED <<doc, path, m, ctx, mres, callbacks, round, pc>>
  BY DEF searchVars, matchVars
<1>2. UNCHANGED <<text, pos, expecting, stopfl, level, stack, cb>>
  BY <1>1 DEF jsnVars, feedVars, tokenVars, clientVars
<1>3. Aimed => Aimed'
  BY <1>1, AimedStays
<1>4. Chosen => Chosen'
  BY <1>1, ChosenStays
<1>5. LastRound => LastRound'
  BY <1>1 DEF LastRound
<1>6. Depth' = Depth /\ KeyEnd' = KeyEnd /\ m.match_level \in Nat
  BY <1>1, SearchFacts DEF Depth, KeyEnd, SearchInv
<1>7. ASSUME NEW d \in Nat PROVE Nearing(d) => Nearing(d)'
  BY <1>1, <1>2, <1>6
     DEF Nearing, KindsFit, AfterKey, ValueBegins, BlankBetween, ColonRead
<1>8. Approaching => Approaching'
  <2>1. PICK d \in Nat : d = m.match_level
    BY <1>6
  <2> QED
    BY <1>1, <1>2, <1>6, <1>7, <2>1 DEF Approaching
<1> QED
  BY <1>1, <1>3, <1>4, <1>5, <1>8 DEF NamingInv

(* the steps of exec_match() keep the invariant, *)
LEMMA ExecNames ==
  ASSUME SearchInv, NamingInv, ExecMatch
  PROVE  NamingInv'
  BY BeginRoundNames, LexNames, CallbackNames, EndSimpleNames, EndRoundNames DEF ExecMatch

(* and so does every step of a caller. *)
LEMMA NamingStep == SearchInv /\ NamingInv /\ [MatchNext]_searchVars => NamingInv'
<1> SUFFICES ASSUME SearchInv, NamingInv, [MatchNext]_searchVars PROVE NamingInv'
  OBVIOUS
<1>1. CASE Clear
  BY <1>1 DEF Clear, NamingInv
<1> QED
  BY <1>1, AskNames, ExecNames, NamingStutters DEF MatchNext

(* When exec_match() has returned, the pass that has found the match was   *)
(* the one for the last component.                                         *)
LEMMA NamingShows == SearchInv /\ NamingInv => MatchIsNamed
<1> SUFFICES ASSUME SearchInv, NamingInv, pc = "DONE", m.status = "SUCCESS", m.matchres = "COMPLETE"
             PROVE  LET last == LastComponent(path)
                    IN IF Len(path) = 1 THEN m.loc_key = NoLoc
                       ELSE IF ~last.is_neg THEN NamedBy(last)
                       ELSE m.loc_deepest.length > 0 => m.loc_key = NoLoc /\ m.position = m.num_siblings
  BY DEF MatchIsNamed
<1>1. Aimed /\ Chosen /\ LastRound /\ SearchTypes
  BY DEF NamingInv, SearchInv
<1>2. PICK n \in Nat : n = round.next
  BY <1>1, SearchFacts
<1>3. Len(path) \in Nat /\ m.loc_deepest.length \in Int
  BY <1>1, SearchFacts DEF SearchTypes
<1>4. CASE m.get_last
  <2>1. n < Len(path) /\ path[n + 1].is_neg /\ n + 1 >= Len(path) /\ Len(path) > 1
    BY <1>1, <1>2, <1>4 DEF Aimed, LastRound
  <2>2. LastComponent(path).is_neg /\ Len(path) # 1
    <3>1. n + 1 = Len(path)
      BY <1>3, <2>1
    <3> QED
      BY <2>1, <3>1 DEF LastComponent
  <2> QED
    BY <1>1, <1>3, <1>4, <2>2 DEF Chosen
<1>5. CASE ~HasNegix(path) /\ ctx.jpr = path /\ Depth > 0 /\ ~m.get_last
  <2>1. Depth = Len(path) /\ ctx.jpr[Depth] = LastComponent(path)
    BY <1>5 DEF Depth, LastComponent
  <2>2. CASE Len(path) = 1
    BY <1>1, <1>5, <2>1, <2>2 DEF Chosen
  <2>3. CASE Len(path) # 1
    <3>1. NamedBy(LastComponent(path))
      BY <1>1, <1>5, <2>1, <2>3 DEF Chosen
    <3>2. ~LastComponent(path).is_neg
      <4>1. Len(path) \in 1 .. Len(path)
        BY <1>3, <1>5, <2>1
      <4> QED
        BY <1>5, <4>1 DEF HasNegix, LastComponent
    <3> QED
      BY <2>3, <3>1, <3>2
  <2> QED
    BY <2>2, <2>3
<1>6. CASE /\ ~m.get_last /\ Depth > 1 /\ Len(path) > 1
           /\ ctx.jpr[Depth] = LastComponent(path) /\ ~LastComponent(path).is_neg
  <2>1. NamedBy(LastComponent(path))
    BY <1>1, <1>6 DEF Chosen
  <2> QED
    BY <1>6, <2>1
<1> QED
  BY <1>1, <1>4, <1>5, <1>6 DEF Aimed

-----------------------------------------------------------------------------
(* What holds of every search, for every document, path and stack size.    *)

\* The inductive invariant of exec_match(): which levels of the stack are
\* on the path, what may be seen beyond them, and what the callbacks in
\* turn wait for.
THEOREM SearchInvariant == MatchSpec => []SearchInv
<1>1. MatchInit => SearchInv
  BY InitSearches
<1>2. SearchInv /\ [MatchNext]_searchVars => SearchInv'
  BY SearchStep
<1> QED
  BY <1>1, <1>2, PTL DEF MatchSpec

\* The fields of the Match have their types after every callback: the
\* counts pop_callback() and next_sibling_push_callback() store, differences
\* of unsigned numbers, do not wrap.
THEOREM MatchHasTypes == MatchSpec => []MatchTypeOK
<1>1. SearchInv => MatchTypeOK
  BY DEF SearchInv, SearchTypes, MatchRec, MatchTypeOK
<1> QED
  BY <1>1, SearchInvariant, PTL

\* The Expects() of the callbacks hold: an element compared for uniqueness
\* is a child of the match, and siblings are counted at the level of a
\* complete match or at its parent's end.
THEOREM ExpectationsHold == MatchSpec => []ExpectsHold
  BY SearchExpects, SearchInvariant, PTL

\* What the caller cuts out of the document is inside it, whatever the
\* document: the match or the deepest parent, and the match's key before it.
THEOREM LocationsFit == MatchSpec => []LocationsInDocument
<1>1. SearchInv => LocationsInDocument
  BY DEF SearchInv, Placed, LocationsInDocument
<1> QED
  BY <1>1, SearchInvariant, PTL

\* What exec_match() finds, in any document, is what the last component of
\* the path names: push_callback() compares the key that is still in hand
\* and stands before the match, a colon away; an element is the one of its
\* number; and the -1 of get_last the one with all the others before it.
THEOREM MatchesAreNamed == MatchSpec => []MatchIsNamed
<1>1. MatchInit => SearchInv /\ NamingInv
  BY InitSearches DEF MatchInit, NamingInv
<1>2. SearchInv /\ NamingInv /\ [MatchNext]_searchVars => SearchInv' /\ NamingInv'
  BY SearchStep, NamingStep
<1> QED
  BY <1>1, <1>2, NamingShows, PTL DEF MatchSpec

\* Once the match or the deepest parent has its length, nothing that is
\* still fed in that pass moves it: the callbacks are stopped, or count
\* siblings.
THEOREM LocationStays == MatchSpec => LocationStands
<1>1. SearchInv /\ [MatchNext]_searchVars =>
        [pc = "FEED" /\ pc' = "FEED" /\ m.loc_deepest.length > 0 =>
           UNCHANGED <<m.loc_deepest, m.loc_key, m.match_level, m.type>>]_searchVars
  <2> SUFFICES ASSUME SearchInv, [MatchNext]_searchVars, pc = "FEED", pc' = "FEED",
                      m.loc_deepest.length > 0
               PROVE  UNCHANGED <<m.loc_deepest, m.loc_key, m.match_level, m.type>>
    OBVIOUS
  <2>1. Searching /\ SearchTypes /\ m \in MatchRec
    BY DEF SearchInv, SearchTypes
  <2>2. ~stopfl => callbacks = "SIBLING"
    <3>1. CASE ~stopfl /\ callbacks = "MATCH"
      BY <2>1, <3>1 DEF Searching, Descending, OnPath
    <3>2. CASE ~stopfl /\ callbacks = "UNIQUE"
      BY <2>1, <3>2 DEF Searching, Comparing, OnPath
    <3> QED
      BY <2>1, <3>1, <3>2 DEF SearchTypes
  <2>3. CASE UNCHANGED searchVars
    BY <2>3 DEF searchVars, matchVars
  <2>4. CASE Lex
    BY <2>1, <2>4 DEF Lex, MatchRec
  <2>5. CASE Callback
    <3>1. callbacks = "SIBLING"
      BY <2>2, <2>5, AtCallback DEF Callback
    <3>2. NextSibling
      BY <2>5, <3>1 DEF Callback, KeyBegins, PushElsewhere, PushComplete, PushNoMatch, PushPossible,
                        PushMismatch, Candidate, KeyEnds, PopComplete, PopElsewhere, PopParent,
                        UniqueBegins, UniqueArrayEnds, UniqueElementEnds, Matching
    <3>3. m' = m \/ \E n : m' = [m EXCEPT !.num_siblings = n]
      BY <3>2 DEF NextSibling
    <3> QED
      BY <2>1, <3>3 DEF MatchRec
  <2>6. CASE Ask \/ Clear \/ BeginRound \/ EndSimple \/ EndRound
    BY <2>6 DEF Ask, Search, Clear, BeginRound, EndSimple, EndRound
  <2> QED
    BY <2>3, <2>4, <2>5, <2>6 DEF MatchNext, ExecMatch
<1> QED
  BY <1>1, SearchInvariant, PTL DEF MatchSpec, LocationStands
=============================================================================
