---------------------------- MODULE JsonslSteps ----------------------------
(***************************************************************************)
(* The invariant of the lexer, and that every step of jsonsl_feed() and    *)
(* everything a client may do preserves it: the lemmas the proofs about    *)
(* the lexer and about its clients rest on.                                *)
(*                                                                         *)
(* Every handler changes the stack in one of five ways: not at all and     *)
(* failing, not at all and consuming, in the flags of its top, by a push,  *)
(* by a pop.  FeedHasShape says which handler takes which way; what holds  *)
(* after each way holds after every step.                                  *)
(***************************************************************************)
EXTENDS Jsonsl, FiniteSetsExt, SequenceTheorems, WellFoundedInduction, TLAPS

JsonslInv == /\ JsonslTypeOK
             /\ StackMirrorsText
             /\ KeysPairWithValues
             /\ CallbackSeesItsState

(* The typing of what a handler may change besides the stack. *)
RegistersOK ==
  /\ expecting \in {NoToken, Quote, ":", ","}
  /\ tok_last \in {NoToken, ":", ",", "1", ".", "e", "-"}
  /\ can_insert \in BOOLEAN /\ in_escape \in BOOLEAN

(* A symbol begins a word or a number with known flags. *)
LEMMA ExtractSpecialType == \A ch : ExtractSpecial(ch) \in SUBSET Flag
  BY DEF ExtractSpecial, Flag, ZERO, Digit

\* A number is even or odd.
LEMMA Parity ==
  ASSUME NEW n \in Nat
  PROVE  n % 2 = 0 \/ n % 2 = 1
  OBVIOUS

\* An object begins at a brace and a list at a bracket.
LEMMA OpeningBrackets == OpenedBy("OBJECT", "{") /\ OpenedBy("LIST", "[")
  BY DEF OpenedBy, Stringy

\* A set of naturals has a least element,
LEMMA Smallest ==
  ASSUME NEW T \in SUBSET Nat, T # {}
  PROVE  \E x \in T : \A y \in T : x <= y
<1>1. PICK x \in T : \A y \in T : ~(<<y, x>> \in OpToRel(<, Nat))
  BY NatLessThanWellFounded, WFMin
<1>2. \A y \in T : ~(y < x)
  BY <1>1 DEF OpToRel
<1> QED
  BY <1>2

\* and one that is bounded has a greatest.
LEMMA Largest ==
  ASSUME NEW n \in Nat, NEW T \in SUBSET (0 .. n), T # {}
  PROVE  \E x \in T : \A y \in T : y <= x
<1> DEFINE U == {k \in Nat : \A y \in T : y <= k}
<1>1. n \in U
  OBVIOUS
<1>2. PICK k \in U : \A j \in U : k <= j
  <2> HIDE DEF U
  <2>1. U \in SUBSET Nat
    BY DEF U
  <2> QED
    BY <1>1, <2>1, Smallest
<1>3. k \in T
  <2> SUFFICES ASSUME k \notin T PROVE FALSE
    OBVIOUS
  <2>1. k # 0
    <3>1. PICK y \in T : TRUE
      OBVIOUS
    <3> QED
      BY <1>2, <3>1
  <2>2. k - 1 \in U
    BY <2>1, <1>2
  <2> QED
    BY <1>2, <2>2
<1> QED
  BY <1>2, <1>3

\* Max and Min pick them.
LEMMA MaxIsIn ==
  ASSUME NEW n \in Nat, NEW T \in SUBSET (0 .. n), T # {}
  PROVE  Max(T) \in T /\ \A i \in T : i <= Max(T)
  BY Largest DEF Max

(* and the smallest of any. *)
LEMMA MinIsIn ==
  ASSUME NEW T \in SUBSET Nat, T # {}
  PROVE  Min(T) \in T /\ \A i \in T : Min(T) <= i
  BY Smallest DEF Min

(* What the typing says of the cursor and of the levels, in the form the   *)
(* arithmetic below needs.                                                 *)
LEMMA CursorFacts ==
  ASSUME JsonslTypeOK
  PROVE  /\ text \in Seq(STRING) /\ Len(text) \in Nat
         /\ pos \in Nat /\ pos <= Len(text)
<1>1. text \in Seq(STRING) /\ pos \in 0 .. Len(text)
  BY DEF JsonslTypeOK
<1> QED
  BY <1>1

\* The stack pointer is a level, and there is another one above it unless the
\* stack is full.
LEMMA LevelFacts ==
  ASSUME JsonslTypeOK
  PROVE  /\ level \in Nat /\ level \in Level /\ LevelsMax \in Nat
         /\ level + 1 \in Level <=> ~Full
         /\ \A l \in 0 .. level : l \in Level
<1>1. level \in Level
  BY DEF JsonslTypeOK
<1> QED
  BY <1>1, LevelsAssumption DEF Level, Full

\* What the type invariant says of each slot.
LEMMA StackFacts ==
  ASSUME JsonslTypeOK
  PROVE  /\ stack \in [Level -> State]
         /\ \A l \in Level :
              /\ stack[l] \in State
              /\ stack[l].type \in Type /\ stack[l].nelem \in Nat
              /\ stack[l].pos_begin \in Nat /\ stack[l].ignore_callback \in BOOLEAN
              /\ stack[l].special_flags \in SUBSET Flag
<1>1. stack \in [Level -> State]
  BY DEF JsonslTypeOK
<1> QED
  BY <1>1 DEF State

\* While the feed runs, the character it looks at is one of the text.
LEMMA CharType ==
  ASSUME JsonslTypeOK, Running
  PROVE  Char \in STRING /\ pos + 1 \in 1 .. Len(text) /\ pos < Len(text)
<1>1. pos < Len(text)
  BY DEF Running
<1> QED
  BY <1>1, CursorFacts DEF Char

(* One more symbol consumed keeps the cursor inside the text. *)
LEMMA ConsumeCursor ==
  ASSUME JsonslTypeOK, Running, Consume
  PROVE  /\ text' = text /\ text' \in Seq(STRING) /\ pos' \in 0 .. Len(text')
         /\ label' \in {"AGAIN", "STRUCTURAL"} /\ pos < pos'
  BY CharType, CursorFacts DEF Consume

(* An error leaves everything else as it was. *)
LEMMA FailKeeps ==
  ASSUME JsonslInv, NEW code \in Error, Fail(code)
  PROVE  JsonslInv'
<1> USE DEF Fail, feedVars, tokenVars, clientVars
<1>1. JsonslTypeOK'
  BY DEF JsonslInv, JsonslTypeOK
<1>2. StackMirrorsText'
  BY DEF JsonslInv, StackMirrorsText
<1>3. KeysPairWithValues'
  BY DEF JsonslInv, KeysPairWithValues
<1>4. CallbackSeesItsState'
  BY DEF JsonslInv, CallbackSeesItsState
<1> QED
  BY <1>1, <1>2, <1>3, <1>4 DEF JsonslInv

(* The cursor moves over a symbol and the stack stays. *)
LEMMA ConsumeKeeps ==
  ASSUME JsonslInv, Running, Consume, RegistersOK',
         UNCHANGED <<clientVars, level, stack, err, cb>>
  PROVE  JsonslInv'
<1> USE DEF Consume, clientVars
<1>0. JsonslTypeOK
  BY DEF JsonslInv
<1>1. JsonslTypeOK'
  BY <1>0, ConsumeCursor DEF JsonslTypeOK, RegistersOK
<1>2. StackMirrorsText'
  <2>1. pos \in Nat /\ pos' \in Nat /\ pos < pos' /\ text' = text
    BY <1>0, CursorFacts, ConsumeCursor
  <2>2. \A l \in 1 .. level : stack[l].pos_begin \in Nat
    BY <1>0, LevelFacts, StackFacts
  <2> QED
    BY <2>1, <2>2 DEF JsonslInv, StackMirrorsText
<1>3. KeysPairWithValues'
  BY DEF JsonslInv, KeysPairWithValues
<1>4. CallbackSeesItsState'
  BY DEF Running, CallbackSeesItsState
<1> QED
  BY <1>1, <1>2, <1>3, <1>4 DEF JsonslInv

(* A number learns more about itself: only the flags of the top change. *)
LEMMA FlagsKeep ==
  ASSUME JsonslInv, Running, Consume, RegistersOK',
         NEW flags \in SUBSET Flag,
         stack' = [stack EXCEPT ![level].special_flags = flags],
         UNCHANGED <<clientVars, level, err, cb>>
  PROVE  JsonslInv'
<1> USE DEF Consume, clientVars
<1>0. JsonslTypeOK
  BY DEF JsonslInv
<1>1. JsonslTypeOK'
  <2>1. stack' \in [Level -> State]
    BY <1>0, StackFacts DEF State
  <2> QED
    BY <1>0, <2>1, ConsumeCursor DEF JsonslTypeOK, RegistersOK
<1>2. \A l \in Level : /\ stack'[l].type = stack[l].type
                       /\ stack'[l].nelem = stack[l].nelem
                       /\ stack'[l].pos_begin = stack[l].pos_begin
  BY <1>0, StackFacts DEF State
<1>3. level \in Nat /\ \A l \in 0 .. level : l \in Level
  BY <1>0, LevelFacts
<1>4. StackMirrorsText'
  <2>1. pos \in Nat /\ pos' \in Nat /\ pos < pos' /\ text' = text
    BY <1>0, CursorFacts, ConsumeCursor
  <2>2. \A l \in 1 .. level : stack[l].pos_begin \in Nat
    BY <1>0, LevelFacts, StackFacts
  <2> QED
    BY <1>2, <1>3, <2>1, <2>2 DEF JsonslInv, StackMirrorsText
<1>5. KeysPairWithValues'
  BY <1>2, <1>3 DEF JsonslInv, KeysPairWithValues
<1>6. CallbackSeesItsState'
  BY DEF Running, CallbackSeesItsState
<1> QED
  BY <1>1, <1>4, <1>5, <1>6 DEF JsonslInv

(* STACK_PUSH of a value or a key in a container. *)
LEMMA PushKeeps ==
  ASSUME JsonslInv, InContainer, ~Full, Consume, RegistersOK',
         NEW type \in Type \ {"ROOT"}, NEW nelem \in Nat, NEW flags \in SUBSET Flag,
         OpenedBy(type, Char),
         type = "HKEY" <=> OpensKey,
         StackPush(CountElement, type, nelem, flags),
         UNCHANGED <<clientVars, err>>
  PROVE  JsonslInv'
<1> USE DEF Consume, clientVars
<1> DEFINE new == [type |-> type, nelem |-> nelem, pos_begin |-> pos,
                   ignore_callback |-> Top.ignore_callback, special_flags |-> flags]
<1>0. Running
  BY DEF InContainer
<1>a. JsonslTypeOK
  BY DEF JsonslInv
<1>1. /\ level \in Level /\ level + 1 \in Level /\ level \in Nat
      /\ Top \in State /\ pos \in Nat /\ Len(text) \in Nat /\ pos < Len(text)
      /\ \A l \in 0 .. level : l \in Level
  BY <1>0, <1>a, LevelFacts, StackFacts, CursorFacts, CharType DEF Top
<1>2. CountElement \in State /\ CountElement.type = Top.type
      /\ CountElement.nelem = Top.nelem + 1 /\ CountElement.pos_begin = Top.pos_begin
      /\ CountElement.ignore_callback = Top.ignore_callback
  BY <1>1 DEF CountElement, State
<1>3. new \in State
  BY <1>1 DEF State
<1>4. /\ level' = level + 1
      /\ stack' = [stack EXCEPT ![level] = CountElement, ![level + 1] = new]
  BY <1>2 DEF StackPush
<1>5. /\ stack' \in [Level -> State]
      /\ stack'[level] = CountElement
      /\ stack'[level + 1] = new
      /\ \A l \in Level \ {level, level + 1} : stack'[l] = stack[l]
  BY <1>a, <1>1, <1>2, <1>3, <1>4, StackFacts
<1>6. cb' = NoCallback \/ cb' = [action |-> "PUSH", level |-> level + 1, at |-> pos]
  BY DEF StackPush, Deliver
<1>7. JsonslTypeOK'
  <2>1. cb' \in CallbackRec
    BY <1>1, <1>6 DEF NoCallback, CallbackRec, Level
  <2>2. stack' \in [Level -> State] /\ level' \in Level
    BY <1>1, <1>4, <1>5
  <2> QED
    BY <1>0, <1>a, <2>1, <2>2, ConsumeCursor DEF JsonslTypeOK, RegistersOK
<1>8. Top.type \in Container \/ level = 0
  <2>1. level # 0 => OpenedBy(Top.type, text[Top.pos_begin + 1])
    BY <1>1 DEF JsonslInv, StackMirrorsText, Top
  <2>2. Top.type \in Container \cup {"ROOT"}
    BY <1>1 DEF InContainer, State, Type
  <2> QED
    BY <2>1, <2>2 DEF OpenedBy, Container, Stringy
<1>9. StackMirrorsText'
  <2>1. stack'[0].type = "ROOT"
    <3>1. stack[0].type = "ROOT" /\ 0 \in Level
      BY <1>1 DEF JsonslInv, StackMirrorsText
    <3>2. CASE level = 0
      BY <3>1, <3>2, <1>1, <1>2, <1>5 DEF Top
    <3>3. CASE level # 0
      BY <3>1, <3>3, <1>1, <1>5
    <3> QED
      BY <3>2, <3>3
  <2>2. ASSUME NEW l \in 1 .. level + 1
        PROVE  /\ stack'[l].pos_begin < pos + 1
               /\ OpenedBy(stack'[l].type, text[stack'[l].pos_begin + 1])
               /\ l < level + 1 => /\ stack'[l].type \in Container
                                   /\ stack'[l].pos_begin < stack'[l + 1].pos_begin
    <3>1. CASE l = level + 1
      BY <3>1, <1>1, <1>5 DEF Char
    <3>2. CASE l = level
      BY SMTT(30), <3>2, <1>1, <1>2, <1>5, <1>8 DEF JsonslInv, StackMirrorsText, Top, State
    <3>3. CASE l < level
      <4>1. l + 1 \in Level /\ l \in Level \ {level, level + 1} /\ l \in 1 .. level
        BY <3>3, <1>1
      <4>2. stack'[l] = stack[l] /\ stack'[l + 1].pos_begin = stack[l + 1].pos_begin
        BY <4>1, <3>3, <1>1, <1>2, <1>5 DEF Top
      <4>3. stack[l].pos_begin \in Nat
        BY <4>1, <1>a, StackFacts
      <4> QED
        BY SMTT(30), <4>1, <4>2, <4>3, <3>3, <1>1 DEF JsonslInv, StackMirrorsText
    <3> QED
      BY <3>1, <3>2, <3>3, <1>1
  <2> QED
    BY <2>1, <2>2, <1>4 DEF StackMirrorsText
<1>10. KeysPairWithValues'
  <2>1. ASSUME NEW l \in 0 .. level
        PROVE  /\ stack'[l].nelem > 0
               /\ (stack'[l + 1].type = "HKEY") =
                  (stack'[l].type = "OBJECT" /\ stack'[l].nelem % 2 = 1)
    <3>1. CASE l = level
      <4>1. Top.nelem \in Nat
        BY <1>1 DEF State
      <4>2. (Top.nelem + 1) % 2 = 1 <=> Top.nelem % 2 = 0
        BY <4>1
      <4> QED
        BY <3>1, <4>1, <4>2, <1>1, <1>2, <1>5 DEF OpensKey
    <3>2. CASE l < level
      <4>1. l + 1 \in Level /\ l \in Level \ {level, level + 1} /\ l \in 0 .. level - 1
        BY <3>2, <1>1
      <4>2. stack'[l] = stack[l] /\ stack'[l + 1].type = stack[l + 1].type
        BY <4>1, <3>2, <1>1, <1>2, <1>5 DEF Top
      <4> QED
        BY <4>1, <4>2 DEF JsonslInv, KeysPairWithValues
    <3> QED
      BY <3>1, <3>2, <1>1
  <2>2. level' - 1 = level
    BY <1>1, <1>4
  <2> QED
    BY <2>1, <2>2 DEF KeysPairWithValues
<1>11. CallbackSeesItsState'
  BY <1>1, <1>4, <1>5, <1>6 DEF CallbackSeesItsState, NoCallback, Char
<1> QED
  BY <1>7, <1>9, <1>10, <1>11 DEF JsonslInv

(* CALLBACK_AND_POP, and the closing of a container: the cursor moves over *)
(* the closing symbol or, after a bare word, stays on it.                  *)
LEMMA PopKeeps ==
  ASSUME JsonslInv, Running, level # 0, RegistersOK',
         NEW popped \in State,
         popped.type = Top.type, popped.nelem = Top.nelem,
         popped.pos_begin = Top.pos_begin,
         Consume \/ (label' = "STRUCTURAL" /\ UNCHANGED <<text, pos>>),
         StackPop(popped),
         UNCHANGED <<clientVars, err>>
  PROVE  JsonslInv'
<1> USE DEF clientVars
<1>a. JsonslTypeOK
  BY DEF JsonslInv
<1>1. /\ level \in Level /\ level - 1 \in Level /\ level \in Nat /\ level > 0
      /\ Top \in State /\ pos \in Nat /\ Len(text) \in Nat /\ pos < Len(text)
      /\ \A l \in 0 .. level : l \in Level
  BY <1>a, LevelFacts, StackFacts, CursorFacts, CharType DEF Top
<1>2. level' = level - 1 /\ level' - 1 = level - 2 /\ stack' = [stack EXCEPT ![level] = popped]
  BY <1>1 DEF StackPop
<1>3. /\ stack' \in [Level -> State]
      /\ \A l \in Level : /\ stack'[l].type = stack[l].type
                          /\ stack'[l].nelem = stack[l].nelem
                          /\ stack'[l].pos_begin = stack[l].pos_begin
                          /\ stack'[l].pos_begin \in Nat
  BY <1>a, <1>1, <1>2, StackFacts DEF Top
<1>4. cb' = NoCallback \/ cb' = [action |-> "POP", level |-> level, at |-> pos]
  BY DEF StackPop, Deliver
<1>5. /\ text' = text /\ pos' \in Nat /\ pos <= pos' /\ pos' <= Len(text)
      /\ label' \in {"AGAIN", "STRUCTURAL"}
  BY <1>1 DEF Consume
<1>6. JsonslTypeOK'
  <2>1. cb' \in CallbackRec
    BY <1>1, <1>4 DEF NoCallback, CallbackRec, Level
  <2>2. pos' \in 0 .. Len(text') /\ level' \in Level /\ stack' \in [Level -> State]
    BY <1>1, <1>2, <1>3, <1>5
  <2> QED
    BY <1>a, <1>5, <2>1, <2>2 DEF JsonslTypeOK, RegistersOK
<1>7. StackMirrorsText'
  <2>1. \A l \in 1 .. level' : l \in 1 .. level /\ l \in Level /\ (l < level' => l + 1 \in Level)
    BY <1>1, <1>2
  <2> QED
    BY <1>1, <1>2, <1>3, <1>5, <2>1, SMTT(30) DEF JsonslInv, StackMirrorsText
<1>8. KeysPairWithValues'
  <2>1. \A l \in 0 .. level - 2 : l \in 0 .. level - 1 /\ l \in Level /\ l + 1 \in Level
    BY <1>1
  <2> QED
    BY <1>2, <1>3, <2>1 DEF JsonslInv, KeysPairWithValues
<1>9. CallbackSeesItsState'
  <2>1. CASE cb' = NoCallback
    BY <2>1 DEF CallbackSeesItsState, NoCallback
  <2>2. CASE cb' = [action |-> "POP", level |-> level, at |-> pos]
    <3>1. /\ stack[level].pos_begin < pos
          /\ OpenedBy(stack[level].type, text[stack[level].pos_begin + 1])
      BY <1>1 DEF JsonslInv, StackMirrorsText
    <3>2. level - 1 # 0 => stack[level - 1].pos_begin < stack[level].pos_begin
      BY <1>1 DEF JsonslInv, StackMirrorsText
    <3>3. stack[level - 1].nelem > 0
      BY <1>1 DEF JsonslInv, KeysPairWithValues
    <3> QED
      BY <2>2, <1>1, <1>2, <1>3, <1>5, <3>1, <3>2, <3>3 DEF CallbackSeesItsState
  <2> QED
    BY <1>4, <2>1, <2>2
<1> QED
  BY <1>6, <1>7, <1>8, <1>9 DEF JsonslInv

(* A client touches one ignore flag, the stop flag and the level limit. *)
LEMMA AnswerKeeps ==
  ASSUME JsonslInv, NEW stop \in BOOLEAN, NEW ignore \in BOOLEAN, NEW maxLevel \in Nat,
         Answer(stop, ignore, maxLevel)
  PROVE  JsonslInv'
<1> USE DEF Answer, feedVars, tokenVars
<1>a. JsonslTypeOK
  BY DEF JsonslInv
<1>1. level \in Nat /\ \A l \in 0 .. level : l \in Level
  BY <1>a, LevelFacts
<1>2. /\ stack' \in [Level -> State]
      /\ \A l \in Level : /\ stack'[l].type = stack[l].type
                          /\ stack'[l].nelem = stack[l].nelem
                          /\ stack'[l].pos_begin = stack[l].pos_begin
  BY <1>a, StackFacts DEF State
<1>3. JsonslTypeOK'
  <2>1. NoCallback \in CallbackRec
    BY LevelsAssumption DEF NoCallback, CallbackRec, Level
  <2>2. /\ stack' \in [Level -> State] /\ max_callback_level' \in Nat
        /\ stopfl' \in BOOLEAN /\ cb' \in CallbackRec
    BY <1>2, <2>1
  <2>3. /\ text' = text /\ pos' = pos /\ label' = label /\ level' = level
        /\ expecting' = expecting /\ tok_last' = tok_last
        /\ can_insert' = can_insert /\ in_escape' = in_escape
        /\ call_HKEY' = call_HKEY /\ err' = err
    OBVIOUS
  <2> HIDE DEF Answer
  <2>4. /\ text' \in Seq(STRING) /\ pos' \in 0 .. Len(text')
        /\ label' \in {"AGAIN", "STRUCTURAL"} /\ level' \in Level
        /\ expecting' \in {NoToken, Quote, ":", ","}
        /\ tok_last' \in {NoToken, ":", ",", "1", ".", "e", "-"}
        /\ can_insert' \in BOOLEAN /\ in_escape' \in BOOLEAN
        /\ call_HKEY' \in BOOLEAN /\ err' \in Error \cup {"SUCCESS"}
    BY Zenon, <1>a, <2>3 DEF JsonslTypeOK
  <2> QED
    BY <2>2, <2>4 DEF JsonslTypeOK
<1>4. StackMirrorsText'
  BY <1>1, <1>2 DEF JsonslInv, StackMirrorsText
<1>5. KeysPairWithValues'
  BY <1>1, <1>2 DEF JsonslInv, KeysPairWithValues
<1>6. CallbackSeesItsState'
  BY DEF CallbackSeesItsState
<1> QED
  BY <1>3, <1>4, <1>5, <1>6 DEF JsonslInv

(* A call appends its bytes; nothing already recorded moves. *)
LEMMA CallFeedKeeps ==
  ASSUME JsonslInv, NEW bytes \in Seq(STRING), NEW maxLevel \in Nat, NEW keys \in BOOLEAN,
         CallFeed(bytes, maxLevel, keys)
  PROVE  JsonslInv'
<1> USE DEF CallFeed, tokenVars
<1>a. JsonslTypeOK
  BY DEF JsonslInv
<1>1. /\ level \in Nat /\ \A l \in 0 .. level : l \in Level
      /\ text \in Seq(STRING) /\ pos \in Nat /\ pos <= Len(text) /\ Len(text) \in Nat
  BY <1>a, LevelFacts, CursorFacts
<1>2. /\ text' \in Seq(STRING) /\ Len(text') \in Nat /\ Len(text) <= Len(text')
      /\ \A i \in 1 .. Len(text) : text'[i] = text[i]
  BY <1>1
<1>3. JsonslTypeOK'
  <2>1. pos' \in 0 .. Len(text')
    BY <1>1, <1>2
  <2> QED
    BY <1>a, <1>2, <2>1 DEF JsonslTypeOK
<1>4. StackMirrorsText'
  <2>1. \A l \in 1 .. level : stack[l].pos_begin \in Nat
    BY <1>a, <1>1, StackFacts
  <2>2. \A l \in 1 .. level : stack[l].pos_begin + 1 \in 1 .. Len(text)
    BY <1>1, <2>1 DEF JsonslInv, StackMirrorsText
  <2> QED
    BY <1>1, <1>2, <2>2 DEF JsonslInv, StackMirrorsText
<1>5. KeysPairWithValues'
  BY <1>1 DEF JsonslInv, KeysPairWithValues
<1>6. CallbackSeesItsState'
  BY DEF CallbackSeesItsState
<1> QED
  BY <1>3, <1>4, <1>5, <1>6 DEF JsonslInv

(* The registers in the form the lemmas want them. *)
LEMMA RegistersTyped == JsonslInv => RegistersOK
  BY DEF JsonslInv, JsonslTypeOK, RegistersOK

(* Inside a string, word or number there is a state to pop. *)
LEMMA NotAtRoot ==
  ASSUME JsonslInv, Top.type # "ROOT"
  PROVE  level # 0
  BY DEF JsonslInv, StackMirrorsText, Top

(* The initial state and the state after jsonsl_reset(). *)
LEMMA BlankIsFine ==
  ASSUME text = <<>>, pos = 0, label = "AGAIN", level = 0,
         stack = [l \in Level |-> BlankState],
         expecting = NoToken, tok_last = NoToken, can_insert = TRUE, in_escape = FALSE,
         stopfl = FALSE, err = "SUCCESS", cb = NoCallback,
         max_callback_level \in Nat, call_HKEY \in BOOLEAN
  PROVE  JsonslInv
<1>1. 0 \in Level /\ BlankState \in State /\ NoCallback \in CallbackRec
  BY LevelsAssumption DEF Level, BlankState, State, Type, NoCallback, CallbackRec
<1>2. JsonslTypeOK
  BY <1>1 DEF JsonslTypeOK
<1>3. StackMirrorsText
  BY <1>1 DEF StackMirrorsText, BlankState
<1>4. KeysPairWithValues /\ CallbackSeesItsState
  BY DEF KeysPairWithValues, CallbackSeesItsState
<1> QED
  BY <1>2, <1>3, <1>4 DEF JsonslInv

(* A new parser is in the invariant; *)
LEMMA JsonslInvInit == JsonslInit => JsonslInv
<1> SUFFICES ASSUME JsonslInit PROVE JsonslInv
  OBVIOUS
<1>1. max_callback_level \in Nat /\ call_HKEY \in BOOLEAN
  BY DEF JsonslInit
<1> QED
  BY <1>1, BlankIsFine DEF JsonslInit

(* jsonsl_reset() leaves one that is as good. *)
LEMMA ResetKeeps ==
  ASSUME JsonslInv, Reset
  PROVE  JsonslInv'
<1>1. max_callback_level' \in Nat /\ call_HKEY' \in BOOLEAN
  BY DEF Reset, JsonslInv, JsonslTypeOK
<1>2. (text' = <<>>) /\ (pos' = 0) /\ (label' = "AGAIN") /\ (level' = 0)
      /\ (stack' = [l \in Level |-> BlankState]) /\ (expecting' = NoToken)
      /\ (tok_last' = NoToken) /\ (can_insert' = TRUE) /\ (in_escape' = FALSE)
      /\ (stopfl' = FALSE) /\ (err' = "SUCCESS") /\ (cb' = NoCallback)
  BY DEF Reset
<1>3. 0 \in Level /\ BlankState \in State /\ NoCallback \in CallbackRec
  BY LevelsAssumption DEF Level, BlankState, State, Type, NoCallback, CallbackRec
<1>4. JsonslTypeOK'
  BY <1>1, <1>2, <1>3 DEF JsonslTypeOK
<1>5. StackMirrorsText'
  BY <1>2, <1>3 DEF StackMirrorsText, BlankState
<1>6. KeysPairWithValues' /\ CallbackSeesItsState'
  BY <1>2 DEF KeysPairWithValues, CallbackSeesItsState
<1> QED
  BY <1>4, <1>5, <1>6 DEF JsonslInv

(* A step of someone else. *)
LEMMA StutterKeeps ==
  ASSUME JsonslInv, UNCHANGED jsnVars
  PROVE  JsonslInv'
<1> USE DEF jsnVars, feedVars, tokenVars, clientVars
<1>1. JsonslTypeOK'
  BY ZenonT(40) DEF JsonslInv, JsonslTypeOK
<1>2. StackMirrorsText'
  BY DEF JsonslInv, StackMirrorsText
<1>3. KeysPairWithValues'
  BY DEF JsonslInv, KeysPairWithValues
<1>4. CallbackSeesItsState'
  BY DEF JsonslInv, CallbackSeesItsState
<1> QED
  BY <1>1, <1>2, <1>3, <1>4 DEF JsonslInv

(* The five ways a handler may go. *)
Failing == Running /\ \E code \in Error : Fail(code)

Moves == Running /\ Consume /\ RegistersOK' /\ UNCHANGED <<clientVars, level, stack, err, cb>>

Learns(flags) ==
  /\ Running /\ Consume /\ RegistersOK' /\ Top.type = "SPECIAL"
  /\ stack' = [stack EXCEPT ![level].special_flags = flags]
  /\ UNCHANGED <<clientVars, level, err, cb>>

Pushes(type, nelem, flags) ==
  /\ InContainer /\ ~Full /\ Consume /\ RegistersOK'
  /\ OpenedBy(type, Char) /\ (type = "HKEY" <=> OpensKey)
  /\ type \in Container => nelem = 0
  /\ StackPush(CountElement, type, nelem, flags)
  /\ UNCHANGED <<clientVars, err>>

(* A string and a container end with a symbol of their own. *)
Pops(popped) ==
  /\ Running /\ level # 0 /\ RegistersOK'
  /\ popped.type = Top.type /\ popped.nelem = Top.nelem
  /\ popped.pos_begin = Top.pos_begin /\ popped.ignore_callback = Top.ignore_callback
  /\ \/ Consume
     \/ Top.type = "SPECIAL" /\ label' = "STRUCTURAL" /\ UNCHANGED <<text, pos>>
  /\ Top.type \in Stringy => Char = Quote
  /\ Top.type \in Container => Char \in {"}", "]"}
  /\ StackPop(popped)
  /\ UNCHANGED <<clientVars, err>>

HasShape ==
  \/ Failing \/ Moves
  \/ \E flags \in SUBSET Flag : Learns(flags)
  \/ \E type \in Type \ {"ROOT"}, nelem \in Nat, flags \in SUBSET Flag : Pushes(type, nelem, flags)
  \/ \E popped \in State : Pops(popped)

\* A step that reports an error has the shape of a lexer step.
LEMMA FailShape ==
  ASSUME Running, NEW code \in Error, Fail(code)
  PROVE  HasShape
  BY DEF HasShape, Failing

\* So has a step that only reads a character,
LEMMA MoveShape ==
  ASSUME Running, Consume, RegistersOK', UNCHANGED <<clientVars, level, stack, err, cb>>
  PROVE  HasShape
  BY DEF HasShape, Moves

\* one that learns what a word or number is,
LEMMA LearnShape ==
  ASSUME Running, Top.type = "SPECIAL", Consume, RegistersOK', NEW flags \in SUBSET Flag,
         stack' = [stack EXCEPT ![level].special_flags = flags],
         UNCHANGED <<clientVars, level, err, cb>>
  PROVE  HasShape
  BY DEF HasShape, Learns

\* one that pushes a state,
LEMMA PushShape ==
  ASSUME NEW type \in Type \ {"ROOT"}, NEW nelem \in Nat, NEW flags \in SUBSET Flag,
         Pushes(type, nelem, flags)
  PROVE  HasShape
  BY DEF HasShape

\* and one that pops it.
LEMMA PopShape ==
  ASSUME NEW popped \in State, Pops(popped)
  PROVE  HasShape
  BY DEF HasShape

(* Every handler of jsonsl_feed() goes one of these ways. *)
LEMMA FeedHasShape ==
  ASSUME JsonslInv, Feed
  PROVE  HasShape
<1>a. JsonslTypeOK
  BY DEF JsonslInv
<1>b. Top \in State /\ Top.special_flags \in SUBSET Flag
  BY <1>a, LevelFacts, StackFacts DEF Top
<1>c. NumberFlags \in SUBSET Flag
  BY <1>b DEF NumberFlags, Flag
<1>r. Running
  <2> USE DEF InString, InSpecial, InContainer, InNumber
  <2>1. /\ StringEscaped \/ StringChar \/ StringBadChar \/ StringBeginEscape \/ StringEnd => Running
        /\ NumberFast \/ NumberDash \/ NumberDigit \/ NumberDot \/ NumberExponent => Running
    BY DEF StringEscaped, StringChar, StringBadChar, StringBeginEscape, StringEnd, NumberFast,
           NumberDash, NumberDigit, NumberDot, NumberExponent
  <2>2. /\ NumberSign \/ NumberInvalid \/ WordInvalid \/ SpecialPop => Running
        /\ SkipWhitespace \/ StringBegin \/ Colon \/ Comma \/ OpenContainer => Running
        /\ CloseContainer \/ SpecialBegin \/ UnexpectedChar => Running
    BY DEF NumberSign, NumberInvalid, WordInvalid, SpecialPop, SkipWhitespace, StringBegin, Colon,
           Comma, OpenContainer, CloseContainer, SpecialBegin, UnexpectedChar
  <2> QED
    BY <2>1, <2>2 DEF Feed
<1> USE <1>r, RegistersTyped DEF RegistersOK, tokenVars
<1>1. CASE StringEscaped
  <2>1. Running
    BY <1>1 DEF StringEscaped, InString
  <2>2. CASE Char \notin AllowedEscape
    BY <1>1, <2>2, FailShape DEF StringEscaped, Error
  <2>3. CASE Char \in AllowedEscape
    BY <1>1, <2>1, <2>3, MoveShape DEF StringEscaped
  <2> QED
    BY <2>2, <2>3
<1>2. CASE StringChar
  BY <1>2, MoveShape DEF StringChar, InString
<1>3. CASE StringBadChar
  BY <1>3, FailShape DEF StringBadChar, Error
<1>4. CASE StringBeginEscape
  BY <1>4, MoveShape DEF StringBeginEscape, InString
<1>5. CASE StringEnd
  <2>1. Running /\ Top.type # "ROOT"
    BY <1>5 DEF StringEnd, InString, Stringy
  <2>2. Top.type \notin Container \cup {"SPECIAL"} /\ Char = Quote /\ Consume /\ StackPop(Top)
        /\ can_insert' = FALSE /\ UNCHANGED <<expecting, tok_last, in_escape, clientVars, err>>
    BY <1>5 DEF StringEnd, InString, Stringy, Container
  <2>3. Pops(Top)
    BY <2>1, <2>2, NotAtRoot DEF Pops
  <2> QED
    BY <1>b, <2>3, PopShape
<1>6. CASE NumberFast
  BY <1>6, MoveShape DEF NumberFast, InSpecial
<1>7. CASE NumberDash
  <2>1. Running /\ Top.type = "SPECIAL"
    BY <1>7 DEF NumberDash, InSpecial
  <2>2. CASE Char \notin Digit
    BY <1>7, <2>2, FailShape DEF NumberDash, Error
  <2>3. CASE Char \in Digit
    <3>1. (IF Char = "0" THEN ZERO \cup {"SIGNED"} ELSE {"SIGNED"}) \in SUBSET Flag
      BY DEF ZERO, Flag
    <3> QED
      BY <1>7, <2>1, <2>3, <3>1, LearnShape DEF NumberDash
  <2> QED
    BY <2>2, <2>3
<1>8. CASE NumberDigit
  BY <1>8, MoveShape DEF NumberDigit, InNumber, InSpecial
<1>9. CASE NumberDot
  <2>1. Running /\ Top.type = "SPECIAL" /\ NumberMark({"FLOAT"}, ".")
    BY <1>9 DEF NumberDot, InNumber, InSpecial
  <2>2. NumberFlags \cup {"FLOAT"} \in SUBSET Flag
    BY <1>c DEF Flag
  <2> QED
    BY <2>1, <2>2, LearnShape DEF NumberMark
<1>10. CASE NumberExponent
  <2>1. Running /\ Top.type = "SPECIAL" /\ NumberMark({"EXPONENT"}, "e")
    BY <1>10 DEF NumberExponent, InNumber, InSpecial
  <2>2. NumberFlags \cup {"EXPONENT"} \in SUBSET Flag
    BY <1>c DEF Flag
  <2> QED
    BY <2>1, <2>2, LearnShape DEF NumberMark
<1>11. CASE NumberSign
  <2>1. Running /\ Top.type = "SPECIAL" /\ NumberMark({}, "-")
    BY <1>11 DEF NumberSign, InNumber, InSpecial
  <2>2. NumberFlags \cup {} \in SUBSET Flag
    BY <1>c
  <2> QED
    BY <2>1, <2>2, LearnShape DEF NumberMark
<1>12. CASE NumberInvalid
  BY <1>12, FailShape DEF NumberInvalid, Error
<1>13. CASE WordInvalid
  BY <1>13, FailShape DEF WordInvalid, Error
<1>14. CASE SpecialPop
  <2> DEFINE final == IF NumberFlags = ZERO \cup {"SIGNED"} THEN {"UNSIGNED"} ELSE NumberFlags
             popped == [Top EXCEPT !.special_flags = final]
  <2>1. Running /\ Top.type = "SPECIAL"
    BY <1>14 DEF SpecialPop, InSpecial
  <2>2. final \in SUBSET Flag
    BY <1>c DEF Flag
  <2>3. /\ popped \in State /\ popped.type = Top.type /\ popped.nelem = Top.nelem
        /\ popped.pos_begin = Top.pos_begin
        /\ popped.ignore_callback = Top.ignore_callback
    BY <1>b, <2>2 DEF State
  <2>4. \/ Fail("INVALID_NUMBER")
        \/ /\ StackPop(popped)
           /\ tok_last' = NoToken /\ expecting' = ","
           /\ Consume \/ (label' = "STRUCTURAL" /\ UNCHANGED <<text, pos>>)
           /\ UNCHANGED <<can_insert, in_escape, clientVars, err>>
    BY <1>14 DEF SpecialPop
  <2>5. CASE Fail("INVALID_NUMBER")
    BY <2>5, FailShape DEF Error
  <2>6. CASE StackPop(popped) /\ ~Fail("INVALID_NUMBER")
    <3> HIDE DEF popped
    <3>1. Pops(popped)
      BY <2>1, <2>3, <2>4, <2>6, NotAtRoot DEF Pops, Stringy, Container
    <3> QED
      BY <2>3, <3>1, PopShape
  <2> QED
    BY <2>4, <2>5, <2>6
<1>15. CASE SkipWhitespace
  BY <1>15, MoveShape DEF SkipWhitespace, InContainer
<1>16. CASE StringBegin
  <2>1. CASE StringError # "SUCCESS"
    <3>1. StringError \in Error
      BY <2>1 DEF StringError, Error
    <3> QED
      BY <1>16, <2>1, <3>1, FailShape DEF StringBegin
  <2>2. CASE StringError = "SUCCESS"
    <3> DEFINE type == IF OpensKey THEN "HKEY" ELSE "STRING"
    <3>1. ~Full /\ InContainer
      BY <1>16, <2>2 DEF StringBegin, StringError
    <3>2. StaleNelem \in Nat /\ StaleFlags \in SUBSET Flag
      BY <3>1, <1>a, LevelFacts, StackFacts DEF StaleNelem, StaleFlags
    <3>3. type \in Type \ {"ROOT"} /\ (type = "HKEY" <=> OpensKey) /\ OpenedBy(type, Char)
      BY <1>16 DEF StringBegin, Type, Stringy, OpenedBy
    <3>4. /\ StackPush(CountElement, type, StaleNelem, StaleFlags)
          /\ Consume /\ can_insert' = FALSE /\ tok_last' = NoToken
          /\ expecting' \in {":", ","}
          /\ UNCHANGED <<in_escape, clientVars, err>>
      BY <1>16, <2>2 DEF StringBegin
    <3>5. type \notin Container
      BY DEF Container
    <3> HIDE DEF type
    <3>6. Pushes(type, StaleNelem, StaleFlags)
      BY <3>1, <3>3, <3>4, <3>5 DEF Pushes
    <3> QED
      BY <3>2, <3>3, <3>6, PushShape
  <2> QED
    BY <2>1, <2>2
<1>17. CASE Colon
  <2>1. CASE Fail("STRAY_TOKEN")
    BY <2>1, FailShape DEF Error
  <2>2. CASE ~Fail("STRAY_TOKEN")
    BY <1>17, <2>2, MoveShape DEF Colon, InContainer
  <2> QED
    BY <2>1, <2>2
<1>18. CASE Comma
  <2>1. CASE Fail("STRAY_TOKEN")
    BY <2>1, FailShape DEF Error
  <2>2. CASE ~Fail("STRAY_TOKEN")
    BY <1>18, <2>2, MoveShape DEF Comma, InContainer
  <2> QED
    BY <2>1, <2>2
<1>19. CASE OpenContainer
  <2>1. CASE OpenError # "SUCCESS"
    <3>1. OpenError \in Error
      BY <2>1 DEF OpenError, Error
    <3> QED
      BY <1>19, <2>1, <3>1, FailShape DEF OpenContainer
  <2>2. CASE OpenError = "SUCCESS"
    <3> DEFINE type == IF Char = "{" THEN "OBJECT" ELSE "LIST"
    <3>1. ~Full /\ InContainer /\ ~KeyMissing
      BY <1>19, <2>2 DEF OpenContainer, OpenError
    <3>2. StaleFlags \in SUBSET Flag
      BY <3>1, <1>a, LevelFacts, StackFacts DEF StaleFlags
    <3>3. type \in Container /\ type \in Type \ {"ROOT"} /\ type # "HKEY" /\ ~OpensKey
      BY <3>1 DEF Type, Container, OpensKey, KeyMissing
    <3>5. OpenedBy(type, Char)
      <4>1. CASE Char = "{"
        BY <4>1, OpeningBrackets
      <4>2. CASE Char # "{"
        <5>1. Char = "[" /\ type = "LIST"
          BY <1>19, <4>2 DEF OpenContainer
        <5> QED
          BY <5>1, OpeningBrackets
      <4> QED
        BY <4>1, <4>2
    <3>4. /\ StackPush(CountElement, type, 0, StaleFlags)
          /\ Consume /\ can_insert' = TRUE /\ tok_last' = NoToken
          /\ expecting' \in {Quote, expecting}
          /\ UNCHANGED <<in_escape, clientVars, err>>
      BY <1>19, <2>2 DEF OpenContainer
    <3> HIDE DEF type
    <3>6. Pushes(type, 0, StaleFlags)
      BY <3>1, <3>3, <3>4, <3>5 DEF Pushes
    <3> QED
      BY <3>2, <3>3, <3>6, PushShape
  <2> QED
    BY <2>1, <2>2
<1>20. CASE CloseContainer
  <2>1. CASE CloseError # "SUCCESS"
    <3>1. CloseError \in Error
      BY <2>1 DEF CloseError, Error
    <3> QED
      BY <1>20, <2>1, <3>1, FailShape DEF CloseContainer
  <2>2. CASE CloseError = "SUCCESS"
    <3>1. Running /\ Top.type # "ROOT"
      BY <1>20, <2>2 DEF CloseContainer, CloseError, InContainer
    <3>2. /\ Top.type \notin Stringy /\ Char \in {"}", "]"} /\ Consume /\ StackPop(Top)
          /\ can_insert' = FALSE /\ expecting' = "," /\ tok_last' = NoToken
          /\ UNCHANGED <<in_escape, clientVars, err>>
      BY <1>20, <2>2 DEF CloseContainer, InContainer
    <3>3. Pops(Top)
      BY <3>1, <3>2, NotAtRoot DEF Pops
    <3> QED
      BY <1>b, <3>3, PopShape
  <2> QED
    BY <2>1, <2>2
<1>21. CASE SpecialBegin
  <2>1. CASE SpecialError # "SUCCESS"
    <3>1. SpecialError \in Error
      BY <2>1 DEF SpecialError, Error
    <3> QED
      BY <1>21, <2>1, <3>1, FailShape DEF SpecialBegin
  <2>2. CASE SpecialError = "SUCCESS"
    <3>1. ~Full /\ InContainer /\ ~KeyMissing
      BY <1>21, <2>2 DEF SpecialBegin, SpecialError
    <3>2. OpenedBy("SPECIAL", Char) /\ "SPECIAL" \in Type \ {"ROOT"} /\ ~OpensKey
      BY <1>21, <3>1 DEF SpecialBegin, Type, OpenedBy, OpensKey, KeyMissing, Stringy
    <3>3. /\ StackPush(CountElement, "SPECIAL", 0, ExtractSpecial(Char))
          /\ Consume /\ tok_last' \in {"1", "-"}
          /\ UNCHANGED <<expecting, can_insert, in_escape, clientVars, err>>
      BY <1>21, <2>2 DEF SpecialBegin
    <3>4. Pushes("SPECIAL", 0, ExtractSpecial(Char))
      BY <3>1, <3>2, <3>3 DEF Pushes
    <3> QED
      BY <3>2, <3>4, PushShape, ExtractSpecialType
  <2> QED
    BY <2>1, <2>2
<1>22. CASE UnexpectedChar
  BY <1>22, FailShape DEF UnexpectedChar, Error
<1> QED
  BY <1>1, <1>2, <1>3, <1>4, <1>5, <1>6, <1>7, <1>8, <1>9, <1>10, <1>11, <1>12, <1>13,
     <1>14, <1>15, <1>16, <1>17, <1>18, <1>19, <1>20, <1>21, <1>22 DEF Feed

(* Every handler of jsonsl_feed() preserves the invariant. *)
LEMMA FeedKeeps ==
  ASSUME JsonslInv, Feed
  PROVE  JsonslInv'
<1>1. CASE Failing
  BY <1>1, FailKeeps DEF Failing
<1>2. CASE Moves
  BY <1>2, ConsumeKeeps DEF Moves
<1>3. ASSUME NEW flags \in SUBSET Flag, Learns(flags)
      PROVE  JsonslInv'
  BY <1>3, FlagsKeep DEF Learns
<1>4. ASSUME NEW type \in Type \ {"ROOT"}, NEW nelem \in Nat, NEW flags \in SUBSET Flag,
             Pushes(type, nelem, flags)
      PROVE  JsonslInv'
  BY <1>4, PushKeeps DEF Pushes
<1>5. ASSUME NEW popped \in State, Pops(popped)
      PROVE  JsonslInv'
  BY <1>5, PopKeeps DEF Pops
<1> QED
  BY <1>1, <1>2, <1>3, <1>4, <1>5, FeedHasShape DEF HasShape

-----------------------------------------------------------------------------
(* The stack after a push and after a pop, as the clients look at it. *)

\* Which levels hold the root, which hold containers.
LEMMA LevelTypes ==
  ASSUME JsonslInv
  PROVE  /\ level \in Nat /\ Top \in State /\ Top.type \in Type
         /\ Top.type = "ROOT" <=> level = 0
         /\ \A l \in 1 .. level - 1 : stack[l].type \in Container
         /\ stack[0].type = "ROOT"
<1>1. level \in Nat /\ Top \in State /\ Top.type \in Type
  BY LevelFacts, StackFacts DEF JsonslInv, Top
<1>2. stack[0].type = "ROOT"
  BY DEF JsonslInv, StackMirrorsText
<1>3. level # 0 => OpenedBy(Top.type, text[Top.pos_begin + 1])
  BY <1>1 DEF JsonslInv, StackMirrorsText, Top
<1>4. \A ch : ~OpenedBy("ROOT", ch)
  BY DEF OpenedBy, Stringy
<1>5. Top.type = "ROOT" <=> level = 0
  BY <1>2, <1>3, <1>4 DEF Top
<1>6. \A l \in 1 .. level - 1 : stack[l].type \in Container
  BY <1>1 DEF JsonslInv, StackMirrorsText
<1> QED
  BY <1>1, <1>2, <1>5, <1>6

\* The stack after a push: the new state, and its parent with one element more.
LEMMA PushedStack ==
  ASSUME JsonslTypeOK, ~Full, NEW type \in Type, NEW nelem \in Nat, NEW flags \in SUBSET Flag,
         StackPush(CountElement, type, nelem, flags)
  PROVE  /\ level' = level + 1
         /\ stack'[level + 1] = [type |-> type, nelem |-> nelem, pos_begin |-> pos,
                                 ignore_callback |-> Top.ignore_callback,
                                 special_flags |-> flags]
         /\ stack'[level] = CountElement
         /\ CountElement.type = Top.type /\ CountElement.nelem = Top.nelem + 1
         /\ CountElement.pos_begin = Top.pos_begin
         /\ CountElement.ignore_callback = Top.ignore_callback
         /\ \A l \in Level \ {level, level + 1} : stack'[l] = stack[l]
<1>1. /\ level \in Nat /\ level \in Level /\ level + 1 \in Level /\ level # level + 1
      /\ stack \in [Level -> State] /\ Top \in State
  BY LevelFacts, StackFacts DEF Top
<1>2. /\ CountElement.type = Top.type /\ CountElement.nelem = Top.nelem + 1
      /\ CountElement.pos_begin = Top.pos_begin
      /\ CountElement.ignore_callback = Top.ignore_callback
  BY <1>1 DEF CountElement, State
<1> QED
  BY <1>1, <1>2 DEF StackPush

\* The stack after a pop: the popped state stays in its slot, the rest as it
\* was.
LEMMA PoppedStack ==
  ASSUME JsonslInv, level # 0, NEW popped \in State, StackPop(popped)
  PROVE  /\ level' = level - 1 /\ level' \in Level /\ level' \in Nat
         /\ stack'[level] = popped
         /\ \A l \in Level \ {level} : stack'[l] = stack[l]
         /\ stack'[level'] = stack[level - 1]
         /\ level' # 0 => stack[level'].type \in Container
         /\ level' = 0 => stack[level'].type = "ROOT"
         /\ stack[level'].nelem \in Nat
         /\ (Top.type = "HKEY") = (stack[level'].type = "OBJECT" /\ stack[level'].nelem % 2 = 1)
<1>1. /\ level \in Nat /\ level \in Level /\ level - 1 \in Level /\ level - 1 \in Nat
      /\ stack \in [Level -> State]
  BY LevelFacts, StackFacts DEF JsonslInv, Level
<1>2. /\ level' = level - 1 /\ stack'[level] = popped
      /\ \A l \in Level \ {level} : stack'[l] = stack[l]
  BY <1>1 DEF StackPop
<1>3. (Top.type = "HKEY") = (stack[level - 1].type = "OBJECT" /\ stack[level - 1].nelem % 2 = 1)
  BY <1>1 DEF JsonslInv, KeysPairWithValues, Top
<1>4. level - 1 # 0 => stack[level - 1].type \in Container
  BY <1>1, LevelTypes
<1>5. stack[level - 1].nelem \in Nat
  BY <1>1, StackFacts DEF JsonslInv
<1> QED
  BY <1>1, <1>2, <1>3, <1>4, <1>5, LevelTypes

-----------------------------------------------------------------------------
(* What the matcher relies on in the lexer, for any client.                *)

(* Until its colon has been read, an object that waits for a value takes   *)
(* none: every value is after the colon that follows its key.              *)
ObjectTurns ==
  /\ Top.type = "HKEY" => expecting = ":" /\ tok_last = NoToken /\ ~can_insert
  /\ Top.type = "OBJECT" /\ Top.nelem % 2 = 1 /\ expecting = ":" => ~can_insert /\ tok_last # ":"
  /\ cb # NoCallback /\ cb.action = "POP" /\ stack[cb.level].type = "HKEY" =>
       expecting = ":" /\ text[cb.at + 1] = Quote /\ pos = cb.at + 1

(* The highest slot that is in use, or has a state a callback is about.    *)
Reach == IF cb.action = "POP" THEN level + 1 ELSE level

(* The bracket that closes a container is among the first n symbols. *)
HasClosed(l, n) ==
  stack[l].type \in Container => \E i \in stack[l].pos_begin + 2 .. n : text[i] \notin Whitespace

(* The symbols read before the one a callback is about. *)
Before == IF cb = NoCallback THEN pos ELSE cb.at

(* A state of a list stays in its slot when it is popped, until the next:  *)
(* get_last finds it there.                                                *)
LastChildStays ==
  stack[Reach].type = "LIST" /\ stack[Reach].nelem > 0 =>
    /\ Reach + 1 \in Level
    /\ stack[Reach + 1].type \notin {"ROOT", "HKEY"}
    /\ stack[Reach + 1].pos_begin < pos
    /\ HasClosed(Reach + 1, Before)

(* What is in a state that is ignored is ignored; the root never is. *)
IgnoreInherits ==
  /\ ~stack[0].ignore_callback
  /\ \A l \in 0 .. Reach - 1 : stack[l].ignore_callback => stack[l + 1].ignore_callback

(* A callback is one the client asked for; a container begins empty, and a *)
(* key ends before its value begins.                                       *)
CallbackWanted ==
  /\ stopfl => cb = NoCallback
  /\ cb # NoCallback =>
       /\ cb.action \in {"PUSH", "POP"} /\ cb.level \in Level /\ cb.at <= pos
       /\ cb.level < max_callback_level /\ ~stack[cb.level].ignore_callback
       /\ cb.action = "PUSH" /\ stack[cb.level].type \in Container => stack[cb.level].nelem = 0
       /\ cb.action = "POP" =>
            /\ stack[level].type \in Container \cup {"ROOT"}
            /\ stack[cb.level].type \in Container => pos = cb.at + 1 /\ text[pos] \notin Whitespace
            /\ (stack[cb.level].type = "HKEY") <=> (stack[level].type = "OBJECT" /\ stack[level].nelem % 2 = 1)

LexerInv == /\ JsonslInv /\ ObjectTurns /\ LastChildStays
            /\ IgnoreInherits /\ CallbackWanted

-----------------------------------------------------------------------------
(* What a handler does to the stack and to the callback, for the clients.  *)

SameState(s, t) ==
  /\ s.type = t.type /\ s.nelem = t.nelem
  /\ s.pos_begin = t.pos_begin /\ s.ignore_callback = t.ignore_callback

Delivered(action, lv, type, ignored) ==
  IF (type = "HKEY" => call_HKEY) /\ max_callback_level > lv /\ ~ignored
  THEN [action |-> action, level |-> lv, at |-> pos] ELSE NoCallback

QuietStep ==
  /\ UNCHANGED <<level, text, cb, clientVars>>
  /\ pos' \in {pos, pos + 1} /\ (expecting' = expecting \/ pos' = pos + 1)
  /\ \A l \in Level : SameState(stack'[l], stack[l])

PushStep(type) ==
  /\ UNCHANGED <<text, clientVars>> /\ pos' = pos + 1
  /\ level + 1 \in Level /\ level' = level + 1
  /\ stack'[level + 1].type = type /\ stack'[level + 1].pos_begin = pos
  /\ stack'[level + 1].ignore_callback = Top.ignore_callback
  /\ type \in Container => stack'[level + 1].nelem = 0
  /\ SameState(stack'[level], CountElement)
  /\ CountElement.type = Top.type /\ CountElement.nelem = Top.nelem + 1
  /\ CountElement.pos_begin = Top.pos_begin
  /\ CountElement.ignore_callback = Top.ignore_callback
  /\ \A l \in Level \ {level, level + 1} : stack'[l] = stack[l]
  /\ type = "HKEY" <=> OpensKey
  /\ Top.type \in Container \cup {"ROOT"}
  /\ cb' = Delivered("PUSH", level + 1, type, Top.ignore_callback)

PopStep ==
  /\ UNCHANGED <<text, clientVars>> /\ pos' \in {pos, pos + 1}
  /\ level # 0 /\ level' = level - 1
  /\ \A l \in Level : SameState(stack'[l], stack[l])
  /\ Top.type = "SPECIAL" \/ pos' = pos + 1
  /\ Top.type \in Stringy => Char = Quote
  /\ Top.type \in Container => Char \notin Whitespace
  /\ (Top.type = "HKEY") = (stack[level - 1].type = "OBJECT" /\ stack[level - 1].nelem % 2 = 1)
  /\ stack[level - 1].type \in Container \cup {"ROOT"}
  /\ cb' = Delivered("POP", level, Top.type, Top.ignore_callback)

(* Every handler takes one of three steps.                                 *)
LEMMA FeedTakes ==
  ASSUME JsonslInv, Feed
  PROVE  /\ Running
         /\ QuietStep \/ PopStep \/ \E type \in Type \ {"ROOT"} : PushStep(type)
<1>a. JsonslTypeOK
  BY DEF JsonslInv
<1>b. /\ stack \in [Level -> State] /\ level \in Level /\ level \in Nat /\ Top \in State
      /\ \A l \in Level : stack[l] \in State
  BY <1>a, LevelFacts, StackFacts DEF Top
<1>1. CASE Failing
  BY <1>1 DEF Failing, Fail, QuietStep, SameState, feedVars, tokenVars
<1>2. CASE Moves
  BY <1>2 DEF Moves, Consume, QuietStep, SameState
<1>3. ASSUME NEW flags \in SUBSET Flag, Learns(flags)
      PROVE  Running /\ QuietStep
  <2>1. \A l \in Level : SameState(stack'[l], stack[l])
    BY <1>3, <1>b DEF Learns, SameState, State
  <2> QED
    BY <1>3, <2>1 DEF Learns, Consume, QuietStep
<1>4. ASSUME NEW type \in Type \ {"ROOT"}, NEW nelem \in Nat, NEW flags \in SUBSET Flag,
             Pushes(type, nelem, flags)
      PROVE  Running /\ PushStep(type)
  <2>1. /\ Running /\ ~Full /\ Consume /\ StackPush(CountElement, type, nelem, flags)
        /\ (type = "HKEY" <=> OpensKey) /\ (type \in Container => nelem = 0)
        /\ UNCHANGED clientVars
    BY <1>4 DEF Pushes, InContainer
  <2>2. Top.type \in Container \cup {"ROOT"}
    BY <1>4, <1>b DEF Pushes, InContainer, State, Type
  <2>3. cb' = Delivered("PUSH", level + 1, type, Top.ignore_callback)
    BY <2>1, <1>a, PushedStack DEF StackPush, Deliver, Delivered
  <2>4. level + 1 \in Level
    BY <2>1, <1>a, LevelFacts
  <2>5. /\ level' = level + 1
        /\ stack'[level + 1].type = type /\ stack'[level + 1].nelem = nelem
        /\ stack'[level + 1].pos_begin = pos
        /\ stack'[level + 1].ignore_callback = Top.ignore_callback
        /\ SameState(stack'[level], CountElement)
        /\ CountElement.type = Top.type /\ CountElement.nelem = Top.nelem + 1
        /\ CountElement.pos_begin = Top.pos_begin
        /\ CountElement.ignore_callback = Top.ignore_callback
        /\ \A l \in Level \ {level, level + 1} : stack'[l] = stack[l]
    <3>1. type \in Type
      OBVIOUS
    <3>2. /\ level' = level + 1 /\ stack'[level] = CountElement
          /\ stack'[level + 1] = [type |-> type, nelem |-> nelem, pos_begin |-> pos,
                                  ignore_callback |-> Top.ignore_callback,
                                  special_flags |-> flags]
          /\ CountElement.type = Top.type /\ CountElement.nelem = Top.nelem + 1
          /\ CountElement.pos_begin = Top.pos_begin
          /\ CountElement.ignore_callback = Top.ignore_callback
          /\ \A l \in Level \ {level, level + 1} : stack'[l] = stack[l]
      BY <2>1, <3>1, <1>a, PushedStack
    <3> QED
      BY <3>2 DEF SameState
  <2>6. UNCHANGED text /\ pos' = pos + 1
    BY <2>1 DEF Consume
  <2> QED
    BY <2>1, <2>2, <2>3, <2>4, <2>5, <2>6 DEF PushStep
<1>5. ASSUME NEW popped \in State, Pops(popped)
      PROVE  Running /\ PopStep
  <2>1. /\ Running /\ level # 0 /\ StackPop(popped) /\ UNCHANGED clientVars
        /\ popped.type = Top.type /\ SameState(popped, Top)
        /\ Top.type \in Stringy => Char = Quote
        /\ Top.type \in Container => Char \notin Whitespace
        /\ Consume \/ (Top.type = "SPECIAL" /\ UNCHANGED <<text, pos>>)
        /\ popped.ignore_callback = Top.ignore_callback
    BY <1>5 DEF Pops, SameState, Whitespace
  <2>2. cb' = Delivered("POP", level, Top.type, Top.ignore_callback)
    BY <2>1 DEF StackPop, Deliver, Delivered
  <2>3. \A l \in Level : SameState(stack'[l], stack[l])
    BY <2>1, <1>b DEF StackPop, SameState, Top
  <2>4. /\ level' = level - 1
        /\ stack[level - 1].type \in Container \cup {"ROOT"}
        /\ (Top.type = "HKEY") = (stack[level - 1].type = "OBJECT" /\ stack[level - 1].nelem % 2 = 1)
    BY <2>1, PoppedStack
  <2>5. UNCHANGED text /\ pos' \in {pos, pos + 1} /\ (Top.type = "SPECIAL" \/ pos' = pos + 1)
    BY <2>1 DEF Consume
  <2> QED
    BY <2>1, <2>2, <2>3, <2>4, <2>5 DEF PopStep
<1> QED
  BY <1>1, <1>2, <1>3, <1>4, <1>5, FeedHasShape DEF HasShape

(* What the registers say after it.                                        *)
LEMMA FeedRegisters ==
  ASSUME JsonslInv, Feed
  PROVE  \/ /\ level' = level
            /\ \/ UNCHANGED <<expecting, tok_last, can_insert>>
               \/ Top.type = "SPECIAL"
               \/ Top.type # "HKEY" /\ expecting' = Quote
         \/ /\ level' = level + 1
            /\ OpensKey /\ Char = Quote => expecting' = ":" /\ tok_last' = NoToken /\ ~can_insert'
            /\ OpensKey => Char = Quote
            /\ Top.type = "OBJECT" /\ ~OpensKey => can_insert \/ tok_last = ":"
         \/ /\ level' = level - 1
            /\ Top.type = "HKEY" => expecting' = expecting /\ tok_last' = tok_last /\ ~can_insert'
<1>1. CASE StringEscaped \/ StringChar \/ StringBeginEscape \/ StringBadChar
  BY <1>1 DEF StringEscaped, StringChar, StringBeginEscape, StringBadChar, Fail, tokenVars
<1>2. CASE StringEnd
  BY <1>2 DEF StringEnd, StackPop
<1>3. CASE NumberFast \/ NumberDash \/ NumberDigit \/ NumberDot \/ NumberExponent \/ NumberSign
  <2>1. Top.type = "SPECIAL"
    BY <1>3 DEF NumberFast, NumberDash, NumberDigit, NumberDot, NumberExponent, NumberSign,
                InNumber, InSpecial
  <2>2. level' = level
    BY <1>3 DEF NumberFast, NumberDash, NumberDigit, NumberDot, NumberExponent, NumberSign,
                NumberMark, Fail
  <2> QED
    BY <2>1, <2>2
<1>4. CASE NumberInvalid \/ WordInvalid \/ UnexpectedChar
  BY <1>4 DEF NumberInvalid, WordInvalid, UnexpectedChar, Fail, tokenVars
<1>5. CASE SpecialPop
  <2>1. Top.type = "SPECIAL"
    BY <1>5 DEF SpecialPop, InSpecial
  <2>2. level' = level \/ level' = level - 1
    BY <1>5 DEF SpecialPop, Fail, StackPop
  <2> QED
    BY <2>1, <2>2
<1>6. CASE SkipWhitespace
  BY <1>6 DEF SkipWhitespace, tokenVars
<1>7. CASE StringBegin
  <2>1. CASE StringError # "SUCCESS"
    BY <1>7, <2>1 DEF StringBegin, Fail, tokenVars
  <2>2. CASE StringError = "SUCCESS"
    <3>1. Top.type = "OBJECT" /\ ~OpensKey => tok_last = ":"
      BY <2>2 DEF StringError
    <3> QED
      BY <1>7, <2>2, <3>1 DEF StringBegin, StackPush
  <2> QED
    BY <2>1, <2>2
<1>8. CASE Colon \/ Comma
  BY <1>8 DEF Colon, Comma, Fail, tokenVars, InContainer, Stringy
<1>9. CASE OpenContainer
  <2>1. CASE OpenError # "SUCCESS"
    BY <1>9, <2>1 DEF OpenContainer, Fail, tokenVars
  <2>2. CASE OpenError = "SUCCESS"
    <3>1. can_insert /\ ~OpensKey
      BY <2>2 DEF OpenError, KeyMissing, OpensKey
    <3> QED
      BY <1>9, <2>2, <3>1 DEF OpenContainer, StackPush
  <2> QED
    BY <2>1, <2>2
<1>10. CASE CloseContainer
  <2>1. CASE CloseError # "SUCCESS"
    BY <1>10, <2>1 DEF CloseContainer, Fail, tokenVars
  <2>2. CASE CloseError = "SUCCESS"
    BY <1>10, <2>2 DEF CloseContainer, StackPop, InContainer, Stringy
  <2> QED
    BY <2>1, <2>2
<1>11. CASE SpecialBegin
  <2>1. CASE SpecialError # "SUCCESS"
    BY <1>11, <2>1 DEF SpecialBegin, Fail, tokenVars
  <2>2. CASE SpecialError = "SUCCESS"
    <3>1. can_insert /\ ~OpensKey
      BY <2>2 DEF SpecialError, KeyMissing, OpensKey
    <3> QED
      BY <1>11, <2>2, <3>1 DEF SpecialBegin, StackPush
  <2> QED
    BY <2>1, <2>2
<1> QED
  BY <1>1, <1>2, <1>3, <1>4, <1>5, <1>6, <1>7, <1>8, <1>9, <1>10, <1>11 DEF Feed

(* A level is neither the one above nor the one below it. *)
LEMMA NextIsOther == \A n \in Nat : n # n + 1 /\ n # n - 1
  OBVIOUS

(* Between a key and its value only white space and the colon are read.    *)
LEMMA ColonAwaited ==
  ASSUME JsonslInv, Feed, level' = level, Top.type = "OBJECT", Top.nelem % 2 = 1, expecting # ","
  PROVE  \/ UNCHANGED <<pos, expecting>>
         \/ pos' = pos + 1 /\ Char \in Whitespace /\ expecting' = expecting
         \/ pos' = pos + 1 /\ Char = ":" /\ expecting = ":" /\ expecting' = Quote
<1>1. ~InString /\ ~InSpecial /\ ~InNumber
  BY DEF InString, InSpecial, InNumber, Stringy
<1>2. level # level + 1 /\ level # level - 1
  <2>1. level \in Nat
    BY LevelFacts DEF JsonslInv
  <2> QED
    BY <2>1, NextIsOther
<1>3. \A code : Fail(code) => UNCHANGED <<pos, expecting>>
  BY DEF Fail, feedVars, tokenVars
<1>4. CASE \/ StringEscaped \/ StringChar \/ StringBadChar \/ StringBeginEscape \/ StringEnd
           \/ NumberFast \/ NumberDash \/ NumberDigit \/ NumberDot \/ NumberExponent
           \/ NumberSign \/ NumberInvalid \/ WordInvalid \/ SpecialPop
  BY <1>1, <1>4 DEF StringEscaped, StringChar, StringBadChar, StringBeginEscape, StringEnd,
       NumberFast, NumberDash, NumberDigit, NumberDot, NumberExponent, NumberSign, NumberInvalid,
       WordInvalid, SpecialPop
<1>5. CASE SkipWhitespace
  BY <1>5 DEF SkipWhitespace, Consume, tokenVars
<1>6. CASE StringBegin
  BY <1>2, <1>3, <1>6 DEF StringBegin, StackPush
<1>7. CASE Colon
  BY <1>3, <1>7 DEF Colon, Consume
<1>8. CASE Comma
  BY <1>3, <1>8 DEF Comma
<1>9. CASE OpenContainer \/ SpecialBegin
  BY <1>2, <1>3, <1>9 DEF OpenContainer, SpecialBegin, StackPush
<1>10. CASE CloseContainer
  BY <1>2, <1>3, <1>10 DEF CloseContainer, StackPop
<1>11. CASE UnexpectedChar
  BY <1>3, <1>11 DEF UnexpectedChar
<1> QED
  BY <1>4, <1>5, <1>6, <1>7, <1>8, <1>9, <1>10, <1>11 DEF Feed

(* The value of a key begins after its colon.                              *)
LEMMA ValueAfterColon ==
  ASSUME JsonslInv, ObjectTurns, Feed, NEW type \in Type \ {"ROOT"}, PushStep(type),
         Top.type = "OBJECT", type # "HKEY"
  PROVE  Top.nelem % 2 = 1 /\ expecting # ":"
<1>1. ~OpensKey /\ level' = level + 1 /\ level \in Nat /\ Top.nelem \in Nat
  BY LevelTypes DEF PushStep, State
<1>2. Top.nelem % 2 = 1
  BY <1>1, Parity DEF OpensKey
<1>3. can_insert \/ tok_last = ":"
  BY <1>1, FeedRegisters
<1> QED
  BY <1>2, <1>3 DEF ObjectTurns

(* Keys, colons and values take turns after every handler. *)
LEMMA TurnsKept ==
  ASSUME JsonslInv, ObjectTurns, Feed
  PROVE  ObjectTurns'
<1>1. Running /\ level \in Nat /\ level \in Level /\ cb = NoCallback
  BY FeedTakes, LevelFacts DEF JsonslInv, Running
<1>2. CASE QuietStep
  <2>1. Top'.type = Top.type /\ Top'.nelem = Top.nelem /\ cb' = NoCallback /\ level' = level
    BY <1>1, <1>2 DEF QuietStep, SameState, Top
  <2>2. \/ UNCHANGED <<expecting, tok_last, can_insert>>
        \/ Top.type = "SPECIAL"
        \/ Top.type # "HKEY" /\ expecting' = Quote
    BY <1>1, <2>1, FeedRegisters
  <2>3. CASE Top.type = "SPECIAL"
    BY <2>1, <2>3 DEF ObjectTurns
  <2>4. CASE expecting' = Quote /\ Top.type # "HKEY"
    BY <2>1, <2>4 DEF ObjectTurns, Quote
  <2>5. CASE UNCHANGED <<expecting, tok_last, can_insert>>
    BY <2>1, <2>5 DEF ObjectTurns
  <2> QED
    BY <2>2, <2>3, <2>4, <2>5
<1>3. ASSUME NEW type \in Type \ {"ROOT"}, PushStep(type)
      PROVE  ObjectTurns'
  <2>1. Top'.type = type /\ (type \in Container => Top'.nelem = 0)
    BY <1>1, <1>3 DEF PushStep, Top
  <2>2. cb'.action # "POP" \/ cb' = NoCallback
    BY <1>3 DEF PushStep, Delivered
  <2>3. type = "HKEY" => expecting' = ":" /\ tok_last' = NoToken /\ ~can_insert'
    BY <1>1, <1>3, FeedRegisters DEF PushStep
  <2>4. 0 % 2 = 0
    OBVIOUS
  <2> QED
    BY <2>1, <2>2, <2>3, <2>4 DEF ObjectTurns, Container
<1>4. CASE PopStep
  <2>1. /\ level' = level - 1 /\ level - 1 \in Level
        /\ Top'.type = stack[level - 1].type /\ Top'.nelem = stack[level - 1].nelem
        /\ Top'.type # "HKEY"
    <3>1. level - 1 \in Level /\ level' = level - 1
      BY <1>1, <1>4, LevelsAssumption DEF PopStep, Level
    <3>2. Top'.type = stack[level - 1].type /\ Top'.nelem = stack[level - 1].nelem
      BY <3>1, <1>4 DEF PopStep, SameState, Top
    <3> QED
      BY <3>1, <3>2, <1>4 DEF PopStep, Container
  <2>2. Top.type = "HKEY" => /\ expecting' = ":" /\ tok_last' = NoToken /\ ~can_insert'
                             /\ Char = Quote /\ pos' = pos + 1 /\ text' = text
    BY <1>1, <1>4, FeedRegisters DEF PopStep, ObjectTurns, Stringy
  <2>3. cb' # NoCallback => cb'.at = pos /\ cb'.level = level /\ stack'[level].type = Top.type
    BY <1>1, <1>4 DEF PopStep, Delivered, SameState, Top
  <2>4. Top'.type = "OBJECT" /\ Top'.nelem % 2 = 1 => Top.type = "HKEY"
    BY <1>4, <2>1 DEF PopStep
  <2> QED
    BY <2>1, <2>2, <2>3, <2>4 DEF ObjectTurns, Char, NoToken
<1> QED
  BY <1>2, <1>3, <1>4, FeedTakes

(* A level below the one in use, or about to be popped, is a level.        *)
LEMMA ReachFacts ==
  ASSUME JsonslInv
  PROVE  /\ level \in Nat /\ level \in Level /\ Reach \in Nat /\ Reach >= level
         /\ \A l \in 0 .. level : l \in Level
         /\ cb # NoCallback => cb.at < Len(text) /\ cb.level \in Level /\ cb.level > 0
         /\ cb # NoCallback /\ cb.action \in {"PUSH", "POP"} => cb.level = Reach
         /\ cb = NoCallback => Reach = level
<1>1. level \in Nat /\ level \in Level /\ \A l \in 0 .. level : l \in Level
  BY LevelFacts DEF JsonslInv
<1>2. cb # NoCallback => cb.at < Len(text) /\ cb.level > 0 /\ cb.level \in Level
  BY DEF JsonslInv, JsonslTypeOK, CallbackSeesItsState, CallbackRec
<1>3. cb = NoCallback => Reach = level
  BY DEF Reach, NoCallback
<1>4. cb # NoCallback /\ cb.action \in {"PUSH", "POP"} => cb.level = Reach
  BY DEF JsonslInv, CallbackSeesItsState, Reach
<1> QED
  BY <1>1, <1>2, <1>3, <1>4 DEF Reach

(* A bracket that has been read stays read. *)
LEMMA ClosedStays ==
  ASSUME NEW l, NEW n \in Nat, NEW k \in Nat, n <= k, HasClosed(l, n),
         stack[l].pos_begin \in Nat,
         stack'[l].type = stack[l].type, stack'[l].pos_begin = stack[l].pos_begin,
         \A i \in 1 .. n : text'[i] = text[i]
  PROVE  HasClosed(l, k)'
<1> SUFFICES ASSUME stack[l].type \in Container
             PROVE  \E i \in stack[l].pos_begin + 2 .. k : text'[i] \notin Whitespace
  BY DEF HasClosed
<1>1. PICK i \in stack[l].pos_begin + 2 .. n : text[i] \notin Whitespace
  BY DEF HasClosed
<1>2. i \in stack[l].pos_begin + 2 .. k /\ i \in 1 .. n
  BY <1>1
<1> QED
  BY <1>1, <1>2

(* What stands above a list is a state of that list. *)
LEMMA LastChildKept ==
  ASSUME LexerInv, Feed
  PROVE  LastChildStays'
<1>0. JsonslInv /\ Running /\ cb = NoCallback /\ Reach = level
  BY FeedTakes, ReachFacts DEF LexerInv, Running
<1>1. level \in Nat /\ level \in Level /\ pos \in Nat
  BY <1>0, ReachFacts, CursorFacts DEF JsonslInv
<1>2. CASE QuietStep
  <2>1. Reach' = level /\ pos' \in Nat /\ pos' >= pos
    BY <1>1, <1>0, <1>2 DEF QuietStep, Reach, NoCallback
  <2>2. \A l \in Level : stack[l].pos_begin \in Nat
    BY <1>0, StackFacts DEF JsonslInv
  <2>3. level + 1 \in Level /\ HasClosed(level + 1, pos) => HasClosed(Reach + 1, Before)'
    <3>1. PICK l : l = level + 1
      OBVIOUS
    <3>2. PICK n \in Nat : n = pos
      BY <1>1
    <3>3. PICK k \in Nat : k = pos'
      BY <2>1
    <3>4. l \in Level /\ HasClosed(l, n) => HasClosed(l, k)'
      BY <1>1, <1>2, <2>1, <2>2, <3>2, <3>3, ClosedStays DEF QuietStep, SameState
    <3>5. Reach' + 1 = l /\ Before' = k
      BY <1>0, <1>2, <2>1, <3>1, <3>3 DEF QuietStep, Before
    <3> QED
      BY <3>1, <3>2, <3>3, <3>4, <3>5 DEF HasClosed
  <2>4. stack[level].type = "LIST" /\ stack[level].nelem > 0 =>
          /\ level + 1 \in Level /\ HasClosed(level + 1, pos)
          /\ stack[level + 1].type \notin {"ROOT", "HKEY"} /\ stack[level + 1].pos_begin < pos
    BY <1>0 DEF LexerInv, LastChildStays, Before
  <2>5. /\ level' = level /\ stack'[level].type = stack[level].type
        /\ stack'[level].nelem = stack[level].nelem
        /\ \A l \in Level : stack'[l].type = stack[l].type /\ stack'[l].pos_begin = stack[l].pos_begin
    BY <1>1, <1>2 DEF QuietStep, SameState
  <2> QED
    BY <1>1, <2>1, <2>2, <2>3, <2>4, <2>5 DEF LastChildStays
<1>3. ASSUME NEW type \in Type \ {"ROOT"}, PushStep(type)
      PROVE  LastChildStays'
  <2>1. Reach' = level + 1
    BY <1>3 DEF PushStep, Delivered, Reach, NoCallback
  <2> QED
    BY <1>3, <2>1 DEF PushStep, LastChildStays, Container
<1>4. CASE PopStep
  <2>1. level - 1 \in Level /\ level - 1 + 1 = level /\ pos' \in Nat /\ pos' >= pos
    BY <1>1, <1>4, LevelsAssumption DEF PopStep, Level
  <2>2. \A l \in Level : stack[l].pos_begin \in Nat
    BY <1>0, StackFacts DEF JsonslInv
  <2>3. CASE cb' # NoCallback
    <3>1. Reach' = level
      BY <1>1, <1>4, <2>3 DEF PopStep, Delivered, Reach
    <3>2. level + 1 \in Level /\ HasClosed(level + 1, pos) => HasClosed(Reach + 1, Before)'
      <4>1. PICK l : l = level + 1
        OBVIOUS
      <4>2. PICK n \in Nat : n = pos
        BY <1>1
      <4>3. l \in Level /\ HasClosed(l, n) => HasClosed(l, n)'
        BY <1>1, <1>4, <2>2, <4>2, ClosedStays DEF PopStep, SameState
      <4>4. Reach' + 1 = l /\ Before' = n
        BY <1>4, <2>3, <3>1, <4>1, <4>2 DEF PopStep, Delivered, Before
      <4> QED
        BY <4>1, <4>2, <4>3, <4>4 DEF HasClosed
    <3>3. stack[level].type = "LIST" /\ stack[level].nelem > 0 =>
            /\ level + 1 \in Level /\ HasClosed(level + 1, pos)
            /\ stack[level + 1].type \notin {"ROOT", "HKEY"} /\ stack[level + 1].pos_begin < pos
      BY <1>0 DEF LexerInv, LastChildStays, Before
    <3>4. \A l \in Level : /\ stack'[l].type = stack[l].type /\ stack'[l].nelem = stack[l].nelem
                           /\ stack'[l].pos_begin = stack[l].pos_begin
      BY <1>4 DEF PopStep, SameState
    <3> QED
      BY <1>1, <2>1, <2>2, <3>1, <3>2, <3>3, <3>4 DEF LastChildStays
  <2>4. CASE cb' = NoCallback
    <3>1. Reach' = level - 1
      BY <1>4, <2>4 DEF PopStep, Reach, NoCallback
    <3>2. Top.pos_begin < pos /\ Top.type # "ROOT"
      <4>1. level \in 1 .. level /\ level # 0
        BY <1>1, <1>4 DEF PopStep
      <4> QED
        BY <1>0, <4>1, LevelTypes DEF JsonslInv, StackMirrorsText, Top
    <3>3. stack[level].pos_begin \in Nat
      BY <1>1, <2>2
    <3>4. stack'[level].type = Top.type /\ stack'[level].pos_begin = Top.pos_begin
          /\ stack'[level - 1].type = stack[level - 1].type
      BY <1>1, <1>4, <2>1 DEF PopStep, SameState, Top
    <3>5. stack[level - 1].type = "LIST" => Top.type # "HKEY"
      BY <1>4 DEF PopStep
    <3>6. HasClosed(Reach + 1, Before)'
      <4>1. Reach' + 1 = level /\ Before' = pos'
        BY <1>1, <2>4, <3>1 DEF Before
      <4>2. Top.type \in Container =>
              /\ pos' = pos + 1 /\ text'[pos'] \notin Whitespace
              /\ Top.pos_begin + 2 <= pos'
        <5>1. Top.type \in Container => Char \notin Whitespace /\ pos' = pos + 1 /\ text' = text
          BY <1>4 DEF PopStep, Container
        <5> QED
          BY <1>1, <3>2, <3>3, <5>1 DEF Char, Top
      <4>3. Top.type \in Container =>
              \E i \in Top.pos_begin + 2 .. pos' : text'[i] \notin Whitespace
        BY <2>1, <3>3, <4>2 DEF Top
      <4> QED
        BY <3>4, <4>1, <4>3 DEF HasClosed
    <3> QED
      BY <1>1, <2>1, <3>1, <3>2, <3>3, <3>4, <3>5, <3>6 DEF LastChildStays, Top
  <2> QED
    BY <2>3, <2>4
<1> QED
  BY <1>0, <1>2, <1>3, <1>4, FeedTakes

(* A state begins ignored in one that is ignored. *)
LEMMA InheritsKept ==
  ASSUME LexerInv, Feed
  PROVE  IgnoreInherits'
<1>0. JsonslInv /\ Running /\ cb = NoCallback /\ Reach = level
  BY FeedTakes, ReachFacts DEF LexerInv, Running
<1>1. level \in Nat /\ level \in Level /\ \A l \in 0 .. level : l \in Level
  BY <1>0, ReachFacts
<1>2. ~stack[0].ignore_callback /\ 0 \in Level
      /\ \A l \in 0 .. level - 1 : stack[l].ignore_callback => stack[l + 1].ignore_callback
  BY <1>0, LevelsAssumption DEF LexerInv, IgnoreInherits, Level
<1>3. CASE QuietStep
  <2>1. Reach' = level
    BY <1>0, <1>3 DEF QuietStep, Reach, NoCallback
  <2> QED
    BY <1>1, <1>2, <1>3, <2>1 DEF IgnoreInherits, QuietStep, SameState
<1>4. ASSUME NEW type \in Type \ {"ROOT"}, PushStep(type)
      PROVE  IgnoreInherits'
  <2>1. Reach' = level + 1
    BY <1>4 DEF PushStep, Delivered, Reach, NoCallback
  <2>2. \A l \in 0 .. level : stack'[l].ignore_callback = stack[l].ignore_callback
    BY <1>1, <1>4 DEF PushStep, SameState, Top
  <2>3. stack'[level + 1].ignore_callback = stack'[level].ignore_callback
    BY <1>4 DEF PushStep, SameState
  <2> QED
    BY <1>1, <1>2, <2>1, <2>2, <2>3 DEF IgnoreInherits
<1>5. CASE PopStep
  <2>1. \A l \in 0 .. level : stack'[l].ignore_callback = stack[l].ignore_callback
    BY <1>1, <1>5 DEF PopStep, SameState
  <2>2. CASE Reach' = level
    BY <1>1, <1>2, <2>1, <2>2 DEF IgnoreInherits
  <2>3. CASE Reach' = level - 1
    <3>1. level \in Nat \ {0}
      BY <1>1, <1>5 DEF PopStep
    <3>2. \A l \in 0 .. (level - 1) - 1 : l \in 0 .. level /\ l + 1 \in 0 .. level /\ l \in 0 .. level - 1
      BY <3>1
    <3> QED
      BY <1>1, <1>2, <2>1, <2>3, <3>2 DEF IgnoreInherits
  <2>4. Reach' = level \/ Reach' = level - 1
    BY <1>1, <1>5 DEF PopStep, Delivered, Reach
  <2> QED
    BY <2>2, <2>3, <2>4
<1> QED
  BY <1>3, <1>4, <1>5, FeedTakes, <1>0

(* DO_CALLBACK asks before it calls. *)
LEMMA WantedKept ==
  ASSUME LexerInv, Feed
  PROVE  CallbackWanted'
<1>0. JsonslInv /\ Running /\ cb = NoCallback /\ ~stopfl
  BY FeedTakes DEF LexerInv, Running
<1>1. level \in Nat /\ level \in Level /\ pos \in Nat
  BY <1>0, ReachFacts, CursorFacts DEF JsonslInv
<1>2. CASE QuietStep
  BY <1>0, <1>2 DEF CallbackWanted, QuietStep, clientVars
<1>3. ASSUME NEW type \in Type \ {"ROOT"}, PushStep(type)
      PROVE  CallbackWanted'
  <2>1. cb' = NoCallback \/ cb' = [action |-> "PUSH", level |-> level + 1, at |-> pos]
    BY <1>3 DEF PushStep, Delivered
  <2>2. cb' # NoCallback => max_callback_level > level + 1 /\ ~Top.ignore_callback
    BY <1>3 DEF PushStep, Delivered
  <2> QED
    BY <1>0, <1>1, <1>3, <2>1, <2>2 DEF CallbackWanted, PushStep, clientVars
<1>4. CASE PopStep
  <2>1. cb' = NoCallback \/ cb' = [action |-> "POP", level |-> level, at |-> pos]
    BY <1>4 DEF PopStep, Delivered
  <2>2. cb' # NoCallback => max_callback_level > level /\ ~Top.ignore_callback
    BY <1>4 DEF PopStep, Delivered
  <2>3. level - 1 \in Level /\ level' = level - 1
    BY <1>1, <1>4, LevelsAssumption DEF PopStep, Level
  <2>4. /\ stack'[level].ignore_callback = Top.ignore_callback
        /\ stack'[level].type = Top.type
        /\ stack'[level - 1].type = stack[level - 1].type
        /\ stack'[level - 1].nelem = stack[level - 1].nelem
    BY <1>1, <1>4, <2>3 DEF PopStep, SameState, Top
  <2>5. ~stopfl' /\ pos' >= pos /\ max_callback_level' = max_callback_level
    BY <1>0, <1>1, <1>4 DEF PopStep, clientVars
  <2>6. /\ (Top.type = "HKEY") <=> (stack[level - 1].type = "OBJECT" /\ stack[level - 1].nelem % 2 = 1)
        /\ stack[level - 1].type \in Container \cup {"ROOT"}
    BY <1>4 DEF PopStep
  <2>7. Top.type \in Container => pos' = pos + 1 /\ text'[pos'] \notin Whitespace
    BY <1>4 DEF PopStep, Container, Char
  <2> QED
    BY <1>1, <2>1, <2>2, <2>3, <2>4, <2>5, <2>6, <2>7 DEF CallbackWanted
<1> QED
  BY <1>2, <1>3, <1>4, FeedTakes, <1>0

(* Every handler keeps all of it,                                          *)
LEMMA LexerFeedKeeps ==
  ASSUME LexerInv, Feed
  PROVE  LexerInv'
  BY FeedKeeps, TurnsKept, LastChildKept, InheritsKept, WantedKept DEF LexerInv

(* every answer a client may give,                                         *)
LEMMA LexerAnswerKeeps ==
  ASSUME LexerInv, NEW stop \in BOOLEAN, NEW ignore \in BOOLEAN, NEW maxLevel \in Nat,
         Answer(stop, ignore, maxLevel)
  PROVE  LexerInv'
<1>1. JsonslInv' /\ JsonslInv
  BY AnswerKeeps DEF LexerInv
<1>2. /\ cb # NoCallback /\ cb' = NoCallback /\ cb.action \in {"PUSH", "POP"}
      /\ stack' = [stack EXCEPT ![cb.level].ignore_callback = ignore]
      /\ UNCHANGED <<feedVars, tokenVars, level>>
  BY DEF Answer, LexerInv, CallbackWanted
<1>3. /\ stack \in [Level -> State]
      /\ \A l \in Level : stack[l] \in State
  BY <1>1, StackFacts DEF JsonslInv
<1>4. \A l \in Level : /\ stack'[l].type = stack[l].type /\ stack'[l].nelem = stack[l].nelem
                       /\ stack'[l].pos_begin = stack[l].pos_begin
                       /\ l # cb.level => stack'[l].ignore_callback = stack[l].ignore_callback
  BY <1>2, <1>3 DEF State
<1>5. /\ level \in Nat /\ level \in Level /\ cb.level \in Level /\ cb.level > 0 /\ cb.level = Reach
      /\ \A l \in 0 .. level : l \in Level
  BY <1>1, <1>2, ReachFacts
<1>6. Reach' = level
  BY <1>2 DEF Reach, NoCallback
<1>7. ObjectTurns'
  BY <1>1, <1>2, <1>4, <1>5 DEF LexerInv, ObjectTurns, Top, tokenVars
<1>8. LastChildStays'
  <2>0. UNCHANGED <<text, pos>>
    BY <1>2 DEF feedVars
  <2>1. CASE cb.action = "PUSH"
    <3>1. Reach = level /\ level + 1 \in Nat
      BY <1>5, <2>1 DEF Reach
    <3>2. HasClosed(level + 1, Before) /\ level + 1 \in Level => HasClosed(Reach + 1, Before)'
      <4>1. PICK l : l = level + 1
        OBVIOUS
      <4>2. PICK n \in Nat : n = cb.at
        BY <1>1, <1>2 DEF JsonslInv, JsonslTypeOK, CallbackRec
      <4>3. PICK k \in Nat : k = pos
        BY <1>1, CursorFacts DEF JsonslInv
      <4>4. Before = n /\ Before' = k /\ n <= k /\ Reach' + 1 = l
        BY <1>2, <1>6, <2>0, <4>1, <4>2, <4>3 DEF Before, LexerInv, CallbackWanted
      <4>5. \A i \in Level : stack[i].pos_begin \in Nat
        BY <1>1, StackFacts DEF JsonslInv
      <4>6. HasClosed(l, n) /\ l \in Level => HasClosed(l, k)'
        BY <1>4, <2>0, <4>4, <4>5, ClosedStays
      <4> QED
        BY <4>1, <4>4, <4>6 DEF HasClosed
    <3> QED
      BY <1>1, <1>2, <1>4, <1>5, <1>6, <2>0, <3>1, <3>2 DEF LexerInv, LastChildStays
  <2>2. CASE cb.action = "POP"
    <3>1. cb.level = level + 1
      BY <1>5, <2>2 DEF Reach
    <3>2. /\ stack[cb.level].pos_begin < cb.at /\ cb.at <= pos /\ cb.at \in Nat
          /\ OpenedBy(stack[cb.level].type, text[stack[cb.level].pos_begin + 1])
      BY <1>1, <1>2, <2>2
         DEF JsonslInv, JsonslTypeOK, CallbackRec, CallbackSeesItsState, LexerInv, CallbackWanted
    <3>3. stack[cb.level].type # "ROOT"
      BY <3>2 DEF OpenedBy, Stringy
    <3>4. stack[level].type = "LIST" => stack[cb.level].type # "HKEY"
      BY <1>2, <2>2 DEF LexerInv, CallbackWanted
    <3>5. stack[cb.level].pos_begin < pos
      <4>1. stack[cb.level].pos_begin \in Nat /\ pos \in Nat
        BY <1>1, <1>5, StackFacts, CursorFacts DEF JsonslInv
      <4> QED
        BY <3>2, <4>1
    <3>6. HasClosed(Reach + 1, Before)'
      <4>1. stack[cb.level].type \in Container =>
              /\ pos = cb.at + 1 /\ text[pos] \notin Whitespace
              /\ stack[cb.level].pos_begin + 2 <= pos
        <5>1. stack[cb.level].type \in Container => pos = cb.at + 1 /\ text[pos] \notin Whitespace
          BY <1>2, <2>2 DEF LexerInv, CallbackWanted
        <5>2. stack[cb.level].pos_begin \in Nat
          BY <1>1, <1>5, StackFacts DEF JsonslInv
        <5> QED
          BY <3>2, <5>1, <5>2
      <4>2. stack[cb.level].pos_begin \in Nat /\ pos \in Nat
        BY <1>1, <1>5, StackFacts, CursorFacts DEF JsonslInv
      <4>3. stack[cb.level].type \in Container =>
              \E i \in stack[cb.level].pos_begin + 2 .. pos : text[i] \notin Whitespace
        BY <4>1, <4>2
      <4> QED
        BY <1>2, <1>4, <1>5, <1>6, <2>0, <3>1, <4>3 DEF HasClosed, Before
    <3> QED
      BY <1>2, <1>4, <1>5, <1>6, <2>0, <3>1, <3>3, <3>4, <3>5, <3>6 DEF LastChildStays
  <2> QED
    BY <1>2, <2>1, <2>2
<1>9. IgnoreInherits'
  <2>1. /\ ~stack[0].ignore_callback /\ 0 \in Level /\ ~stack[cb.level].ignore_callback
        /\ \A l \in 0 .. Reach - 1 : stack[l].ignore_callback => stack[l + 1].ignore_callback
    BY <1>2, LevelsAssumption DEF LexerInv, IgnoreInherits, CallbackWanted, Level
  <2>2. CASE cb.action = "PUSH"
    <3>1. Reach = level
      BY <2>2 DEF Reach
    <3>2. ASSUME NEW l \in 0 .. level - 1, stack'[l].ignore_callback
          PROVE  stack'[l + 1].ignore_callback
      <4>1. l \in Level /\ l + 1 \in Level /\ l # cb.level
        BY <1>5, <3>1
      <4>2. stack[l].ignore_callback /\ stack[l + 1].ignore_callback
        BY <1>4, <2>1, <3>1, <3>2, <4>1
      <4> QED
        BY <1>4, <2>1, <4>1, <4>2
    <3> QED
      BY <1>4, <1>5, <1>6, <2>1, <3>2 DEF IgnoreInherits
  <2>3. CASE cb.action = "POP"
    <3>1. Reach = level + 1
      BY <2>3 DEF Reach
    <3>2. \A l \in 0 .. level : stack'[l].ignore_callback = stack[l].ignore_callback
      BY <1>4, <1>5, <3>1
    <3> QED
      BY <1>5, <1>6, <2>1, <3>1, <3>2 DEF IgnoreInherits
  <2> QED
    BY <1>2, <2>2, <2>3
<1>10. CallbackWanted'
  BY <1>2 DEF CallbackWanted
<1> QED
  BY <1>1, <1>7, <1>8, <1>9, <1>10 DEF LexerInv

(* every call and every reset.                                             *)
LEMMA LexerCallKeeps ==
  ASSUME LexerInv, NEW bytes \in Seq(STRING), NEW maxLevel \in Nat, NEW keys \in BOOLEAN,
         CallFeed(bytes, maxLevel, keys)
  PROVE  LexerInv'
<1>1. JsonslInv'
  BY CallFeedKeeps DEF LexerInv
<1>2. UNCHANGED <<pos, tokenVars, stopfl, level, stack, cb>> /\ cb = NoCallback
  BY DEF CallFeed
<1>3. ObjectTurns' /\ IgnoreInherits' /\ CallbackWanted'
  BY <1>2 DEF LexerInv, ObjectTurns, IgnoreInherits, CallbackWanted, Top, Reach, tokenVars
<1>4. /\ text \in Seq(STRING) /\ pos \in Nat /\ pos <= Len(text) /\ text' = text \o bytes
      /\ level \in Nat /\ Reach = level /\ Reach' = level
  BY <1>2, CursorFacts, ReachFacts DEF LexerInv, JsonslInv, CallFeed, Reach, NoCallback
<1>5. \A i \in 1 .. pos : text'[i] = text[i]
  BY <1>4
<1>6. LastChildStays'
  <2>1. \A l \in Level : stack[l].pos_begin \in Nat
    BY StackFacts DEF LexerInv, JsonslInv
  <2>2. PICK n \in Nat : n = pos
    BY <1>4
  <2>3. PICK l : l = level + 1
    OBVIOUS
  <2>4. l \in Level /\ HasClosed(l, n) => HasClosed(l, n)'
    <3>1. stack' = stack /\ n <= n /\ \A i \in 1 .. n : text'[i] = text[i]
      BY <1>2, <1>5, <2>2
    <3> QED
      BY <2>1, <3>1, ClosedStays
  <2>5. Before = n /\ Before' = n /\ Reach + 1 = l /\ Reach' + 1 = l
    BY <1>2, <1>4, <2>2, <2>3 DEF Before
  <2>6. l \in Level /\ HasClosed(Reach + 1, Before) => HasClosed(Reach + 1, Before)'
    BY <2>4, <2>5 DEF HasClosed
  <2> QED
    BY <1>2, <1>4, <2>3, <2>6 DEF LexerInv, LastChildStays
<1> QED
  BY <1>1, <1>3, <1>6 DEF LexerInv

(* A parser that is empty is in the invariant. *)
LEMMA LexerBlank ==
  ASSUME JsonslInv, level = 0, stack[0] = BlankState, ~stopfl, cb = NoCallback
  PROVE  LexerInv
  BY DEF LexerInv, ObjectTurns, LastChildStays, IgnoreInherits, CallbackWanted, Top, Reach, BlankState,
         NoCallback

(* jsonsl_reset() keeps it, *)
LEMMA LexerResetKeeps ==
  ASSUME LexerInv, Reset
  PROVE  LexerInv'
<1>1. JsonslInv'
  BY ResetKeeps DEF LexerInv
<1>2. (level' = 0) /\ (stack'[0] = BlankState) /\ ~stopfl' /\ (cb' = NoCallback)
  BY LevelsAssumption DEF Reset, Level
<1>3. ObjectTurns' /\ LastChildStays' /\ IgnoreInherits' /\ CallbackWanted'
  BY <1>2 DEF ObjectTurns, LastChildStays, IgnoreInherits, CallbackWanted, Top, Reach, BlankState, NoCallback
<1> QED
  BY <1>1, <1>3 DEF LexerInv

(* and so does what leaves the parser alone. *)
LEMMA LexerStutters ==
  ASSUME LexerInv, UNCHANGED jsnVars
  PROVE  LexerInv'
<1>1. JsonslInv'
  BY StutterKeeps DEF LexerInv
<1>2. UNCHANGED <<text, pos, expecting, tok_last, can_insert, max_callback_level, stopfl, level, stack, cb>>
  BY DEF jsnVars, feedVars, tokenVars, clientVars
<1>3. ObjectTurns' /\ LastChildStays' /\ IgnoreInherits' /\ CallbackWanted'
  BY <1>2 DEF LexerInv, ObjectTurns, LastChildStays, HasClosed, Before, IgnoreInherits, CallbackWanted, Top, Reach
<1> QED
  BY <1>1, <1>3 DEF LexerInv
=============================================================================
