------------------------------- MODULE Jsonsl -------------------------------
(***************************************************************************)
(* The streaming lexer contrib/jsonsl: jsonsl_feed() one character at a    *)
(* time, the stack of states it keeps, and the callbacks it delivers.      *)
(*                                                                         *)
(* text is everything fed since the last jsonsl_reset() and pos the index  *)
(* (from 0, as in the code) of the next character: the feed has returned   *)
(* when pos = Len(text), and the client may then feed more.                *)
(*                                                                         *)
(* A callback runs in the middle of a character's handler.  The handler is *)
(* one action here; it leaves in cb the callback it makes, and the lexer   *)
(* moves again only when the client has answered (Answer), by setting      *)
(* stopfl, ignore_callback and max_callback_level.  What a handler stores  *)
(* after a callback that stops it, or stores before it reports an error,   *)
(* is lost in the code: every client resets the lexer before it feeds it   *)
(* again.  The clients are modules of their own: JsonslClient does what it *)
(* likes, Match and Validator are those of the library.                    *)
(***************************************************************************)
EXTENDS Chars

CONSTANT LevelsMax   \* levels_max: entries of the stack, the root included

ASSUME LevelsAssumption == LevelsMax \in Nat /\ LevelsMax > 1

VARIABLES
  text,               \* the bytes fed since the last reset
  pos,                \* jsn->pos
  level,              \* jsn->level
  stack,              \* jsn->stack
  expecting,          \* jsn->expecting: the structural token expected next
  tok_last,           \* jsn->tok_last, also STATE_NUM_LAST inside a number
  can_insert,         \* jsn->can_insert
  in_escape,          \* jsn->in_escape
  label,              \* where the loop resumes: "AGAIN" or "STRUCTURAL"
  max_callback_level, \* jsn->max_callback_level
  call_HKEY,          \* jsn->call_HKEY
  stopfl,             \* jsn->stopfl, set by jsonsl_stop()
  err,                \* the code error_callback was called with
  cb                  \* the callback in progress

feedVars   == <<text, pos, label>>
tokenVars  == <<expecting, tok_last, can_insert, in_escape>>
clientVars == <<max_callback_level, call_HKEY, stopfl>>
jsnVars    == <<feedVars, tokenVars, clientVars, level, stack, err, cb>>

-----------------------------------------------------------------------------
Level     == 0 .. LevelsMax - 1
Container == {"OBJECT", "LIST"}
Stringy   == {"STRING", "HKEY"}
Type      == {"ROOT", "SPECIAL"} \cup Container \cup Stringy

(* struct jsonsl_state_st; nelem is not kept for a number's digits. *)
State == [type : Type, nelem : Nat, pos_begin : Nat,
          ignore_callback : BOOLEAN, special_flags : SUBSET Flag]

BlankState == [type |-> "ROOT", nelem |-> 0, pos_begin |-> 0,
               ignore_callback |-> FALSE, special_flags |-> {}]

NoToken    == "none"
NoCallback == [action |-> "NONE", level |-> 0, at |-> 0]
CallbackRec  == [action : {"NONE", "PUSH", "POP"}, level : Level, at : Nat]

Error == {"SPECIAL_EXPECTED", "STRAY_TOKEN", "MISSING_TOKEN", "CANT_INSERT",
          "ESCAPE_OUTSIDE_STRING", "STRING_OUTSIDE_CONTAINER",
          "LEVELS_EXCEEDED", "BRACKET_MISMATCH", "HKEY_EXPECTED",
          "WEIRD_WHITESPACE", "ESCAPE_INVALID", "TRAILING_COMMA",
          "INVALID_NUMBER", "VALUE_EXPECTED"}

Char  == text[pos + 1]
Top   == stack[level]

(* jsonsl_feed() has a character to look at and nothing to wait for. *)
Running == /\ err = "SUCCESS"
           /\ ~stopfl
           /\ cb = NoCallback
           /\ pos < Len(text)

InString    == Running /\ Top.type \in Stringy
InSpecial   == Running /\ Top.type = "SPECIAL"
InContainerOrWord == Running /\ Top.type \notin Stringy   \* mutant
InContainer == Running /\ Top.type \notin Stringy \cup {"SPECIAL"}

Consume == pos' = pos + 1 /\ label' = "AGAIN" /\ UNCHANGED text

(* INVOKE_ERROR: error_callback of both clients returns 0, so the feed     *)
(* returns.                                                                *)
Fail(code) == /\ err' = code
              /\ UNCHANGED <<feedVars, tokenVars, clientVars, level, stack, cb>>

(* DO_CALLBACK(type, action) for the state at level lv. *)
Deliver(action, lv, type, ignored) ==
  cb' = IF /\ type = "HKEY" => call_HKEY
           /\ max_callback_level > lv
           /\ ~ignored
        THEN [action |-> action, level |-> lv, at |-> pos]
        ELSE NoCallback

Full == level >= LevelsMax - 1

(* STACK_PUSH, the new state's type and counters, and its PUSH callback;   *)
(* parent is the top state with the new element counted.                   *)
StackPush(parent, type, nelem, flags) ==
  /\ level' = level + 1
  /\ stack' = [stack EXCEPT
                 ![level] = parent,
                 ![level + 1] = [type |-> type, nelem |-> nelem,
                                 pos_begin |-> pos,
                                 ignore_callback |-> parent.ignore_callback,
                                 special_flags |-> flags]]
  /\ Deliver("PUSH", level + 1, type, parent.ignore_callback)

StackPopFirst(popped) ==   \* mutant: the callback after STACK_POP
  /\ stack' = [stack EXCEPT ![level] = popped]
  /\ level' = level - 1
  /\ Deliver("POP", level - 1, popped.type, popped.ignore_callback)

(* The POP callback of the top state and STACK_POP. *)
StackPop(popped) ==
  /\ stack' = [stack EXCEPT ![level] = popped]
  /\ level' = level - 1
  /\ Deliver("POP", level, popped.type, popped.ignore_callback)

CountNothing == Top   \* mutant
CountElement == [Top EXCEPT !.nelem = @ + 1]

(* A string keeps what the last user of its slot left in these two fields. *)
StaleNelem == IF Full THEN 0 ELSE stack[level + 1].nelem
StaleFlags == IF Full THEN {} ELSE stack[level + 1].special_flags

-----------------------------------------------------------------------------
(* Inside a string or a key. *)

StringEscaped ==
  /\ InString /\ in_escape
  /\ IF Char \notin AllowedEscape
     THEN Fail("ESCAPE_INVALID")
     ELSE /\ in_escape' = FALSE
          /\ Consume
          /\ UNCHANGED <<expecting, tok_last, can_insert, clientVars, level,
                         stack, err, cb>>

StringCharStuck ==   \* mutant: the cursor stays
  InString /\ ~in_escape /\ IsSimpleChar(Char) /\ UNCHANGED jsnVars

StringChar ==
  /\ InString /\ ~in_escape /\ IsSimpleChar(Char)
  /\ Consume
  /\ UNCHANGED <<tokenVars, clientVars, level, stack, err, cb>>

StringBadChar ==
  /\ InString /\ ~in_escape /\ ~IsSimpleChar(Char) /\ Char \notin {Quote, Bslash}
  /\ Fail("WEIRD_WHITESPACE")

StringBeginEscape ==
  /\ InString /\ ~in_escape /\ Char = Bslash
  /\ in_escape' = TRUE
  /\ Consume
  /\ UNCHANGED <<expecting, tok_last, can_insert, clientVars, level, stack,
                 err, cb>>

StringEnd ==
  /\ InString /\ ~in_escape /\ Char = Quote
  /\ can_insert' = FALSE
  /\ StackPop(Top)
  /\ Consume
  /\ UNCHANGED <<expecting, tok_last, in_escape, clientVars, err>>

-----------------------------------------------------------------------------
(* Inside a bare word or a number. *)

(* The digits after the first of an integer: num_fastparse() leaves        *)
(* STATE_NUM_LAST alone.                                                   *)
NumberFast ==
  /\ InSpecial /\ IsNormalNumber(Top.special_flags) /\ Char \in Digit
  /\ Consume
  /\ UNCHANGED <<tokenVars, clientVars, level, stack, err, cb>>

(* The character after a leading minus. *)
NumberDash ==
  /\ InSpecial /\ Top.special_flags = {"DASH"}
  /\ IF Char \notin Digit
     THEN Fail("INVALID_NUMBER")
     ELSE /\ stack' = [stack EXCEPT ![level].special_flags =
                         IF Char = "0" THEN ZERO \cup {"SIGNED"} ELSE {"SIGNED"}]
          /\ Consume
          /\ UNCHANGED <<tokenVars, clientVars, level, err, cb>>

(* Only a zero without a sign is checked for a digit that follows it; the  *)
(* flag is dropped once another character has been seen.                   *)
LeadingZero  == Top.special_flags = ZERO
NumberFlags  == IF LeadingZero THEN {"UNSIGNED"} ELSE Top.special_flags
InNumber     == InSpecial /\ IsNumeric(Top.special_flags)
SlowDigit    == /\ Char \in Digit
                /\ ~IsNormalNumber(Top.special_flags)
                /\ ~LeadingZero

NumberDigitForgets ==   \* mutant: tok_last stays
  /\ InNumber /\ SlowDigit /\ Consume
  /\ UNCHANGED <<tokenVars, clientVars, level, stack, err, cb>>

NumberDigit ==
  /\ InNumber /\ SlowDigit
  /\ tok_last' = "1"
  /\ Consume
  /\ UNCHANGED <<expecting, can_insert, in_escape, clientVars, level, stack,
                 err, cb>>

(* A dot, an exponent and its sign. *)
NumberMark(flag, last) ==
  /\ stack' = [stack EXCEPT ![level].special_flags = NumberFlags \cup flag]
  /\ tok_last' = last
  /\ Consume
  /\ UNCHANGED <<expecting, can_insert, in_escape, clientVars, level, err, cb>>

NumberDot ==
  /\ InNumber /\ Char = "." /\ "FLOAT" \notin Top.special_flags
  /\ NumberMark({"FLOAT"}, ".")

NumberExponent ==
  /\ InNumber /\ Char = "e" /\ "EXPONENT" \notin Top.special_flags
  /\ NumberMark({"EXPONENT"}, "e")

NumberSign ==
  /\ InNumber /\ Char \in Sign /\ tok_last = "e"
  /\ NumberMark({}, "-")

NumberInvalid ==
  /\ InNumber /\ Char \notin SpecialEnd
  /\ CASE Char \in Digit -> LeadingZero
       [] Char = "."     -> "FLOAT" \in Top.special_flags
       [] Char = "e"     -> "EXPONENT" \in Top.special_flags
       [] Char \in Sign  -> tok_last # "e"
       [] OTHER          -> TRUE
  /\ Fail("INVALID_NUMBER")

(* VERIFY_SPECIAL: nothing may follow a complete word. *)
WordInvalid ==
  /\ InSpecial /\ ~IsNumeric(Top.special_flags) /\ "DASH" \notin Top.special_flags
  /\ Char \notin SpecialEnd
  /\ Fail("SPECIAL_EXPECTED")

(* GT_SPECIAL_POP: the word ends before this character.  White space is    *)
(* consumed with it, any other character goes to GT_STRUCTURAL_TOKEN.      *)
SpecialPop ==
  LET flags == NumberFlags
      final == IF flags = ZERO \cup {"SIGNED"} THEN {"UNSIGNED"} ELSE flags
  IN
  /\ InSpecial /\ "DASH" \notin Top.special_flags /\ Char \in SpecialEnd
  /\ IF IsNumeric(final) /\ ~IsNormalNumber(final) /\ tok_last # "1"
     THEN Fail("INVALID_NUMBER")
     ELSE /\ StackPop([Top EXCEPT !.special_flags = final])
          /\ tok_last' = NoToken
          /\ expecting' = ","
          /\ IF Char \in Whitespace
             THEN Consume
             ELSE label' = "STRUCTURAL" /\ UNCHANGED <<text, pos>>
          /\ UNCHANGED <<can_insert, in_escape, clientVars, err>>

-----------------------------------------------------------------------------
(* Between values: in an object, in a list, or at the root. *)

SkipWhitespaceStuck ==   \* mutant: the cursor stays
  InContainer /\ label = "AGAIN" /\ Char \in Whitespace /\ UNCHANGED jsnVars

SkipWhitespace ==
  /\ InContainer /\ label = "AGAIN" /\ Char \in Whitespace
  /\ Consume
  /\ UNCHANGED <<tokenVars, clientVars, level, stack, err, cb>>

(* A quote opens a value or, in an object with every key paired, a key.    *)
(* In a list nothing is required of the token before it.                   *)
OpensKey == Top.type = "OBJECT" /\ Top.nelem % 2 = 0

StringError ==
  IF Top.type = "ROOT" THEN "STRING_OUTSIDE_CONTAINER"
    ELSE IF Top.type = "OBJECT" /\ ~OpensKey /\ tok_last # ":" THEN "MISSING_TOKEN"
    ELSE IF OpensKey /\ expecting # Quote THEN "STRAY_TOKEN"
    ELSE IF Full THEN "LEVELS_EXCEEDED"
    ELSE "SUCCESS"

StringBegin ==
  /\ InContainer /\ label = "AGAIN" /\ Char = Quote
  /\ IF StringError # "SUCCESS"
     THEN Fail(StringError)
     ELSE /\ can_insert' = FALSE
          /\ expecting' = IF OpensKey THEN ":" ELSE ","
          /\ tok_last' = NoToken
          /\ StackPush(CountElement, IF OpensKey THEN "HKEY" ELSE "STRING",
                       StaleNelem, StaleFlags)
          /\ Consume
          /\ UNCHANGED <<in_escape, clientVars, err>>

Colon ==
  /\ InContainer /\ Char = ":"
  /\ IF expecting # ":"
     THEN Fail("STRAY_TOKEN")
     ELSE /\ tok_last' = ":"
          /\ can_insert' = TRUE
          /\ expecting' = Quote
          /\ Consume
          /\ UNCHANGED <<in_escape, clientVars, level, stack, err, cb>>

Comma ==
  /\ InContainer /\ Char = ","
  /\ IF expecting # ","
     THEN Fail("STRAY_TOKEN")
     ELSE /\ can_insert' = (IF Top.type = "OBJECT" THEN can_insert ELSE TRUE)
          /\ tok_last' = ","
          /\ expecting' = Quote
          /\ Consume
          /\ UNCHANGED <<in_escape, clientVars, level, stack, err, cb>>

(* ENSURE_HVAL: a value in an object needs a key before it. *)
KeyMissingNever == FALSE   \* mutant
KeyMissing == Top.type = "OBJECT" /\ Top.nelem % 2 = 0

OpenError ==
  IF ~can_insert THEN "CANT_INSERT"
    ELSE IF KeyMissing THEN "HKEY_EXPECTED"
    ELSE IF Full THEN "LEVELS_EXCEEDED"
    ELSE "SUCCESS"

OpenContainer ==
  /\ InContainer /\ Char \in {"{", "["}
  /\ IF OpenError # "SUCCESS"
     THEN Fail(OpenError)
     ELSE /\ can_insert' = TRUE
          /\ expecting' = IF Char = "{" THEN Quote ELSE expecting
          /\ tok_last' = NoToken
          /\ StackPush(CountElement, IF Char = "{" THEN "OBJECT" ELSE "LIST",
                       0, StaleFlags)
          /\ Consume
          /\ UNCHANGED <<in_escape, clientVars, err>>

CloseErrorUnmatched ==   \* mutant: "]" closes anything
  IF tok_last = "," THEN "TRAILING_COMMA"
    ELSE IF Char = "}" /\ Top.type # "OBJECT" THEN "BRACKET_MISMATCH"
    ELSE IF Char = "}" /\ Top.nelem % 2 # 0 THEN "VALUE_EXPECTED"
    ELSE "SUCCESS"

CloseError ==
  IF tok_last = "," THEN "TRAILING_COMMA"
    ELSE IF Char = "]" /\ Top.type # "LIST" THEN "BRACKET_MISMATCH"
    ELSE IF Char = "}" /\ Top.type # "OBJECT" THEN "BRACKET_MISMATCH"
    ELSE IF Char = "}" /\ Top.nelem % 2 # 0 THEN "VALUE_EXPECTED"
    ELSE "SUCCESS"

CloseContainer ==
  /\ InContainer /\ Char \in {"}", "]"}
  /\ IF CloseError # "SUCCESS"
     THEN Fail(CloseError)
     ELSE /\ can_insert' = FALSE
          /\ expecting' = ","
          /\ tok_last' = NoToken
          /\ StackPop(Top)
          /\ Consume
          /\ UNCHANGED <<in_escape, clientVars, err>>

(* GT_SPECIAL_BEGIN *)
SpecialError ==
  IF KeyMissing THEN "HKEY_EXPECTED"
    ELSE IF ~can_insert THEN "CANT_INSERT"
    ELSE IF Full THEN "LEVELS_EXCEEDED"
    ELSE "SUCCESS"

SpecialBegin ==
  /\ InContainer /\ ExtractSpecial(Char) # {}
  /\ IF SpecialError # "SUCCESS"
     THEN Fail(SpecialError)
     ELSE /\ tok_last' = IF ExtractSpecial(Char) = {"UNSIGNED"} THEN "1" ELSE "-"
          /\ StackPush(CountElement, "SPECIAL", 0, ExtractSpecial(Char))
          /\ Consume
          /\ UNCHANGED <<expecting, can_insert, in_escape, clientVars, err>>

(* What is left: a character that begins nothing; after a bare word also   *)
(* a quote or a backslash, which GT_STRUCTURAL_TOKEN does not know.        *)
Structural == {":", ",", "{", "[", "}", "]"}

UnexpectedChar ==
  /\ InContainer /\ Char \notin Structural /\ ExtractSpecial(Char) = {}
  /\ label = "AGAIN" => Char \notin Whitespace \cup {Quote}
  /\ Fail(IF label = "AGAIN" /\ Char = Bslash
          THEN "ESCAPE_OUTSIDE_STRING" ELSE "SPECIAL_EXPECTED")

(* jsonsl_feed(): the handler of the next character. *)
Feed ==
  \/ StringEscaped \/ StringChar \/ StringBadChar \/ StringBeginEscape \/ StringEnd
  \/ NumberFast \/ NumberDash \/ NumberDigit \/ NumberDot \/ NumberExponent
  \/ NumberSign \/ NumberInvalid \/ WordInvalid \/ SpecialPop
  \/ SkipWhitespace \/ StringBegin \/ Colon \/ Comma \/ OpenContainer
  \/ CloseContainer \/ SpecialBegin \/ UnexpectedChar

-----------------------------------------------------------------------------
(* What a client does. *)

(* jsonsl_reset(); the callbacks and their level limit stay. *)
Reset ==
  /\ cb = NoCallback
  /\ text' = <<>> /\ pos' = 0 /\ label' = "AGAIN"
  /\ level' = 0 /\ stack' = [l \in Level |-> BlankState]
  /\ expecting' = NoToken /\ tok_last' = NoToken
  /\ can_insert' = TRUE /\ in_escape' = FALSE
  /\ stopfl' = FALSE /\ err' = "SUCCESS"
  /\ UNCHANGED <<max_callback_level, call_HKEY, cb>>

(* The client sets its callbacks and calls jsonsl_feed(jsn, bytes, nbytes); *)
(* an earlier call has returned without an error and without a stop.        *)
CallFeed(bytes, maxLevel, keys) ==
  /\ err = "SUCCESS" /\ ~stopfl /\ cb = NoCallback
  /\ pos = Len(text)
  /\ text' = text \o bytes
  /\ max_callback_level' = maxLevel
  /\ call_HKEY' = keys
  /\ UNCHANGED <<pos, label, tokenVars, stopfl, level, stack, err, cb>>

(* The answer to a callback. *)
Answer(stop, ignore, maxLevel) ==
  /\ cb # NoCallback
  /\ cb' = NoCallback
  /\ stopfl' = stop
  /\ stack' = [stack EXCEPT ![cb.level].ignore_callback = ignore]
  /\ max_callback_level' = maxLevel
  /\ UNCHANGED <<feedVars, tokenVars, call_HKEY, level, err>>

JsonslInit ==
  /\ text = <<>> /\ pos = 0 /\ label = "AGAIN"
  /\ level = 0 /\ stack = [l \in Level |-> BlankState]
  /\ expecting = NoToken /\ tok_last = NoToken
  /\ can_insert = TRUE /\ in_escape = FALSE
  /\ stopfl = FALSE /\ err = "SUCCESS" /\ cb = NoCallback
  /\ max_callback_level = 0 /\ call_HKEY = FALSE

-----------------------------------------------------------------------------
JsonslTypeOK ==
  /\ text \in Seq(STRING)
  /\ pos \in 0 .. Len(text)
  /\ label \in {"AGAIN", "STRUCTURAL"}
  /\ level \in Level
  /\ stack \in [Level -> State]
  /\ expecting \in {NoToken, Quote, ":", ","}
  /\ tok_last \in {NoToken, ":", ",", "1", ".", "e", "-"}
  /\ can_insert \in BOOLEAN /\ in_escape \in BOOLEAN
  /\ max_callback_level \in Nat /\ call_HKEY \in BOOLEAN
  /\ stopfl \in BOOLEAN /\ err \in Error \cup {"SUCCESS"}
  /\ cb \in CallbackRec

(* The symbol a state of each type begins with. *)
OpenedBy(type, ch) ==
  CASE type = "OBJECT"  -> ch = "{"
    [] type = "LIST"    -> ch = "["
    [] type \in Stringy -> ch = Quote
    [] type = "SPECIAL" -> ExtractSpecial(ch) # {}
    [] OTHER            -> FALSE

(* Every open state begins at a symbol of the text that opens a state of   *)
(* its type, before the cursor, and inside the state below it; only the    *)
(* top of the stack is not a container.  The clients cut the document at   *)
(* jsn->pos - state->pos_begin, an unsigned difference.                    *)
StackMirrorsText ==
  /\ stack[0].type = "ROOT"
  /\ \A l \in 1 .. level :
       /\ stack[l].pos_begin < pos
       /\ OpenedBy(stack[l].type, text[stack[l].pos_begin + 1])
       /\ l < level => /\ stack[l].type \in Container
                       /\ stack[l].pos_begin < stack[l + 1].pos_begin

(* In an object the count is odd while a key is open and even while a      *)
(* value is: parent->nelem / 2 - 1 in push_callback() numbers the member   *)
(* and does not wrap.  A key is open only in an object.                    *)
KeysPairWithValues ==
  \A l \in 0 .. level - 1 :
    /\ stack[l].nelem > 0
    /\ (stack[l + 1].type = "HKEY") =
       (stack[l].type = "OBJECT" /\ stack[l].nelem % 2 = 1)

(* A callback is about the state just pushed, which begins where the       *)
(* cursor was, or about the one just popped, which began before it and     *)
(* still stands above the top of the stack as its parent's last child.     *)
CallbackSeesItsState ==
  cb # NoCallback =>
    /\ cb.at < Len(text)
    /\ cb.level > 0
    /\ OpenedBy(stack[cb.level].type, text[stack[cb.level].pos_begin + 1])
    /\ cb.action = "PUSH" => cb.level = level /\ stack[level].pos_begin = cb.at
    /\ cb.action = "POP"  => /\ cb.level = level + 1
                             /\ stack[cb.level].pos_begin < cb.at
                             /\ stack[level].nelem > 0
                             /\ stack[level].pos_begin < stack[cb.level].pos_begin
                                  \/ level = 0
=============================================================================
