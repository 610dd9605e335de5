---------------------------- MODULE JsonGrammar ----------------------------
(***************************************************************************)
(* What the lexer promises: JSON as RFC 4627 defines it (the RFC jsonsl's  *)
(* tables cite; the outermost value is an object or a list), as a          *)
(* recogniser that reads one symbol at a time.  It knows nothing of        *)
(* jsonsl: no callbacks, no expecting/tok_last/can_insert registers.       *)
(*                                                                         *)
(* Step(strict, g, ch) with strict = FALSE is the larger language that     *)
(* jsonsl really holds its input to: inside an object the key, the colon,  *)
(* the value and the comma alternate as they should, but values and commas *)
(* in a list (or at the top level) may come in any order, and a number is  *)
(* any run of number characters that ends in a digit.                      *)
(***************************************************************************)
EXTENDS Chars

(* ctx: the open containers, outermost first; at: where in the innermost   *)
(* one we are; num: the part of a number we are in.                        *)
Location == {"start", "value", "value_or_close", "key", "key_or_close",
             "in_key", "key_escape", "colon", "in_string", "string_escape",
             "in_number", "in_word", "separator", "done", "bad"}

NumberPart == {"none", "minus", "zero", "int", "dot", "frac", "e", "esign", "edigit"}

Start == [ctx |-> <<>>, at |-> "start", num |-> "none"]

Bad(g) == [g EXCEPT !.at = "bad"]
Goto(g, loc) == [g EXCEPT !.at = loc, !.num = "none"]

InObject(g) == g.ctx # <<>> /\ g.ctx[Len(g.ctx)] = "obj"
InList(g)   == g.ctx # <<>> /\ g.ctx[Len(g.ctx)] = "list"
Loose(strict, g) == ~strict /\ ~InObject(g)

(* A value has just ended. *)
AfterValue(g) == Goto(g, IF g.ctx = <<>> THEN "done" ELSE "separator")

NumberStart(ch) == CASE ch = "-" -> "minus"
                     [] ch = "0" -> "zero"
                     [] OTHER    -> "int"

(* The parts of a number that may end it, and the moves between parts. *)
NumberEnds(num) == num \in {"zero", "int", "frac", "edigit"}

NumberNext(strict, num, ch) ==
  IF ch = "0" /\ num = "minus" THEN "zero"
    ELSE IF ch \in Digit /\ num \in {"minus", "int"} THEN "int"
    ELSE IF ch \in Digit /\ num \in {"dot", "frac"} THEN "frac"
    ELSE IF ch \in Digit /\ num \in {"e", "esign", "edigit"} THEN "edigit"
    ELSE IF ch = "." /\ num \in {"zero", "int"} THEN "dot"
    ELSE IF ch = "e" /\ num \in {"zero", "int", "frac"} THEN "e"
    ELSE IF ch \in Sign /\ num = "e" THEN "esign"
    ELSE IF ~strict /\ ch \in Digit THEN "int"
    ELSE IF ~strict /\ ch \in {".", "e"} \cup Sign THEN "dot"
    ELSE "none"

(* The places where a value may begin, and where a container may close. *)
ValueMayBegin(strict, g) ==
  \/ g.at \in {"value", "value_or_close"}
  \/ Loose(strict, g) /\ g.at \in {"start", "separator", "done"}

CloseMayCome(strict, g) ==
  \/ g.at \in {"value_or_close", "key_or_close", "separator"}
  \/ Loose(strict, g) /\ g.at = "value"

Open(g, kind) == [ctx |-> Append(g.ctx, kind), num |-> "none",
                  at |-> IF kind = "obj" THEN "key_or_close" ELSE "value_or_close"]

Close(g) == AfterValue([g EXCEPT !.ctx = SubSeq(@, 1, Len(@) - 1)])

(* A symbol outside strings, keys, words and numbers. *)
Between(strict, g, ch) ==
  CASE ch \in Whitespace -> g
    [] ch \in {"{", "["} ->
         IF ValueMayBegin(strict, g) \/ g.at = "start"
         THEN Open(g, IF ch = "{" THEN "obj" ELSE "list") ELSE Bad(g)
    [] ch = "}" -> IF InObject(g) /\ CloseMayCome(strict, g) THEN Close(g) ELSE Bad(g)
    [] ch = "]" -> IF InList(g) /\ CloseMayCome(strict, g) THEN Close(g) ELSE Bad(g)
    [] ch = ":" -> IF g.at = "colon" THEN Goto(g, "value") ELSE Bad(g)
    [] ch = "," ->
         IF g.at = "separator" THEN Goto(g, IF InObject(g) THEN "key" ELSE "value")
           ELSE IF Loose(strict, g) THEN Goto(g, "value")
           ELSE Bad(g)
    [] ch = Quote ->
         IF g.at \in {"key", "key_or_close"} THEN Goto(g, "in_key")
           ELSE IF ValueMayBegin(strict, g) THEN Goto(g, "in_string")
           ELSE Bad(g)
    [] ExtractSpecial(ch) # {} /\ ValueMayBegin(strict, g) ->
         IF ch \in Digit \cup {"-"}
         THEN [g EXCEPT !.at = "in_number", !.num = NumberStart(ch)]
         ELSE Goto(g, "in_word")
    [] OTHER -> Bad(g)

(* Inside a string or a key; the hexadecimal digits after \u are not       *)
(* looked at, here or in the lexer.                                        *)
InQuotes(g, ch, escape, inside, after) ==
  IF g.at = escape THEN IF ch \in AllowedEscape THEN Goto(g, inside) ELSE Bad(g)
    ELSE IF ch = Quote THEN after
    ELSE IF ch = Bslash THEN Goto(g, escape)
    ELSE IF IsSimpleChar(ch) THEN g ELSE Bad(g)

Step(strict, g, ch) ==
  CASE g.at = "bad" -> g
    [] g.at \in {"in_key", "key_escape"} ->
         InQuotes(g, ch, "key_escape", "in_key", Goto(g, "colon"))
    [] g.at \in {"in_string", "string_escape"} ->
         InQuotes(g, ch, "string_escape", "in_string", AfterValue(g))
    [] g.at = "in_word" ->
         IF ch \in SpecialEnd THEN Between(strict, AfterValue(g), ch) ELSE Bad(g)
    [] g.at = "in_number" ->
         IF ch \in SpecialEnd
         THEN IF NumberEnds(g.num) THEN Between(strict, AfterValue(g), ch) ELSE Bad(g)
         ELSE IF NumberNext(strict, g.num, ch) = "none" THEN Bad(g)
              ELSE [g EXCEPT !.num = NumberNext(strict, g.num, ch)]
    [] OTHER -> Between(strict, g, ch)

Viable(g)   == g.at # "bad"
Complete(g) == g.at = "done"
=============================================================================
