--------------------------- MODULE LanguageSteps ---------------------------
(***************************************************************************)
(* The lexer reads what the grammar says: the lemmas that couple the stack *)
(* and the registers of jsonsl with the recognisers of JsonGrammar, step   *)
(* by step, for every text, every stack size and every client.             *)
(***************************************************************************)
EXTENDS JsonslSteps, JsonslReaders

(* The reader as it stands before the next symbol: after a word or number  *)
(* that this symbol has ended (GT_STRUCTURAL_TOKEN), the value is over.    *)
Facing(g) == IF label = "STRUCTURAL" THEN AfterValue(g) ELSE g

Reader == [ctx : Seq({"obj", "list"}), at : Location \ {"bad"}, num : NumberPart]

KindOf(type) == IF type = "OBJECT" THEN "obj" ELSE "list"

(* The containers the reader is in are those on the stack. *)
SameNesting(nest, states, top) ==
  /\ Len(nest) = IF states[top].type \in Container \cup {"ROOT"} THEN top ELSE top - 1
  /\ \A l \in 1 .. Len(nest) : nest[l] = KindOf(states[l].type)

(* Where the reader is inside a string or key, and what the registers hold *)
(* until it ends.                                                          *)
Quoted(g, inside, escape, next) ==
  /\ g.at = IF in_escape THEN escape ELSE inside
  /\ expecting = next /\ tok_last = NoToken /\ ~can_insert

(* In a bare word, or in a number whose flags and last character tell what *)
(* part of it has been read.                                               *)
InWord(g) == g.at = "in_word" /\ ~IsNumeric(Top.special_flags) /\ "DASH" \notin Top.special_flags

NegativeZero == ZERO \cup {"SIGNED"}

InDigits(g) ==
  /\ g.at = "in_number"
  /\ IF Top.special_flags = {"DASH"} THEN g.num = "minus"
     ELSE IsNumeric(Top.special_flags) /\ "DASH" \notin Top.special_flags
  /\ tok_last = "e" => "EXPONENT" \in Top.special_flags
  /\ \/ IsNormalNumber(Top.special_flags)
     \/ Top.special_flags \in {ZERO, NegativeZero}
     \/ tok_last = "1"
     => NumberEnds(g.num)

(* The same for a number that has kept to JSON so far. *)
InJsonNumber(num) ==
  LET flags == Top.special_flags
  IN CASE num = "minus" -> flags = {"DASH"} /\ tok_last = "-"
       [] num = "zero"  -> flags \in {ZERO, NegativeZero} /\ tok_last = "-"
       [] num = "int"   -> IsNormalNumber(flags) /\ tok_last \in {"1", "-"}
       [] num \in {"dot", "frac"} ->
            /\ "FLOAT" \in flags /\ "EXPONENT" \notin flags
            /\ tok_last = IF num = "dot" THEN "." ELSE "1"
       [] num \in {"e", "esign", "edigit"} ->
            /\ "EXPONENT" \in flags
            /\ tok_last = (CASE num = "e" -> "e" [] num = "esign" -> "-" [] num = "edigit" -> "1")
       [] OTHER -> FALSE

(* Between values, by the container. *)
AtRoot(g) ==
  /\ g.at \in {"start", "value", "done"}
  /\ expecting # ":" 
  /\ g.at = "start" => can_insert

AmongElements(g) ==
  /\ expecting # ":"
  /\ \/ g.at = "value_or_close" /\ can_insert /\ tok_last # ","
     \/ g.at = "value" /\ can_insert
     \/ g.at = "separator" /\ expecting = "," /\ tok_last # ","

AmongMembers(g) ==
  \/ /\ Top.nelem % 2 = 0
     /\ \/ g.at = "key_or_close" /\ expecting = Quote /\ tok_last = NoToken
        \/ g.at = "separator" /\ expecting = "," /\ tok_last = NoToken
        \/ g.at = "key" /\ expecting = Quote /\ tok_last = ","
  \/ /\ Top.nelem % 2 = 1
     /\ \/ g.at = "colon" /\ expecting = ":" /\ tok_last = NoToken /\ ~can_insert
        \/ g.at = "value" /\ expecting = Quote /\ tok_last = ":" /\ can_insert

Place(g) ==
  CASE Top.type = "HKEY"    -> Quoted(g, "in_key", "key_escape", ":")
    [] Top.type = "STRING"  -> Quoted(g, "in_string", "string_escape", ",")
    [] Top.type = "SPECIAL" -> InWord(g) \/ InDigits(g)
    [] Top.type = "ROOT"    -> AtRoot(g)
    [] Top.type = "LIST"    -> AmongElements(g)
    [] Top.type = "OBJECT"  -> AmongMembers(g)

(* The lexer has left the word or number; the reader has still to see the  *)
(* symbol that ends it.                                                    *)
Pending ==
  /\ loose.at \in {"in_word", "in_number"}
  /\ loose.at = "in_number" => NumberEnds(loose.num)
  /\ pos < Len(text) /\ Char \in SpecialEnd \ Whitespace
  /\ Top.type \notin Stringy \cup {"SPECIAL"}

Coupled ==
  /\ loose \in Reader
  /\ SameNesting(loose.ctx, stack, level)
  /\ Place(Facing(loose))
  /\ label = "STRUCTURAL" => Pending
  /\ in_escape => Top.type \in Stringy

StrictCoupled ==
  Viable(strict) =>
    /\ strict = loose
    /\ Top.type = "SPECIAL" /\ strict.at = "in_number" => InJsonNumber(strict.num)
    /\ Top.type = "ROOT" => strict.at # "value"

Refused == err # "SUCCESS" => cb = NoCallback /\ AcceptsJson

LanguageInv == JsonslInv /\ Coupled /\ StrictCoupled /\ Refused

-----------------------------------------------------------------------------
(* The recognisers, a symbol at a time. *)

\* A reader that has gone wrong never reads on.
LEMMA BadStays == \A g \in Reader : ~Viable(Bad(g))
  BY DEF Reader, Bad, Viable

\* Moving a reader keeps its containers,
LEMMA GotoType ==
  ASSUME NEW g \in Reader, NEW loc \in Location \ {"bad"}
  PROVE  /\ Goto(g, loc) \in Reader /\ Goto(g, loc).at = loc
         /\ Goto(g, loc).ctx = g.ctx /\ Goto(g, loc).num = "none"
  BY DEF Reader, Goto, NumberPart

\* and so does ending a value.
LEMMA AfterValueType ==
  ASSUME NEW g \in Reader
  PROVE  /\ AfterValue(g) \in Reader /\ AfterValue(g).ctx = g.ctx
         /\ AfterValue(g).at = IF g.ctx = <<>> THEN "done" ELSE "separator"
         /\ AfterValue(g).num = "none"
  BY GotoType DEF AfterValue, Location

(* Where a value may begin and a container end, as the grammar's two       *)
(* languages have it.                                                      *)
MayBegin(rigid, g) ==
  \/ g.at \in {"value", "value_or_close"}
  \/ ~rigid /\ ~InObject(g) /\ g.at \in {"start", "separator", "done"}

MayClose(rigid, g) ==
  \/ g.at \in {"value_or_close", "key_or_close", "separator"}
  \/ ~rigid /\ ~InObject(g) /\ g.at = "value"

(* The reader's next state between values, symbol by symbol.  The two      *)
(* languages have operators of their own: the provers do not take a truth  *)
(* value for an argument.                                                  *)
LooseBetween(g, ch) == Between(FALSE, g, ch)
JsonBetween(g, ch)  == Between(TRUE, g, ch)
LooseStep(g, ch)    == Step(FALSE, g, ch)
JsonStep(g, ch)     == Step(TRUE, g, ch)

Known == Whitespace \cup Structural \cup Digit \cup {Quote, "-", "true", "false", "null"}

Numbered(g, part) == [g EXCEPT !.at = "in_number", !.num = part]

Either(condition, next, g, move) == next = IF condition THEN move ELSE Bad(g)

BetweenTable(next, rigid, g, ch) ==
  /\ ch \in Whitespace => next = g
  /\ ch = "{" => Either(MayBegin(rigid, g) \/ g.at = "start", next, g, Open(g, "obj"))
  /\ ch = "[" => Either(MayBegin(rigid, g) \/ g.at = "start", next, g, Open(g, "list"))
  /\ ch = "}" => Either(InObject(g) /\ MayClose(rigid, g), next, g, Close(g))
  /\ ch = "]" => Either(InList(g) /\ MayClose(rigid, g), next, g, Close(g))
  /\ ch = ":" => Either(g.at = "colon", next, g, Goto(g, "value"))
  /\ ch = "," /\ g.at = "separator" => next = Goto(g, IF InObject(g) THEN "key" ELSE "value")
  /\ ch = "," /\ g.at # "separator" => Either(~rigid /\ ~InObject(g), next, g, Goto(g, "value"))
  /\ ch = Quote /\ g.at \in {"key", "key_or_close"} => next = Goto(g, "in_key")
  /\ ch = Quote /\ g.at \notin {"key", "key_or_close"} =>
       Either(MayBegin(rigid, g), next, g, Goto(g, "in_string"))
  /\ ch \in Digit \cup {"-"} => Either(MayBegin(rigid, g), next, g, Numbered(g, NumberStart(ch)))
  /\ ch \in {"true", "false", "null"} => Either(MayBegin(rigid, g), next, g, Goto(g, "in_word"))
  /\ ch \notin Known => next = Bad(g)

\* What a symbol does between values, read off the definition of Between once
\* and for all,
LEMMA BetweenSymbols ==
  \A rigid \in BOOLEAN : \A g, ch : BetweenTable(Between(rigid, g, ch), rigid, g, ch)
<1> TAKE rigid \in BOOLEAN
<1> TAKE g, ch
<1>1. ExtractSpecial(ch) # {} <=> ch \in Digit \cup {"-", "true", "false", "null"}
  BY DEF ExtractSpecial, Digit, ZERO
<1>2. (ValueMayBegin(rigid, g) <=> MayBegin(rigid, g)) /\ (CloseMayCome(rigid, g) <=> MayClose(rigid, g))
      /\ (Loose(rigid, g) <=> ~rigid /\ ~InObject(g))
  BY DEF ValueMayBegin, CloseMayCome, Loose, MayBegin, MayClose
<1> USE <1>1, <1>2 DEF BetweenTable, Between, Quote, Digit, Whitespace, Known, Structural, Either, Numbered
<1>3. CASE ch \in Whitespace
  BY <1>3
<1>4. CASE ch \in {"{", "["}
  BY <1>4
<1>5. CASE ch \in {"}", "]", ":", ",", Quote}
  BY <1>5
<1>6. CASE ch \in Digit \cup {"-"}
  BY <1>6
<1>7. CASE ch \in {"true", "false", "null"}
  BY <1>7
<1>8. CASE ch \notin Known
  BY <1>8
<1> QED
  BY <1>3, <1>4, <1>5, <1>6, <1>7, <1>8

\* in the grammar the lexer means to accept
LEMMA LooseBetweenSymbols == \A g, ch : BetweenTable(LooseBetween(g, ch), FALSE, g, ch)
  BY BetweenSymbols, Zenon DEF LooseBetween

\* and in JSON.
LEMMA JsonBetweenSymbols == \A g, ch : BetweenTable(JsonBetween(g, ch), TRUE, g, ch)
  BY BetweenSymbols, Zenon DEF JsonBetween

(* And everywhere else: after is what Between gives once the value is over.*)
StepTable(next, between, after, number, g, ch) ==
  /\ g.at \in {"in_key", "key_escape"} =>
       next = InQuotes(g, ch, "key_escape", "in_key", Goto(g, "colon"))
  /\ g.at \in {"in_string", "string_escape"} =>
       next = InQuotes(g, ch, "string_escape", "in_string", AfterValue(g))
  /\ g.at = "in_word" => next = IF ch \in SpecialEnd THEN after ELSE Bad(g)
  /\ g.at = "in_number" =>
       next = IF ch \in SpecialEnd
              THEN IF NumberEnds(g.num) THEN after ELSE Bad(g)
              ELSE IF number = "none" THEN Bad(g) ELSE [g EXCEPT !.num = number]
  /\ g.at \notin {"in_key", "key_escape", "in_string", "string_escape", "in_word", "in_number"}
       => next = between

\* What a symbol does wherever the reader is, in the same way,
LEMMA StepSymbols ==
  \A rigid, ch : \A g \in Reader :
    StepTable(Step(rigid, g, ch), Between(rigid, g, ch), Between(rigid, AfterValue(g), ch),
              NumberNext(rigid, g.num, ch), g, ch)
<1> TAKE rigid, ch
<1> TAKE g \in Reader
<1> USE DEF StepTable, Step, Reader
<1>1. CASE g.at \in {"in_key", "key_escape"}
  BY <1>1
<1>2. CASE g.at \in {"in_string", "string_escape"}
  BY <1>2
<1>3. CASE g.at = "in_word"
  BY <1>3
<1>4. CASE g.at = "in_number"
  BY <1>4
<1>5. CASE g.at \notin {"in_key", "key_escape", "in_string", "string_escape", "in_word", "in_number"}
  BY <1>5
<1> QED
  BY <1>1, <1>2, <1>3, <1>4, <1>5

LooseNumber(num, ch) == NumberNext(FALSE, num, ch)
JsonNumber(num, ch)  == NumberNext(TRUE, num, ch)

\* in the loose grammar
LEMMA LooseStepSymbols ==
  \A ch : \A g \in Reader :
    StepTable(LooseStep(g, ch), LooseBetween(g, ch), LooseBetween(AfterValue(g), ch),
              LooseNumber(g.num, ch), g, ch)
  BY StepSymbols, Zenon DEF LooseStep, LooseBetween, LooseNumber

\* and in JSON.
LEMMA JsonStepSymbols ==
  \A ch : \A g \in Reader :
    StepTable(JsonStep(g, ch), JsonBetween(g, ch), JsonBetween(AfterValue(g), ch),
              JsonNumber(g.num, ch), g, ch)
  BY StepSymbols, Zenon DEF JsonStep, JsonBetween, JsonNumber

(* What JSON allows, the loose language allows in the same way. *)
LEMMA BetweenStrictIsLoose ==
  ASSUME NEW g \in Reader, NEW ch, Viable(JsonBetween(g, ch))
  PROVE  LooseBetween(g, ch) = JsonBetween(g, ch)
<1>1. JsonBetween(g, ch) # Bad(g)
  BY BadStays
<1>2. BetweenTable(LooseBetween(g, ch), FALSE, g, ch) /\ BetweenTable(JsonBetween(g, ch), TRUE, g, ch)
  BY LooseBetweenSymbols, JsonBetweenSymbols
<1>3. CASE ch \in Whitespace
  BY <1>1, <1>2, <1>3 DEF BetweenTable, Either, MayBegin, MayClose
<1>4. CASE ch = "{"
  BY <1>1, <1>2, <1>4 DEF BetweenTable, Either, MayBegin, MayClose
<1>5. CASE ch = "["
  BY <1>1, <1>2, <1>5 DEF BetweenTable, Either, MayBegin, MayClose
<1>6. CASE ch = "}"
  BY <1>1, <1>2, <1>6 DEF BetweenTable, Either, MayBegin, MayClose
<1>7. CASE ch = "]"
  BY <1>1, <1>2, <1>7 DEF BetweenTable, Either, MayBegin, MayClose
<1>8. CASE ch = ":"
  BY <1>1, <1>2, <1>8 DEF BetweenTable, Either, MayBegin, MayClose
<1>9. CASE ch = ","
  BY <1>1, <1>2, <1>9 DEF BetweenTable, Either, MayBegin, MayClose
<1>10. CASE ch = Quote
  BY <1>1, <1>2, <1>10 DEF BetweenTable, Either, MayBegin, MayClose
<1>11. CASE ch \in Digit \cup {"-"}
  <2>1. /\ Either(MayBegin(TRUE, g), JsonBetween(g, ch), g, Numbered(g, NumberStart(ch)))
        /\ Either(MayBegin(FALSE, g), LooseBetween(g, ch), g, Numbered(g, NumberStart(ch)))
    BY <1>2, <1>11, Zenon DEF BetweenTable
  <2> QED
    BY <1>1, <2>1 DEF Either, MayBegin
<1>12. CASE ch \in {"true", "false", "null"}
  <2>1. /\ Either(MayBegin(TRUE, g), JsonBetween(g, ch), g, Goto(g, "in_word"))
        /\ Either(MayBegin(FALSE, g), LooseBetween(g, ch), g, Goto(g, "in_word"))
    BY <1>2, <1>12, Zenon DEF BetweenTable
  <2> QED
    BY <1>1, <2>1 DEF Either, MayBegin
<1>13. CASE ch \notin Known
  BY <1>1, <1>2, <1>13 DEF BetweenTable, Either, MayBegin, MayClose
<1> QED
  BY <1>3, <1>4, <1>5, <1>6, <1>7, <1>8, <1>9, <1>10, <1>11, <1>12, <1>13 DEF Known, Structural

\* As long as a text is JSON, both grammars read it alike.
LEMMA StrictIsLoose ==
  ASSUME NEW g \in Reader, NEW ch, Viable(JsonStep(g, ch))
  PROVE  LooseStep(g, ch) = JsonStep(g, ch)
<1>1. ~Viable(Bad(g))
  BY BadStays
<1>2. JsonNumber(g.num, ch) # "none" => LooseNumber(g.num, ch) = JsonNumber(g.num, ch)
  BY DEF NumberNext, JsonNumber, LooseNumber
<1>3. /\ Viable(JsonBetween(g, ch)) => LooseBetween(g, ch) = JsonBetween(g, ch)
      /\ Viable(JsonBetween(AfterValue(g), ch)) =>
           LooseBetween(AfterValue(g), ch) = JsonBetween(AfterValue(g), ch)
  BY BetweenStrictIsLoose, AfterValueType
<1>4. /\ StepTable(LooseStep(g, ch), LooseBetween(g, ch), LooseBetween(AfterValue(g), ch),
                   LooseNumber(g.num, ch), g, ch)
      /\ StepTable(JsonStep(g, ch), JsonBetween(g, ch), JsonBetween(AfterValue(g), ch),
                   JsonNumber(g.num, ch), g, ch)
  BY LooseStepSymbols, JsonStepSymbols
<1> QED
  BY <1>1, <1>2, <1>3, <1>4 DEF StepTable

-----------------------------------------------------------------------------
(* The nesting of the reader and the stack. *)

\* There are two kinds of container.
LEMMA KindFacts ==
  /\ \A type : KindOf(type) \in {"obj", "list"}
  /\ KindOf("OBJECT") = "obj" /\ KindOf("LIST") = "list"
  BY DEF KindOf

(* Between values the reader's containers are all the levels but the root. *)
LEMMA NestingHere ==
  ASSUME JsonslInv, NEW g \in Reader, SameNesting(g.ctx, stack, level),
         Top.type \in Container \cup {"ROOT"}
  PROVE  /\ Len(g.ctx) = level
         /\ InObject(g) <=> Top.type = "OBJECT"
         /\ InList(g) <=> Top.type = "LIST"
         /\ g.ctx = <<>> <=> Top.type = "ROOT"
<1>1. g.ctx \in Seq({"obj", "list"})
  BY DEF Reader
<1>2. level \in Nat /\ (Top.type = "ROOT" <=> level = 0)
  BY LevelTypes
<1>3. Len(g.ctx) = level /\ \A l \in 1 .. level : g.ctx[l] = KindOf(stack[l].type)
  BY DEF SameNesting, Top
<1>4. g.ctx = <<>> <=> level = 0
  BY <1>1, <1>2, <1>3, EmptySeq
<1>5. level # 0 => Top.type \in Container /\ g.ctx[Len(g.ctx)] = KindOf(Top.type)
  BY <1>2, <1>3 DEF Top
<1> QED
  BY <1>2, <1>3, <1>4, <1>5 DEF InObject, InList, KindOf, Container

\* A push extends the containers of the reader if it is one of a container, and
\* leaves them otherwise.
LEMMA NestingPush ==
  ASSUME JsonslInv, ~Full, NEW nest \in Seq({"obj", "list"}), SameNesting(nest, stack, level),
         Top.type \in Container \cup {"ROOT"},
         NEW type \in Type \ {"ROOT"}, NEW nelem \in Nat, NEW flags \in SUBSET Flag,
         StackPush(CountElement, type, nelem, flags)
  PROVE  /\ type \in Container => SameNesting(Append(nest, KindOf(type)), stack', level')
         /\ type \notin Container => SameNesting(nest, stack', level')
<1>1. /\ level \in Nat /\ level + 1 \in Level /\ \A l \in 0 .. level : l \in Level
  BY LevelFacts DEF JsonslInv
<1>2. Len(nest) = level /\ \A l \in 1 .. level : nest[l] = KindOf(stack[l].type)
  BY DEF SameNesting, Top
<1>3. /\ level' = level + 1 /\ stack'[level + 1].type = type
      /\ \A l \in 0 .. level : stack'[l].type = stack[l].type
  <2>1. /\ level' = level + 1 /\ stack'[level + 1].type = type
        /\ stack'[level].type = stack[level].type
        /\ \A l \in Level \ {level, level + 1} : stack'[l] = stack[l]
    <3>1. JsonslTypeOK /\ type \in Type
      BY DEF JsonslInv
    <3>2. /\ level' = level + 1 /\ stack'[level] = CountElement /\ CountElement.type = Top.type
          /\ stack'[level + 1] = [type |-> type, nelem |-> nelem, pos_begin |-> pos,
                                  ignore_callback |-> Top.ignore_callback,
                                  special_flags |-> flags]
          /\ \A l \in Level \ {level, level + 1} : stack'[l] = stack[l]
      BY <3>1, PushedStack
    <3> QED
      BY <3>2 DEF Top
  <2>2. \A l \in 0 .. level : l = level \/ l \in Level \ {level, level + 1}
    BY <1>1
  <2> QED
    BY <2>1, <2>2
<1>4. CASE type \in Container
  <2>1. /\ Len(Append(nest, KindOf(type))) = level + 1
        /\ Append(nest, KindOf(type))[level + 1] = KindOf(type)
        /\ \A l \in 1 .. level : Append(nest, KindOf(type))[l] = nest[l]
    BY <1>1, <1>2, KindFacts
  <2> QED
    BY <1>1, <1>2, <1>3, <1>4, <2>1 DEF SameNesting
<1>5. CASE type \notin Container
  BY <1>1, <1>2, <1>3, <1>5 DEF SameNesting
<1> QED
  BY <1>4, <1>5

\* A pop drops the innermost of them if a container is popped.
LEMMA NestingPop ==
  ASSUME JsonslInv, level # 0, NEW nest \in Seq({"obj", "list"}), SameNesting(nest, stack, level),
         NEW popped \in State, StackPop(popped), popped.type = Top.type
  PROVE  /\ Top.type \in Container =>
              /\ nest # <<>>
              /\ SubSeq(nest, 1, Len(nest) - 1) \in Seq({"obj", "list"})
              /\ Len(SubSeq(nest, 1, Len(nest) - 1)) = level'
              /\ SameNesting(SubSeq(nest, 1, Len(nest) - 1), stack', level')
         /\ Top.type \notin Container => Len(nest) = level' /\ SameNesting(nest, stack', level')
<1>1. /\ level \in Nat /\ level > 0 /\ \A l \in 0 .. level : l \in Level
  BY LevelFacts DEF JsonslInv
<1>2. /\ level' = level - 1 /\ stack'[level'].type \in Container \cup {"ROOT"}
      /\ \A l \in 0 .. level - 1 : stack'[l].type = stack[l].type
  BY <1>1, PoppedStack
<1>3. /\ Len(nest) = IF Top.type \in Container THEN level ELSE level - 1
      /\ \A l \in 1 .. Len(nest) : nest[l] = KindOf(stack[l].type)
  BY <1>1, LevelTypes DEF SameNesting, Top
<1>4. CASE Top.type \in Container
  <2> DEFINE inner == SubSeq(nest, 1, Len(nest) - 1)
  <2>1. inner \in Seq({"obj", "list"}) /\ Len(inner) = level - 1 /\ nest # <<>>
        /\ \A l \in 1 .. level - 1 : inner[l] = nest[l]
    BY <1>1, <1>3, <1>4
  <2> HIDE DEF inner
  <2>2. SameNesting(inner, stack', level')
    BY <1>1, <1>2, <1>3, <1>4, <2>1 DEF SameNesting
  <2> QED
    BY <1>2, <1>4, <2>1, <2>2 DEF inner
<1>5. CASE Top.type \notin Container
  BY <1>1, <1>2, <1>3, <1>5 DEF SameNesting
<1> QED
  BY <1>4, <1>5

-----------------------------------------------------------------------------
(* Every handler takes reader and lexer to the same place. *)

(* The reader reads what the lexer consumes. *)
LEMMA ReadersRead ==
  ASSUME JsonslInv, FeedRead, Consume
  PROVE  /\ label' = "AGAIN"
         /\ loose' = LooseStep(loose, Char) /\ strict' = JsonStep(strict, Char)
<1>1. pos' # pos
  BY CursorFacts DEF Consume, JsonslInv
<1>2. strict' = Step(TRUE, strict, Char) /\ loose' = Step(FALSE, loose, Char)
  BY <1>1, Zenon DEF FeedRead, ReadOn
<1> QED
  BY <1>2, Zenon DEF Consume, LooseStep, JsonStep

\* Steps that read nothing keep lexer and reader coupled.
LEMMA CoupledStays ==
  ASSUME Coupled, UNCHANGED <<feedVars, tokenVars, level, stack, loose>>
  PROVE  Coupled'
<1> USE DEF feedVars, tokenVars
<1>1. (loose \in Reader /\ SameNesting(loose.ctx, stack, level))'
  BY DEF Coupled
<1>2. (Place(Facing(loose)))'
  BY DEF Coupled, Place, Facing, Quoted, InWord, InDigits, AtRoot, AmongElements, AmongMembers, Top
<1>3. (label = "STRUCTURAL" => Pending)' /\ (in_escape => Top.type \in Stringy)'
  BY DEF Coupled, Pending, Top, Char
<1> QED
  BY <1>1, <1>2, <1>3 DEF Coupled

(* In a string, key, word or number no symbol waits to be read. *)
LEMMA NothingPends ==
  ASSUME JsonslInv, Coupled, Top.type \in Stringy \cup {"SPECIAL"}
  PROVE  label = "AGAIN" /\ Facing(loose) = loose
  BY DEF JsonslInv, JsonslTypeOK, Coupled, Pending, Facing

(* Between values it has seen all but the symbol that ended a word. *)
LEMMA LooseFaces ==
  ASSUME JsonslInv, Coupled, InContainer
  PROVE  /\ LooseStep(loose, Char) = LooseBetween(Facing(loose), Char)
         /\ Facing(loose) \in Reader /\ Facing(loose).ctx = loose.ctx
<1>1. loose \in Reader /\ Facing(loose) \in Reader /\ Facing(loose).ctx = loose.ctx
  BY AfterValueType DEF Coupled, Facing
<1>2. StepTable(LooseStep(loose, Char), LooseBetween(loose, Char), LooseBetween(AfterValue(loose), Char),
                LooseNumber(loose.num, Char), loose, Char)
  BY <1>1, LooseStepSymbols
<1>3. CASE label = "STRUCTURAL"
  BY <1>1, <1>2, <1>3 DEF StepTable, Facing, Coupled, Pending
<1>4. CASE label # "STRUCTURAL"
  <2>1. Place(loose) /\ Facing(loose) = loose
    BY <1>4 DEF Coupled, Facing
  <2>2. Top.type \in {"ROOT", "LIST", "OBJECT"}
    BY LevelTypes DEF InContainer, Type, Container, Stringy
  <2>3. loose.at \in {"start", "value", "done", "value_or_close", "separator",
                      "key_or_close", "key", "colon"}
    BY <2>1, <2>2 DEF Place, AtRoot, AmongElements, AmongMembers
  <2> QED
    BY <1>1, <1>2, <2>1, <2>3 DEF StepTable
<1> QED
  BY <1>1, <1>3, <1>4

\* A character inside a string or key moves the reader with the lexer,
LEMMA CoupledString ==
  ASSUME JsonslInv, Coupled, FeedRead, Consume,
         StringEscaped \/ StringChar \/ StringBeginEscape
  PROVE  Coupled'
<1>1. /\ InString /\ label' = "AGAIN" /\ loose' = LooseStep(loose, Char)
      /\ UNCHANGED <<expecting, tok_last, can_insert, level, stack>>
  BY ReadersRead DEF StringEscaped, StringChar, StringBeginEscape, Fail, tokenVars
<1>2. loose \in Reader /\ Top.type \in Stringy /\ Facing(loose) = loose
  BY <1>1, NothingPends DEF InString, Coupled
<1>3. Place(loose)
  BY <1>2 DEF Coupled
<1>4. StepTable(loose', LooseBetween(loose, Char), LooseBetween(AfterValue(loose), Char),
                LooseNumber(loose.num, Char), loose, Char)
  BY <1>1, <1>2, LooseStepSymbols
<1> DEFINE inside == IF Top.type = "HKEY" THEN "in_key" ELSE "in_string"
           escape == IF Top.type = "HKEY" THEN "key_escape" ELSE "string_escape"
<1>5. loose.at = (IF in_escape THEN escape ELSE inside)
  BY <1>2, <1>3 DEF Place, Quoted, Stringy
<1>6. \E after : loose' = InQuotes(loose, Char, escape, inside, after)
  BY <1>4, <1>5 DEF StepTable
<1>7. loose' \in Reader /\ loose'.ctx = loose.ctx /\ loose'.at = (IF in_escape' THEN escape ELSE inside)
  <2>1. /\ Goto(loose, inside) \in Reader /\ Goto(loose, inside).ctx = loose.ctx
        /\ Goto(loose, inside).at = inside
        /\ Goto(loose, escape) \in Reader /\ Goto(loose, escape).ctx = loose.ctx
        /\ Goto(loose, escape).at = escape
    BY <1>2, GotoType DEF Location
  <2>2. inside # escape
    OBVIOUS
  <2> HIDE DEF inside, escape
  <2>3. CASE StringEscaped
    <3>1. in_escape /\ ~in_escape' /\ Char \in AllowedEscape
      BY <2>3, CursorFacts DEF StringEscaped, Consume, Fail, feedVars, JsonslInv
    <3> QED
      BY <1>5, <1>6, <2>1, <3>1 DEF InQuotes
  <2>4. CASE StringChar
    <3>1. ~in_escape /\ ~in_escape' /\ IsSimpleChar(Char) /\ Char # Quote /\ Char # Bslash
      BY <2>4 DEF StringChar, tokenVars, IsSimpleChar
    <3> QED
      BY <1>2, <1>5, <1>6, <2>1, <2>2, <3>1 DEF InQuotes
  <2>5. CASE StringBeginEscape
    <3>1. ~in_escape /\ in_escape' = TRUE /\ Char = Bslash /\ Char # Quote
      BY <2>5 DEF StringBeginEscape, Quote, Bslash
    <3> QED
      BY <1>2, <1>5, <1>6, <2>1, <2>2, <3>1 DEF InQuotes
  <2> QED
    BY <2>3, <2>4, <2>5
<1>8. SameNesting(loose'.ctx, stack', level')
  BY <1>1, <1>7 DEF Coupled
<1>9. (Place(Facing(loose)))'
  BY <1>1, <1>2, <1>3, <1>7 DEF Place, Facing, Quoted, Stringy, Top
<1> QED
  BY <1>1, <1>2, <1>7, <1>8, <1>9 DEF Coupled, Top

(* A value has ended: the reader waits for what separates it from the next.*)
LEMMA PlaceAfterValue ==
  ASSUME JsonslInv, level # 0, NEW popped \in State, StackPop(popped), Top.type # "HKEY",
         expecting' = ",", tok_last' = NoToken,
         (Facing(loose))' \in Reader, Len((Facing(loose))'.ctx) = level',
         (Facing(loose))'.at = IF (Facing(loose))'.ctx = <<>> THEN "done" ELSE "separator"
  PROVE  (Place(Facing(loose)))'
<1> DEFINE h == (Facing(loose))'
<1>1. /\ level' \in Nat /\ stack'[level'] = stack[level - 1] /\ level' = level - 1
      /\ level' # 0 => stack[level'].type \in Container
      /\ level' = 0 => stack[level'].type = "ROOT"
      /\ stack[level'].nelem \in Nat
      /\ ~(stack[level'].type = "OBJECT" /\ stack[level'].nelem % 2 = 1)
  BY PoppedStack
<1>2. h.ctx = <<>> <=> level' = 0
  BY <1>1, EmptySeq DEF Reader
<1>3. CASE level' = 0
  <2>1. h.at = "done" /\ stack'[level'].type = "ROOT" /\ expecting' # ":"
    BY <1>1, <1>2, <1>3
  <2> QED
    BY <2>1 DEF Place, AtRoot, Top
<1>4. CASE level' # 0
  <2>1. h.at = "separator" /\ stack'[level'].type \in Container
    BY <1>1, <1>2, <1>4
  <2>2. CASE stack'[level'].type = "LIST"
    BY <2>1, <2>2 DEF Place, AmongElements, Top, NoToken
  <2>3. CASE stack'[level'].type = "OBJECT"
    <3>1. stack'[level'].nelem % 2 = 0
      <4>1. stack'[level'].nelem \in Nat /\ stack'[level'].nelem % 2 # 1
        BY <1>1, <2>3
      <4> QED
        BY <4>1, Parity
    <3> QED
      BY <2>1, <2>3, <3>1 DEF Place, AmongMembers, Top
  <2> QED
    BY <2>1, <2>2, <2>3 DEF Container
<1> QED
  BY <1>3, <1>4

\* and so does the quote that ends it.
LEMMA CoupledStringEnd ==
  ASSUME JsonslInv, Coupled, FeedRead, StringEnd
  PROVE  Coupled'
<1>1. /\ InString /\ ~in_escape /\ Char = Quote /\ Consume /\ StackPop(Top)
      /\ ~can_insert' /\ UNCHANGED <<expecting, tok_last, in_escape>>
  BY DEF StringEnd
<1>2. /\ label' = "AGAIN" /\ loose' = LooseStep(loose, Char)
      /\ loose \in Reader /\ Top.type \in Stringy /\ Facing(loose) = loose
  BY <1>1, ReadersRead, NothingPends DEF InString, Coupled
<1>3. Place(loose)
  BY <1>2 DEF Coupled
<1>4. StepTable(loose', LooseBetween(loose, Char), LooseBetween(AfterValue(loose), Char),
                LooseNumber(loose.num, Char), loose, Char)
  BY <1>2, LooseStepSymbols
<1>5. level # 0 /\ Top \in State
  BY <1>2, LevelTypes DEF Stringy
<1>6. Len(loose.ctx) = level' /\ SameNesting(loose.ctx, stack', level')
  <2>1. loose.ctx \in Seq({"obj", "list"}) /\ SameNesting(loose.ctx, stack, level)
    BY DEF Coupled, Reader
  <2>2. Top.type \notin Container
    BY <1>2 DEF Stringy, Container
  <2> QED
    BY <1>1, <1>5, <2>1, <2>2, NestingPop
<1>7. CASE Top.type = "HKEY"
  <2>1. loose.at = "in_key" /\ expecting = ":" /\ tok_last = NoToken
    BY <1>1, <1>3, <1>7 DEF Place, Quoted
  <2>2. loose' = Goto(loose, "colon")
    BY <1>1, <1>4, <2>1 DEF StepTable, InQuotes
  <2>3. loose' \in Reader /\ loose'.ctx = loose.ctx /\ loose'.at = "colon"
    BY <1>2, <2>2, GotoType DEF Location
  <2>4. stack'[level'].type = "OBJECT" /\ stack'[level'].nelem % 2 = 1
    BY <1>1, <1>5, <1>7, PoppedStack
  <2>5. (Place(Facing(loose)))'
    BY <1>1, <1>2, <2>1, <2>3, <2>4 DEF Place, AmongMembers, Facing, Top
  <2> QED
    BY <1>1, <1>2, <1>6, <2>3, <2>5 DEF Coupled
<1>8. CASE Top.type = "STRING"
  <2>1. loose.at = "in_string" /\ expecting = "," /\ tok_last = NoToken
    BY <1>1, <1>3, <1>8 DEF Place, Quoted
  <2>2. loose' = AfterValue(loose)
    BY <1>1, <1>4, <2>1 DEF StepTable, InQuotes
  <2>3. /\ loose' \in Reader /\ loose'.ctx = loose.ctx
        /\ loose'.at = IF loose'.ctx = <<>> THEN "done" ELSE "separator"
    BY <1>2, <2>2, AfterValueType
  <2>4. (Facing(loose))' = loose'
    BY <1>2 DEF Facing
  <2>5. (Place(Facing(loose)))'
    BY <1>1, <1>5, <1>6, <1>8, <2>1, <2>3, <2>4, PlaceAfterValue
  <2> QED
    BY <1>1, <1>2, <1>6, <2>3, <2>5 DEF Coupled
<1> QED
  BY <1>2, <1>7, <1>8 DEF Stringy

(* A word or number has changed at most its flags. *)
LEMMA SpecialStays ==
  ASSUME JsonslInv, Coupled, Top.type = "SPECIAL", level' = level, NEW flags \in SUBSET Flag,
         stack' = [stack EXCEPT ![level].special_flags = flags]
  PROVE  /\ Top'.type = "SPECIAL" /\ Top'.special_flags = flags
         /\ SameNesting(loose.ctx, stack', level')
<1>1. /\ stack \in [Level -> State] /\ level \in Level /\ \A l \in 0 .. level : l \in Level
      /\ level \in Nat
  BY LevelFacts, StackFacts DEF JsonslInv
<1>2. /\ stack'[level].special_flags = flags /\ stack'[level].type = stack[level].type
      /\ \A l \in Level : stack'[l].type = stack[l].type
  BY <1>1 DEF State
<1>3. loose.ctx \in Seq({"obj", "list"}) /\ Len(loose.ctx) = level - 1
      /\ \A l \in 1 .. Len(loose.ctx) : loose.ctx[l] = KindOf(stack[l].type)
  BY DEF Coupled, Reader, SameNesting, Top, Container
<1>4. \A l \in 1 .. Len(loose.ctx) : l \in Level
  BY <1>1, <1>3
<1> QED
  BY <1>1, <1>2, <1>3, <1>4 DEF SameNesting, Top, Container

(* Any run of number characters goes on; a digit can always be its end. *)
LEMMA LooseNumberGoesOn ==
  ASSUME NEW num \in NumberPart, NEW ch
  PROVE  /\ LooseNumber(num, ch) \in NumberPart
         /\ ch \in Digit => NumberEnds(LooseNumber(num, ch)) /\ LooseNumber(num, ch) # "none"
         /\ ch \in {".", "e"} \cup Sign => LooseNumber(num, ch) # "none"
         /\ LooseNumber(num, ch) # "minus"
         /\ ch \in Digit \cup {".", "e"} \cup Sign => ch \notin SpecialEnd
<1>1. CASE ch \in Digit
  BY <1>1 DEF LooseNumber, NumberNext, NumberPart, NumberEnds, Digit, Sign, SpecialEnd, Whitespace,
              Quote, Bslash
<1>2. CASE ch \notin Digit
  BY <1>2 DEF LooseNumber, NumberNext, NumberPart, NumberEnds, Digit, Sign, SpecialEnd, Whitespace,
              Quote, Bslash
<1> QED
  BY <1>1, <1>2

(* In a number, and the character goes on with it. *)
LEMMA NumberRead ==
  ASSUME JsonslInv, Coupled, FeedRead, Consume, Top.type = "SPECIAL",
         IsNumeric(Top.special_flags) \/ "DASH" \in Top.special_flags,
         Char \in Digit \cup {".", "e"} \cup Sign
  PROVE  /\ label' = "AGAIN" /\ InDigits(loose)
         /\ loose' \in Reader /\ loose'.ctx = loose.ctx /\ loose'.at = "in_number"
         /\ loose'.num = LooseNumber(loose.num, Char)
         /\ loose'.num # "minus"
         /\ Char \in Digit => NumberEnds(loose'.num)
<1>1. label' = "AGAIN" /\ loose' = LooseStep(loose, Char)
  BY ReadersRead
<1>2. loose \in Reader /\ Facing(loose) = loose /\ Place(loose)
  BY NothingPends DEF Coupled
<1>3. InDigits(loose)
  BY <1>2 DEF Place, InWord
<1>4. StepTable(loose', LooseBetween(loose, Char), LooseBetween(AfterValue(loose), Char),
                LooseNumber(loose.num, Char), loose, Char)
  BY <1>1, <1>2, LooseStepSymbols
<1>5. loose.num \in NumberPart /\ loose.at = "in_number"
  BY <1>2, <1>3 DEF Reader, InDigits
<1>6. /\ LooseNumber(loose.num, Char) \in NumberPart \ {"none", "minus"} /\ Char \notin SpecialEnd
      /\ Char \in Digit => NumberEnds(LooseNumber(loose.num, Char))
  BY <1>5, LooseNumberGoesOn
<1>7. loose' = [loose EXCEPT !.num = LooseNumber(loose.num, Char)]
  BY <1>4, <1>5, <1>6 DEF StepTable
<1> QED
  BY <1>1, <1>2, <1>3, <1>5, <1>6, <1>7 DEF Reader

(* The flags say what has been read of it. *)
LEMMA CoupledNumberBy ==
  ASSUME JsonslInv, Coupled, FeedRead, Consume, Top.type = "SPECIAL", level' = level,
         IsNumeric(Top.special_flags) \/ "DASH" \in Top.special_flags,
         Char \in Digit \cup {".", "e"} \cup Sign,
         NEW flags \in SUBSET Flag,
         stack' = [stack EXCEPT ![level].special_flags = flags],
         IsNumeric(flags) /\ "DASH" \notin flags,
         tok_last' = "e" => "EXPONENT" \in flags,
         Char \notin Digit => ~(IsNormalNumber(flags) \/ flags \in {ZERO, NegativeZero} \/ tok_last' = "1"),
         UNCHANGED in_escape
  PROVE  Coupled'
<1>1. /\ label' = "AGAIN" /\ loose' \in Reader /\ loose'.ctx = loose.ctx /\ loose'.at = "in_number"
      /\ Char \in Digit => NumberEnds(loose'.num)
  BY NumberRead
<1>2. /\ Top'.type = "SPECIAL" /\ Top'.special_flags = flags
      /\ SameNesting(loose.ctx, stack', level')
  BY SpecialStays
<1>3. flags # {"DASH"}
  OBVIOUS
<1>4. InDigits(loose)'
  BY <1>1, <1>2, <1>3 DEF InDigits
<1>5. (Place(Facing(loose)))'
  BY <1>1, <1>2, <1>4 DEF Place, Facing, InDigits
<1>6. ~in_escape
  BY DEF Coupled, Stringy
<1> QED
  BY <1>1, <1>2, <1>5, <1>6 DEF Coupled

\* A stack left alone keeps the flags on top.
LEMMA SameFlags ==
  ASSUME JsonslInv, UNCHANGED stack
  PROVE  /\ stack' = [stack EXCEPT ![level].special_flags = Top.special_flags]
         /\ Top.special_flags \in SUBSET Flag
<1>1. stack \in [Level -> State] /\ level \in Level
  BY LevelFacts, StackFacts DEF JsonslInv
<1> QED
  BY <1>1, StackFacts DEF Top, State, JsonslInv

\* Reading on in a number keeps it a number, with what is known of it.
LEMMA NumberFlagsFacts ==
  ASSUME IsNumeric(Top.special_flags), "DASH" \notin Top.special_flags,
         Top.special_flags \in SUBSET Flag
  PROVE  /\ NumberFlags \in SUBSET Flag
         /\ IsNumeric(NumberFlags) /\ "DASH" \notin NumberFlags
         /\ \A flag \in {"FLOAT", "EXPONENT"} : flag \in Top.special_flags => flag \in NumberFlags
  BY DEF NumberFlags, LeadingZero, ZERO, IsNumeric, NUMERIC, Flag

\* A character of a word or number moves the reader with the lexer.
LEMMA CoupledNumber ==
  ASSUME JsonslInv, Coupled, FeedRead, Consume,
         \/ NumberFast \/ NumberDash \/ NumberDigit \/ NumberDot \/ NumberExponent \/ NumberSign
  PROVE  Coupled'
<1> DEFINE flags == Top.special_flags
<1>a. Top.type = "SPECIAL" /\ UNCHANGED in_escape /\ level' = level
  BY DEF NumberFast, NumberDash, NumberDigit, NumberDot, NumberExponent, NumberSign,
         NumberMark, InNumber, InSpecial, tokenVars, Fail
<1>b. InWord(loose) \/ InDigits(loose)
  BY <1>a, NothingPends DEF Coupled, Place
<1>c. flags \in SUBSET Flag
  BY LevelFacts, StackFacts DEF JsonslInv, Top
<1>d. IsNumeric(flags) \/ "DASH" \in flags
  BY DEF NumberFast, NumberDash, NumberDigit, NumberDot, NumberExponent, NumberSign, InNumber,
         IsNormalNumber, IsNumeric, NUMERIC
<1>e. tok_last = "e" => "EXPONENT" \in flags
  BY <1>b, <1>d DEF InDigits, InWord
<1>1. CASE NumberFast
  <2>1. IsNormalNumber(flags) /\ Char \in Digit /\ UNCHANGED <<stack, tok_last>>
    BY <1>1 DEF NumberFast, tokenVars
  <2>2. IsNumeric(flags) /\ "DASH" \notin flags /\ (tok_last' = "e" => "EXPONENT" \in flags)
    BY <1>e, <2>1 DEF IsNormalNumber, IsNumeric, NUMERIC
  <2> QED
    BY <1>a, <2>1, <2>2, SameFlags, CoupledNumberBy
<1>2. CASE NumberDash
  <2>1. CASE Char \in Digit
    <3> DEFINE new == IF Char = "0" THEN ZERO \cup {"SIGNED"} ELSE {"SIGNED"}
    <3>1. /\ flags = {"DASH"} /\ stack' = [stack EXCEPT ![level].special_flags = new]
          /\ UNCHANGED tok_last
      BY <1>2, <2>1 DEF NumberDash, tokenVars
    <3>2. new \in SUBSET Flag /\ IsNumeric(new) /\ "DASH" \notin new
      BY DEF ZERO, Flag, IsNumeric, NUMERIC
    <3>3. tok_last # "e"
      BY <1>e, <3>1
    <3> HIDE DEF new
    <3> QED
      BY <1>a, <2>1, <3>1, <3>2, <3>3, CoupledNumberBy
  <2>2. CASE Char \notin Digit
    BY <1>2, <2>2, CursorFacts DEF NumberDash, Fail, Consume, feedVars, JsonslInv
  <2> QED
    BY <2>1, <2>2
<1>3. CASE NumberDigit
  <2>1. IsNumeric(flags) /\ Char \in Digit /\ UNCHANGED stack /\ tok_last' = "1"
    BY <1>3 DEF NumberDigit, InNumber, SlowDigit
  <2>2. "DASH" \notin flags
    BY <1>b, <2>1 DEF InWord, InDigits, IsNumeric, NUMERIC
  <2> QED
    BY <1>a, <2>1, <2>2, SameFlags, CoupledNumberBy
<1>4. CASE NumberDot
  <2>1. /\ IsNumeric(flags) /\ Char = "." /\ tok_last' = "."
        /\ stack' = [stack EXCEPT ![level].special_flags = NumberFlags \cup {"FLOAT"}]
    BY <1>4 DEF NumberDot, NumberMark, InNumber
  <2>2. "DASH" \notin flags
    BY <1>b, <2>1 DEF InWord, InDigits, IsNumeric, NUMERIC
  <2>3. /\ NumberFlags \cup {"FLOAT"} \in SUBSET Flag
        /\ IsNumeric(NumberFlags \cup {"FLOAT"}) /\ "DASH" \notin NumberFlags \cup {"FLOAT"}
        /\ ~IsNormalNumber(NumberFlags \cup {"FLOAT"})
        /\ NumberFlags \cup {"FLOAT"} \notin {ZERO, NegativeZero}
    BY <1>c, <2>1, <2>2, NumberFlagsFacts DEF Flag, IsNumeric, NUMERIC, IsNormalNumber, ZERO, NegativeZero
  <2>4. "." \notin Digit /\ "." \in {".", "e"} \cup Sign
    BY DEF Digit
  <2> QED
    BY <1>a, <2>1, <2>2, <2>3, <2>4, CoupledNumberBy
<1>5. CASE NumberExponent
  <2>1. /\ IsNumeric(flags) /\ Char = "e" /\ tok_last' = "e"
        /\ stack' = [stack EXCEPT ![level].special_flags = NumberFlags \cup {"EXPONENT"}]
    BY <1>5 DEF NumberExponent, NumberMark, InNumber
  <2>2. "DASH" \notin flags
    BY <1>b, <2>1 DEF InWord, InDigits, IsNumeric, NUMERIC
  <2>3. /\ NumberFlags \cup {"EXPONENT"} \in SUBSET Flag
        /\ IsNumeric(NumberFlags \cup {"EXPONENT"}) /\ "DASH" \notin NumberFlags \cup {"EXPONENT"}
        /\ ~IsNormalNumber(NumberFlags \cup {"EXPONENT"})
        /\ NumberFlags \cup {"EXPONENT"} \notin {ZERO, NegativeZero}
    BY <1>c, <2>1, <2>2, NumberFlagsFacts DEF Flag, IsNumeric, NUMERIC, IsNormalNumber, ZERO, NegativeZero
  <2>4. "e" \notin Digit /\ "e" \in {".", "e"} \cup Sign
    BY DEF Digit
  <2> QED
    BY <1>a, <2>1, <2>2, <2>3, <2>4, CoupledNumberBy
<1>6. CASE NumberSign
  <2>1. /\ IsNumeric(flags) /\ Char \in Sign /\ tok_last = "e" /\ tok_last' = "-"
        /\ stack' = [stack EXCEPT ![level].special_flags = NumberFlags \cup {}]
    BY <1>6 DEF NumberSign, NumberMark, InNumber
  <2>2. "DASH" \notin flags
    BY <1>b, <2>1 DEF InWord, InDigits, IsNumeric, NUMERIC
  <2>3. "EXPONENT" \in NumberFlags \cup {}
    BY <1>c, <1>e, <2>1, <2>2, NumberFlagsFacts
  <2>4. /\ NumberFlags \cup {} \in SUBSET Flag
        /\ IsNumeric(NumberFlags \cup {}) /\ "DASH" \notin NumberFlags \cup {}
        /\ ~IsNormalNumber(NumberFlags \cup {}) /\ NumberFlags \cup {} \notin {ZERO, NegativeZero}
    <3>1. NumberFlags \cup {} = NumberFlags
      OBVIOUS
    <3> QED
      BY <1>c, <2>1, <2>2, <2>3, <3>1, NumberFlagsFacts DEF IsNormalNumber, ZERO, NegativeZero
  <2>5. Char \notin Digit /\ Char \in {".", "e"} \cup Sign
    BY <2>1 DEF Digit, Sign
  <2> QED
    BY <1>a, <2>1, <2>2, <2>3, <2>4, <2>5, CoupledNumberBy
<1> QED
  BY <1>1, <1>2, <1>3, <1>4, <1>5, <1>6

(* The number that GT_SPECIAL_POP lets go may end here. *)
FinalFlags == IF NumberFlags = NegativeZero THEN {"UNSIGNED"} ELSE NumberFlags

\* Where the lexer accepts the end of a word or number, the reader does.
LEMMA LooseMayEnd ==
  ASSUME InWord(loose) \/ InDigits(loose), "DASH" \notin Top.special_flags,
         ~(IsNumeric(FinalFlags) /\ ~IsNormalNumber(FinalFlags) /\ tok_last # "1")
  PROVE  loose.at = "in_word" \/ (loose.at = "in_number" /\ NumberEnds(loose.num))
<1>1. CASE InWord(loose)
  BY <1>1 DEF InWord
<1>2. CASE InDigits(loose)
  <2>1. IsNumeric(Top.special_flags) /\ loose.at = "in_number"
    BY <1>2 DEF InDigits
  <2>2. CASE tok_last = "1"
    BY <1>2, <2>1, <2>2 DEF InDigits
  <2>3. CASE tok_last # "1"
    <3>1. Top.special_flags = ZERO \/ NumberFlags = Top.special_flags
      BY DEF NumberFlags, LeadingZero
    <3>2. IsNumeric(FinalFlags)
      BY <2>1, <3>1 DEF FinalFlags, NumberFlags, LeadingZero, IsNumeric, NUMERIC
    <3>3. FinalFlags = NumberFlags \/ NumberFlags = NegativeZero
      BY DEF FinalFlags
    <3>4. IsNormalNumber(Top.special_flags) \/ Top.special_flags \in {ZERO, NegativeZero}
      BY <2>3, <3>1, <3>2, <3>3
    <3> QED
      BY <1>2, <2>1, <3>4 DEF InDigits
  <2> QED
    BY <2>2, <2>3
<1> QED
  BY <1>1, <1>2

\* The end of a word or number keeps them coupled: the reader still faces the
\* symbol that ended it.
LEMMA CoupledSpecialPop ==
  ASSUME JsonslInv, Coupled, FeedRead, SpecialPop, ~Fail("INVALID_NUMBER")
  PROVE  Coupled'
<1> DEFINE popped == [Top EXCEPT !.special_flags = FinalFlags]
<1>1. /\ Running /\ Top.type = "SPECIAL" /\ "DASH" \notin Top.special_flags /\ Char \in SpecialEnd
      /\ ~(IsNumeric(FinalFlags) /\ ~IsNormalNumber(FinalFlags) /\ tok_last # "1")
      /\ StackPop(popped)
      /\ tok_last' = NoToken /\ expecting' = "," /\ UNCHANGED in_escape
      /\ IF Char \in Whitespace THEN Consume
         ELSE label' = "STRUCTURAL" /\ UNCHANGED <<text, pos>>
  BY DEF SpecialPop, InSpecial, FinalFlags, NegativeZero
<1>2. loose \in Reader /\ Facing(loose) = loose /\ (InWord(loose) \/ InDigits(loose))
  BY <1>1, NothingPends DEF Coupled, Place
<1>3. loose.at = "in_word" \/ (loose.at = "in_number" /\ NumberEnds(loose.num))
  BY <1>1, <1>2, LooseMayEnd
<1>4. popped \in State /\ popped.type = Top.type /\ level # 0
  <2>1. Top \in State /\ level # 0
    BY <1>1, LevelTypes
  <2>2. FinalFlags \in SUBSET Flag
    BY <2>1 DEF FinalFlags, NumberFlags, State, Flag
  <2> QED
    BY <2>1, <2>2 DEF State
<1> HIDE DEF popped
<1>5. Len(loose.ctx) = level' /\ SameNesting(loose.ctx, stack', level')
  <2>1. loose.ctx \in Seq({"obj", "list"}) /\ SameNesting(loose.ctx, stack, level)
    BY DEF Coupled, Reader
  <2>2. Top.type \notin Container
    BY <1>1 DEF Container
  <2> QED
    BY <1>1, <1>4, <2>1, <2>2, NestingPop
<1>6. /\ AfterValue(loose) \in Reader /\ AfterValue(loose).ctx = loose.ctx
      /\ AfterValue(loose).at = IF loose.ctx = <<>> THEN "done" ELSE "separator"
  BY <1>2, AfterValueType
<1>7. (Facing(loose))' = AfterValue(loose) /\ loose' \in Reader /\ loose'.ctx = loose.ctx
  <2>1. CASE Char \in Whitespace
    <3>1. label' = "AGAIN" /\ loose' = LooseStep(loose, Char)
      BY <1>1, <2>1, ReadersRead
    <3>2. StepTable(loose', LooseBetween(loose, Char), LooseBetween(AfterValue(loose), Char),
                    LooseNumber(loose.num, Char), loose, Char)
      BY <1>2, <3>1, LooseStepSymbols
    <3>3. loose' = LooseBetween(AfterValue(loose), Char)
      BY <1>1, <1>3, <3>2 DEF StepTable
    <3>4. BetweenTable(LooseBetween(AfterValue(loose), Char), FALSE, AfterValue(loose), Char)
      BY LooseBetweenSymbols
    <3>5. loose' = AfterValue(loose)
      BY <2>1, <3>3, <3>4 DEF BetweenTable
    <3> QED
      BY <1>6, <3>1, <3>5 DEF Facing
  <2>2. CASE Char \notin Whitespace
    <3>1. label' = "STRUCTURAL" /\ pos' = pos
      BY <1>1, <2>2
    <3>2. loose' = loose
      BY <3>1 DEF FeedRead, ReadOn, readers
    <3> QED
      BY <1>2, <3>1, <3>2 DEF Facing
  <2> QED
    BY <2>1, <2>2
<1>8. (Place(Facing(loose)))'
  BY <1>1, <1>4, <1>5, <1>6, <1>7, PlaceAfterValue
<1>9. (label = "STRUCTURAL" => Pending)'
  <2>1. CASE Char \in Whitespace
    BY <1>1, <2>1 DEF Consume
  <2>2. CASE Char \notin Whitespace
    <3>1. UNCHANGED <<text, pos, loose>>
      BY <1>1, <2>2 DEF FeedRead, ReadOn, readers
    <3>2. Top'.type \in Container \cup {"ROOT"}
      BY <1>1, <1>4, PoppedStack DEF Top
    <3> QED
      BY <1>1, <1>3, <2>2, <3>1, <3>2 DEF Pending, Char, Running, Container, Stringy
  <2> QED
    BY <2>1, <2>2
<1>10. ~in_escape'
  BY <1>1 DEF Coupled, Stringy
<1> QED
  BY <1>5, <1>7, <1>8, <1>9, <1>10 DEF Coupled

(* Between values the reader stands where the registers say. *)
LEMMA PlaceBetween ==
  ASSUME JsonslInv, Coupled, InContainer
  PROVE  /\ Facing(loose) \in Reader /\ Facing(loose).ctx = loose.ctx
         /\ SameNesting(Facing(loose).ctx, stack, level)
         /\ LooseStep(loose, Char) = LooseBetween(Facing(loose), Char)
         /\ BetweenTable(LooseBetween(Facing(loose), Char), FALSE, Facing(loose), Char)
         /\ InObject(Facing(loose)) <=> Top.type = "OBJECT"
         /\ InList(Facing(loose)) <=> Top.type = "LIST"
         /\ Facing(loose).ctx = <<>> <=> Top.type = "ROOT"
         /\ Top.type = "ROOT" => AtRoot(Facing(loose))
         /\ Top.type = "LIST" => AmongElements(Facing(loose))
         /\ Top.type = "OBJECT" => AmongMembers(Facing(loose))
         /\ Top.type \in {"ROOT", "LIST", "OBJECT"}
         /\ ~in_escape
<1> DEFINE g == Facing(loose)
<1>1. Top.type \in {"ROOT", "LIST", "OBJECT"}
  BY LevelTypes DEF InContainer, Type, Container, Stringy
<1>2. /\ g \in Reader /\ g.ctx = loose.ctx /\ SameNesting(g.ctx, stack, level)
      /\ LooseStep(loose, Char) = LooseBetween(g, Char)
  BY LooseFaces DEF Coupled
<1>3. BetweenTable(LooseBetween(g, Char), FALSE, g, Char)
  BY LooseBetweenSymbols
<1>4. /\ InObject(g) <=> Top.type = "OBJECT"
      /\ InList(g) <=> Top.type = "LIST"
      /\ g.ctx = <<>> <=> Top.type = "ROOT"
  BY <1>1, <1>2, NestingHere DEF Container
<1>5. Place(g) /\ ~in_escape
  BY <1>1 DEF Coupled, Stringy
<1>6. /\ Top.type = "ROOT" => AtRoot(g)
      /\ Top.type = "LIST" => AmongElements(g)
      /\ Top.type = "OBJECT" => AmongMembers(g)
  BY <1>5 DEF Place
<1> QED
  BY <1>1, <1>2, <1>3, <1>4, <1>5, <1>6

(* What the reader goes to when the lexer consumes a symbol between values *)
(* and stays in its container.                                             *)
LEMMA CoupledMoves ==
  ASSUME JsonslInv, Coupled, FeedRead, InContainer, Consume,
         UNCHANGED <<level, stack, in_escape>>,
         loose' \in Reader, loose'.ctx = loose.ctx,
         Top.type = "ROOT" => AtRoot(loose)', Top.type = "LIST" => AmongElements(loose)',
         Top.type = "OBJECT" => AmongMembers(loose)'
  PROVE  Coupled'
<1>1. label' = "AGAIN"
  BY ReadersRead
<1>2. Top' = Top /\ Top.type \in {"ROOT", "LIST", "OBJECT"} /\ ~in_escape /\ SameNesting(loose.ctx, stack, level)
  BY PlaceBetween DEF Top, Coupled
<1>3. (Place(Facing(loose)))'
  BY <1>1, <1>2 DEF Place, Facing, AtRoot, AmongElements, AmongMembers, Top
<1> QED
  BY <1>1, <1>2, <1>3 DEF Coupled

\* So does whitespace between values,
LEMMA CoupledWhitespace ==
  ASSUME JsonslInv, Coupled, FeedRead, SkipWhitespace
  PROVE  Coupled'
<1>1. /\ InContainer /\ Consume /\ Char \in Whitespace /\ label = "AGAIN"
      /\ UNCHANGED <<tokenVars, level, stack>>
  BY DEF SkipWhitespace
<1>2. Facing(loose) = loose
  BY <1>1 DEF Facing
<1>3. /\ loose \in Reader /\ loose' = LooseBetween(loose, Char)
      /\ BetweenTable(LooseBetween(loose, Char), FALSE, loose, Char)
  BY <1>1, <1>2, ReadersRead, PlaceBetween
<1>4. loose' = loose
  BY <1>1, <1>3 DEF BetweenTable
<1>5. /\ Top.type = "ROOT" => AtRoot(loose)
      /\ Top.type = "LIST" => AmongElements(loose)
      /\ Top.type = "OBJECT" => AmongMembers(loose)
  BY <1>1, <1>2, PlaceBetween
<1>6. /\ Top.type = "ROOT" => AtRoot(loose)'
      /\ Top.type = "LIST" => AmongElements(loose)'
      /\ Top.type = "OBJECT" => AmongMembers(loose)'
  BY <1>1, <1>4, <1>5 DEF AtRoot, AmongElements, AmongMembers, tokenVars, Top
<1> QED
  BY <1>1, <1>3, <1>4, <1>6, CoupledMoves DEF tokenVars

\* a colon
LEMMA CoupledColon ==
  ASSUME JsonslInv, Coupled, FeedRead, Colon, ~Fail("STRAY_TOKEN")
  PROVE  Coupled'
<1> DEFINE g == Facing(loose)
<1>1. /\ InContainer /\ Consume /\ Char = ":" /\ expecting = ":"
      /\ tok_last' = ":" /\ can_insert' = TRUE /\ expecting' = Quote
      /\ UNCHANGED <<in_escape, level, stack>>
  BY DEF Colon
<1>2. g \in Reader /\ g.ctx = loose.ctx /\ BetweenTable(LooseBetween(g, Char), FALSE, g, Char)
  BY <1>1, PlaceBetween
<1>3. loose' = LooseBetween(g, Char)
  BY <1>1, ReadersRead, PlaceBetween
<1>4. Top.type = "OBJECT" /\ AmongMembers(g)
  BY <1>1, PlaceBetween DEF AtRoot, AmongElements
<1>5. g.at = "colon" /\ Top.nelem % 2 = 1
  BY <1>1, <1>4 DEF AmongMembers, Quote
<1>6. loose' = Goto(g, "value")
  BY <1>1, <1>2, <1>3, <1>5 DEF BetweenTable, Either
<1>7. loose' \in Reader /\ loose'.ctx = loose.ctx /\ loose'.at = "value"
  BY <1>2, <1>6, GotoType DEF Location
<1>8. AmongMembers(loose)'
  BY <1>1, <1>5, <1>7 DEF AmongMembers, Top
<1> QED
  BY <1>1, <1>4, <1>7, <1>8, CoupledMoves

\* and a comma the lexer accepts.
LEMMA CoupledComma ==
  ASSUME JsonslInv, Coupled, FeedRead, Comma, ~Fail("STRAY_TOKEN")
  PROVE  Coupled'
<1> DEFINE g == Facing(loose)
<1>1. /\ InContainer /\ Consume /\ Char = "," /\ expecting = ","
      /\ tok_last' = "," /\ expecting' = Quote
      /\ can_insert' = (IF Top.type = "OBJECT" THEN can_insert ELSE TRUE)
      /\ UNCHANGED <<in_escape, level, stack>>
  BY DEF Comma
<1>2. /\ g \in Reader /\ g.ctx = loose.ctx /\ BetweenTable(LooseBetween(g, Char), FALSE, g, Char)
      /\ InObject(g) <=> Top.type = "OBJECT"
      /\ Top.type \in {"ROOT", "LIST", "OBJECT"}
  BY <1>1, PlaceBetween
<1>3. loose' = LooseBetween(g, Char)
  BY <1>1, ReadersRead, PlaceBetween
<1>4. CASE Top.type = "OBJECT"
  <2>1. AmongMembers(g)
    BY <1>1, <1>4, PlaceBetween
  <2>2. g.at = "separator" /\ Top.nelem % 2 = 0
    BY <1>1, <2>1 DEF AmongMembers, Quote
  <2>3. loose' = Goto(g, "key")
    BY <1>1, <1>2, <1>3, <1>4, <2>2 DEF BetweenTable
  <2>4. loose' \in Reader /\ loose'.ctx = loose.ctx /\ loose'.at = "key"
    BY <1>2, <2>3, GotoType DEF Location
  <2>5. AmongMembers(loose)'
    BY <1>1, <2>2, <2>4 DEF AmongMembers, Top
  <2> QED
    BY <1>1, <1>4, <2>4, <2>5, CoupledMoves
<1>5. CASE Top.type # "OBJECT"
  <2>1. loose' = Goto(g, "value")
    <3>1. CASE g.at = "separator"
      BY <1>1, <1>2, <1>3, <1>5, <3>1 DEF BetweenTable
    <3>2. CASE g.at # "separator"
      BY <1>1, <1>2, <1>3, <1>5, <3>2 DEF BetweenTable, Either
    <3> QED
      BY <3>1, <3>2
  <2>2. loose' \in Reader /\ loose'.ctx = loose.ctx /\ loose'.at = "value"
    BY <1>2, <2>1, GotoType DEF Location
  <2>3. can_insert' = TRUE /\ expecting' # ":"
    BY <1>1, <1>5 DEF Quote
  <2>4. AtRoot(loose)' /\ AmongElements(loose)'
    BY <2>2, <2>3 DEF AtRoot, AmongElements
  <2> QED
    BY <1>1, <1>5, <2>2, <2>4, CoupledMoves
<1> QED
  BY <1>4, <1>5

\* After a push the top of the stack is what was pushed.
LEMMA PushedTop ==
  ASSUME JsonslInv, ~Full, NEW type \in Type \ {"ROOT"}, NEW nelem \in Nat, NEW flags \in SUBSET Flag,
         StackPush(CountElement, type, nelem, flags)
  PROVE  Top'.type = type /\ Top'.nelem = nelem /\ Top'.special_flags = flags
<1>1. JsonslTypeOK /\ type \in Type
  BY DEF JsonslInv
<1>2. /\ level' = level + 1
      /\ stack'[level + 1] = [type |-> type, nelem |-> nelem, pos_begin |-> pos,
                              ignore_callback |-> Top.ignore_callback,
                              special_flags |-> flags]
  BY <1>1, PushedStack
<1> QED
  BY <1>2 DEF Top

(* A state is pushed: what is read inside it goes with its type. *)
LEMMA CoupledPush ==
  ASSUME JsonslInv, Coupled, FeedRead, InContainer, ~Full, Consume,
         NEW type \in Type \ {"ROOT"}, NEW nelem \in Nat, NEW flags \in SUBSET Flag,
         StackPush(CountElement, type, nelem, flags),
         loose' \in Reader,
         type \in Container => loose'.ctx = Append(loose.ctx, KindOf(type)),
         type \notin Container => loose'.ctx = loose.ctx,
         type \in Container => nelem = 0,
         type = "HKEY" => loose'.at = "in_key" /\ expecting' = ":" /\ tok_last' = NoToken /\ ~can_insert',
         type = "STRING" => loose'.at = "in_string" /\ expecting' = "," /\ tok_last' = NoToken /\ ~can_insert',
         type = "LIST" => loose'.at = "value_or_close" /\ expecting' # ":" /\ tok_last' # ","
                          /\ can_insert',
         type = "OBJECT" => loose'.at = "key_or_close" /\ expecting' = Quote /\ tok_last' = NoToken,
         type = "SPECIAL" => \/ /\ loose'.at = "in_word" /\ ~IsNumeric(flags) /\ "DASH" \notin flags
                             \/ /\ loose'.at = "in_number" /\ tok_last' # "e"
                                /\ IF flags = {"DASH"} THEN loose'.num = "minus" /\ tok_last' # "1"
                                   ELSE /\ IsNumeric(flags) /\ "DASH" \notin flags
                                        /\ NumberEnds(loose'.num),
         UNCHANGED in_escape
  PROVE  Coupled'
<1>1. label' = "AGAIN"
  BY ReadersRead
<1>2. /\ loose.ctx \in Seq({"obj", "list"}) /\ SameNesting(loose.ctx, stack, level)
      /\ Top.type \in Container \cup {"ROOT"} /\ ~in_escape
  BY PlaceBetween DEF Coupled, Reader, Container
<1>3. SameNesting(loose'.ctx, stack', level')
  BY <1>2, NestingPush
<1>4. Top'.type = type /\ Top'.nelem = nelem /\ Top'.special_flags = flags
  BY PushedTop
<1>5. (Facing(loose))' = loose'
  BY <1>1 DEF Facing
<1>6. (Place(Facing(loose)))'
  <2>1. CASE type \in Stringy
    BY <1>2, <1>4, <1>5, <2>1 DEF Place, Quoted, Stringy
  <2>2. CASE type = "LIST"
    BY <1>4, <1>5, <2>2 DEF Place, AmongElements
  <2>3. CASE type = "OBJECT"
    <3>1. Top'.nelem % 2 = 0
      BY <1>4, <2>3 DEF Container
    <3> QED
      BY <1>4, <1>5, <2>3, <3>1 DEF Place, AmongMembers
  <2>4. CASE type = "SPECIAL"
    <3>1. \/ /\ loose'.at = "in_word" /\ ~IsNumeric(flags) /\ "DASH" \notin flags
          \/ /\ loose'.at = "in_number" /\ tok_last' # "e"
             /\ IF flags = {"DASH"} THEN loose'.num = "minus" /\ tok_last' # "1"
                ELSE IsNumeric(flags) /\ "DASH" \notin flags /\ NumberEnds(loose'.num)
      BY <2>4
    <3>2. {"DASH"} \notin {ZERO, NegativeZero} /\ ~IsNormalNumber({"DASH"})
      BY DEF ZERO, NegativeZero, IsNormalNumber
    <3>3. (InWord(loose) \/ InDigits(loose))'
      BY <1>4, <3>1, <3>2 DEF InWord, InDigits
    <3> QED
      BY <1>4, <1>5, <2>4, <3>3 DEF Place, InWord, InDigits
  <2> QED
    BY <2>1, <2>2, <2>3, <2>4 DEF Type, Container, Stringy
<1> QED
  BY <1>1, <1>2, <1>3, <1>6 DEF Coupled

\* The quote that begins a string or key keeps lexer and reader coupled,
LEMMA CoupledStringBegin ==
  ASSUME JsonslInv, Coupled, FeedRead, StringBegin, StringError = "SUCCESS"
  PROVE  Coupled'
<1> DEFINE type == IF OpensKey THEN "HKEY" ELSE "STRING"
<1>1. /\ InContainer /\ Consume /\ Char = Quote /\ label = "AGAIN"
      /\ can_insert' = FALSE /\ expecting' = (IF OpensKey THEN ":" ELSE ",") /\ tok_last' = NoToken
      /\ StackPush(CountElement, type, StaleNelem, StaleFlags)
      /\ UNCHANGED in_escape
  BY DEF StringBegin
<1>2. /\ ~Full /\ Top.type # "ROOT"
      /\ Top.type = "OBJECT" /\ ~OpensKey => tok_last = ":"
      /\ OpensKey => expecting = Quote
  BY DEF StringError
<1>3. StaleNelem \in Nat /\ StaleFlags \in SUBSET Flag
  BY <1>2, LevelFacts, StackFacts DEF StaleNelem, StaleFlags, JsonslInv
<1>4. /\ loose \in Reader /\ loose' = LooseBetween(loose, Char)
      /\ BetweenTable(LooseBetween(loose, Char), FALSE, loose, Char)
      /\ InObject(loose) <=> Top.type = "OBJECT"
      /\ Top.type = "LIST" => AmongElements(loose)
      /\ Top.type = "OBJECT" => AmongMembers(loose)
      /\ Top.type \in {"ROOT", "LIST", "OBJECT"}
  <2>1. Facing(loose) = loose
    BY <1>1 DEF Facing
  <2> QED
    BY <1>1, <2>1, ReadersRead, PlaceBetween
<1>5. CASE OpensKey
  <2>1. Top.type = "OBJECT" /\ Top.nelem % 2 = 0 /\ expecting = Quote
    BY <1>2, <1>5 DEF OpensKey
  <2>2. loose.at \in {"key", "key_or_close"}
    <3>1. AmongMembers(loose) /\ Top.nelem % 2 # 1
      BY <1>4, <2>1
    <3> QED
      BY <2>1, <3>1 DEF AmongMembers, Quote
  <2>3. loose' = Goto(loose, "in_key")
    BY <1>1, <1>4, <2>2 DEF BetweenTable
  <2>4. loose' \in Reader /\ loose'.ctx = loose.ctx /\ loose'.at = "in_key"
    BY <1>4, <2>3, GotoType DEF Location
  <2>5. StackPush(CountElement, "HKEY", StaleNelem, StaleFlags) /\ expecting' = ":"
    BY <1>1, <1>5
  <2>6. "HKEY" \in Type \ {"ROOT"} /\ "HKEY" \notin Container
    BY DEF Type, Stringy, Container
  <2> QED
    BY <1>1, <1>2, <1>3, <2>4, <2>5, <2>6, CoupledPush
<1>6. CASE ~OpensKey
  <2>1. loose.at \notin {"key", "key_or_close"} /\ MayBegin(FALSE, loose)
    <3>1. CASE Top.type = "LIST"
      BY <1>4, <3>1 DEF AmongElements, MayBegin
    <3>2. CASE Top.type = "OBJECT"
      <4>1. tok_last = ":" /\ AmongMembers(loose)
        BY <1>2, <1>4, <1>6, <3>2
      <4> QED
        BY <4>1 DEF AmongMembers, MayBegin, NoToken
    <3> QED
      BY <1>2, <1>4, <3>1, <3>2
  <2>2. loose' = Goto(loose, "in_string")
    BY <1>1, <1>4, <2>1 DEF BetweenTable, Either
  <2>3. loose' \in Reader /\ loose'.ctx = loose.ctx /\ loose'.at = "in_string"
    BY <1>4, <2>2, GotoType DEF Location
  <2>4. StackPush(CountElement, "STRING", StaleNelem, StaleFlags) /\ expecting' = ","
    BY <1>1, <1>6
  <2>5. "STRING" \in Type \ {"ROOT"} /\ "STRING" \notin Container
    BY DEF Type, Stringy, Container
  <2> QED
    BY <1>1, <1>2, <1>3, <2>3, <2>4, <2>5, CoupledPush
<1> QED
  BY <1>5, <1>6

(* A container opens wherever can_insert allows it. *)
LEMMA CoupledOpen ==
  ASSUME JsonslInv, Coupled, FeedRead, OpenContainer, OpenError = "SUCCESS"
  PROVE  Coupled'
<1> DEFINE type == IF Char = "{" THEN "OBJECT" ELSE "LIST"
           g == Facing(loose)
<1>1. /\ InContainer /\ Consume /\ Char \in {"{", "["}
      /\ can_insert' = TRUE /\ expecting' = (IF Char = "{" THEN Quote ELSE expecting) /\ tok_last' = NoToken
      /\ StackPush(CountElement, type, 0, StaleFlags)
      /\ UNCHANGED in_escape
  BY DEF OpenContainer
<1>2. ~Full /\ can_insert /\ ~KeyMissing
  BY DEF OpenError
<1>3. StaleFlags \in SUBSET Flag
  BY <1>2, LevelFacts, StackFacts DEF StaleFlags, JsonslInv
<1>4. /\ g \in Reader /\ g.ctx = loose.ctx /\ BetweenTable(LooseBetween(g, Char), FALSE, g, Char)
      /\ InObject(g) <=> Top.type = "OBJECT"
      /\ Top.type = "ROOT" => AtRoot(g)
      /\ Top.type = "LIST" => AmongElements(g)
      /\ Top.type = "OBJECT" => AmongMembers(g)
      /\ Top.type \in {"ROOT", "LIST", "OBJECT"}
  BY <1>1, PlaceBetween
<1>5. loose' = LooseBetween(g, Char)
  BY <1>1, ReadersRead, PlaceBetween
<1>6. (MayBegin(FALSE, g) \/ g.at = "start") /\ expecting # ":"
  BY <1>2, <1>4 DEF AtRoot, AmongElements, AmongMembers, MayBegin, KeyMissing, Quote
<1>7. loose' = Open(g, KindOf(type))
  BY <1>1, <1>4, <1>5, <1>6 DEF BetweenTable, Either, KindOf
<1>8. /\ loose' \in Reader /\ loose'.ctx = Append(loose.ctx, KindOf(type))
      /\ loose'.at = IF type = "OBJECT" THEN "key_or_close" ELSE "value_or_close"
  <2>1. KindOf(type) \in {"obj", "list"} /\ (KindOf(type) = "obj" <=> type = "OBJECT")
    BY DEF KindOf
  <2>2. Append(g.ctx, KindOf(type)) \in Seq({"obj", "list"})
    <3>1. g.ctx \in Seq({"obj", "list"})
      BY <1>4 DEF Reader
    <3> HIDE DEF g, type
    <3> QED
      BY <2>1, <3>1
  <2> QED
    BY <1>4, <1>7, <2>1, <2>2 DEF Open, Reader, Location, NumberPart
<1>9. type \in Type \ {"ROOT"} /\ type \in Container /\ type \notin {"HKEY", "STRING", "SPECIAL"}
  BY DEF Type, Container
<1>10. type = "OBJECT" => expecting' = Quote
  BY <1>1
<1>11. expecting' # ":"
  BY <1>1, <1>6 DEF Quote
<1>12. type = "OBJECT" \/ type = "LIST"
  OBVIOUS
<1> HIDE DEF type
<1> QED
  BY <1>1, <1>2, <1>3, <1>8, <1>9, <1>10, <1>11, <1>12, CoupledPush DEF NoToken

\* and the first character of a word or number,
LEMMA CoupledSpecialBegin ==
  ASSUME JsonslInv, Coupled, FeedRead, SpecialBegin, SpecialError = "SUCCESS"
  PROVE  Coupled'
<1> DEFINE flags == ExtractSpecial(Char)
           g == Facing(loose)
<1>1. /\ InContainer /\ Consume /\ flags # {}
      /\ tok_last' = (IF flags = {"UNSIGNED"} THEN "1" ELSE "-")
      /\ StackPush(CountElement, "SPECIAL", 0, flags)
      /\ UNCHANGED in_escape
  BY DEF SpecialBegin
<1>2. ~Full /\ can_insert /\ ~KeyMissing
  BY DEF SpecialError
<1>3. flags \in SUBSET Flag
  BY ExtractSpecialType
<1>4. /\ g \in Reader /\ g.ctx = loose.ctx /\ BetweenTable(LooseBetween(g, Char), FALSE, g, Char)
      /\ InObject(g) <=> Top.type = "OBJECT"
      /\ Top.type = "LIST" => AmongElements(g)
      /\ Top.type = "OBJECT" => AmongMembers(g)
      /\ Top.type = "ROOT" => AtRoot(g)
      /\ Top.type \in {"ROOT", "LIST", "OBJECT"}
  BY <1>1, PlaceBetween
<1>5. loose' = LooseBetween(g, Char)
  BY <1>1, ReadersRead, PlaceBetween
<1>6. MayBegin(FALSE, g)
  BY <1>2, <1>4 DEF AtRoot, AmongElements, AmongMembers, MayBegin, KeyMissing, Quote
<1>7. CASE Char \in Digit \cup {"-"}
  <2>1. loose' = Numbered(g, NumberStart(Char))
    BY <1>4, <1>5, <1>6, <1>7 DEF BetweenTable, Either
  <2>2. NumberStart(Char) \in NumberPart
    BY DEF NumberStart, NumberPart
  <2>3. /\ loose' \in Reader /\ loose'.ctx = loose.ctx /\ loose'.at = "in_number"
        /\ loose'.num = NumberStart(Char)
    BY <1>4, <2>1, <2>2 DEF Numbered, Reader, Location
  <2>4. IF flags = {"DASH"} THEN NumberStart(Char) = "minus" /\ tok_last' # "1"
        ELSE IsNumeric(flags) /\ "DASH" \notin flags /\ NumberEnds(NumberStart(Char))
    <3>1. CASE Char = "-"
      <4>1. flags = {"DASH"} /\ NumberStart(Char) = "minus"
        BY <3>1 DEF ExtractSpecial, NumberStart, Digit
      <4>2. tok_last' # "1"
        BY <1>1, <4>1
      <4> QED
        BY <4>1, <4>2
    <3>2. CASE Char = "0"
      BY <3>2 DEF ExtractSpecial, NumberStart, ZERO, IsNumeric, NUMERIC, NumberEnds
    <3>3. CASE Char \in Digit \ {"0"}
      BY <3>3 DEF ExtractSpecial, NumberStart, IsNumeric, NUMERIC, NumberEnds, Digit
    <3> QED
      BY <1>7, <3>1, <3>2, <3>3
  <2>5. tok_last' # "e" /\ "SPECIAL" \in Type \ {"ROOT"} /\ "SPECIAL" \notin Container
    BY <1>1 DEF Type, Container
  <2> HIDE DEF flags
  <2> QED
    BY <1>1, <1>2, <1>3, <2>3, <2>4, <2>5, CoupledPush
<1>8. CASE Char \in {"true", "false", "null"}
  <2>1. loose' = Goto(g, "in_word")
    BY <1>4, <1>5, <1>6, <1>8 DEF BetweenTable, Either
  <2>2. loose' \in Reader /\ loose'.ctx = loose.ctx /\ loose'.at = "in_word"
    BY <1>4, <2>1, GotoType DEF Location
  <2>3. ~IsNumeric(flags) /\ "DASH" \notin flags
    BY <1>8 DEF ExtractSpecial, IsNumeric, NUMERIC, Digit
  <2>4. "SPECIAL" \in Type \ {"ROOT"} /\ "SPECIAL" \notin Container
    BY DEF Type, Container
  <2> HIDE DEF flags
  <2> QED
    BY <1>1, <1>2, <1>3, <2>2, <2>3, <2>4, CoupledPush
<1> QED
  BY <1>1, <1>7, <1>8 DEF ExtractSpecial, Digit

\* and a bracket that closes a container.
LEMMA CoupledClose ==
  ASSUME JsonslInv, Coupled, FeedRead, CloseContainer, CloseError = "SUCCESS"
  PROVE  Coupled'
<1> DEFINE g == Facing(loose)
           inner == SubSeq(loose.ctx, 1, Len(loose.ctx) - 1)
<1>1. /\ InContainer /\ Consume /\ Char \in {"}", "]"}
      /\ expecting' = "," /\ tok_last' = NoToken /\ StackPop(Top) /\ UNCHANGED in_escape
  BY DEF CloseContainer
<1>2. /\ tok_last # ","
      /\ Char = "]" => Top.type = "LIST"
      /\ Char = "}" => Top.type = "OBJECT" /\ Top.nelem % 2 = 0
  BY <1>1 DEF CloseError
<1>3. /\ g \in Reader /\ g.ctx = loose.ctx /\ BetweenTable(LooseBetween(g, Char), FALSE, g, Char)
      /\ InObject(g) <=> Top.type = "OBJECT"
      /\ InList(g) <=> Top.type = "LIST"
      /\ Top.type = "LIST" => AmongElements(g)
      /\ Top.type = "OBJECT" => AmongMembers(g)
      /\ ~in_escape
  BY <1>1, PlaceBetween
<1>4. loose' = LooseBetween(g, Char) /\ label' = "AGAIN"
  BY <1>1, ReadersRead, PlaceBetween
<1>5. MayClose(FALSE, g)
  <2>1. CASE Char = "]"
    <3>1. AmongElements(g) /\ ~InObject(g)
      BY <1>2, <1>3, <2>1
    <3> QED
      BY <1>2, <3>1 DEF AmongElements, MayClose
  <2>2. CASE Char = "}"
    <3>1. AmongMembers(g)
      BY <1>2, <1>3, <2>2
    <3>2. Top.nelem % 2 # 1
      <4>1. Top.nelem % 2 = 0
        BY <1>2, <2>2
      <4> QED
        BY <4>1
    <3> QED
      BY <1>2, <3>1, <3>2 DEF AmongMembers, MayClose
  <2> QED
    BY <1>1, <2>1, <2>2
<1>6. loose' = Close(g)
  BY <1>1, <1>2, <1>3, <1>4, <1>5 DEF BetweenTable, Either
<1>7. Top \in State /\ level # 0 /\ Top.type \in Container
  BY <1>1, <1>2, LevelTypes DEF Container
<1>8. inner \in Seq({"obj", "list"}) /\ Len(inner) = level' /\ SameNesting(inner, stack', level')
  <2>1. loose.ctx \in Seq({"obj", "list"}) /\ SameNesting(loose.ctx, stack, level)
    BY DEF Coupled, Reader
  <2> QED
    BY <1>1, <1>7, <2>1, NestingPop
<1>9. /\ loose' \in Reader /\ loose'.ctx = inner
      /\ loose'.at = IF loose'.ctx = <<>> THEN "done" ELSE "separator"
  <2>1. [g EXCEPT !.ctx = SubSeq(@, 1, Len(@) - 1)] \in Reader
        /\ [g EXCEPT !.ctx = SubSeq(@, 1, Len(@) - 1)].ctx = inner
    BY <1>3, <1>8 DEF Reader
  <2> QED
    BY <1>6, <2>1, AfterValueType DEF Close
<1>10. (Facing(loose))' = loose'
  BY <1>4 DEF Facing
<1>11. (Place(Facing(loose)))'
  <2>1. Top.type # "HKEY"
    BY <1>7 DEF Container
  <2> QED
    BY <1>1, <1>7, <1>8, <1>9, <1>10, <2>1, PlaceAfterValue
<1> QED
  BY <1>1, <1>3, <1>4, <1>8, <1>9, <1>11 DEF Coupled

(* An error leaves reader and lexer where they are. *)
LEMMA FailLeaves ==
  ASSUME FeedRead, NEW code, Fail(code)
  PROVE  /\ UNCHANGED <<feedVars, tokenVars, level, stack, cb, loose, strict>>
         /\ pos' = pos /\ err' = code
<1>1. UNCHANGED <<feedVars, tokenVars, level, stack, cb>> /\ err' = code
  BY DEF Fail
<1>2. pos' = pos
  BY <1>1 DEF feedVars
<1> QED
  BY <1>1, <1>2 DEF FeedRead, ReadOn, readers

\* An error leaves the lexer where it was.
LEMMA CoupledFails ==
  ASSUME Coupled, FeedRead, NEW code, Fail(code)
  PROVE  Coupled'
  BY FailLeaves, CoupledStays

\* Every step of the feed keeps lexer and reader coupled.
LEMMA CoupledFeed ==
  ASSUME JsonslInv, Coupled, FeedRead
  PROVE  Coupled'
<1>1. CASE StringEscaped
  <2>1. Fail("ESCAPE_INVALID") \/ Consume
    BY <1>1 DEF StringEscaped
  <2> QED
    BY <1>1, <2>1, CoupledFails, CoupledString
<1>2. CASE StringChar \/ StringBeginEscape
  <2>1. Consume
    BY <1>2 DEF StringChar, StringBeginEscape
  <2> QED
    BY <1>2, <2>1, CoupledString
<1>3. CASE StringBadChar \/ NumberInvalid \/ WordInvalid \/ UnexpectedChar
  <2>1. \E code : Fail(code)
    BY <1>3 DEF StringBadChar, NumberInvalid, WordInvalid, UnexpectedChar
  <2> QED
    BY <2>1, CoupledFails
<1>4. CASE StringEnd
  BY <1>4, CoupledStringEnd
<1>5. CASE NumberDash
  <2>1. Fail("INVALID_NUMBER") \/ Consume
    BY <1>5 DEF NumberDash
  <2> QED
    BY <1>5, <2>1, CoupledFails, CoupledNumber
<1>6. CASE NumberFast \/ NumberDigit \/ NumberDot \/ NumberExponent \/ NumberSign
  <2>1. Consume
    BY <1>6 DEF NumberFast, NumberDigit, NumberDot, NumberExponent, NumberSign, NumberMark
  <2> QED
    BY <1>6, <2>1, CoupledNumber
<1>7. CASE SpecialPop
  BY <1>7, CoupledFails, CoupledSpecialPop
<1>8. CASE SkipWhitespace
  BY <1>8, CoupledWhitespace
<1>9. CASE StringBegin
  <2>1. StringError # "SUCCESS" => Fail(StringError)
    BY <1>9 DEF StringBegin
  <2> QED
    BY <1>9, <2>1, CoupledFails, CoupledStringBegin
<1>10. CASE Colon
  BY <1>10, CoupledFails, CoupledColon
<1>11. CASE Comma
  BY <1>11, CoupledFails, CoupledComma
<1>12. CASE OpenContainer
  <2>1. OpenError # "SUCCESS" => Fail(OpenError)
    BY <1>12 DEF OpenContainer
  <2> QED
    BY <1>12, <2>1, CoupledFails, CoupledOpen
<1>13. CASE CloseContainer
  <2>1. CloseError # "SUCCESS" => Fail(CloseError)
    BY <1>13 DEF CloseContainer
  <2> QED
    BY <1>13, <2>1, CoupledFails, CoupledClose
<1>14. CASE SpecialBegin
  <2>1. SpecialError # "SUCCESS" => Fail(SpecialError)
    BY <1>14 DEF SpecialBegin
  <2> QED
    BY <1>14, <2>1, CoupledFails, CoupledSpecialBegin
<1> QED
  BY <1>1, <1>2, <1>3, <1>4, <1>5, <1>6, <1>7, <1>8, <1>9, <1>10, <1>11, <1>12, <1>13, <1>14
  DEF FeedRead, Feed

-----------------------------------------------------------------------------
(* While the text is still JSON, the two readers are one. *)

\* A text that goes on as JSON was JSON before.
LEMMA BadReaderStays ==
  ASSUME NEW g, NEW ch, Viable(JsonStep(g, ch))
  PROVE  Viable(g)
  BY DEF JsonStep, Step, Viable

(* The readers after a symbol that JSON allows. *)
LEMMA StrictReads ==
  ASSUME JsonslInv, Coupled, StrictCoupled, FeedRead, Consume, Viable(strict')
  PROVE  /\ Viable(strict) /\ strict = loose /\ loose \in Reader
         /\ strict' = loose' /\ strict' = JsonStep(loose, Char)
         /\ StepTable(JsonStep(loose, Char), JsonBetween(loose, Char), JsonBetween(AfterValue(loose), Char),
                      JsonNumber(loose.num, Char), loose, Char)
<1>1. strict' = JsonStep(strict, Char) /\ loose' = LooseStep(loose, Char)
  BY ReadersRead
<1>2. Viable(strict)
  BY <1>1, BadReaderStays
<1>3. strict = loose /\ loose \in Reader
  BY <1>2 DEF StrictCoupled, Coupled
<1>4. Viable(JsonStep(loose, Char))
  BY <1>1, <1>3
<1>5. strict' = loose'
  BY <1>1, <1>3, <1>4, StrictIsLoose
<1>6. StepTable(JsonStep(loose, Char), JsonBetween(loose, Char), JsonBetween(AfterValue(loose), Char),
                JsonNumber(loose.num, Char), loose, Char)
  BY <1>3, JsonStepSymbols
<1> QED
  BY <1>1, <1>2, <1>3, <1>5, <1>6

(* In a number: the part JSON has read, and the part it reads. *)
LEMMA JsonNumberRead ==
  ASSUME JsonslInv, Coupled, StrictCoupled, FeedRead, Consume, Viable(strict'), Top.type = "SPECIAL",
         IsNumeric(Top.special_flags) \/ "DASH" \in Top.special_flags,
         Char \in Digit \cup {".", "e"} \cup Sign
  PROVE  /\ InJsonNumber(loose.num) /\ loose.num \in NumberPart
         /\ strict'.num = JsonNumber(loose.num, Char) /\ strict'.num # "none"
<1>1. /\ strict = loose /\ loose \in Reader /\ Viable(strict)
      /\ strict' = loose' /\ strict' = JsonStep(loose, Char)
      /\ StepTable(JsonStep(loose, Char), JsonBetween(loose, Char), JsonBetween(AfterValue(loose), Char),
                   JsonNumber(loose.num, Char), loose, Char)
  BY StrictReads
<1>2. InDigits(loose)
  BY NumberRead
<1>3. loose.at = "in_number" /\ loose.num \in NumberPart
  BY <1>1, <1>2 DEF InDigits, Reader
<1>4. InJsonNumber(loose.num)
  BY <1>1, <1>3 DEF StrictCoupled
<1>5. Char \notin SpecialEnd
  BY <1>3, LooseNumberGoesOn
<1>6. strict' = IF JsonNumber(loose.num, Char) = "none" THEN Bad(loose)
                ELSE [loose EXCEPT !.num = JsonNumber(loose.num, Char)]
  BY <1>1, <1>3, <1>5 DEF StepTable
<1>7. JsonNumber(loose.num, Char) # "none"
  BY <1>1, <1>6, BadStays
<1> QED
  BY <1>1, <1>3, <1>4, <1>6, <1>7 DEF Reader

(* What may follow what, in a number of JSON. *)
LEMMA JsonNumberMoves ==
  ASSUME NEW num \in NumberPart, NEW ch, JsonNumber(num, ch) # "none"
  PROVE  /\ ch \in Digit => /\ num # "zero"
                            /\ num = "minus" => JsonNumber(num, ch) = IF ch = "0" THEN "zero" ELSE "int"
                            /\ num = "int" => JsonNumber(num, ch) = "int"
                            /\ num \in {"dot", "frac"} => JsonNumber(num, ch) = "frac"
                            /\ num \in {"e", "esign", "edigit"} => JsonNumber(num, ch) = "edigit"
         /\ ch = "." => num \in {"zero", "int"} /\ JsonNumber(num, ch) = "dot"
         /\ ch = "e" => num \in {"zero", "int", "frac"} /\ JsonNumber(num, ch) = "e"
         /\ ch \in Sign => num = "e" /\ JsonNumber(num, ch) = "esign"
  BY DEF JsonNumber, NumberNext, NumberPart, Digit, Sign

(* What the flags tell of the part. *)
LEMMA FlagsTellPart ==
  ASSUME NEW num \in NumberPart, InJsonNumber(num)
  PROVE  /\ IsNormalNumber(Top.special_flags) => num = "int"
         /\ Top.special_flags = {"DASH"} => num = "minus"
         /\ Top.special_flags = ZERO => num = "zero"
         /\ num = "minus" => Top.special_flags = {"DASH"}
         /\ num = "zero" => Top.special_flags \in {ZERO, NegativeZero}
         /\ num = "int" => IsNormalNumber(Top.special_flags)
         /\ num \in {"dot", "frac"} => "FLOAT" \in Top.special_flags /\ "EXPONENT" \notin Top.special_flags
         /\ num \in {"e", "esign", "edigit"} => "EXPONENT" \in Top.special_flags
         /\ num # "none"
         /\ tok_last = "e" => num = "e"
         /\ num \in {"frac", "edigit"} => tok_last = "1"
         /\ num = "e" => tok_last = "e"
  BY DEF InJsonNumber, IsNormalNumber, ZERO, NegativeZero, NumberPart

(* A number goes on: the flags keep to its part. *)
LEMMA StrictNumber ==
  ASSUME JsonslInv, Coupled, StrictCoupled, FeedRead, Consume, Viable(strict'),
         \/ NumberFast \/ NumberDash \/ NumberDigit \/ NumberDot \/ NumberExponent \/ NumberSign
  PROVE  InJsonNumber(strict.num)' /\ Top'.type = "SPECIAL"
<1> DEFINE flags == Top.special_flags
           num == loose.num
           next == strict'.num
<1>1. /\ Top.type = "SPECIAL" /\ level' = level
      /\ IsNumeric(flags) \/ "DASH" \in flags
  BY DEF NumberFast, NumberDash, NumberDigit, NumberDot, NumberExponent, NumberSign,
         NumberMark, InNumber, InSpecial, Fail, IsNormalNumber, IsNumeric, NUMERIC
<1>2. Char \in Digit \cup {".", "e"} \cup Sign
  <2>1. CASE NumberFast
    BY <2>1 DEF NumberFast
  <2>2. CASE NumberDash
    BY <2>2, CursorFacts DEF NumberDash, Fail, Consume, feedVars, JsonslInv
  <2>3. CASE NumberDigit
    BY <2>3 DEF NumberDigit, SlowDigit
  <2>4. CASE NumberDot \/ NumberExponent \/ NumberSign
    BY <2>4 DEF NumberDot, NumberExponent, NumberSign
  <2> QED
    BY <2>1, <2>2, <2>3, <2>4
<1>3. InJsonNumber(num) /\ num \in NumberPart /\ next = JsonNumber(num, Char) /\ next # "none"
  BY <1>1, <1>2, JsonNumberRead
<1>4. /\ Char \in Digit => /\ num # "zero"
                           /\ num = "minus" => next = IF Char = "0" THEN "zero" ELSE "int"
                           /\ num = "int" => next = "int"
                           /\ num \in {"dot", "frac"} => next = "frac"
                           /\ num \in {"e", "esign", "edigit"} => next = "edigit"
      /\ Char = "." => num \in {"zero", "int"} /\ next = "dot"
      /\ Char = "e" => num \in {"zero", "int", "frac"} /\ next = "e"
      /\ Char \in Sign => num = "e" /\ next = "esign"
  BY <1>3, JsonNumberMoves
<1>5. /\ IsNormalNumber(flags) => num = "int"
      /\ flags = {"DASH"} => num = "minus"
      /\ flags = ZERO => num = "zero"
      /\ num = "minus" => flags = {"DASH"}
      /\ num = "zero" => flags \in {ZERO, NegativeZero}
      /\ num = "int" => IsNormalNumber(flags)
      /\ num \in {"dot", "frac"} => "FLOAT" \in flags /\ "EXPONENT" \notin flags
      /\ num \in {"e", "esign", "edigit"} => "EXPONENT" \in flags
      /\ num # "none"
      /\ tok_last = "e" => num = "e"
  BY <1>3, FlagsTellPart
<1>6. stack \in [Level -> State] /\ level \in Level /\ flags \in SUBSET Flag
  BY LevelFacts, StackFacts DEF JsonslInv, Top, State
<1> HIDE DEF num, next
<1>7. CASE NumberFast
  <2>1. Char \in Digit /\ num = "int" /\ UNCHANGED <<stack, tok_last>>
    BY <1>5, <1>7 DEF NumberFast, tokenVars
  <2>2. tok_last \in {"1", "-"}
    BY <1>3, <2>1 DEF InJsonNumber
  <2> QED
    BY <1>1, <1>4, <1>5, <2>1, <2>2 DEF InJsonNumber, Top, next
<1>8. CASE NumberDash
  <2>1. Char \in Digit /\ flags = {"DASH"} /\ UNCHANGED tok_last
        /\ stack' = [stack EXCEPT ![level].special_flags =
                       IF Char = "0" THEN ZERO \cup {"SIGNED"} ELSE {"SIGNED"}]
    BY <1>8, CursorFacts DEF NumberDash, Fail, Consume, feedVars, JsonslInv, tokenVars
  <2>2. num = "minus" /\ tok_last = "-"
    BY <1>3, <1>5, <2>1 DEF InJsonNumber
  <2>3. Top'.special_flags = (IF Char = "0" THEN ZERO \cup {"SIGNED"} ELSE {"SIGNED"})
        /\ Top'.type = "SPECIAL"
    BY <1>1, <1>6, <2>1 DEF Top, State
  <2> QED
    BY <1>4, <2>1, <2>2, <2>3 DEF InJsonNumber, IsNormalNumber, NegativeZero, next
<1>9. CASE NumberDigit
  <2>1. /\ Char \in Digit /\ IsNumeric(flags) /\ ~IsNormalNumber(flags)
        /\ UNCHANGED stack /\ tok_last' = "1"
    BY <1>9 DEF NumberDigit, InNumber, SlowDigit
  <2>2. Top' = Top /\ flags # {"DASH"}
    BY <1>1, <2>1 DEF Top, IsNumeric, NUMERIC
  <2>3. num \in {"dot", "frac", "e", "esign", "edigit"}
    BY <1>3, <1>4, <1>5, <2>1, <2>2 DEF NumberPart
  <2>4. next = IF num \in {"dot", "frac"} THEN "frac" ELSE "edigit"
    BY <1>4, <2>1, <2>3
  <2> QED
    BY <1>1, <1>5, <2>1, <2>2, <2>3, <2>4 DEF InJsonNumber, next
<1>10. CASE NumberDot
  <2>1. /\ Char = "." /\ tok_last' = "."
        /\ stack' = [stack EXCEPT ![level].special_flags = NumberFlags \cup {"FLOAT"}]
    BY <1>10 DEF NumberDot, NumberMark
  <2>2. Top'.special_flags = NumberFlags \cup {"FLOAT"} /\ Top'.type = "SPECIAL"
    BY <1>1, <1>6, <2>1 DEF Top, State
  <2>3. "EXPONENT" \notin NumberFlags
    BY <1>4, <1>5, <2>1 DEF NumberFlags, LeadingZero, ZERO, NegativeZero, IsNormalNumber
  <2> QED
    BY <1>4, <2>1, <2>2, <2>3 DEF InJsonNumber, next
<1>11. CASE NumberExponent
  <2>1. /\ Char = "e" /\ tok_last' = "e"
        /\ stack' = [stack EXCEPT ![level].special_flags = NumberFlags \cup {"EXPONENT"}]
    BY <1>11 DEF NumberExponent, NumberMark
  <2>2. Top'.special_flags = NumberFlags \cup {"EXPONENT"} /\ Top'.type = "SPECIAL"
    BY <1>1, <1>6, <2>1 DEF Top, State
  <2> QED
    BY <1>4, <2>1, <2>2 DEF InJsonNumber, next
<1>12. CASE NumberSign
  <2>1. /\ Char \in Sign /\ tok_last' = "-"
        /\ stack' = [stack EXCEPT ![level].special_flags = NumberFlags \cup {}]
    BY <1>12 DEF NumberSign, NumberMark
  <2>2. Top'.special_flags = NumberFlags \cup {} /\ Top'.type = "SPECIAL"
    BY <1>1, <1>6, <2>1 DEF Top, State
  <2>3. "EXPONENT" \in NumberFlags
    BY <1>4, <1>5, <2>1 DEF NumberFlags, LeadingZero, ZERO
  <2> QED
    BY <1>4, <2>1, <2>2, <2>3 DEF InJsonNumber, next
<1> QED
  BY <1>7, <1>8, <1>9, <1>10, <1>11, <1>12

(* Between values JSON too has seen all but the symbol that ended a word. *)
LEMMA JsonFaces ==
  ASSUME JsonslInv, Coupled, InContainer
  PROVE  /\ JsonStep(loose, Char) = JsonBetween(Facing(loose), Char)
         /\ BetweenTable(JsonBetween(Facing(loose), Char), TRUE, Facing(loose), Char)
<1>1. loose \in Reader
  BY DEF Coupled
<1>2. StepTable(JsonStep(loose, Char), JsonBetween(loose, Char), JsonBetween(AfterValue(loose), Char),
                JsonNumber(loose.num, Char), loose, Char)
  BY <1>1, JsonStepSymbols
<1>3. CASE label = "STRUCTURAL"
  BY <1>1, <1>2, <1>3, JsonBetweenSymbols DEF StepTable, Facing, Coupled, Pending
<1>4. CASE label # "STRUCTURAL"
  <2>1. Place(loose) /\ Facing(loose) = loose
    BY <1>4 DEF Coupled, Facing
  <2>2. Top.type \in {"ROOT", "LIST", "OBJECT"}
    BY LevelTypes DEF InContainer, Type, Container, Stringy
  <2>3. loose.at \in {"start", "value", "done", "value_or_close", "separator",
                      "key_or_close", "key", "colon"}
    BY <2>1, <2>2 DEF Place, AtRoot, AmongElements, AmongMembers
  <2> QED
    BY <1>1, <1>2, <2>1, <2>3, JsonBetweenSymbols DEF StepTable
<1> QED
  BY <1>3, <1>4

\* A closed container is followed by a separator, or by nothing.
LEMMA CloseType ==
  ASSUME NEW g \in Reader, g.ctx # <<>>
  PROVE  Close(g).at \in {"done", "separator"}
<1> DEFINE inner == [g EXCEPT !.ctx = SubSeq(@, 1, Len(@) - 1)]
<1>1. g.ctx \in Seq({"obj", "list"})
  BY DEF Reader
<1>2. SubSeq(g.ctx, 1, Len(g.ctx) - 1) \in Seq({"obj", "list"})
  BY <1>1
<1>3. inner \in Reader
  BY <1>2 DEF Reader
<1> HIDE DEF inner
<1>4. AfterValue(inner).at \in {"done", "separator"}
  BY <1>3, AfterValueType
<1> QED
  BY <1>4 DEF Close, inner

(* Where a handler takes the reader of JSON, except inside a number. *)
StrictGoes ==
  /\ Viable(strict')
  => /\ strict' = loose'
     /\ \/ strict'.at \notin {"in_number", "value"}
        \/ Top'.type \notin {"SPECIAL", "ROOT"}

\* If the strict reader takes the step with the loose one, or stops, they stay
\* coupled.
LEMMA StrictGoesIsEnough ==
  ASSUME StrictGoes
  PROVE  StrictCoupled'
  BY DEF StrictGoes, StrictCoupled

\* In a string or key the strict reader goes with the loose one.
LEMMA StrictString ==
  ASSUME JsonslInv, Coupled, StrictCoupled, FeedRead, Consume,
         StringEscaped \/ StringChar \/ StringBeginEscape \/ StringEnd
  PROVE  StrictGoes
<1> SUFFICES ASSUME Viable(strict')
             PROVE  strict' = loose' /\ strict'.at \notin {"in_number", "value"}
  BY DEF StrictGoes
<1>1. /\ strict' = loose' /\ strict' = JsonStep(loose, Char) /\ loose \in Reader
      /\ StepTable(JsonStep(loose, Char), JsonBetween(loose, Char), JsonBetween(AfterValue(loose), Char),
                   JsonNumber(loose.num, Char), loose, Char)
  BY StrictReads
<1>2. Top.type \in Stringy
  BY DEF StringEscaped, StringChar, StringBeginEscape, StringEnd, InString
<1>3. Place(loose)
  BY <1>2, NothingPends DEF Coupled
<1> DEFINE inside == IF Top.type = "HKEY" THEN "in_key" ELSE "in_string"
           escape == IF Top.type = "HKEY" THEN "key_escape" ELSE "string_escape"
           after  == IF Top.type = "HKEY" THEN Goto(loose, "colon") ELSE AfterValue(loose)
<1>4. loose.at = (IF in_escape THEN escape ELSE inside)
  BY <1>2, <1>3 DEF Place, Quoted, Stringy
<1>5. strict' = InQuotes(loose, Char, escape, inside, after)
  BY <1>1, <1>4 DEF StepTable
<1>6. /\ Goto(loose, inside).at = inside /\ Goto(loose, escape).at = escape
      /\ after.at \in {"colon", "done", "separator"}
  <2>1. inside \in Location \ {"bad"} /\ escape \in Location \ {"bad"}
    BY DEF Location
  <2>2. Goto(loose, "colon").at = "colon" /\ AfterValue(loose).at \in {"done", "separator"}
    BY <1>1, GotoType, AfterValueType DEF Location
  <2> HIDE DEF inside, escape
  <2> QED
    BY <1>1, <2>1, <2>2, GotoType
<1>7. Bad(loose).at = "bad"
  BY <1>1 DEF Reader, Bad
<1>8. inside \notin {"in_number", "value"} /\ escape \notin {"in_number", "value"}
  OBVIOUS
<1> HIDE DEF inside, escape, after
<1> QED
  BY <1>1, <1>4, <1>5, <1>6, <1>7, <1>8 DEF InQuotes, Viable

\* The end of a word or number does not part them,
LEMMA StrictSpecialPop ==
  ASSUME JsonslInv, Coupled, StrictCoupled, FeedRead, SpecialPop, ~Fail("INVALID_NUMBER"), Coupled'
  PROVE  StrictCoupled'
<1> SUFFICES ASSUME Viable(strict')
             PROVE  StrictCoupled'
  BY DEF StrictCoupled
<1>1. /\ Running /\ Top.type = "SPECIAL" /\ Char \in SpecialEnd
      /\ IF Char \in Whitespace THEN Consume
         ELSE label' = "STRUCTURAL" /\ UNCHANGED <<text, pos>>
  BY DEF SpecialPop, InSpecial
<1>2. CASE Char \in Whitespace
  <2>1. /\ strict' = loose' /\ strict' = JsonStep(loose, Char) /\ loose \in Reader
        /\ StepTable(JsonStep(loose, Char), JsonBetween(loose, Char), JsonBetween(AfterValue(loose), Char),
                     JsonNumber(loose.num, Char), loose, Char)
    BY <1>1, <1>2, StrictReads
  <2>2. loose.at \in {"in_word", "in_number"}
    BY <1>1, NothingPends DEF Coupled, Place, InWord, InDigits
  <2>3. strict' = JsonBetween(AfterValue(loose), Char)
    BY <1>1, <2>1, <2>2, BadStays DEF StepTable
  <2>4. BetweenTable(JsonBetween(AfterValue(loose), Char), TRUE, AfterValue(loose), Char)
    BY JsonBetweenSymbols
  <2>5. strict' = AfterValue(loose)
    BY <1>2, <2>3, <2>4 DEF BetweenTable
  <2>6. strict'.at \in {"done", "separator"}
    BY <2>1, <2>5, AfterValueType
  <2> QED
    BY <2>1, <2>6 DEF StrictCoupled
<1>3. CASE Char \notin Whitespace
  <2>1. label' = "STRUCTURAL" /\ pos' = pos
    BY <1>1, <1>3
  <2>2. strict' = strict /\ loose' = loose
    BY <2>1 DEF FeedRead, ReadOn, readers
  <2>3. strict' = loose'
    BY <2>2 DEF StrictCoupled
  <2>4. Pending'
    BY <2>1 DEF Coupled
  <2> QED
    BY <2>3, <2>4 DEF Pending, StrictCoupled
<1> QED
  BY <1>2, <1>3

(* Between values, when the lexer consumes the symbol. *)
LEMMA StrictBetween ==
  ASSUME JsonslInv, Coupled, StrictCoupled, FeedRead, InContainer, Consume,
         Char \in Structural \cup {Quote}, Char \in {":", ","} => UNCHANGED <<level, stack>>
  PROVE  StrictGoes
<1> SUFFICES ASSUME Viable(strict')
             PROVE  /\ strict' = loose'
                    /\ \/ strict'.at \notin {"in_number", "value"}
                       \/ Top'.type \notin {"SPECIAL", "ROOT"}
  BY DEF StrictGoes
<1> DEFINE g == Facing(loose)
<1>1. strict' = loose' /\ strict' = JsonBetween(g, Char)
  BY StrictReads, JsonFaces
<1>2. BetweenTable(JsonBetween(g, Char), TRUE, g, Char)
  BY JsonFaces
<1>3. /\ g \in Reader
      /\ InObject(g) <=> Top.type = "OBJECT"
      /\ InList(g) <=> Top.type = "LIST"
      /\ g.ctx = <<>> <=> Top.type = "ROOT"
      /\ Top.type = "ROOT" => AtRoot(g)
      /\ Top.type \in {"ROOT", "LIST", "OBJECT"}
  BY PlaceBetween
<1>4. ~Viable(Bad(g))
  BY <1>3, BadStays
<1> HIDE DEF g
<1>5. CASE Char = "{"
  <2>1. strict' = Open(g, "obj")
    BY <1>1, <1>2, <1>4, <1>5 DEF BetweenTable, Either
  <2>2. Open(g, "obj").at = "key_or_close"
    BY DEF Open
  <2> QED
    BY <1>1, <2>1, <2>2
<1>6. CASE Char = "["
  <2>1. strict' = Open(g, "list")
    BY <1>1, <1>2, <1>4, <1>6 DEF BetweenTable, Either
  <2>2. Open(g, "list").at = "value_or_close"
    BY DEF Open
  <2> QED
    BY <1>1, <2>1, <2>2
<1>7. CASE Char \in {"}", "]"}
  <2>1. strict' = Close(g) /\ (InObject(g) \/ InList(g))
    BY <1>1, <1>2, <1>4, <1>7 DEF BetweenTable, Either
  <2>2. Close(g).at \in {"done", "separator"}
    BY <1>3, <2>1, CloseType
  <2> QED
    BY <1>1, <2>1, <2>2
<1>8. CASE Char = ":"
  <2>1. g.at = "colon"
    BY <1>1, <1>2, <1>4, <1>8 DEF BetweenTable, Either
  <2>2. Top' = Top
    BY <1>8 DEF Top
  <2>3. Top.type \notin {"ROOT", "SPECIAL"}
    BY <1>3, <2>1 DEF AtRoot
  <2> QED
    BY <1>1, <2>2, <2>3
<1>9. CASE Char = ","
  <2>1. g.at = "separator"
    BY <1>1, <1>2, <1>4, <1>9 DEF BetweenTable, Either
  <2>2. Top' = Top
    BY <1>9 DEF Top
  <2>3. Top.type \notin {"ROOT", "SPECIAL"}
    BY <1>3, <2>1 DEF AtRoot
  <2> QED
    BY <1>1, <2>2, <2>3
<1>10. CASE Char = Quote
  <2>1. strict' = Goto(g, "in_key") \/ strict' = Goto(g, "in_string")
    BY <1>1, <1>2, <1>4, <1>10 DEF BetweenTable, Either
  <2>2. "in_key" \in Location \ {"bad"} /\ "in_string" \in Location \ {"bad"}
    BY DEF Location
  <2>3. Goto(g, "in_key").at = "in_key" /\ Goto(g, "in_string").at = "in_string"
    BY <1>3, <2>2, GotoType
  <2> QED
    BY <1>1, <2>1, <2>3
<1> QED
  BY <1>5, <1>6, <1>7, <1>8, <1>9, <1>10 DEF Structural

\* nor does whitespace,
LEMMA StrictWhitespace ==
  ASSUME JsonslInv, Coupled, StrictCoupled, FeedRead, SkipWhitespace
  PROVE  StrictCoupled'
<1> SUFFICES ASSUME Viable(strict') PROVE StrictCoupled'
  BY DEF StrictCoupled
<1>1. InContainer /\ Consume /\ Char \in Whitespace /\ label = "AGAIN" /\ UNCHANGED <<level, stack>>
  BY DEF SkipWhitespace
<1>2. Facing(loose) = loose
  BY <1>1 DEF Facing
<1>3. /\ strict = loose /\ Viable(strict) /\ strict' = loose' /\ strict' = JsonBetween(loose, Char)
      /\ BetweenTable(JsonBetween(loose, Char), TRUE, loose, Char)
  BY <1>1, <1>2, StrictReads, JsonFaces
<1>4. strict' = strict
  BY <1>1, <1>3 DEF BetweenTable
<1>5. Top' = Top /\ Top.type # "SPECIAL"
  BY <1>1 DEF Top, InContainer
<1>6. Top.type = "ROOT" => strict.at # "value"
  BY <1>3 DEF StrictCoupled
<1> QED
  BY <1>3, <1>4, <1>5, <1>6 DEF StrictCoupled

\* nor the first character of a word or number,
LEMMA StrictSpecialBegin ==
  ASSUME JsonslInv, Coupled, StrictCoupled, FeedRead, SpecialBegin, SpecialError = "SUCCESS"
  PROVE  StrictCoupled'
<1> SUFFICES ASSUME Viable(strict') PROVE StrictCoupled'
  BY DEF StrictCoupled
<1> DEFINE flags == ExtractSpecial(Char)
           g == Facing(loose)
<1>1. /\ InContainer /\ Consume /\ flags # {} /\ ~Full
      /\ tok_last' = (IF flags = {"UNSIGNED"} THEN "1" ELSE "-")
      /\ StackPush(CountElement, "SPECIAL", 0, flags)
  BY DEF SpecialBegin, SpecialError
<1>2. /\ strict' = loose' /\ strict' = JsonBetween(g, Char)
      /\ BetweenTable(JsonBetween(g, Char), TRUE, g, Char)
      /\ g \in Reader
  BY <1>1, StrictReads, JsonFaces, PlaceBetween
<1>3. Top'.type = "SPECIAL" /\ Top'.special_flags = flags
  <2>1. flags \in SUBSET Flag /\ "SPECIAL" \in Type \ {"ROOT"} /\ 0 \in Nat
    BY ExtractSpecialType DEF Type
  <2> QED
    BY <1>1, <2>1, PushedTop
<1>4. CASE Char \in Digit \cup {"-"}
  <2>1. strict' = Numbered(g, NumberStart(Char))
    BY <1>2, <1>4, BadStays DEF BetweenTable, Either
  <2>2. strict'.at = "in_number" /\ strict'.num = NumberStart(Char)
    BY <1>2, <2>1 DEF Numbered, Reader
  <2>3. CASE Char = "-"
    <3>1. flags = {"DASH"} /\ NumberStart(Char) = "minus"
      BY <2>3 DEF ExtractSpecial, NumberStart, Digit
    <3> QED
      BY <1>1, <1>2, <1>3, <2>2, <3>1 DEF StrictCoupled, InJsonNumber
  <2>4. CASE Char = "0"
    <3>1. flags = ZERO /\ NumberStart(Char) = "zero" /\ ZERO # {"UNSIGNED"}
      BY <2>4 DEF ExtractSpecial, NumberStart, Digit, ZERO
    <3> QED
      BY <1>1, <1>2, <1>3, <2>2, <3>1 DEF StrictCoupled, InJsonNumber
  <2>5. CASE Char \in Digit \ {"0"}
    <3>1. flags = {"UNSIGNED"} /\ NumberStart(Char) = "int" /\ IsNormalNumber(flags)
      BY <2>5 DEF ExtractSpecial, NumberStart, Digit, IsNormalNumber
    <3> QED
      BY <1>1, <1>2, <1>3, <2>2, <3>1 DEF StrictCoupled, InJsonNumber
  <2> QED
    BY <1>4, <2>3, <2>4, <2>5
<1>5. CASE Char \in {"true", "false", "null"}
  <2>1. strict' = Goto(g, "in_word")
    BY <1>2, <1>5, BadStays DEF BetweenTable, Either
  <2>2. strict'.at = "in_word"
    BY <1>2, <2>1, GotoType DEF Location
  <2> QED
    BY <1>2, <1>3, <2>2 DEF StrictCoupled
<1> QED
  BY <1>1, <1>4, <1>5 DEF ExtractSpecial, Digit

\* nor an error.
LEMMA StrictFails ==
  ASSUME StrictCoupled, FeedRead, NEW code, Fail(code)
  PROVE  StrictCoupled'
<1>1. UNCHANGED <<level, stack, loose, strict, tok_last>>
  BY FailLeaves DEF tokenVars
<1> QED
  BY <1>1 DEF StrictCoupled, InJsonNumber, Top

\* Every step of the feed keeps the strict reader coupled, or ends its JSON.
LEMMA StrictFeed ==
  ASSUME JsonslInv, Coupled, StrictCoupled, FeedRead
  PROVE  StrictCoupled'
<1>1. CASE \E code : Fail(code)
  BY <1>1, StrictFails
<1>2. CASE StringEscaped \/ StringChar \/ StringBeginEscape \/ StringEnd
  <2>1. (\E code : Fail(code)) \/ Consume
    BY <1>2 DEF StringEscaped, StringChar, StringBeginEscape, StringEnd
  <2> QED
    BY <1>1, <1>2, <2>1, StrictString, StrictGoesIsEnough
<1>3. CASE StringBadChar \/ NumberInvalid \/ WordInvalid \/ UnexpectedChar
  <2>1. \E code : Fail(code)
    BY <1>3 DEF StringBadChar, NumberInvalid, WordInvalid, UnexpectedChar
  <2> QED
    BY <1>1, <2>1
<1>4. CASE NumberFast \/ NumberDash \/ NumberDigit \/ NumberDot \/ NumberExponent \/ NumberSign
  <2>1. (\E code : Fail(code)) \/ Consume
    BY <1>4 DEF NumberFast, NumberDash, NumberDigit, NumberDot, NumberExponent, NumberSign, NumberMark
  <2>2. CASE Consume
    <3>1. Viable(strict') => strict' = loose' /\ InJsonNumber(strict.num)' /\ Top'.type = "SPECIAL"
      BY <1>4, <2>2, StrictReads, StrictNumber
    <3> QED
      BY <3>1 DEF StrictCoupled
  <2> QED
    BY <1>1, <2>1, <2>2
<1>5. CASE SpecialPop
  BY <1>1, <1>5, CoupledFeed, StrictSpecialPop
<1>6. CASE SkipWhitespace
  BY <1>6, StrictWhitespace
<1>7. CASE StringBegin \/ Colon \/ Comma \/ OpenContainer \/ CloseContainer
  <2>1. \/ \E code : Fail(code)
        \/ /\ InContainer /\ Consume /\ Char \in Structural \cup {Quote}
           /\ Char \in {":", ","} => UNCHANGED <<level, stack>>
    BY <1>7 DEF StringBegin, Colon, Comma, OpenContainer, CloseContainer, Structural, Quote
  <2> QED
    BY <1>1, <2>1, StrictBetween, StrictGoesIsEnough
<1>8. CASE SpecialBegin
  <2>1. SpecialError # "SUCCESS" => Fail(SpecialError)
    BY <1>8 DEF SpecialBegin
  <2> QED
    BY <1>1, <1>8, <2>1, StrictSpecialBegin
<1> QED
  BY <1>2, <1>3, <1>4, <1>5, <1>6, <1>7, <1>8 DEF FeedRead, Feed

-----------------------------------------------------------------------------
(* What the lexer refuses is no JSON. *)

Hopeless == ~Viable(JsonStep(strict, Char))

\* An error is justified if the next symbol ends every reading as JSON, or if
\* the stack is full.
LEMMA RefusedBy ==
  ASSUME JsonslInv, FeedRead, NEW code, Fail(code),
         Hopeless \/ (code = "LEVELS_EXCEEDED" /\ Len(strict.ctx) = LevelsMax - 1)
  PROVE  Refused'
<1>1. UNCHANGED <<text, pos, cb, strict>> /\ err' = code
  BY FailLeaves DEF feedVars
<1>2. cb = NoCallback
  BY DEF FeedRead, Feed, StringEscaped, StringChar, StringBadChar, StringBeginEscape, StringEnd,
         NumberFast, NumberDash, NumberDigit, NumberDot, NumberExponent, NumberSign, NumberInvalid,
         WordInvalid, SpecialPop, SkipWhitespace, StringBegin, Colon, Comma, OpenContainer,
         CloseContainer, SpecialBegin, UnexpectedChar, InString, InNumber, InSpecial, InContainer,
         Running
<1>3. UNCHANGED Char
  BY <1>1 DEF Char
<1>4. (~Viable(Step(TRUE, strict, Char)))' \/ (code = "LEVELS_EXCEEDED" /\ (Len(strict.ctx) = LevelsMax - 1)')
  BY <1>1, <1>3 DEF Hopeless, JsonStep
<1> QED
  BY <1>1, <1>2, <1>4 DEF Refused, AcceptsJson

(* Only a reader that is still one with the lexer's needs a look. *)
LEMMA HopelessUnlessJson == ~Viable(strict) => Hopeless
  BY BadReaderStays DEF Hopeless

\* So is the error on a character no string holds,
LEMMA StringRefused ==
  ASSUME JsonslInv, Coupled, StrictCoupled, InString,
         \/ in_escape /\ Char \notin AllowedEscape
         \/ ~in_escape /\ ~IsSimpleChar(Char) /\ Char \notin {Quote, Bslash}
  PROVE  Hopeless
<1> SUFFICES ASSUME Viable(strict) PROVE Hopeless
  BY HopelessUnlessJson
<1>1. strict = loose /\ loose \in Reader /\ Top.type \in Stringy /\ Facing(loose) = loose
  BY NothingPends DEF StrictCoupled, Coupled, InString
<1>2. Place(loose)
  BY <1>1 DEF Coupled
<1> DEFINE inside == IF Top.type = "HKEY" THEN "in_key" ELSE "in_string"
           escape == IF Top.type = "HKEY" THEN "key_escape" ELSE "string_escape"
<1>3. loose.at = (IF in_escape THEN escape ELSE inside)
  BY <1>1, <1>2 DEF Place, Quoted, Stringy
<1>4. \E after : JsonStep(loose, Char) = InQuotes(loose, Char, escape, inside, after)
  BY <1>1, <1>3, JsonStepSymbols DEF StepTable
<1>5. inside # escape
  OBVIOUS
<1> HIDE DEF inside, escape
<1>6. JsonStep(loose, Char) = Bad(loose)
  BY <1>3, <1>4, <1>5 DEF InQuotes
<1> QED
  BY <1>1, <1>6, BadStays DEF Hopeless

(* A reader in a word or number. *)
LEMMA SpecialReads ==
  ASSUME JsonslInv, Coupled, StrictCoupled, Top.type = "SPECIAL", Viable(strict)
  PROVE  /\ strict = loose /\ loose \in Reader /\ (InWord(loose) \/ InDigits(loose))
         /\ loose.at = "in_number" => InJsonNumber(loose.num) /\ loose.num \in NumberPart
         /\ loose.at = "in_word" /\ Char \notin SpecialEnd => Hopeless
         /\ loose.at = "in_number" /\ Char \in SpecialEnd /\ ~NumberEnds(loose.num) => Hopeless
         /\ loose.at = "in_number" /\ Char \notin SpecialEnd /\ JsonNumber(loose.num, Char) = "none" => Hopeless
<1>1. strict = loose /\ loose \in Reader /\ Facing(loose) = loose
  BY NothingPends DEF StrictCoupled, Coupled
<1>2. InWord(loose) \/ InDigits(loose)
  BY <1>1 DEF Coupled, Place
<1>3. loose.at = "in_number" => InJsonNumber(loose.num) /\ loose.num \in NumberPart
  BY <1>1 DEF StrictCoupled, Reader
<1>4. StepTable(JsonStep(loose, Char), JsonBetween(loose, Char), JsonBetween(AfterValue(loose), Char),
                JsonNumber(loose.num, Char), loose, Char)
  BY <1>1, JsonStepSymbols
<1>5. ~Viable(Bad(loose))
  BY <1>1, BadStays
<1> QED
  BY <1>1, <1>2, <1>3, <1>4, <1>5 DEF StepTable, Hopeless

\* the one on a minus that no digit follows,
LEMMA NumberDashRefused ==
  ASSUME JsonslInv, Coupled, StrictCoupled, InSpecial, Top.special_flags = {"DASH"}, Char \notin Digit
  PROVE  Hopeless
<1> SUFFICES ASSUME Viable(strict) PROVE Hopeless
  BY HopelessUnlessJson
<1>1. /\ loose.at = "in_number" /\ loose.num = "minus"
  BY SpecialReads DEF InSpecial, InWord, InDigits
<1>2. ~NumberEnds(loose.num) /\ JsonNumber(loose.num, Char) = "none"
  BY <1>1 DEF NumberEnds, JsonNumber, NumberNext, Digit, Sign
<1> QED
  BY <1>1, <1>2, SpecialReads DEF InSpecial

\* the one on a character no number goes on with,
LEMMA NumberRefused ==
  ASSUME JsonslInv, Coupled, StrictCoupled, InNumber, Char \notin SpecialEnd,
         CASE Char \in Digit -> LeadingZero
           [] Char = "."     -> "FLOAT" \in Top.special_flags
           [] Char = "e"     -> "EXPONENT" \in Top.special_flags
           [] Char \in Sign  -> tok_last # "e"
           [] OTHER          -> TRUE
  PROVE  Hopeless
<1> DEFINE flags == Top.special_flags
<1> SUFFICES ASSUME Viable(strict) PROVE Hopeless
  BY HopelessUnlessJson
<1>1. IsNumeric(flags) /\ Top.type = "SPECIAL"
  BY DEF InNumber, InSpecial
<1>2. loose.at = "in_number" /\ InJsonNumber(loose.num) /\ loose.num \in NumberPart
  BY <1>1, SpecialReads DEF InWord, InDigits
<1>3. /\ flags = ZERO => loose.num = "zero"
      /\ loose.num = "zero" => flags \in {ZERO, NegativeZero}
      /\ loose.num = "int" => IsNormalNumber(flags)
      /\ loose.num \in {"dot", "frac"} => "FLOAT" \in flags /\ "EXPONENT" \notin flags
      /\ loose.num = "e" => tok_last = "e"
  BY <1>2, FlagsTellPart
<1>4. SUFFICES ASSUME JsonNumber(loose.num, Char) # "none" PROVE FALSE
  BY <1>1, <1>2, SpecialReads
<1>5. /\ Char \in Digit => loose.num # "zero"
      /\ Char = "." => loose.num \in {"zero", "int"}
      /\ Char = "e" => loose.num \in {"zero", "int", "frac"}
      /\ Char \in Sign => loose.num = "e"
  BY <1>2, <1>4, JsonNumberMoves
<1>6. CASE Char \in Digit
  BY <1>3, <1>5, <1>6 DEF LeadingZero, Digit, Sign
<1>7. CASE Char = "."
  BY <1>3, <1>5, <1>7 DEF Digit, Sign, ZERO, NegativeZero, IsNormalNumber
<1>8. CASE Char = "e"
  BY <1>3, <1>5, <1>8 DEF Digit, Sign, ZERO, NegativeZero, IsNormalNumber
<1>9. CASE Char \in Sign
  BY <1>3, <1>5, <1>9 DEF Digit, Sign
<1>10. CASE Char \notin Digit \cup {".", "e"} \cup Sign
  BY <1>4, <1>10 DEF JsonNumber, NumberNext, Digit
<1> QED
  BY <1>6, <1>7, <1>8, <1>9, <1>10

\* the one on a character no word goes on with,
LEMMA WordRefused ==
  ASSUME JsonslInv, Coupled, StrictCoupled, InSpecial, ~IsNumeric(Top.special_flags),
         "DASH" \notin Top.special_flags, Char \notin SpecialEnd
  PROVE  Hopeless
<1> SUFFICES ASSUME Viable(strict) PROVE Hopeless
  BY HopelessUnlessJson
<1>1. loose.at = "in_word"
  BY SpecialReads DEF InSpecial, InWord, InDigits
<1> QED
  BY <1>1, SpecialReads DEF InSpecial

\* and the one on a number that ends too early.
LEMMA NumberEndRefused ==
  ASSUME JsonslInv, Coupled, StrictCoupled, InSpecial, "DASH" \notin Top.special_flags, Char \in SpecialEnd,
         IsNumeric(FinalFlags), ~IsNormalNumber(FinalFlags), tok_last # "1"
  PROVE  Hopeless
<1> DEFINE flags == Top.special_flags
<1> SUFFICES ASSUME Viable(strict) PROVE Hopeless
  BY HopelessUnlessJson
<1>1. IsNumeric(flags)
  BY DEF FinalFlags, NumberFlags, LeadingZero, ZERO, NegativeZero, IsNumeric, NUMERIC
<1>2. loose.at = "in_number" /\ InJsonNumber(loose.num) /\ loose.num \in NumberPart
  BY <1>1, SpecialReads DEF InSpecial, InWord, InDigits
<1>3. /\ loose.num = "zero" => flags \in {ZERO, NegativeZero}
      /\ loose.num = "int" => IsNormalNumber(flags)
      /\ loose.num \in {"frac", "edigit"} => tok_last = "1"
  BY <1>2, FlagsTellPart
<1>4. flags \notin {ZERO, NegativeZero}
  BY DEF FinalFlags, NumberFlags, LeadingZero, ZERO, NegativeZero, IsNormalNumber
<1>5. ~IsNormalNumber(flags)
  BY DEF FinalFlags, NumberFlags, LeadingZero, ZERO, NegativeZero, IsNormalNumber
<1>6. ~NumberEnds(loose.num)
  BY <1>3, <1>4, <1>5 DEF NumberEnds
<1> QED
  BY <1>2, <1>6, SpecialReads DEF InSpecial

(* A reader between values. *)
LEMMA BetweenReads ==
  ASSUME JsonslInv, Coupled, StrictCoupled, InContainer, Viable(strict)
  PROVE  /\ strict = loose
         /\ Hopeless <=> ~Viable(JsonBetween(Facing(loose), Char))
         /\ BetweenTable(JsonBetween(Facing(loose), Char), TRUE, Facing(loose), Char)
         /\ ~Viable(Bad(Facing(loose)))
         /\ InObject(Facing(loose)) <=> Top.type = "OBJECT"
         /\ InList(Facing(loose)) <=> Top.type = "LIST"
         /\ Top.type \in {"ROOT", "LIST", "OBJECT"}
         /\ Top.type = "ROOT" => AtRoot(Facing(loose)) /\ Facing(loose).at # "value"
         /\ Top.type = "LIST" => AmongElements(Facing(loose))
         /\ Top.type = "OBJECT" => AmongMembers(Facing(loose))
         /\ Full => Len(strict.ctx) = LevelsMax - 1
<1> DEFINE g == Facing(loose)
<1>1. strict = loose /\ loose \in Reader
  BY DEF StrictCoupled, Coupled
<1>2. Hopeless <=> ~Viable(JsonBetween(g, Char))
  BY <1>1, JsonFaces DEF Hopeless
<1>3. BetweenTable(JsonBetween(g, Char), TRUE, g, Char)
  BY JsonFaces
<1>4. /\ g \in Reader /\ g.ctx = loose.ctx /\ SameNesting(g.ctx, stack, level)
      /\ InObject(g) <=> Top.type = "OBJECT"
      /\ InList(g) <=> Top.type = "LIST"
      /\ Top.type \in {"ROOT", "LIST", "OBJECT"}
      /\ Top.type = "ROOT" => AtRoot(g)
      /\ Top.type = "LIST" => AmongElements(g)
      /\ Top.type = "OBJECT" => AmongMembers(g)
  BY PlaceBetween
<1>5. Top.type = "ROOT" => g.at # "value"
  <2>1. CASE label = "STRUCTURAL"
    BY <1>1, <2>1, AfterValueType DEF Facing
  <2>2. CASE label # "STRUCTURAL"
    BY <1>1, <2>2 DEF Facing, StrictCoupled
  <2> QED
    BY <2>1, <2>2
<1>6. Full => Len(strict.ctx) = LevelsMax - 1
  <2>1. Len(g.ctx) = level
    BY <1>4, NestingHere DEF Container
  <2>2. level \in 0 .. LevelsMax - 1 /\ LevelsMax \in Nat
    BY LevelsAssumption DEF JsonslInv, JsonslTypeOK, Level
  <2>3. Full => level = LevelsMax - 1
    BY <2>2 DEF Full
  <2> QED
    BY <1>1, <1>4, <2>1, <2>3
<1>7. ~Viable(Bad(g))
  BY <1>4, BadStays
<1> QED
  BY <1>1, <1>2, <1>3, <1>4, <1>5, <1>6, <1>7

\* A quote is refused only where JSON has no string, or for want of room.
LEMMA StringBeginRefused ==
  ASSUME JsonslInv, Coupled, StrictCoupled, InContainer, Char = Quote, StringError # "SUCCESS"
  PROVE  Hopeless \/ (StringError = "LEVELS_EXCEEDED" /\ Len(strict.ctx) = LevelsMax - 1)
<1> SUFFICES ASSUME Viable(strict), StringError # "LEVELS_EXCEEDED" \/ ~Full PROVE Hopeless
  BY HopelessUnlessJson, BetweenReads
<1> DEFINE g == Facing(loose)
<1>1. /\ Hopeless <=> ~Viable(JsonBetween(g, Char))
      /\ BetweenTable(JsonBetween(g, Char), TRUE, g, Char) /\ ~Viable(Bad(g))
  BY BetweenReads
<1>2. \/ Top.type = "ROOT"
      \/ Top.type = "OBJECT" /\ Top.nelem % 2 # 0 /\ tok_last # ":"
      \/ Top.type = "OBJECT" /\ Top.nelem % 2 = 0 /\ expecting # Quote
  BY DEF StringError, OpensKey
<1>3. g.at \notin {"key", "key_or_close"} /\ ~MayBegin(TRUE, g)
  <2>1. CASE Top.type = "ROOT"
    BY <2>1, BetweenReads DEF AtRoot, MayBegin
  <2>2. CASE Top.type = "OBJECT" /\ Top.nelem % 2 # 0 /\ tok_last # ":"
    <3>1. AmongMembers(g)
      BY <2>2, BetweenReads
    <3> QED
      BY <2>2, <3>1 DEF AmongMembers, MayBegin
  <2>3. CASE Top.type = "OBJECT" /\ Top.nelem % 2 = 0 /\ expecting # Quote
    <3>1. AmongMembers(g)
      BY <2>3, BetweenReads
    <3>2. Top.nelem % 2 # 1
      BY <2>3
    <3> QED
      BY <2>3, <3>1, <3>2 DEF AmongMembers, MayBegin
  <2> QED
    BY <1>2, <2>1, <2>2, <2>3
<1> QED
  BY <1>1, <1>3 DEF BetweenTable, Either

\* A colon is refused only where JSON has none,
LEMMA ColonRefused ==
  ASSUME JsonslInv, Coupled, StrictCoupled, InContainer, Char = ":", expecting # ":"
  PROVE  Hopeless
<1> SUFFICES ASSUME Viable(strict) PROVE Hopeless
  BY HopelessUnlessJson
<1> DEFINE g == Facing(loose)
<1>1. /\ Hopeless <=> ~Viable(JsonBetween(g, Char))
      /\ BetweenTable(JsonBetween(g, Char), TRUE, g, Char) /\ ~Viable(Bad(g))
  BY BetweenReads
<1>2. g.at # "colon"
  BY BetweenReads DEF AtRoot, AmongElements, AmongMembers
<1> QED
  BY <1>1, <1>2 DEF BetweenTable, Either

\* and a comma.
LEMMA CommaRefused ==
  ASSUME JsonslInv, Coupled, StrictCoupled, InContainer, Char = ",", expecting # ","
  PROVE  Hopeless
<1> SUFFICES ASSUME Viable(strict) PROVE Hopeless
  BY HopelessUnlessJson
<1> DEFINE g == Facing(loose)
<1>1. /\ Hopeless <=> ~Viable(JsonBetween(g, Char))
      /\ BetweenTable(JsonBetween(g, Char), TRUE, g, Char) /\ ~Viable(Bad(g))
  BY BetweenReads
<1>2. g.at # "separator"
  BY BetweenReads DEF AtRoot, AmongElements, AmongMembers
<1> QED
  BY <1>1, <1>2 DEF BetweenTable, Either

(* Where no value may begin: can_insert is down or a key is missing. *)
LEMMA NoValueMayBegin ==
  ASSUME JsonslInv, Coupled, StrictCoupled, InContainer, Viable(strict), ~can_insert \/ KeyMissing
  PROVE  ~MayBegin(TRUE, Facing(loose)) /\ Facing(loose).at # "start"
<1> DEFINE g == Facing(loose)
<1>1. CASE Top.type = "ROOT"
  BY <1>1, BetweenReads DEF AtRoot, MayBegin, KeyMissing
<1>2. CASE Top.type = "LIST"
  BY <1>2, BetweenReads DEF AmongElements, MayBegin, KeyMissing
<1>3. CASE Top.type = "OBJECT"
  <2>1. AmongMembers(g)
    BY <1>3, BetweenReads
  <2>2. Top.nelem % 2 = 0 => Top.nelem % 2 # 1
    OBVIOUS
  <2> QED
    BY <1>3, <2>1, <2>2 DEF AmongMembers, MayBegin, KeyMissing
<1> QED
  BY <1>1, <1>2, <1>3, BetweenReads

\* An opening bracket is refused only where JSON has no value, or for want of
\* room.
LEMMA OpenRefused ==
  ASSUME JsonslInv, Coupled, StrictCoupled, InContainer, Char \in {"{", "["}, OpenError # "SUCCESS"
  PROVE  Hopeless \/ (OpenError = "LEVELS_EXCEEDED" /\ Len(strict.ctx) = LevelsMax - 1)
<1> SUFFICES ASSUME Viable(strict), ~can_insert \/ KeyMissing PROVE Hopeless
  BY HopelessUnlessJson, BetweenReads DEF OpenError
<1> DEFINE g == Facing(loose)
<1>1. /\ Hopeless <=> ~Viable(JsonBetween(g, Char))
      /\ BetweenTable(JsonBetween(g, Char), TRUE, g, Char) /\ ~Viable(Bad(g))
  BY BetweenReads
<1> QED
  BY <1>1, NoValueMayBegin DEF BetweenTable, Either

\* So is the first character of a word or number.
LEMMA SpecialBeginRefused ==
  ASSUME JsonslInv, Coupled, StrictCoupled, InContainer, ExtractSpecial(Char) # {}, SpecialError # "SUCCESS"
  PROVE  Hopeless \/ (SpecialError = "LEVELS_EXCEEDED" /\ Len(strict.ctx) = LevelsMax - 1)
<1> SUFFICES ASSUME Viable(strict), ~can_insert \/ KeyMissing PROVE Hopeless
  BY HopelessUnlessJson, BetweenReads DEF SpecialError
<1> DEFINE g == Facing(loose)
<1>1. /\ Hopeless <=> ~Viable(JsonBetween(g, Char))
      /\ BetweenTable(JsonBetween(g, Char), TRUE, g, Char) /\ ~Viable(Bad(g))
  BY BetweenReads
<1>2. Char \in Digit \cup {"-", "true", "false", "null"}
  BY DEF ExtractSpecial, Digit
<1>3. CASE Char \in Digit \cup {"-"}
  BY <1>1, <1>3, NoValueMayBegin DEF BetweenTable, Either
<1>4. CASE Char \in {"true", "false", "null"}
  BY <1>1, <1>4, NoValueMayBegin DEF BetweenTable, Either
<1> QED
  BY <1>2, <1>3, <1>4

\* A closing bracket is refused only where JSON has none that matches.
LEMMA CloseRefused ==
  ASSUME JsonslInv, Coupled, StrictCoupled, InContainer, Char \in {"}", "]"}, CloseError # "SUCCESS"
  PROVE  Hopeless
<1> SUFFICES ASSUME Viable(strict) PROVE Hopeless
  BY HopelessUnlessJson
<1> DEFINE g == Facing(loose)
<1>1. /\ Hopeless <=> ~Viable(JsonBetween(g, Char))
      /\ BetweenTable(JsonBetween(g, Char), TRUE, g, Char) /\ ~Viable(Bad(g))
      /\ InObject(g) <=> Top.type = "OBJECT"
      /\ InList(g) <=> Top.type = "LIST"
  BY BetweenReads
<1>2. \/ tok_last = ","
      \/ Char = "]" /\ Top.type # "LIST"
      \/ Char = "}" /\ Top.type # "OBJECT"
      \/ Char = "}" /\ Top.type = "OBJECT" /\ Top.nelem % 2 # 0
  BY DEF CloseError
<1>3. CASE Char = "]"
  <2>1. CASE Top.type = "LIST"
    <3>1. AmongElements(g) /\ tok_last = ","
      BY <1>2, <1>3, <2>1, BetweenReads
    <3>2. ~MayClose(TRUE, g)
      BY <3>1 DEF AmongElements, MayClose
    <3> QED
      BY <1>1, <1>3, <3>2 DEF BetweenTable, Either
  <2>2. CASE Top.type # "LIST"
    BY <1>1, <1>3, <2>2 DEF BetweenTable, Either
  <2> QED
    BY <2>1, <2>2
<1>4. CASE Char = "}"
  <2>1. CASE Top.type = "OBJECT"
    <3>1. AmongMembers(g) /\ (tok_last = "," \/ Top.nelem % 2 # 0)
      BY <1>2, <1>4, <2>1, BetweenReads
    <3>2. ~MayClose(TRUE, g)
      BY <3>1 DEF AmongMembers, MayClose, NoToken
    <3> QED
      BY <1>1, <1>4, <3>2 DEF BetweenTable, Either
  <2>2. CASE Top.type # "OBJECT"
    BY <1>1, <1>4, <2>2 DEF BetweenTable, Either
  <2> QED
    BY <2>1, <2>2
<1> QED
  BY <1>3, <1>4

\* Any other character between values is refused, and JSON has none.
LEMMA UnexpectedRefused ==
  ASSUME JsonslInv, Coupled, StrictCoupled, InContainer, Char \notin Structural, ExtractSpecial(Char) = {},
         label = "AGAIN" => Char \notin Whitespace \cup {Quote}
  PROVE  Hopeless
<1> SUFFICES ASSUME Viable(strict) PROVE Hopeless
  BY HopelessUnlessJson
<1> DEFINE g == Facing(loose)
<1>1. /\ Hopeless <=> ~Viable(JsonBetween(g, Char))
      /\ BetweenTable(JsonBetween(g, Char), TRUE, g, Char) /\ ~Viable(Bad(g))
  BY BetweenReads
<1>2. Char \notin Digit \cup {"-", "true", "false", "null"}
  BY DEF ExtractSpecial, Digit, ZERO
<1>3. CASE label = "AGAIN"
  <2>1. Char \notin Known
    BY <1>2, <1>3 DEF Known
  <2> QED
    BY <1>1, <2>1 DEF BetweenTable
<1>4. CASE label # "AGAIN"
  <2>1. label = "STRUCTURAL"
    BY <1>4 DEF JsonslInv, JsonslTypeOK
  <2>2. Char \notin Whitespace
    BY <2>1 DEF Coupled, Pending
  <2>3. g.at \in {"done", "separator"}
    BY <2>1, AfterValueType DEF Facing, Coupled
  <2>4. CASE Char = Quote
    BY <1>1, <2>3, <2>4 DEF BetweenTable, Either, MayBegin
  <2>5. CASE Char # Quote
    <3>1. Char \notin Known
      BY <1>2, <2>2, <2>5 DEF Known
    <3> QED
      BY <1>1, <3>1 DEF BetweenTable
  <2> QED
    BY <2>4, <2>5
<1> QED
  BY <1>3, <1>4

\* Every error the feed reports is justified.
LEMMA RefusedFeed ==
  ASSUME JsonslInv, Coupled, StrictCoupled, Refused, FeedRead
  PROVE  Refused'
<1> DEFINE Calm == err = "SUCCESS" /\ err' = err
<1>a. Calm => Refused'
  BY DEF Refused
<1>1. CASE StringEscaped \/ StringBadChar
  <2>1. \/ Calm
        \/ /\ InString /\ (Fail("ESCAPE_INVALID") \/ Fail("WEIRD_WHITESPACE"))
           /\ \/ in_escape /\ Char \notin AllowedEscape
              \/ ~in_escape /\ ~IsSimpleChar(Char) /\ Char \notin {Quote, Bslash}
    BY <1>1 DEF StringEscaped, StringBadChar, InString, Running
  <2> QED
    BY <1>a, <2>1, StringRefused, RefusedBy
<1>2. CASE StringChar \/ StringBeginEscape \/ StringEnd \/ SkipWhitespace
  BY <1>a, <1>2 DEF StringChar, StringBeginEscape, StringEnd, SkipWhitespace, InString, InContainer, Running
<1>3. CASE NumberFast \/ NumberDigit \/ NumberDot \/ NumberExponent \/ NumberSign
  BY <1>a, <1>3 DEF NumberFast, NumberDigit, NumberDot, NumberExponent, NumberSign, NumberMark,
                    InNumber, InSpecial, Running
<1>4. CASE NumberDash
  <2>1. Calm \/ (InSpecial /\ Fail("INVALID_NUMBER") /\ Top.special_flags = {"DASH"} /\ Char \notin Digit)
    BY <1>4 DEF NumberDash, InSpecial, Running
  <2> QED
    BY <1>a, <2>1, NumberDashRefused, RefusedBy
<1>5. CASE NumberInvalid
  <2>1. Hopeless
    BY <1>5, NumberRefused DEF NumberInvalid
  <2> QED
    BY <1>5, <2>1, RefusedBy DEF NumberInvalid
<1>6. CASE WordInvalid
  BY <1>6, WordRefused, RefusedBy DEF WordInvalid
<1>7. CASE SpecialPop
  <2>1. /\ InSpecial /\ "DASH" \notin Top.special_flags /\ Char \in SpecialEnd
        /\ \/ Calm
           \/ /\ IsNumeric(FinalFlags) /\ ~IsNormalNumber(FinalFlags) /\ tok_last # "1"
              /\ Fail("INVALID_NUMBER")
    BY <1>7 DEF SpecialPop, FinalFlags, NegativeZero, InSpecial, Running
  <2> QED
    BY <1>a, <2>1, NumberEndRefused, RefusedBy
<1>8. CASE StringBegin
  <2>1. /\ InContainer /\ Char = Quote
        /\ Calm \/ (StringError # "SUCCESS" /\ Fail(StringError))
    BY <1>8 DEF StringBegin, InContainer, Running
  <2> QED
    BY <1>a, <2>1, StringBeginRefused, RefusedBy
<1>9. CASE Colon
  <2>1. /\ InContainer /\ Char = ":"
        /\ Calm \/ (expecting # ":" /\ Fail("STRAY_TOKEN"))
    BY <1>9 DEF Colon, InContainer, Running
  <2> QED
    BY <1>a, <2>1, ColonRefused, RefusedBy
<1>10. CASE Comma
  <2>1. /\ InContainer /\ Char = ","
        /\ Calm \/ (expecting # "," /\ Fail("STRAY_TOKEN"))
    BY <1>10 DEF Comma, InContainer, Running
  <2> QED
    BY <1>a, <2>1, CommaRefused, RefusedBy
<1>11. CASE OpenContainer
  <2>1. /\ InContainer /\ Char \in {"{", "["}
        /\ Calm \/ (OpenError # "SUCCESS" /\ Fail(OpenError))
    BY <1>11 DEF OpenContainer, InContainer, Running
  <2> QED
    BY <1>a, <2>1, OpenRefused, RefusedBy
<1>12. CASE CloseContainer
  <2>1. /\ InContainer /\ Char \in {"}", "]"}
        /\ Calm \/ (CloseError # "SUCCESS" /\ Fail(CloseError))
    BY <1>12 DEF CloseContainer, InContainer, Running
  <2> QED
    BY <1>a, <2>1, CloseRefused, RefusedBy
<1>13. CASE SpecialBegin
  <2>1. /\ InContainer /\ ExtractSpecial(Char) # {}
        /\ Calm \/ (SpecialError # "SUCCESS" /\ Fail(SpecialError))
    BY <1>13 DEF SpecialBegin, InContainer, Running
  <2> QED
    BY <1>a, <2>1, SpecialBeginRefused, RefusedBy
<1>14. CASE UnexpectedChar
  <2>1. Hopeless
    BY <1>14, UnexpectedRefused DEF UnexpectedChar
  <2> QED
    BY <1>14, <2>1, RefusedBy DEF UnexpectedChar
<1> QED
  BY <1>1, <1>2, <1>3, <1>4, <1>5, <1>6, <1>7, <1>8, <1>9, <1>10, <1>11, <1>12, <1>13, <1>14
  DEF FeedRead, Feed

-----------------------------------------------------------------------------
(* The other steps: a new chunk, an answer, a restart. *)

(* Coupling looks at the registers, at the types of the stack and at what  *)
(* its top has counted.                                                    *)
LEMMA CoupledLooksAt ==
  ASSUME JsonslInv, Coupled, UNCHANGED <<tokenVars, label, level, loose>>,
         \A l \in 0 .. level : stack'[l].type = stack[l].type,
         Top'.nelem = Top.nelem, Top'.special_flags = Top.special_flags,
         label = "STRUCTURAL" => Pending'
  PROVE  Coupled'
<1> USE DEF tokenVars
<1>1. level \in Nat
  BY LevelTypes
<1>2. Top'.type = Top.type
  BY <1>1 DEF Top
<1>3. loose \in Reader /\ SameNesting(loose.ctx, stack, level)
  BY DEF Coupled
<1>4. SameNesting(loose.ctx, stack', level)
  <2>1. Len(loose.ctx) = (IF stack'[level].type \in Container \cup {"ROOT"} THEN level ELSE level - 1)
        /\ \A l \in 1 .. Len(loose.ctx) : loose.ctx[l] = KindOf(stack[l].type)
    BY <1>2, <1>3 DEF SameNesting, Top
  <2>2. \A l \in 1 .. Len(loose.ctx) : stack'[l].type = stack[l].type
    BY <1>1, <2>1
  <2> QED
    BY <2>1, <2>2 DEF SameNesting
<1>5. (Place(Facing(loose)))'
  BY <1>2 DEF Coupled, Place, Facing, Quoted, InWord, InDigits, AtRoot, AmongElements, AmongMembers
<1> QED
  BY <1>2, <1>3, <1>4, <1>5 DEF Coupled

\* Handing the lexer more text leaves lexer and readers where they are,
LEMMA CallCouples ==
  ASSUME LanguageInv, NEW bytes \in Seq(STRING), NEW maxLevel \in Nat, NEW keys \in BOOLEAN,
         CallFeed(bytes, maxLevel, keys), UNCHANGED readers
  PROVE  LanguageInv'
<1>0. JsonslInv'
  BY CallFeedKeeps DEF LanguageInv
<1>1. /\ err = "SUCCESS" /\ pos = Len(text)
      /\ UNCHANGED <<pos, label, tokenVars, stack, level, err, loose, strict>>
  BY DEF CallFeed, readers
<1>2. Top' = Top
  BY <1>1 DEF Top
<1>3. label # "STRUCTURAL"
  BY <1>1, CursorFacts DEF LanguageInv, Coupled, Pending, JsonslInv
<1>4. Coupled'
  BY <1>1, <1>2, <1>3, CoupledLooksAt DEF LanguageInv
<1>5. StrictCoupled'
  BY <1>1, <1>2 DEF LanguageInv, StrictCoupled, InJsonNumber, tokenVars
<1>6. Refused'
  BY <1>1 DEF Refused
<1> QED
  BY <1>0, <1>4, <1>5, <1>6 DEF LanguageInv

\* and so does what a callback does, unless it resets them all.
LEMMA AnswerCouples ==
  ASSUME LanguageInv, NEW stop \in BOOLEAN, NEW ignore \in BOOLEAN, NEW maxLevel \in Nat,
         Answer(stop, ignore, maxLevel), UNCHANGED readers
  PROVE  LanguageInv'
<1>1. JsonslInv'
  BY AnswerKeeps DEF LanguageInv
<1>2. /\ cb # NoCallback
      /\ stack' = [stack EXCEPT ![cb.level].ignore_callback = ignore]
      /\ UNCHANGED <<feedVars, tokenVars, level, err, loose, strict>>
  BY DEF Answer, readers
<1>3. stack \in [Level -> State] /\ \A l \in 0 .. level : l \in Level
  BY LevelFacts, StackFacts DEF LanguageInv, JsonslInv
<1>4. \A l \in Level : /\ stack'[l].type = stack[l].type
                       /\ stack'[l].nelem = stack[l].nelem
                       /\ stack'[l].special_flags = stack[l].special_flags
  BY <1>2, <1>3 DEF State
<1>5. level \in Level
  BY LevelFacts DEF LanguageInv, JsonslInv
<1>6. Top'.type = Top.type /\ Top'.nelem = Top.nelem /\ Top'.special_flags = Top.special_flags
  BY <1>2, <1>4, <1>5 DEF Top
<1>7. label = "STRUCTURAL" => Pending'
  BY <1>2, <1>6 DEF LanguageInv, Coupled, Pending, Char, feedVars
<1>8. Coupled'
  BY <1>2, <1>3, <1>4, <1>6, <1>7, CoupledLooksAt DEF LanguageInv, feedVars
<1>9. StrictCoupled'
  BY <1>2, <1>6 DEF LanguageInv, StrictCoupled, InJsonNumber, tokenVars
<1>10. Refused'
  BY <1>2 DEF LanguageInv, Refused
<1> QED
  BY <1>1, <1>8, <1>9, <1>10 DEF LanguageInv

\* A lexer that is new or reset is coupled with readers at the start.
LEMMA StartCouples ==
  ASSUME level = 0, stack = [l \in Level |-> BlankState], loose = Start, strict = Start,
         label = "AGAIN", expecting = NoToken, can_insert, ~in_escape, err = "SUCCESS"
  PROVE  Coupled /\ StrictCoupled /\ Refused
<1>1. 0 \in Level
  BY LevelsAssumption DEF Level
<1>2. Top.type = "ROOT"
  BY <1>1 DEF Top, BlankState
<1>3. loose \in Reader /\ loose.ctx = <<>> /\ loose.at = "start" /\ Len(loose.ctx) = 0
  BY DEF Start, Reader, Location, NumberPart
<1>4. SameNesting(loose.ctx, stack, level)
  BY <1>2, <1>3 DEF SameNesting, Top
<1>5. Place(Facing(loose))
  BY <1>2, <1>3 DEF Place, Facing, AtRoot, NoToken
<1> QED
  BY <1>2, <1>3, <1>4, <1>5 DEF Coupled, StrictCoupled, Refused

(* A step of the feed, which the readers follow, a reset, and no step.     *)
LEMMA FeedCouples ==
  ASSUME LanguageInv, FeedRead
  PROVE  LanguageInv'
  BY FeedKeeps, CoupledFeed, StrictFeed, RefusedFeed DEF LanguageInv, FeedRead

LEMMA ResetCouples ==
  ASSUME LanguageInv, Reset, ReadersReset
  PROVE  LanguageInv'
<1>1. JsonslInv'
  BY ResetKeeps DEF LanguageInv
<1>2. (/\ level = 0 /\ stack = [l \in Level |-> BlankState] /\ loose = Start /\ strict = Start
       /\ label = "AGAIN" /\ expecting = NoToken /\ can_insert /\ ~in_escape /\ err = "SUCCESS")'
  BY DEF Reset, ReadersReset
<1>3. (Coupled /\ StrictCoupled /\ Refused)'
  BY <1>2, StartCouples, PTL
<1> QED
  BY <1>1, <1>3 DEF LanguageInv

LEMMA StutterCouples ==
  ASSUME LanguageInv, UNCHANGED <<jsnVars, readers>>
  PROVE  LanguageInv'
<1>1. JsonslInv' /\ UNCHANGED <<feedVars, tokenVars, level, stack, err, cb, loose, strict>>
  BY StutterKeeps DEF jsnVars, readers, LanguageInv
<1>2. Coupled'
  BY <1>1, CoupledStays DEF LanguageInv
<1>3. StrictCoupled'
  BY <1>1 DEF LanguageInv, StrictCoupled, InJsonNumber, Top, tokenVars
<1>4. Refused'
  BY <1>1 DEF LanguageInv, Refused, AcceptsJson, Char, feedVars
<1> QED
  BY <1>1, <1>2, <1>3, <1>4 DEF LanguageInv
=============================================================================
