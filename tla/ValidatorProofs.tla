-------------------------- MODULE ValidatorProofs --------------------------
(***************************************************************************)
(* What Validator::validate() accepts, for every value, every mode, every  *)
(* depth and every stack size: the inductive invariant that ties what the  *)
(* callback has counted to what the grammar reads; and, on top of it, that *)
(* it refuses no JSON value it ought to accept.                            *)
(***************************************************************************)
EXTENDS ValidatorClient, LanguageSteps, FiniteSetTheorems

(* The value in its wrapper, as the grammar reads it, loosely and as JSON. *)
Read     == Reading(FALSE, Wrapped)
JsonRead == Reading(TRUE, Wrapped)

(* What has been fed so far. *)
Fed == CASE vpc = "PRE"   -> <<>>
         [] vpc = "VALUE" -> Pre(mode.parent)
         [] vpc = "POST"  -> Pre(mode.parent) \o value
         [] vpc = "END"   -> Wrapped

(* The elements of a depth whose beginning has been read. *)
Begun(depth) == {i \in AtDepth(Read, depth) : i <= pos}

(* The callback under way will object. *)
Objecting == cb # NoCallback /\ Objection # "SUCCESS"

(* Each value at the top is counted twice, when it begins and when it ends.*)
RootsCounted ==
  v.rootcount + (IF cb # NoCallback /\ cb.level = 1 THEN 1 ELSE 0)
              + (IF level > 0 THEN 1 ELSE 0) = 2 * Cardinality(Begun(1))

(* The elements of the only value at the top are those its state counts.   *)
ElementsCounted ==
  /\ Begun(1) = {} => Begun(2) = {}
  /\ Cardinality(Begun(1)) = 1 /\ level > 0 =>
       Cardinality(Begun(2)) = CASE stack[1].type = "LIST"   -> stack[1].nelem
                                 [] stack[1].type = "OBJECT" -> stack[1].nelem \div 2
                                 [] OTHER                    -> 0

SingleSoFar ==
  "VALUE_SINGLE" \in mode.flags /\ Cardinality(Begun(1)) <= 1 =>
    Cardinality(Begun(2)) <= 1 \/ Objecting

PrimitiveSoFar ==
  "VALUE_PRIMITIVE" \in mode.flags =>
    \A i \in Begun(2) : InPrimitive(Read[i]) \/ Objecting

ShallowSoFar ==
  v.maxdepth # Unlimited =>
    \A i \in 0 .. pos : LevelsOpen(Read[i]) \in 0 .. v.maxdepth \/ Objecting

(* Nothing has been objected to. *)
Watching ==
  /\ err = "SUCCESS" /\ ~stopfl
  /\ \A l \in 0 .. Reach : ~stack[l].ignore_callback
  /\ RootsCounted /\ ElementsCounted /\ SingleSoFar /\ PrimitiveSoFar /\ ShallowSoFar

Validating ==
  /\ asked \in Nat \cup {Unlimited} /\ v.maxdepth = Adjusted(asked, mode.parent)
  /\ text = Fed /\ loose = Read[pos]
  /\ vpc # "PRE" => max_callback_level = CallbackDepth /\ ~call_HKEY
  /\ v.err = "SUCCESS" => Watching

(* Between two calls the lexer is as good as new. *)
Resting ==
  /\ text = <<>> /\ pos = 0 /\ level = 0 /\ stack = [l \in Level |-> BlankState]
  /\ err = "SUCCESS" /\ ~stopfl /\ cb = NoCallback /\ loose = Start

ValidatorInv ==
  /\ LexerInv /\ LanguageInv /\ ValidatorTypeOK
  /\ IF vpc = "IDLE" THEN Resting ELSE Validating
  /\ ValueStaysInside /\ ValidIsShallow /\ FlagsHold

-----------------------------------------------------------------------------
(* Reading a text. *)

(* How far a text is read one symbol at a time. *)
ReadsTo(rigid, f, n, bytes) ==
  f = [i \in 0 .. n |-> IF i = 0 THEN Start ELSE Step(rigid, f[i - 1], bytes[i])]

\* There is one reading of a text, however long it is,
LEMMA ReadingExists ==
  ASSUME NEW rigid, NEW bytes, NEW n \in Nat
  PROVE  \E f : ReadsTo(rigid, f, n, bytes)
<1> DEFINE T == {k \in Nat : ~\E f : ReadsTo(rigid, f, k, bytes)}
<1>1. CASE T = {}
  BY <1>1
<1>2. CASE T # {}
  <2>1. PICK k \in T : \A j \in T : k <= j
    <3> HIDE DEF T
    <3>1. T \in SUBSET Nat
      BY DEF T
    <3> QED
      BY <1>2, <3>1, Smallest
  <2>2. k # 0
    <3>1. ReadsTo(rigid, [i \in 0 .. 0 |-> Start], 0, bytes)
      BY DEF ReadsTo
    <3> QED
      BY <2>1, <3>1
  <2>3. PICK f : ReadsTo(rigid, f, k - 1, bytes)
    BY <2>1, <2>2
  <2> DEFINE g == [i \in 0 .. k |-> IF i = k THEN Step(rigid, f[k - 1], bytes[k]) ELSE f[i]]
  <2>4. k \in Nat /\ f = [i \in 0 .. k - 1 |-> IF i = 0 THEN Start ELSE Step(rigid, f[i - 1], bytes[i])]
    BY <2>1, <2>3 DEF ReadsTo
  <2>5. \A i \in 0 .. k : g[i] = IF i = 0 THEN Start ELSE Step(rigid, g[i - 1], bytes[i])
    <3>1. \A i \in 1 .. k : g[i - 1] = f[i - 1]
      BY <2>4
    <3>2. \A i \in 1 .. k - 1 : g[i] = f[i] /\ f[i] = Step(rigid, f[i - 1], bytes[i])
      BY <2>4
    <3>3. g[0] = Start
      BY <2>2, <2>4
    <3>4. g[k] = Step(rigid, f[k - 1], bytes[k])
      BY <2>4
    <3> HIDE DEF g
    <3> TAKE i \in 0 .. k
    <3>5. CASE i = 0
      BY <3>3, <3>5
    <3>6. CASE i = k
      BY <2>1, <2>2, <3>1, <3>4, <3>6
    <3>7. CASE i # 0 /\ i # k
      <4>1. i \in 1 .. k - 1 /\ i \in 1 .. k
        BY <2>1, <3>7
      <4> QED
        BY <3>1, <3>2, <3>7, <4>1
    <3> QED
      BY <3>5, <3>6, <3>7
  <2>6. ReadsTo(rigid, g, k, bytes)
    <3>1. g = [i \in 0 .. k |-> g[i]]
      OBVIOUS
    <3> HIDE DEF g
    <3>2. [i \in 0 .. k |-> g[i]] = [i \in 0 .. k |-> IF i = 0 THEN Start ELSE Step(rigid, g[i - 1], bytes[i])]
      BY <2>5
    <3> QED
      BY <3>1, <3>2 DEF ReadsTo
  <2> QED
    BY <2>1, <2>6
<1> QED
  BY <1>1, <1>2

\* and Reading is one.
LEMMA ReadingFacts ==
  ASSUME NEW rigid, NEW bytes, Len(bytes) \in Nat
  PROVE  ReadsTo(rigid, Reading(rigid, bytes), Len(bytes), bytes)
<1>1. PICK f : ReadsTo(rigid, f, Len(bytes), bytes)
  BY ReadingExists
<1>2. f = [i \in 0 .. Len(bytes) |-> IF i = 0 THEN Start ELSE Step(rigid, f[i - 1], bytes[i])]
  BY <1>1, Zenon DEF ReadsTo
<1>3. Reading(rigid, bytes) =
        [i \in 0 .. Len(bytes) |-> IF i = 0 THEN Start ELSE Step(rigid, Reading(rigid, bytes)[i - 1], bytes[i])]
  BY <1>2, Zenon DEF Reading
<1> QED
  BY <1>3, Zenon DEF ReadsTo
-----------------------------------------------------------------------------
(* The reader and the stack. *)

(* Where the reader is, from the state the lexer is in.                    *)
LEMMA ReaderPlace ==
  ASSUME JsonslInv, Coupled
  PROVE  /\ level \in Nat /\ Len(loose.ctx) \in Nat /\ Top.type \in Type
         /\ Len(loose.ctx) = IF Top.type \in Container \cup {"ROOT"} THEN level ELSE level - 1
         /\ Top.type = "SPECIAL" => loose.at \in {"in_number", "in_word"}
         /\ Top.type = "STRING" => loose.at \in {"in_string", "string_escape"}
         /\ label # "STRUCTURAL" =>
              /\ InPrimitive(loose) <=> Top.type \in {"STRING", "SPECIAL"}
              /\ LevelsOpen(loose) = IF Top.type = "HKEY" THEN level - 1 ELSE level
         /\ label = "STRUCTURAL" =>
              /\ LevelsOpen(loose) = level + 1
              /\ Top.type \in Container \cup {"ROOT"} /\ Char \in SpecialEnd
              /\ loose.at \in {"in_number", "in_word"}
<1>1. /\ level \in Nat /\ Top.type \in Type /\ loose.ctx \in Seq({"obj", "list"})
      /\ SameNesting(loose.ctx, stack, level)
  BY LevelTypes DEF State, Coupled, Reader
<1>2. Len(loose.ctx) \in Nat
  BY <1>1
<1>3. Len(loose.ctx) = IF Top.type \in Container \cup {"ROOT"} THEN level ELSE level - 1
  BY <1>1 DEF SameNesting, Top
<1>4. CASE label = "STRUCTURAL"
  <2>1. Pending
    BY <1>4 DEF Coupled
  <2>2. Top.type \in Container \cup {"ROOT"} /\ Char \in SpecialEnd
        /\ loose.at \in {"in_number", "in_word"}
    BY <1>1, <2>1 DEF Pending, Type, Stringy
  <2>3. LevelsOpen(loose) = level + 1
    BY <1>1, <1>3, <2>2 DEF LevelsOpen, InPrimitive
  <2> QED
    BY <1>1, <1>2, <1>3, <1>4, <2>2, <2>3 DEF Container
<1>5. CASE label # "STRUCTURAL"
  <2>1. Place(loose)
    BY <1>5 DEF Coupled, Facing
  <2>2. /\ Top.type = "HKEY" => loose.at \in {"in_key", "key_escape"}
        /\ Top.type = "STRING" => loose.at \in {"in_string", "string_escape"}
        /\ Top.type = "SPECIAL" => loose.at \in {"in_number", "in_word"}
        /\ Top.type \in Container \cup {"ROOT"} =>
             loose.at \in {"start", "value", "done", "value_or_close", "separator",
                          "key_or_close", "key", "colon"}
    BY <2>1 DEF Place, Quoted, InWord, InDigits, AtRoot, AmongElements, AmongMembers, Container
  <2>3. InPrimitive(loose) <=> Top.type \in {"STRING", "SPECIAL"}
    BY <1>1, <2>2 DEF InPrimitive, Type, Stringy, Container
  <2>4. LevelsOpen(loose) = IF Top.type = "HKEY" THEN level - 1 ELSE level
    BY <1>1, <1>3, <2>3 DEF LevelsOpen, Type, Stringy, Container
  <2> QED
    BY <1>1, <1>2, <1>3, <1>5, <2>2, <2>3, <2>4
<1> QED
  BY <1>4, <1>5

\* A word or number goes on with no symbol that could end it.
LEMMA SpecialGoesOn ==
  ASSUME Feed, Top.type = "SPECIAL", pos' # pos, level' = level, level \in Nat
  PROVE  Char \notin SpecialEnd
<1>0. \A ch \in Digit \cup Sign \cup {".", "e"} : ch \notin SpecialEnd
  BY DEF Digit, Sign, SpecialEnd, Whitespace, Quote, Bslash
<1>1. CASE NumberFast \/ NumberDash \/ NumberDigit \/ NumberDot \/ NumberExponent \/ NumberSign
  <2>1. Char \in Digit \cup Sign \cup {".", "e"}
    BY <1>1 DEF NumberFast, NumberDash, NumberDigit, NumberDot, NumberExponent, NumberSign, SlowDigit,
                Fail, feedVars
  <2> QED
    BY <1>0, <2>1
<1>2. CASE NumberInvalid \/ WordInvalid \/ UnexpectedChar
  BY <1>2 DEF NumberInvalid, WordInvalid, UnexpectedChar, Fail, feedVars
<1>3. CASE SpecialPop
  <2>1. CASE UNCHANGED feedVars
    BY <2>1 DEF feedVars
  <2>2. CASE level' = level - 1
    BY <2>2
  <2> QED
    BY <1>3, <2>1, <2>2 DEF SpecialPop, StackPop, Fail
<1>4. ~InString /\ ~InContainer
  BY DEF InString, InContainer, Stringy
<1> QED
  BY <1>1, <1>2, <1>3, <1>4
  DEF Feed, StringEscaped, StringChar, StringBadChar, StringBeginEscape, StringEnd, SkipWhitespace,
      StringBegin, Colon, Comma, OpenContainer, CloseContainer, SpecialBegin

\* A symbol that has been read is consumed.
LEMMA Consumes ==
  ASSUME JsonslInv, Feed, pos' # pos
  PROVE  Consume
<1>1. HasShape
  BY FeedHasShape
<1> QED
  BY <1>1 DEF HasShape, Failing, Fail, Moves, Learns, Pushes, Pops, feedVars

(* A value begins for the reader where a state but for a key's is pushed.  *)
LEMMA ReadMoves ==
  ASSUME LanguageInv, FeedRead, pos' # pos
  PROVE  /\ pos' = pos + 1 /\ label' = "AGAIN" /\ loose' = LooseStep(loose, Char)
         /\ \A type \in Type \ {"ROOT"} : PushStep(type) =>
              /\ BeginsWith(loose, Char, loose') <=> type # "HKEY"
              /\ LevelsOpen(loose') = IF type = "HKEY" THEN level ELSE level + 1
              /\ InPrimitive(loose') <=> type \in {"STRING", "SPECIAL"}
         /\ QuietStep \/ PopStep =>
              ~BeginsWith(loose, Char, loose') /\ LevelsOpen(loose') \in 0 .. LevelsOpen(loose)
<1>1. /\ JsonslInv /\ Coupled /\ Feed /\ LanguageInv'
  BY FeedCouples DEF LanguageInv, FeedRead
<1>2. Consume
  BY <1>1, Consumes
<1>3. pos' = pos + 1 /\ label' = "AGAIN" /\ loose' = LooseStep(loose, Char)
  BY <1>1, <1>2, ReadersRead DEF Consume
<1>4. /\ level \in Nat /\ Len(loose.ctx) \in Nat /\ Top.type \in Type
      /\ Len(loose.ctx) = IF Top.type \in Container \cup {"ROOT"} THEN level ELSE level - 1
      /\ Top.type = "SPECIAL" => loose.at \in {"in_number", "in_word"}
      /\ Top.type = "STRING" => loose.at \in {"in_string", "string_escape"}
      /\ label # "STRUCTURAL" =>
           /\ InPrimitive(loose) <=> Top.type \in {"STRING", "SPECIAL"}
           /\ LevelsOpen(loose) = IF Top.type = "HKEY" THEN level - 1 ELSE level
      /\ label = "STRUCTURAL" =>
           /\ LevelsOpen(loose) = level + 1
           /\ Top.type \in Container \cup {"ROOT"} /\ Char \in SpecialEnd
           /\ loose.at \in {"in_number", "in_word"}
  BY <1>1, ReaderPlace
<1>5. /\ level' \in Nat /\ Len(loose'.ctx) \in Nat /\ Top'.type \in Type
      /\ Len(loose'.ctx) = IF Top'.type \in Container \cup {"ROOT"} THEN level' ELSE level' - 1
      /\ InPrimitive(loose') <=> Top'.type \in {"STRING", "SPECIAL"}
      /\ LevelsOpen(loose') = IF Top'.type = "HKEY" THEN level' - 1 ELSE level'
  <2>1. (JsonslInv /\ Coupled)' /\ label' # "STRUCTURAL"
    BY <1>1, <1>3 DEF LanguageInv
  <2>2. (/\ level \in Nat /\ Len(loose.ctx) \in Nat /\ Top.type \in Type
         /\ Len(loose.ctx) = IF Top.type \in Container \cup {"ROOT"} THEN level ELSE level - 1
         /\ label # "STRUCTURAL" =>
              /\ InPrimitive(loose) <=> Top.type \in {"STRING", "SPECIAL"}
              /\ LevelsOpen(loose) = IF Top.type = "HKEY" THEN level - 1 ELSE level)'
    BY <2>1, ReaderPlace, PTL
  <2> QED
    BY <2>1, <2>2
<1>6. level \in Level /\ \A l \in 0 .. level : l \in Level
  BY <1>1, LevelFacts DEF JsonslInv
<1>7. ASSUME NEW type \in Type \ {"ROOT"}, PushStep(type)
      PROVE  /\ BeginsWith(loose, Char, loose') <=> type # "HKEY"
             /\ LevelsOpen(loose') = IF type = "HKEY" THEN level ELSE level + 1
             /\ InPrimitive(loose') <=> type \in {"STRING", "SPECIAL"}
  <2>1. Top'.type = type /\ level' = level + 1 /\ Top.type \in Container \cup {"ROOT"}
    BY <1>7 DEF PushStep, Top
  <2>2. /\ Len(loose.ctx) = level /\ (InPrimitive(loose') <=> type \in {"STRING", "SPECIAL"})
        /\ Len(loose'.ctx) = IF type \in Container THEN level + 1 ELSE level
        /\ LevelsOpen(loose') = IF type = "HKEY" THEN level ELSE level + 1
    BY <1>4, <1>5, <2>1
  <2>3. ~InPrimitive(loose) \/ (loose.at \in {"in_number", "in_word"} /\ Char \in SpecialEnd)
    BY <1>4, <2>1 DEF Container
  <2> QED
    BY <1>4, <2>2, <2>3 DEF BeginsWith, Type, Container, Stringy
<1>8. ASSUME QuietStep 
      PROVE  ~BeginsWith(loose, Char, loose') /\ LevelsOpen(loose') \in 0 .. LevelsOpen(loose)
  <2>1. Top'.type = Top.type /\ level' = level
    BY <1>6, <1>8 DEF QuietStep, SameState, Top
  <2>2. Top.type = "SPECIAL" => Char \notin SpecialEnd
    BY <1>1, <1>3, <1>4, <2>1, SpecialGoesOn
  <2> QED
    BY <1>4, <1>5, <2>1, <2>2 DEF BeginsWith, Container
<1>9. ASSUME PopStep 
      PROVE  ~BeginsWith(loose, Char, loose') /\ LevelsOpen(loose') \in 0 .. LevelsOpen(loose)
  <2>1. level' = level - 1 /\ level - 1 \in 0 .. level
    BY <1>4, <1>9 DEF PopStep
  <2>2. Top'.type \in Container \cup {"ROOT"}
    BY <1>6, <1>9, <2>1 DEF PopStep, SameState, Top
  <2> QED
    BY <1>4, <1>5, <2>1, <2>2 DEF BeginsWith, Container
<1> QED
  BY <1>3, <1>7, <1>8, <1>9

-----------------------------------------------------------------------------
(* What has been fed, and what has begun in it. *)

\* The wrapped value is a text, and is read symbol by symbol.
LEMMA WrappedFacts ==
  ASSUME ValidatorTypeOK
  PROVE  /\ Pre(mode.parent) \in Seq(STRING) /\ Post(mode.parent) \in Seq(STRING)
         /\ Wrapped \in Seq(STRING) /\ Len(Wrapped) \in Nat
         /\ Read[0] = Start
         /\ \A i \in 1 .. Len(Wrapped) : Read[i] = LooseStep(Read[i - 1], Wrapped[i])
         /\ JsonRead[0] = Start
         /\ \A i \in 1 .. Len(Wrapped) : JsonRead[i] = JsonStep(JsonRead[i - 1], Wrapped[i])
<1>1. value \in Seq(STRING) /\ mode.parent \in ParentMode
  BY DEF ValidatorTypeOK, Mode
<1>2. Pre(mode.parent) \in Seq(STRING) /\ Post(mode.parent) \in Seq(STRING)
  BY <1>1, WrapperAssumption
<1>3. Wrapped \in Seq(STRING) /\ Len(Wrapped) \in Nat
  BY <1>1, <1>2 DEF Wrapped
<1>4. Read = [i \in 0 .. Len(Wrapped) |-> IF i = 0 THEN Start ELSE LooseStep(Read[i - 1], Wrapped[i])]
  <2>1. ReadsTo(FALSE, Read, Len(Wrapped), Wrapped)
    BY <1>3, ReadingFacts, Zenon DEF Read
  <2> QED
    BY <2>1, Zenon DEF ReadsTo, LooseStep
<1>5. JsonRead = [i \in 0 .. Len(Wrapped) |-> IF i = 0 THEN Start ELSE JsonStep(JsonRead[i - 1], Wrapped[i])]
  <2>1. ReadsTo(TRUE, JsonRead, Len(Wrapped), Wrapped)
    BY <1>3, ReadingFacts, Zenon DEF JsonRead
  <2> QED
    BY <2>1, Zenon DEF ReadsTo, JsonStep
<1>6. /\ Read[0] = Start
      /\ \A i \in 1 .. Len(Wrapped) : Read[i] = LooseStep(Read[i - 1], Wrapped[i])
  BY <1>3, <1>4
<1>7. /\ JsonRead[0] = Start
      /\ \A i \in 1 .. Len(Wrapped) : JsonRead[i] = JsonStep(JsonRead[i - 1], Wrapped[i])
  BY <1>3, <1>5
<1> QED
  BY <1>2, <1>3, <1>6, <1>7

\* What has been fed is the beginning of it.
LEMMA FedIsPrefix ==
  ASSUME ValidatorTypeOK, vpc # "IDLE"
  PROVE  /\ Fed \in Seq(STRING) /\ Len(Fed) \in Nat /\ Len(Fed) <= Len(Wrapped)
         /\ \A i \in 1 .. Len(Fed) : Fed[i] = Wrapped[i]
<1>1. /\ value \in Seq(STRING) /\ vpc \in {"PRE", "VALUE", "POST", "END"}
      /\ Pre(mode.parent) \in Seq(STRING) /\ Post(mode.parent) \in Seq(STRING)
      /\ Wrapped \in Seq(STRING) /\ Len(Wrapped) \in Nat
  BY WrappedFacts DEF ValidatorTypeOK
<1> DEFINE P == Pre(mode.parent)
           Q == Post(mode.parent)
<1>2. Wrapped = (P \o value) \o Q
  BY DEF Wrapped
<1> HIDE DEF P, Q
<1>3. /\ P \o value \in Seq(STRING) /\ Len(P) \in Nat /\ Len(value) \in Nat /\ Len(Q) \in Nat
      /\ Len(P \o value) = Len(P) + Len(value)
      /\ Len(Wrapped) = Len(P \o value) + Len(Q)
      /\ \A i \in 1 .. Len(P) : (P \o value)[i] = P[i]
      /\ \A i \in 1 .. Len(P \o value) : Wrapped[i] = (P \o value)[i]
  BY <1>1, <1>2 DEF P, Q
<1>4. CASE vpc = "PRE"
  BY <1>1, <1>4 DEF Fed
<1>5. CASE vpc = "VALUE"
  <2>1. Fed = P
    BY <1>5 DEF Fed, P
  <2> QED
    BY <1>1, <1>3, <2>1 DEF P
<1>6. CASE vpc = "POST"
  <2>1. Fed = P \o value
    BY <1>6 DEF Fed, P
  <2> QED
    BY <1>1, <1>3, <2>1
<1>7. CASE vpc = "END"
  <2>1. Fed = Wrapped
    BY <1>7 DEF Fed
  <2> QED
    BY <1>1, <2>1
<1> QED
  BY <1>1, <1>4, <1>5, <1>6, <1>7

\* There are finitely many elements, all before the cursor.
LEMMA BegunFacts ==
  ASSUME pos \in Nat, NEW d
  PROVE  /\ IsFiniteSet(Begun(d)) /\ Cardinality(Begun(d)) \in Nat
         /\ Begun(d) \subseteq 1 .. pos
         /\ Begun(d) = {} <=> Cardinality(Begun(d)) = 0
<1>1. Begun(d) \subseteq 1 .. pos
  BY DEF Begun, AtDepth
<1>2. IsFiniteSet(1 .. pos)
  BY FS_Interval
<1>3. IsFiniteSet(Begun(d))
  BY <1>1, <1>2, FS_Subset
<1> QED
  BY <1>1, <1>3, FS_CardinalityType, FS_EmptySet

\* A symbol read is a symbol of the wrapped value, and begins an element or none.
LEMMA BegunReads ==
  ASSUME ValidatorTypeOK, JsonslTypeOK, vpc # "IDLE", text = Fed, loose = Read[pos], Running,
         UNCHANGED <<value, mode>>, pos' = pos + 1, loose' = LooseStep(loose, Char), NEW d
  PROVE  /\ Read' = Read /\ loose' = Read[pos']
         /\ BeginsWith(loose, Char, loose') /\ LevelsOpen(loose') = d =>
              /\ Begun(d)' = Begun(d) \cup {pos + 1}
              /\ Cardinality(Begun(d)') = Cardinality(Begun(d)) + 1
         /\ ~(BeginsWith(loose, Char, loose') /\ LevelsOpen(loose') = d) => Begun(d)' = Begun(d)
<1>1. /\ pos \in Nat /\ pos + 1 \in 1 .. Len(text) /\ Len(text) <= Len(Wrapped)
      /\ Len(Wrapped) \in Nat /\ Len(text) \in Nat
      /\ \A i \in 1 .. Len(text) : text[i] = Wrapped[i]
      /\ \A i \in 1 .. Len(Wrapped) : Read[i] = LooseStep(Read[i - 1], Wrapped[i])
  BY CursorFacts, CharType, FedIsPrefix, WrappedFacts
<1>2. Wrapped' = Wrapped
  BY DEF Wrapped
<1>3. Read' = Read
  BY <1>2 DEF Read, Reading
<1>4. pos + 1 \in 1 .. Len(Wrapped) /\ Char = Wrapped[pos + 1]
  BY <1>1 DEF Char
<1>5. loose' = Read[pos + 1]
  <2>1. Read[pos + 1] = LooseStep(Read[(pos + 1) - 1], Wrapped[pos + 1])
    BY <1>1, <1>4
  <2>2. (pos + 1) - 1 = pos
    BY <1>1
  <2> QED
    BY <1>4, <2>1, <2>2
<1> DEFINE All == AtDepth(Read, d)
<1>6. Begun(d) = {i \in All : i <= pos} /\ Begun(d)' = {i \in All : i <= pos + 1}
  BY <1>2, <1>3 DEF Begun, AtDepth, Begins
<1>7. All \subseteq 1 .. Len(Wrapped)
  BY DEF AtDepth
<1>8. pos + 1 \in All <=> BeginsWith(loose, Char, loose') /\ LevelsOpen(loose') = d
  BY <1>1, <1>4, <1>5 DEF AtDepth, Begins
<1> HIDE DEF All
<1>9. CASE pos + 1 \in All
  <2>1. Begun(d)' = Begun(d) \cup {pos + 1} /\ pos + 1 \notin Begun(d)
    BY <1>1, <1>6, <1>7, <1>9
  <2>2. IsFiniteSet(Begun(d)) /\ Cardinality(Begun(d)) \in Nat
    BY <1>1, BegunFacts
  <2>3. Cardinality(Begun(d) \cup {pos + 1}) = Cardinality(Begun(d)) + 1
    BY <2>1, <2>2, FS_AddElement
  <2> QED
    BY <1>3, <1>5, <1>8, <1>9, <2>1, <2>3
<1>10. CASE pos + 1 \notin All
  <2>1. Begun(d)' = Begun(d)
    <3>1. ASSUME NEW i \in All PROVE i <= pos <=> i <= pos + 1
      <4>1. i \in Nat /\ i # pos + 1
        BY <1>1, <1>7, <1>10
      <4> QED
        BY <1>1, <4>1
    <3> QED
      BY <1>6, <3>1
  <2> QED
    BY <1>3, <1>5, <1>8, <1>10, <2>1
<1> QED
  BY <1>9, <1>10

\* Nothing begins while no symbol is read.
LEMMA BegunStays ==
  ASSUME UNCHANGED <<value, mode, pos>>, NEW d
  PROVE  Read' = Read /\ Begun(d)' = Begun(d)
<1>1. Wrapped' = Wrapped
  BY DEF Wrapped
<1>2. Read' = Read
  BY <1>1 DEF Read, Reading
<1> QED
  BY <1>1, <1>2 DEF Begun, AtDepth, Begins

-----------------------------------------------------------------------------
(* A symbol of the value. *)

\* What a validation under way says of the lexer that is fed.
LEMMA Watched ==
  ASSUME ValidatorInv, vpc # "IDLE", v.err = "SUCCESS"
  PROVE  /\ JsonslInv /\ JsonslTypeOK /\ LexerInv /\ LanguageInv /\ Coupled /\ ValidatorTypeOK
         /\ Validating /\ Watching /\ text = Fed /\ loose = Read[pos]
         /\ pos \in Nat /\ level \in Nat /\ v.rootcount \in Nat
         /\ \A d : Cardinality(Begun(d)) \in Nat /\ (Begun(d) = {} <=> Cardinality(Begun(d)) = 0)
         /\ v.maxdepth \in Nat \cup {Unlimited}
         /\ v.maxdepth # Unlimited => v.maxdepth \in Nat
<1>1. /\ JsonslInv /\ JsonslTypeOK /\ LexerInv /\ LanguageInv /\ Coupled /\ ValidatorTypeOK
      /\ Validating /\ Watching /\ text = Fed /\ loose = Read[pos]
  BY DEF ValidatorInv, LanguageInv, JsonslInv, Validating
<1>2. pos \in Nat /\ level \in Nat
  BY <1>1, CursorFacts, LevelFacts
<1>3. \A d : Cardinality(Begun(d)) \in Nat /\ (Begun(d) = {} <=> Cardinality(Begun(d)) = 0)
  BY <1>2, BegunFacts
<1> QED
  BY <1>1, <1>2, <1>3 DEF ValidatorTypeOK

\* What a handler adds to what has been read and begun.
LEMMA FeedBegins ==
  ASSUME ValidatorInv, vpc # "IDLE", v.err = "SUCCESS", FeedRead, UNCHANGED <<value, mode>>
  PROVE  /\ Read' = Read /\ loose' = Read[pos'] /\ pos' \in {pos, pos + 1}
         /\ QuietStep \/ PopStep =>
              /\ Begun(1)' = Begun(1) /\ Begun(2)' = Begun(2)
              /\ pos' = pos \/ LevelsOpen(Read[pos']) \in 0 .. LevelsOpen(Read[pos])
         /\ \A type \in Type \ {"ROOT"} : PushStep(type) =>
              /\ LevelsOpen(Read[pos']) = IF type = "HKEY" THEN level ELSE level + 1
              /\ InPrimitive(Read[pos']) <=> type \in {"STRING", "SPECIAL"}
              /\ IF type # "HKEY" /\ level = 0
                 THEN Cardinality(Begun(1)') = Cardinality(Begun(1)) + 1
                 ELSE Begun(1)' = Begun(1)
              /\ IF type # "HKEY" /\ level = 1
                 THEN /\ Begun(2)' = Begun(2) \cup {pos'}
                      /\ Cardinality(Begun(2)') = Cardinality(Begun(2)) + 1
                 ELSE Begun(2)' = Begun(2)
<1>1. /\ JsonslInv /\ JsonslTypeOK /\ LanguageInv /\ ValidatorTypeOK
      /\ text = Fed /\ loose = Read[pos] /\ pos \in Nat /\ level \in Nat /\ Feed
  BY Watched DEF FeedRead
<1>2. Running /\ (QuietStep \/ PopStep \/ \E type \in Type \ {"ROOT"} : PushStep(type))
  BY <1>1, FeedTakes
<1>3. CASE pos' = pos
  <2>1. UNCHANGED readers
    BY <1>3 DEF FeedRead, ReadOn
  <2>2. loose' = loose
    BY <2>1 DEF readers
  <2>3. Read' = Read /\ Begun(1)' = Begun(1) /\ Begun(2)' = Begun(2)
    BY <1>3, BegunStays
  <2>4. \A type : ~PushStep(type)
    BY <1>1, <1>3 DEF PushStep
  <2> QED
    BY <1>1, <1>3, <2>2, <2>3, <2>4
<1>4. CASE pos' # pos
  <2>1. /\ pos' = pos + 1 /\ loose' = LooseStep(loose, Char)
        /\ \A type \in Type \ {"ROOT"} : PushStep(type) =>
             /\ BeginsWith(loose, Char, loose') <=> type # "HKEY"
             /\ LevelsOpen(loose') = IF type = "HKEY" THEN level ELSE level + 1
             /\ InPrimitive(loose') <=> type \in {"STRING", "SPECIAL"}
        /\ QuietStep \/ PopStep =>
             ~BeginsWith(loose, Char, loose') /\ LevelsOpen(loose') \in 0 .. LevelsOpen(loose)
    BY <1>1, <1>4, ReadMoves
  <2>2. /\ Read' = Read /\ loose' = Read[pos']
        /\ \A d : /\ BeginsWith(loose, Char, loose') /\ LevelsOpen(loose') = d =>
                       /\ Begun(d)' = Begun(d) \cup {pos + 1}
                       /\ Cardinality(Begun(d)') = Cardinality(Begun(d)) + 1
                  /\ ~(BeginsWith(loose, Char, loose') /\ LevelsOpen(loose') = d) =>
                       Begun(d)' = Begun(d)
    BY <1>1, <1>2, <2>1, BegunReads
  <2>3. /\ BeginsWith(loose, Char, loose') /\ LevelsOpen(loose') = 1 =>
             /\ Begun(1)' = Begun(1) \cup {pos + 1}
             /\ Cardinality(Begun(1)') = Cardinality(Begun(1)) + 1
        /\ ~(BeginsWith(loose, Char, loose') /\ LevelsOpen(loose') = 1) => Begun(1)' = Begun(1)
        /\ BeginsWith(loose, Char, loose') /\ LevelsOpen(loose') = 2 =>
             /\ Begun(2)' = Begun(2) \cup {pos + 1}
             /\ Cardinality(Begun(2)') = Cardinality(Begun(2)) + 1
        /\ ~(BeginsWith(loose, Char, loose') /\ LevelsOpen(loose') = 2) => Begun(2)' = Begun(2)
    BY <2>2
  <2>4. ASSUME QuietStep \/ PopStep
        PROVE  /\ Begun(1)' = Begun(1) /\ Begun(2)' = Begun(2)
               /\ LevelsOpen(Read[pos']) \in 0 .. LevelsOpen(Read[pos])
    BY <1>1, <2>1, <2>2, <2>3, <2>4
  <2>5. ASSUME NEW type \in Type \ {"ROOT"}, PushStep(type)
        PROVE  /\ LevelsOpen(Read[pos']) = IF type = "HKEY" THEN level ELSE level + 1
               /\ InPrimitive(Read[pos']) <=> type \in {"STRING", "SPECIAL"}
               /\ IF type # "HKEY" /\ level = 0
                  THEN Cardinality(Begun(1)') = Cardinality(Begun(1)) + 1
                  ELSE Begun(1)' = Begun(1)
               /\ IF type # "HKEY" /\ level = 1
                  THEN /\ Begun(2)' = Begun(2) \cup {pos'}
                       /\ Cardinality(Begun(2)') = Cardinality(Begun(2)) + 1
                  ELSE Begun(2)' = Begun(2)
    <3>1. /\ BeginsWith(loose, Char, loose') <=> type # "HKEY"
          /\ LevelsOpen(loose') = IF type = "HKEY" THEN level ELSE level + 1
          /\ InPrimitive(loose') <=> type \in {"STRING", "SPECIAL"}
      BY <2>1, <2>5
    <3>2. level = 0 <=> level + 1 = 1
      BY <1>1
    <3>3. level = 1 <=> level + 1 = 2
      BY <1>1
    <3> QED
      BY <2>1, <2>2, <2>3, <3>1, <3>2, <3>3
  <2> QED
    BY <2>1, <2>2, <2>4, <2>5
<1> QED
  BY <1>3, <1>4

\* Where a state is pushed, the levels below it are those read, and are allowed.
LEMMA LevelAllowed ==
  ASSUME ValidatorInv, vpc # "IDLE", v.err = "SUCCESS", cb = NoCallback,
         Top.type \in Container \cup {"ROOT"}, v.maxdepth # Unlimited
  PROVE  level <= v.maxdepth
<1>1. /\ JsonslInv /\ Coupled /\ Watching /\ loose = Read[pos] /\ pos \in Nat /\ v.maxdepth \in Nat
  BY Watched
<1>2. Len(loose.ctx) = level /\ Len(loose.ctx) \in Nat
  BY <1>1, ReaderPlace
<1>3. LevelsOpen(loose) \in 0 .. v.maxdepth
  <2>1. ~Objecting
    BY DEF Objecting
  <2>2. pos \in 0 .. pos
    BY <1>1
  <2> QED
    BY <1>1, <2>1, <2>2 DEF Watching, ShallowSoFar
<1>4. LevelsOpen(loose) = level \/ LevelsOpen(loose) = level + 1
  BY <1>2 DEF LevelsOpen
<1> QED
  BY <1>1, <1>2, <1>3, <1>4

\* While the feed runs, the callback is set for as deep as it must hear of.
LEMMA CallbacksReach ==
  ASSUME ValidatorInv, vpc # "IDLE", v.err = "SUCCESS", Running
  PROVE  /\ max_callback_level \in Nat /\ max_callback_level > 1 /\ ~call_HKEY
         /\ v.maxdepth # Unlimited => max_callback_level = v.maxdepth + 2
         /\ v.maxdepth = Unlimited /\ mode.flags # {} => max_callback_level = 3
         /\ cb = NoCallback /\ ~stopfl /\ ~Objecting
         /\ \A l \in 0 .. level : ~stack[l].ignore_callback
         /\ v.rootcount + (IF level > 0 THEN 1 ELSE 0) = 2 * Cardinality(Begun(1))
<1>1. /\ Validating /\ Watching /\ text = Fed /\ pos \in Nat /\ JsonslInv
      /\ v.maxdepth \in Nat \cup {Unlimited} /\ v.rootcount \in Nat /\ Cardinality(Begun(1)) \in Nat
  BY Watched
<1>2. cb = NoCallback /\ ~stopfl /\ pos < Len(text)
  BY DEF Running
<1>3. vpc # "PRE"
  BY <1>1, <1>2 DEF Fed
<1>4. max_callback_level = CallbackDepth /\ ~call_HKEY
  BY <1>1, <1>3 DEF Validating
<1>5. /\ CallbackDepth \in Nat /\ CallbackDepth > 1
      /\ v.maxdepth # Unlimited => CallbackDepth = v.maxdepth + 2
      /\ v.maxdepth = Unlimited /\ mode.flags # {} => CallbackDepth = 3
  <2>1. CASE v.maxdepth # Unlimited
    BY <1>1, <2>1 DEF CallbackDepth
  <2>2. CASE v.maxdepth = Unlimited /\ mode.flags # {}
    BY <2>2 DEF CallbackDepth
  <2>3. CASE v.maxdepth = Unlimited /\ mode.flags = {}
    BY <2>3 DEF CallbackDepth
  <2> QED
    BY <2>1, <2>2, <2>3
<1>6. \A l \in 0 .. level : ~stack[l].ignore_callback
  <2>1. Reach = level
    BY <1>1, <1>2, ReachFacts
  <2> QED
    BY <1>1, <2>1 DEF Watching
<1>7. v.rootcount + (IF level > 0 THEN 1 ELSE 0) = 2 * Cardinality(Begun(1))
  <2>1. v.rootcount + 0 + (IF level > 0 THEN 1 ELSE 0) = 2 * Cardinality(Begun(1))
    BY <1>1, <1>2 DEF Watching, RootsCounted
  <2> QED
    BY <1>1, <2>1
<1> QED
  BY <1>2, <1>4, <1>5, <1>6, <1>7 DEF Objecting

\* What begins nothing, and leaves the stack as it is but for its top, changes
\* no count but that of the values that have ended.
LEMMA WatchingStays ==
  ASSUME ValidatorInv, vpc # "IDLE", v.err = "SUCCESS", FeedRead, QuietStep \/ PopStep,
         UNCHANGED <<value, mode, v, vpc>>, err' = "SUCCESS", RootsCounted',
         \A l \in 0 .. Reach' : ~stack'[l].ignore_callback
  PROVE  Watching'
<1>1. /\ JsonslInv /\ JsonslTypeOK /\ Watching /\ pos \in Nat /\ level \in Nat /\ Feed
      /\ v.maxdepth # Unlimited => v.maxdepth \in Nat
  BY Watched DEF FeedRead
<1>2. Running
  BY <1>1, FeedTakes
<1>3. ~Objecting /\ ~stopfl
  BY <1>2, CallbacksReach
<1>4. /\ Read' = Read /\ pos' \in {pos, pos + 1}
      /\ Begun(1)' = Begun(1) /\ Begun(2)' = Begun(2)
      /\ pos' = pos \/ LevelsOpen(Read[pos']) \in 0 .. LevelsOpen(Read[pos])
  BY FeedBegins
<1>5. stopfl' = stopfl /\ level' \in {level, level - 1} /\ \A l \in Level : SameState(stack'[l], stack[l])
  BY DEF QuietStep, PopStep, clientVars
<1>6. ElementsCounted'
  <2>1. level' > 0 => level > 0 /\ SameState(stack'[1], stack[1])
    <3>1. level' > 0 => level > 0 /\ 1 \in 0 .. level
      BY <1>1, <1>5
    <3> QED
      BY <1>1, <1>5, <3>1, LevelFacts
  <2>2. ElementsCounted
    BY <1>1 DEF Watching
  <2> QED
    BY <1>4, <2>1, <2>2 DEF ElementsCounted, SameState
<1>7. SingleSoFar'
  BY <1>1, <1>3, <1>4 DEF Watching, SingleSoFar
<1>8. PrimitiveSoFar'
  BY <1>1, <1>3, <1>4 DEF Watching, PrimitiveSoFar
<1>9. ShallowSoFar'
  <2>1. v.maxdepth # Unlimited => \A i \in 0 .. pos : LevelsOpen(Read[i]) \in 0 .. v.maxdepth
    BY <1>1, <1>3 DEF Watching, ShallowSoFar
  <2>2. ASSUME v.maxdepth # Unlimited, NEW i \in 0 .. pos' PROVE LevelsOpen(Read[i]) \in 0 .. v.maxdepth
    <3>1. i \in 0 .. pos \/ (i = pos' /\ pos' # pos)
      BY <1>1, <1>4
    <3>2. CASE i \in 0 .. pos
      BY <2>1, <2>2, <3>2
    <3>3. CASE i = pos' /\ pos' # pos
      <4>1. LevelsOpen(Read[pos]) \in 0 .. v.maxdepth
        BY <1>1, <2>1, <2>2
      <4> DEFINE open == LevelsOpen(Read[pos])
                 next == LevelsOpen(Read[pos'])
      <4>2. next \in 0 .. open
        BY <1>4, <3>3
      <4> HIDE DEF open, next
      <4>3. open \in 0 .. v.maxdepth /\ v.maxdepth \in Nat
        BY <1>1, <2>2, <4>1 DEF open
      <4>4. next \in 0 .. v.maxdepth
        BY <4>2, <4>3
      <4> QED
        BY <3>3, <4>4 DEF next
    <3> QED
      BY <3>1, <3>2, <3>3
  <2> QED
    BY <1>4, <2>2 DEF ShallowSoFar
<1> QED
  BY <1>1, <1>3, <1>5, <1>6, <1>7, <1>8, <1>9 DEF Watching

\* A handler that keeps the stack,
LEMMA QuietWatches ==
  ASSUME ValidatorInv, vpc # "IDLE", v.err = "SUCCESS", FeedRead, QuietStep,
         UNCHANGED <<value, mode, v, vpc>>, err' = "SUCCESS"
  PROVE  Watching'
<1>1. JsonslInv /\ JsonslTypeOK /\ Feed /\ level \in Nat
  BY Watched DEF FeedRead
<1>2. Running
  BY <1>1, FeedTakes
<1>3. /\ cb = NoCallback /\ \A l \in 0 .. level : ~stack[l].ignore_callback
      /\ v.rootcount + (IF level > 0 THEN 1 ELSE 0) = 2 * Cardinality(Begun(1))
  BY <1>2, CallbacksReach
<1>4. Begun(1)' = Begun(1)
  BY FeedBegins
<1>5. level' = level /\ cb' = NoCallback /\ \A l \in Level : SameState(stack'[l], stack[l])
  BY <1>3 DEF QuietStep
<1>6. RootsCounted'
  <2>1. v.rootcount \in Nat
    BY Watched
  <2>2. v.rootcount = v.rootcount + 0
    BY <2>1
  <2> QED
    BY <1>3, <1>4, <1>5, <2>2 DEF RootsCounted
<1>7. \A l \in 0 .. Reach' : ~stack'[l].ignore_callback
  <2>1. Reach' = level
    BY <1>5 DEF Reach, NoCallback
  <2> QED
    BY <1>1, <1>3, <1>5, <2>1, LevelFacts DEF SameState
<1> QED
  BY <1>6, <1>7, WatchingStays

\* and one that pops a state, keep what has been watched.
LEMMA PopWatches ==
  ASSUME ValidatorInv, vpc # "IDLE", v.err = "SUCCESS", FeedRead, PopStep,
         UNCHANGED <<value, mode, v, vpc>>, err' = "SUCCESS"
  PROVE  Watching'
<1>1. /\ JsonslInv /\ JsonslTypeOK /\ Feed /\ level \in Nat /\ v.rootcount \in Nat
      /\ Cardinality(Begun(1)) \in Nat
  BY Watched DEF FeedRead
<1>2. Running
  BY <1>1, FeedTakes
<1>3. /\ cb = NoCallback /\ \A l \in 0 .. level : ~stack[l].ignore_callback
      /\ v.rootcount + (IF level > 0 THEN 1 ELSE 0) = 2 * Cardinality(Begun(1))
      /\ max_callback_level \in Nat /\ max_callback_level > 1
  BY <1>2, CallbacksReach
<1>4. Begun(1)' = Begun(1)
  BY FeedBegins
<1>5. /\ level > 0 /\ level' = level - 1 /\ \A l \in Level : SameState(stack'[l], stack[l])
      /\ cb' = Delivered("POP", level, Top.type, Top.ignore_callback)
      /\ (Top.type = "HKEY") = (stack[level - 1].type = "OBJECT" /\ stack[level - 1].nelem % 2 = 1)
  BY <1>1 DEF PopStep
<1>6. RootsCounted'
  <2>1. CASE level = 1
    <3>1. Top.type # "HKEY"
      <4>1. stack[level - 1].type = "ROOT"
        BY <1>1, <2>1 DEF JsonslInv, StackMirrorsText
      <4> QED
        BY <1>5, <4>1
    <3>2. ~Top.ignore_callback
      BY <1>1, <1>3 DEF Top
    <3>3. cb' = [action |-> "POP", level |-> 1, at |-> pos]
      BY <1>3, <1>5, <2>1, <3>1, <3>2 DEF Delivered
    <3>4. cb' # NoCallback /\ cb'.level = 1 /\ level' = 0
      BY <1>5, <2>1, <3>3 DEF NoCallback
    <3>5. v.rootcount + 1 = 2 * Cardinality(Begun(1))
      BY <1>3, <2>1
    <3>6. v.rootcount + 1 + 0 = v.rootcount + 1
      BY <1>1
    <3> QED
      BY <1>4, <3>4, <3>5, <3>6 DEF RootsCounted
  <2>2. CASE level # 1
    <3>1. level' > 0 /\ ~(cb' # NoCallback /\ cb'.level = 1)
      BY <1>1, <1>5, <2>2 DEF Delivered
    <3>2. v.rootcount + 1 = 2 * Cardinality(Begun(1))
      BY <1>3, <1>5
    <3>3. v.rootcount + 0 + 1 = v.rootcount + 1
      BY <1>1
    <3> QED
      BY <1>4, <3>1, <3>2, <3>3 DEF RootsCounted
  <2> QED
    BY <2>1, <2>2
<1>7. \A l \in 0 .. Reach' : ~stack'[l].ignore_callback
  <2>1. Reach' \in 0 .. level
    BY <1>1, <1>5 DEF Reach
  <2> QED
    BY <1>1, <1>3, <1>5, <2>1, LevelFacts DEF SameState
<1> QED
  BY <1>6, <1>7, WatchingStays

(* What a push does, as the counts and the callback need it.               *)
LEMMA PushFacts ==
  ASSUME ValidatorInv, vpc # "IDLE", v.err = "SUCCESS", FeedRead,
         NEW type \in Type \ {"ROOT"}, PushStep(type)
  PROVE  /\ level \in Nat /\ level' = level + 1 /\ pos \in Nat /\ pos' = pos + 1 /\ 1 \in Level
         /\ v.rootcount \in Nat /\ Cardinality(Begun(1)) \in Nat /\ Cardinality(Begun(2)) \in Nat
         /\ Top.nelem \in Nat /\ Top.type \in Container \cup {"ROOT"} /\ (Top.type = "ROOT" <=> level = 0)
         /\ type = "HKEY" <=> Top.type = "OBJECT" /\ Top.nelem % 2 = 0
         /\ stack'[level + 1].type = type /\ (type \in Container => stack'[level + 1].nelem = 0)
         /\ stack'[level].type = Top.type /\ stack'[level].nelem = Top.nelem + 1
         /\ cb' = IF type # "HKEY" /\ max_callback_level > level + 1
                  THEN [action |-> "PUSH", level |-> level + 1, at |-> pos] ELSE NoCallback
         /\ v.rootcount + (IF level > 0 THEN 1 ELSE 0) = 2 * Cardinality(Begun(1))
         /\ v.maxdepth # Unlimited => v.maxdepth \in Nat /\ level <= v.maxdepth
<1>1. /\ JsonslInv /\ JsonslTypeOK /\ Feed /\ level \in Nat /\ pos \in Nat /\ v.rootcount \in Nat
      /\ Cardinality(Begun(1)) \in Nat /\ Cardinality(Begun(2)) \in Nat
      /\ v.maxdepth # Unlimited => v.maxdepth \in Nat
  BY Watched DEF FeedRead
<1>2. Running
  BY <1>1, FeedTakes
<1>3. /\ cb = NoCallback /\ \A l \in 0 .. level : ~stack[l].ignore_callback
      /\ v.rootcount + (IF level > 0 THEN 1 ELSE 0) = 2 * Cardinality(Begun(1)) /\ ~call_HKEY
  BY <1>2, CallbacksReach
<1>4. Top.nelem \in Nat /\ Top.type \in Type /\ (Top.type = "ROOT" <=> level = 0)
  BY <1>1, LevelTypes DEF State
<1>5. Top.type \in Container \cup {"ROOT"}
  BY DEF PushStep
<1>6. ~Top.ignore_callback
  BY <1>1, <1>3 DEF Top
<1>7. cb' = IF type # "HKEY" /\ max_callback_level > level + 1
            THEN [action |-> "PUSH", level |-> level + 1, at |-> pos] ELSE NoCallback
  BY <1>3, <1>6 DEF PushStep, Delivered
<1>8. v.maxdepth # Unlimited => level <= v.maxdepth
  BY <1>3, <1>5, LevelAllowed
<1>9. 1 \in Level
  BY LevelsAssumption DEF Level
<1> QED
  BY <1>1, <1>3, <1>4, <1>5, <1>7, <1>8, <1>9 DEF PushStep, SameState, OpensKey

\* A push at the root is told to the callback, which will count it;
LEMMA PushRoots ==
  ASSUME ValidatorInv, vpc # "IDLE", v.err = "SUCCESS", FeedRead, UNCHANGED <<value, mode, v, vpc>>,
         NEW type \in Type \ {"ROOT"}, PushStep(type)
  PROVE  RootsCounted'
<1>1. /\ level \in Nat /\ level' = level + 1 /\ v.rootcount \in Nat /\ Cardinality(Begun(1)) \in Nat
      /\ (Top.type = "ROOT" <=> level = 0)
      /\ type = "HKEY" <=> Top.type = "OBJECT" /\ Top.nelem % 2 = 0
      /\ cb' = IF type # "HKEY" /\ max_callback_level > level + 1
               THEN [action |-> "PUSH", level |-> level + 1, at |-> pos] ELSE NoCallback
      /\ v.rootcount + (IF level > 0 THEN 1 ELSE 0) = 2 * Cardinality(Begun(1))
  BY PushFacts
<1>2. IF type # "HKEY" /\ level = 0
      THEN Cardinality(Begun(1)') = Cardinality(Begun(1)) + 1
      ELSE Begun(1)' = Begun(1)
  BY FeedBegins
<1>3. level' > 0
  BY <1>1
<1>4. CASE level = 0
  <2>1. type # "HKEY"
    BY <1>1, <1>4
  <2>2. max_callback_level > level + 1
    <3>1. max_callback_level \in Nat /\ max_callback_level > 1
      BY Watched, FeedTakes, CallbacksReach DEF FeedRead
    <3> QED
      BY <1>4, <3>1
  <2>3. cb' # NoCallback /\ cb'.level = 1
    BY <1>1, <1>4, <2>1, <2>2 DEF NoCallback
  <2>4. Cardinality(Begun(1)') = Cardinality(Begun(1)) + 1
    BY <1>2, <1>4, <2>1
  <2>5. v.rootcount = 2 * Cardinality(Begun(1))
    BY <1>1, <1>4
  <2>6. v.rootcount + 1 + 1 = 2 * (Cardinality(Begun(1)) + 1)
    BY <1>1, <2>5
  <2> QED
    BY <1>3, <2>3, <2>4, <2>6 DEF RootsCounted
<1>5. CASE level # 0
  <2>1. ~(cb' # NoCallback /\ cb'.level = 1)
    BY <1>1, <1>5
  <2>2. v.rootcount + 1 = 2 * Cardinality(Begun(1)) /\ v.rootcount + 0 + 1 = v.rootcount + 1
    BY <1>1, <1>5
  <2> QED
    BY <1>2, <1>3, <1>5, <2>1, <2>2 DEF RootsCounted
<1> QED
  BY <1>4, <1>5

\* a push inside the value at the top is counted in its state;
LEMMA PushElements ==
  ASSUME ValidatorInv, vpc # "IDLE", v.err = "SUCCESS", FeedRead, UNCHANGED <<value, mode, v, vpc>>,
         NEW type \in Type \ {"ROOT"}, PushStep(type)
  PROVE  ElementsCounted'
<1>1. /\ level \in Nat /\ level' = level + 1 /\ v.rootcount \in Nat /\ 1 \in Level
      /\ Cardinality(Begun(1)) \in Nat /\ Cardinality(Begun(2)) \in Nat
      /\ Top.nelem \in Nat /\ Top.type \in Container \cup {"ROOT"} /\ (Top.type = "ROOT" <=> level = 0)
      /\ type = "HKEY" <=> Top.type = "OBJECT" /\ Top.nelem % 2 = 0
      /\ stack'[level + 1].type = type /\ (type \in Container => stack'[level + 1].nelem = 0)
      /\ stack'[level].type = Top.type /\ stack'[level].nelem = Top.nelem + 1
      /\ v.rootcount + (IF level > 0 THEN 1 ELSE 0) = 2 * Cardinality(Begun(1))
  BY PushFacts
<1>2. /\ IF type # "HKEY" /\ level = 0
         THEN Cardinality(Begun(1)') = Cardinality(Begun(1)) + 1
         ELSE Begun(1)' = Begun(1)
      /\ IF type # "HKEY" /\ level = 1
         THEN Cardinality(Begun(2)') = Cardinality(Begun(2)) + 1
         ELSE Begun(2)' = Begun(2)
  BY FeedBegins
<1>3. /\ Begun(1) = {} <=> Cardinality(Begun(1)) = 0
      /\ Begun(2) = {} <=> Cardinality(Begun(2)) = 0
      /\ Begun(1) = {} => Begun(2) = {}
      /\ Cardinality(Begun(1)) = 1 /\ level > 0 =>
           Cardinality(Begun(2)) = CASE stack[1].type = "LIST"   -> stack[1].nelem
                                     [] stack[1].type = "OBJECT" -> stack[1].nelem \div 2
                                     [] OTHER                    -> 0
  BY Watched DEF Watching, ElementsCounted
<1>4. CASE level = 0
  <2>1. type # "HKEY" /\ Begun(2)' = Begun(2)
    BY <1>1, <1>2, <1>4
  <2>2. Cardinality(Begun(1)') = Cardinality(Begun(1)) + 1
    BY <1>2, <1>4, <2>1
  <2>3. Begun(1)' # {}
    <3>1. Cardinality({}) = 0
      BY FS_EmptySet
    <3>2. Cardinality(Begun(1)) + 1 # 0
      BY <1>1
    <3> QED
      BY <2>2, <3>1, <3>2, Zenon
  <2>4. Cardinality(Begun(1)') = 1 => Cardinality(Begun(2)) = 0
    <3>1. Cardinality(Begun(1)) + 1 = 1 => Cardinality(Begun(1)) = 0
      BY <1>1
    <3>2. Cardinality(Begun(1)) = 0 => Cardinality(Begun(2)) = 0
      BY <1>3, Zenon
    <3> QED
      BY <2>2, <3>1, <3>2, Zenon
  <2>5. stack'[1].type = type /\ (type \in Container => stack'[1].nelem = 0) /\ 0 \div 2 = 0
    BY <1>1, <1>4
  <2> QED
    BY <2>1, <2>3, <2>4, <2>5 DEF ElementsCounted, Container
<1>5. CASE level = 1
  <2>1. Begun(1)' = Begun(1) /\ Begun(1) # {}
    BY <1>1, <1>2, <1>3, <1>5
  <2>2. Top = stack[1] /\ stack'[1].type = Top.type /\ stack'[1].nelem = Top.nelem + 1
    BY <1>1, <1>5 DEF Top
  <2>3. ASSUME Cardinality(Begun(1)) = 1, Top.type = "LIST"
        PROVE  Cardinality(Begun(2)') = Top.nelem + 1
    BY <1>1, <1>2, <1>3, <1>5, <2>2, <2>3
  <2>4. ASSUME Cardinality(Begun(1)) = 1, Top.type = "OBJECT"
        PROVE  Cardinality(Begun(2)') = (Top.nelem + 1) \div 2
    <3>1. Cardinality(Begun(2)) = Top.nelem \div 2
      BY <1>3, <1>5, <2>2, <2>4
    <3>2. CASE type = "HKEY"
      <4>1. Top.nelem % 2 = 0
        BY <1>1, <3>2
      <4>2. (Top.nelem + 1) \div 2 = Top.nelem \div 2
        BY <1>1, <4>1
      <4> QED
        BY <1>2, <3>1, <3>2, <4>2
    <3>3. CASE type # "HKEY"
      <4>1. Top.nelem % 2 = 1
        BY <1>1, <2>4, <3>3, Parity
      <4>2. (Top.nelem + 1) \div 2 = (Top.nelem \div 2) + 1
        BY <1>1, <4>1
      <4> QED
        BY <1>2, <1>5, <3>1, <3>3, <4>2
    <3> QED
      BY <3>2, <3>3
  <2>5. Top.type \in {"LIST", "OBJECT"}
    BY <1>1, <1>5 DEF Container
  <2> QED
    BY <2>1, <2>2, <2>3, <2>4, <2>5 DEF ElementsCounted
<1>6. CASE level > 1
  <2>1. Begun(1)' = Begun(1) /\ Begun(2)' = Begun(2)
    BY <1>1, <1>2, <1>6
  <2>2. stack'[1] = stack[1]
    <3>1. 1 \in Level \ {level, level + 1}
      BY <1>1, <1>6
    <3> QED
      BY <3>1 DEF PushStep
  <2> QED
    BY <1>1, <1>3, <1>6, <2>1, <2>2 DEF ElementsCounted
<1> QED
  BY <1>1, <1>4, <1>5, <1>6

\* What the callback a push delivers will answer.
LEMMA PushObjects ==
  ASSUME level \in Nat, UNCHANGED <<value, mode, v, vpc>>,
         cb' = [action |-> "PUSH", level |-> level + 1, at |-> pos]
  PROVE  Objecting' <=>
           \/ v.maxdepth # Unlimited /\ level = v.maxdepth
           \/ /\ level = 1 /\ "VALUE_SINGLE" \in mode.flags
              /\ \/ stack'[1].type = "LIST" /\ stack'[1].nelem > 1
                 \/ stack'[1].type = "OBJECT" /\ stack'[1].nelem > 2
           \/ level = 1 /\ "VALUE_PRIMITIVE" \in mode.flags /\ stack'[2].type \in Container
<1>1. /\ cb' # NoCallback /\ cb'.level = level + 1 /\ cb'.level - 1 = level /\ cb'.action = "PUSH"
      /\ cb'.level = 2 <=> level = 1
  BY DEF NoCallback
<1>2. Objection' = 
        IF v.maxdepth # Unlimited /\ level = v.maxdepth THEN ETOODEEP
        ELSE IF level # 1 THEN "SUCCESS"
        ELSE IF "VALUE_SINGLE" \in mode.flags /\ HasMultiple' THEN "EMULTIELEM"
        ELSE IF "VALUE_PRIMITIVE" \in mode.flags /\ Seen'.type \in Container THEN "ENOTPRIMITIVE"
        ELSE "SUCCESS"
  BY <1>1 DEF Objection
<1>3. Around' = stack'[level] /\ Seen' = stack'[level + 1]
  BY <1>1 DEF Around, Seen
<1>4. HasMultiple' <=> \/ stack'[level].type = "LIST" /\ stack'[level].nelem > 1
                       \/ stack'[level].type = "OBJECT" /\ stack'[level].nelem > 2
  BY <1>3 DEF HasMultiple
<1> QED
  BY <1>1, <1>2, <1>3, <1>4 DEF Objecting, ETOODEEP

\* A second element of a value that must be single is objected to,
LEMMA PushSingle ==
  ASSUME ValidatorInv, vpc # "IDLE", v.err = "SUCCESS", FeedRead, UNCHANGED <<value, mode, v, vpc>>,
         NEW type \in Type \ {"ROOT"}, PushStep(type)
  PROVE  SingleSoFar'
<1> SUFFICES ASSUME "VALUE_SINGLE" \in mode.flags, Cardinality(Begun(1)') <= 1
             PROVE  Cardinality(Begun(2)') <= 1 \/ Objecting'
  BY DEF SingleSoFar
<1>1. /\ level \in Nat /\ level' = level + 1 /\ v.rootcount \in Nat
      /\ Cardinality(Begun(1)) \in Nat /\ Cardinality(Begun(2)) \in Nat
      /\ Top.nelem \in Nat /\ Top.type \in Container \cup {"ROOT"} /\ (Top.type = "ROOT" <=> level = 0)
      /\ type = "HKEY" <=> Top.type = "OBJECT" /\ Top.nelem % 2 = 0
      /\ stack'[level].type = Top.type /\ stack'[level].nelem = Top.nelem + 1
      /\ cb' = IF type # "HKEY" /\ max_callback_level > level + 1
               THEN [action |-> "PUSH", level |-> level + 1, at |-> pos] ELSE NoCallback
      /\ v.rootcount + (IF level > 0 THEN 1 ELSE 0) = 2 * Cardinality(Begun(1))
      /\ v.maxdepth # Unlimited => v.maxdepth \in Nat /\ level <= v.maxdepth
  BY PushFacts
<1>2. /\ IF type # "HKEY" /\ level = 0
         THEN Cardinality(Begun(1)') = Cardinality(Begun(1)) + 1
         ELSE Begun(1)' = Begun(1)
      /\ IF type # "HKEY" /\ level = 1
         THEN Cardinality(Begun(2)') = Cardinality(Begun(2)) + 1
         ELSE Begun(2)' = Begun(2)
  BY FeedBegins
<1>3. Watching /\ Running
  BY Watched, FeedTakes DEF FeedRead
<1>4. ~Objecting /\ mode.flags # {}
      /\ (v.maxdepth # Unlimited => max_callback_level = v.maxdepth + 2)
      /\ (v.maxdepth = Unlimited => max_callback_level = 3)
  BY <1>3, CallbacksReach
<1>5. Cardinality(Begun(1)) <= 1
  <2>1. CASE type # "HKEY" /\ level = 0
    BY <1>1, <1>2, <2>1
  <2>2. CASE ~(type # "HKEY" /\ level = 0)
    BY <1>2, <2>2
  <2> QED
    BY <2>1, <2>2
<1>6. Cardinality(Begun(2)) <= 1
  BY <1>3, <1>4, <1>5 DEF Watching, SingleSoFar
<1>7. CASE type # "HKEY" /\ level = 1
  <2>1. Cardinality(Begun(1)) = 1
    BY <1>1, <1>5, <1>7
  <2>2. CASE Cardinality(Begun(2)) = 0
    BY <1>2, <1>7, <2>2
  <2>3. CASE Cardinality(Begun(2)) = 1
    <3>1. 1 = CASE Top.type = "LIST"   -> Top.nelem
                [] Top.type = "OBJECT" -> Top.nelem \div 2
                [] OTHER               -> 0
      BY <1>3, <1>7, <2>1, <2>3 DEF Watching, ElementsCounted, Top
    <3>2. Top.type \in {"LIST", "OBJECT"}
      BY <1>1, <1>7 DEF Container
    <3>3. CASE Top.type = "LIST"
      <4>1. stack'[1].type = "LIST" /\ stack'[1].nelem = 2
        BY <1>1, <1>7, <3>1, <3>3
      <4> QED
        BY <1>1, <1>4, <1>7, <4>1, PushObjects
    <3>4. CASE Top.type = "OBJECT"
      <4>1. Top.nelem \div 2 = 1 /\ Top.nelem % 2 # 0
        BY <1>1, <1>7, <3>1, <3>4
      <4>2. Top.nelem + 1 > 2
        BY <1>1, <4>1
      <4>3. stack'[1].type = "OBJECT" /\ stack'[1].nelem > 2
        BY <1>1, <1>7, <3>4, <4>2
      <4> QED
        BY <1>1, <1>4, <1>7, <4>3, PushObjects
    <3> QED
      BY <3>2, <3>3, <3>4
  <2> QED
    BY <1>1, <1>6, <2>2, <2>3
<1>8. CASE ~(type # "HKEY" /\ level = 1)
  BY <1>2, <1>6, <1>8
<1> QED
  BY <1>7, <1>8

\* and so is a container where a primitive must be,
LEMMA PushPrimitive ==
  ASSUME ValidatorInv, vpc # "IDLE", v.err = "SUCCESS", FeedRead, UNCHANGED <<value, mode, v, vpc>>,
         NEW type \in Type \ {"ROOT"}, PushStep(type)
  PROVE  PrimitiveSoFar'
<1> SUFFICES ASSUME "VALUE_PRIMITIVE" \in mode.flags, NEW i \in Begun(2)'
             PROVE  InPrimitive(Read'[i]) \/ Objecting'
  BY DEF PrimitiveSoFar
<1>1. /\ level \in Nat
      /\ stack'[level + 1].type = type
      /\ cb' = IF type # "HKEY" /\ max_callback_level > level + 1
               THEN [action |-> "PUSH", level |-> level + 1, at |-> pos] ELSE NoCallback
      /\ v.maxdepth # Unlimited => v.maxdepth \in Nat /\ level <= v.maxdepth
  BY PushFacts
<1>2. /\ Read' = Read /\ (InPrimitive(Read[pos']) <=> type \in {"STRING", "SPECIAL"})
      /\ IF type # "HKEY" /\ level = 1
         THEN Begun(2)' = Begun(2) \cup {pos'}
         ELSE Begun(2)' = Begun(2)
  BY FeedBegins
<1>3. Watching /\ Running
  BY Watched, FeedTakes DEF FeedRead
<1>4. ~Objecting /\ mode.flags # {}
      /\ (v.maxdepth # Unlimited => max_callback_level = v.maxdepth + 2)
      /\ (v.maxdepth = Unlimited => max_callback_level = 3)
  BY <1>3, CallbacksReach
<1>5. CASE i \in Begun(2)
  BY <1>2, <1>3, <1>4, <1>5 DEF Watching, PrimitiveSoFar
<1>6. CASE i \notin Begun(2)
  <2>1. type # "HKEY" /\ level = 1 /\ i = pos'
    BY <1>2, <1>6
  <2>2. CASE type \in {"STRING", "SPECIAL"}
    BY <1>2, <2>1, <2>2
  <2>3. CASE type \in Container
    <3>1. max_callback_level > level + 1
      BY <1>1, <1>4, <2>1
    <3>2. stack'[2].type \in Container
      BY <1>1, <2>1, <2>3
    <3> QED
      BY <1>1, <2>1, <3>1, <3>2, PushObjects
  <2> QED
    BY <2>1, <2>2, <2>3 DEF Type, Stringy
<1> QED
  BY <1>5, <1>6

\* and a level deeper than is allowed.
LEMMA PushShallow ==
  ASSUME ValidatorInv, vpc # "IDLE", v.err = "SUCCESS", FeedRead, UNCHANGED <<value, mode, v, vpc>>,
         NEW type \in Type \ {"ROOT"}, PushStep(type)
  PROVE  ShallowSoFar'
<1> SUFFICES ASSUME v.maxdepth # Unlimited, NEW i \in 0 .. pos'
             PROVE  LevelsOpen(Read'[i]) \in 0 .. v.maxdepth \/ Objecting'
  BY DEF ShallowSoFar
<1>1. /\ level \in Nat /\ pos \in Nat /\ pos' = pos + 1
      /\ cb' = IF type # "HKEY" /\ max_callback_level > level + 1
               THEN [action |-> "PUSH", level |-> level + 1, at |-> pos] ELSE NoCallback
      /\ v.maxdepth \in Nat /\ level <= v.maxdepth
  BY PushFacts
<1>2. Read' = Read /\ LevelsOpen(Read[pos']) = IF type = "HKEY" THEN level ELSE level + 1
  BY FeedBegins
<1>3. Watching /\ Running
  BY Watched, FeedTakes DEF FeedRead
<1>4. ~Objecting /\ max_callback_level = v.maxdepth + 2
  BY <1>3, CallbacksReach
<1>5. i \in 0 .. pos \/ i = pos'
  BY <1>1
<1>6. CASE i \in 0 .. pos
  BY <1>2, <1>3, <1>4, <1>6 DEF Watching, ShallowSoFar
<1>7. CASE i = pos'
  <2>1. CASE type = "HKEY"
    BY <1>1, <1>2, <1>7, <2>1
  <2>2. CASE type # "HKEY" /\ level + 1 <= v.maxdepth
    BY <1>1, <1>2, <1>7, <2>2
  <2>3. CASE type # "HKEY" /\ level = v.maxdepth
    <3>1. max_callback_level > level + 1
      BY <1>1, <1>4, <2>3
    <3> QED
      BY <1>1, <2>3, <3>1, PushObjects
  <2> QED
    BY <1>1, <2>1, <2>2, <2>3
<1> QED
  BY <1>5, <1>6, <1>7

\* A handler that pushes a state keeps what has been watched.
LEMMA PushWatches ==
  ASSUME ValidatorInv, vpc # "IDLE", v.err = "SUCCESS", FeedRead, UNCHANGED <<value, mode, v, vpc>>,
         err' = "SUCCESS", NEW type \in Type \ {"ROOT"}, PushStep(type)
  PROVE  Watching'
<1>1. RootsCounted' /\ ElementsCounted' /\ SingleSoFar' /\ PrimitiveSoFar' /\ ShallowSoFar'
  BY PushRoots, PushElements, PushSingle, PushPrimitive, PushShallow
<1>2. /\ JsonslTypeOK /\ JsonslInv /\ level \in Nat /\ Feed
  BY Watched DEF FeedRead
<1>3. Running
  BY <1>2, FeedTakes
<1>4. ~stopfl /\ \A l \in 0 .. level : ~stack[l].ignore_callback
  BY <1>3, CallbacksReach
<1>5. ~stopfl' /\ \A l \in 0 .. level + 1 : ~stack'[l].ignore_callback
  <2>1. /\ ~stopfl' /\ stack'[level + 1].ignore_callback = Top.ignore_callback
        /\ stack'[level].ignore_callback = Top.ignore_callback
        /\ \A l \in Level \ {level, level + 1} : stack'[l] = stack[l]
    BY <1>4 DEF PushStep, SameState, clientVars
  <2>2. ~Top.ignore_callback
    BY <1>2, <1>4 DEF Top
  <2>3. ASSUME NEW l \in 0 .. level + 1 PROVE ~stack'[l].ignore_callback
    <3>1. CASE l \in {level, level + 1}
      BY <2>1, <2>2, <3>1
    <3>2. CASE l \notin {level, level + 1}
      <4>1. l \in 0 .. level
        BY <1>2, <2>3, <3>2
      <4>2. l \in Level
        BY <1>2, <4>1, LevelFacts
      <4> QED
        BY <1>4, <2>1, <3>2, <4>1, <4>2
    <3> QED
      BY <3>1, <3>2
  <2> QED
    BY <2>1, <2>3
<1>6. Reach' = level + 1
  <2>1. level' = level + 1 /\ (cb' = NoCallback \/ cb'.action = "PUSH")
    BY DEF PushStep, Delivered
  <2> QED
    BY <2>1 DEF Reach, NoCallback
<1> QED
  BY <1>1, <1>5, <1>6 DEF Watching
-----------------------------------------------------------------------------
(* Every step. *)

\* Nothing is decided while the feeds go on.
LEMMA Undecided ==
  ASSUME vpc # "IDLE" \/ asked = NotAsked
  PROVE  ValueStaysInside /\ ValidIsShallow /\ FlagsHold
  BY DEF ValueStaysInside, ValidIsShallow, FlagsHold, Valid, Decided

\* A symbol keeps the invariant,
LEMMA LexKeeps ==
  ASSUME ValidatorInv, vpc # "IDLE", ValidateLex, ReadOn, UNCHANGED asked
  PROVE  ValidatorInv'
<1>1. /\ LexerInv /\ LanguageInv /\ ValidatorTypeOK /\ Validating /\ JsonslInv /\ FeedRead
      /\ v \in [err : Status, rootcount : Nat, maxdepth : Nat \cup {Unlimited}]
      /\ v' = IF err' # "SUCCESS" THEN [v EXCEPT !.err = err'] ELSE v
      /\ UNCHANGED <<value, mode, vpc>> /\ Feed
  BY DEF ValidatorInv, ValidateLex, FeedRead, LexerInv, ValidatorTypeOK
<1>2. LexerInv' /\ LanguageInv'
  BY <1>1, LexerFeedKeeps, FeedCouples
<1>3. err' \in Error \cup {"SUCCESS"}
  BY <1>2 DEF LexerInv, JsonslInv, JsonslTypeOK
<1>4. /\ v' \in [err : Status, rootcount : Nat, maxdepth : Nat \cup {Unlimited}]
      /\ v'.maxdepth = v.maxdepth
      /\ v'.err = "SUCCESS" => err' = "SUCCESS" /\ v' = v /\ v.err = "SUCCESS"
  BY <1>1, <1>3 DEF Status
<1>5. ValidatorTypeOK'
  BY <1>1, <1>4 DEF ValidatorTypeOK
<1>6. /\ QuietStep \/ PopStep \/ \E type \in Type \ {"ROOT"} : PushStep(type)
      /\ Running
  BY <1>1, FeedTakes
<1>7. Validating'
  <2>1. text' = text /\ UNCHANGED clientVars
    BY <1>6 DEF QuietStep, PopStep, PushStep
  <2>2. loose' = Read'[pos']
    <3>1. loose = Read[pos] /\ text = Fed
      BY <1>1 DEF Validating
    <3>2. CASE pos' = pos
      <4>1. loose' = loose
        BY <3>2 DEF ReadOn, readers
      <4> QED
        BY <1>1, <3>1, <3>2, <4>1, BegunStays
    <3>3. CASE pos' # pos
      <4>1. pos' = pos + 1 /\ loose' = LooseStep(loose, Char)
        BY <1>1, <3>3, ReadMoves
      <4>2. JsonslTypeOK
        BY <1>1 DEF JsonslInv
      <4> QED
        BY <1>1, <1>6, <3>1, <4>1, <4>2, BegunReads
    <3> QED
      BY <3>2, <3>3
  <2>3. text' = Fed'
    BY <1>1, <2>1 DEF Validating, Fed, Wrapped
  <2>4. v'.err = "SUCCESS" => Watching'
    BY <1>1, <1>4, <1>6, QuietWatches, PopWatches, PushWatches
  <2>5. CallbackDepth' = CallbackDepth
    BY <1>1, <1>4 DEF CallbackDepth
  <2> QED
    BY <1>1, <1>4, <2>1, <2>2, <2>3, <2>4, <2>5 DEF Validating, clientVars
<1> QED
  BY <1>1, <1>2, <1>5, <1>7, Undecided DEF ValidatorInv, ValueStaysInside, ValidIsShallow, FlagsHold, Valid, Decided

\* so does the callback's answer,
LEMMA CallbackKeeps ==
  ASSUME ValidatorInv, vpc # "IDLE", cb # NoCallback, ValidateCallback, ReadOn, UNCHANGED asked
  PROVE  ValidatorInv'
<1>1. /\ LexerInv /\ LanguageInv /\ ValidatorTypeOK /\ Validating /\ JsonslInv /\ JsonslTypeOK
      /\ v \in [err : Status, rootcount : Nat, maxdepth : Nat \cup {Unlimited}]
      /\ v' = IF Objection # "SUCCESS" THEN [v EXCEPT !.err = Objection]
              ELSE IF cb.level = 1 THEN [v EXCEPT !.rootcount = @ + 1] ELSE v
      /\ UNCHANGED <<value, mode, vpc>>
  BY DEF ValidatorInv, ValidateCallback, LexerInv, JsonslInv, ValidatorTypeOK
<1>2. PICK stop \in BOOLEAN : (stop <=> Objection # "SUCCESS") /\ Answer(stop, Seen.ignore_callback, max_callback_level)
  <2>1. (Objection # "SUCCESS") \in BOOLEAN
    OBVIOUS
  <2> QED
    BY <2>1, Zenon DEF ValidateCallback
<1>3. /\ cb.level \in Level /\ cb.level > 0 /\ level \in Nat /\ pos \in Nat
      /\ \A l \in 0 .. level : l \in Level
      /\ stack \in [Level -> State] /\ Seen \in State /\ Seen.ignore_callback \in BOOLEAN
      /\ max_callback_level \in Nat
  <2>1. cb.level \in Level /\ cb.level > 0
    BY <1>1, ReachFacts
  <2>2. stack \in [Level -> State] /\ max_callback_level \in Nat
    BY <1>1 DEF JsonslTypeOK
  <2> QED
    BY <1>1, <2>1, <2>2, StackFacts, LevelFacts, CursorFacts DEF Seen
<1>4. /\ cb' = NoCallback /\ stopfl' = stop /\ max_callback_level' = max_callback_level
      /\ stack' = [stack EXCEPT ![cb.level].ignore_callback = Seen.ignore_callback]
      /\ UNCHANGED <<text, pos, call_HKEY, level, err>>
  BY <1>2 DEF Answer, feedVars
<1>5. UNCHANGED readers
  BY <1>4 DEF ReadOn
<1>6. LexerInv' /\ LanguageInv'
  BY <1>1, <1>2, <1>3, <1>5, LexerAnswerKeeps, AnswerCouples
<1>7. Objection \in Status /\ ETOODEEP # "SUCCESS"
  BY DEF Objection, Status, ETOODEEP, Error
<1>8. /\ v' \in [err : Status, rootcount : Nat, maxdepth : Nat \cup {Unlimited}]
      /\ v'.maxdepth = v.maxdepth
      /\ v'.err = "SUCCESS" =>
           /\ Objection = "SUCCESS" /\ v.err = "SUCCESS"
           /\ v'.rootcount = v.rootcount + (IF cb.level = 1 THEN 1 ELSE 0)
  <2>1. CASE Objection # "SUCCESS"
    BY <1>1, <1>7, <2>1
  <2>2. CASE Objection = "SUCCESS" /\ cb.level = 1
    BY <1>1, <2>2
  <2>3. CASE Objection = "SUCCESS" /\ cb.level # 1
    BY <1>1, <2>3
  <2> QED
    BY <2>1, <2>2, <2>3
<1>9. ValidatorTypeOK'
  BY <1>1, <1>8 DEF ValidatorTypeOK
<1>10. Read' = Read /\ Begun(1)' = Begun(1) /\ Begun(2)' = Begun(2)
  BY <1>1, <1>4, BegunStays
<1>11. ASSUME v'.err = "SUCCESS" PROVE Watching'
  <2>1. /\ Objection = "SUCCESS" /\ v.err = "SUCCESS" /\ Watching /\ ~Objecting /\ ~stop
        /\ v'.rootcount = v.rootcount + (IF cb.level = 1 THEN 1 ELSE 0)
    BY <1>1, <1>2, <1>8, <1>11 DEF Validating, Objecting
  <2>2. \A l \in Level : SameState(stack'[l], stack[l])
    BY <1>3, <1>4 DEF SameState, Seen, State
  <2>3. \A l \in 0 .. Reach' : ~stack'[l].ignore_callback
    <3>1. Reach' = level /\ Reach >= level /\ Reach \in Nat
      BY <1>1, <1>4, ReachFacts DEF Reach, NoCallback
    <3>2. \A l \in 0 .. level : l \in 0 .. Reach
      BY <1>3, <3>1
    <3> QED
      BY <1>3, <2>1, <2>2, <3>1, <3>2 DEF Watching, SameState
  <2>4. RootsCounted'
    <3>1. v.rootcount + (IF cb.level = 1 THEN 1 ELSE 0) + (IF level > 0 THEN 1 ELSE 0)
            = 2 * Cardinality(Begun(1))
      BY <2>1 DEF Watching, RootsCounted
    <3>2. v'.rootcount + 0 = v'.rootcount
      BY <1>8
    <3> QED
      BY <1>4, <1>10, <2>1, <3>1, <3>2 DEF RootsCounted
  <2>5. ElementsCounted'
    <3>1. level > 0 => SameState(stack'[1], stack[1])
      BY <1>3, <2>2
    <3> QED
      BY <1>4, <1>10, <2>1, <3>1 DEF Watching, ElementsCounted, SameState
  <2>6. SingleSoFar' /\ PrimitiveSoFar' /\ ShallowSoFar'
    BY <1>1, <1>4, <1>8, <1>10, <2>1 DEF Watching, SingleSoFar, PrimitiveSoFar, ShallowSoFar
  <2> QED
    BY <1>4, <2>1, <2>3, <2>4, <2>5, <2>6 DEF Watching
<1>12. Validating'
  <2>1. loose' = loose /\ text' = Fed'
    BY <1>1, <1>4, <1>5 DEF readers, Validating, Fed, Wrapped
  <2>2. CallbackDepth' = CallbackDepth
    BY <1>1, <1>8 DEF CallbackDepth
  <2> QED
    BY <1>1, <1>4, <1>8, <1>10, <1>11, <2>1, <2>2 DEF Validating
<1> QED
  BY <1>1, <1>6, <1>9, <1>12 DEF ValidatorInv, ValueStaysInside, ValidIsShallow, FlagsHold, Valid, Decided

\* and each of the three feeds.
LEMMA FeedPartKeeps ==
  ASSUME ValidatorInv, NEW from \in {"PRE", "VALUE", "POST"}, NEW to, NEW bytes,
         FeedPart(from, to, bytes), ReadOn, UNCHANGED asked,
         \/ from = "PRE" /\ to = "VALUE" /\ bytes = Pre(mode.parent)
         \/ from = "VALUE" /\ to = "POST" /\ bytes = value
         \/ from = "POST" /\ to = "END" /\ bytes = Post(mode.parent)
  PROVE  ValidatorInv'
<1>1. /\ LexerInv /\ LanguageInv /\ ValidatorTypeOK /\ vpc # "IDLE" /\ Validating
      /\ v \in [err : Status, rootcount : Nat, maxdepth : Nat \cup {Unlimited}]
      /\ value \in Seq(STRING) /\ vpc = from /\ vpc' = to
      /\ CallFeed(bytes, CallbackDepth, FALSE) /\ UNCHANGED <<value, mode, v>>
  BY DEF ValidatorInv, ValidatorTypeOK, FeedPart
<1>2. bytes \in Seq(STRING) /\ Pre(mode.parent) \in Seq(STRING)
  BY <1>1, WrappedFacts
<1>3. CallbackDepth \in Nat
  <2>1. v.maxdepth = Unlimited \/ v.maxdepth \in Nat
    BY <1>1
  <2> QED
    BY <2>1 DEF CallbackDepth
<1>4. PICK keys \in BOOLEAN : ~keys /\ CallFeed(bytes, CallbackDepth, keys)
  BY <1>1, Zenon
<1>5. /\ text' = text \o bytes /\ max_callback_level' = CallbackDepth /\ ~call_HKEY'
      /\ UNCHANGED <<pos, stopfl, level, stack, err, cb>>
  BY <1>4 DEF CallFeed
<1>6. UNCHANGED readers
  BY <1>5 DEF ReadOn
<1>7. LexerInv' /\ LanguageInv'
  BY <1>1, <1>2, <1>3, <1>4, <1>6, LexerCallKeeps, CallCouples
<1>8. ValidatorTypeOK' /\ vpc' # "IDLE"
  BY <1>1 DEF ValidatorTypeOK
<1>9. text' = Fed'
  <2>1. CASE from = "PRE"
    <3>1. text = <<>> /\ bytes = Pre(mode.parent) /\ to = "VALUE"
      BY <1>1, <2>1 DEF Validating, Fed
    <3>2. text' = Pre(mode.parent)
      BY <1>2, <1>5, <3>1
    <3> QED
      BY <1>1, <3>1, <3>2 DEF Fed
  <2>2. CASE from = "VALUE"
    <3>1. text = Pre(mode.parent) /\ bytes = value /\ to = "POST"
      BY <1>1, <2>2 DEF Validating, Fed
    <3> QED
      BY <1>1, <1>5, <3>1 DEF Fed
  <2>3. CASE from = "POST"
    <3>1. text = Pre(mode.parent) \o value /\ bytes = Post(mode.parent) /\ to = "END"
      BY <1>1, <2>3 DEF Validating, Fed
    <3> QED
      BY <1>1, <1>5, <3>1 DEF Fed, Wrapped
  <2> QED
    BY <2>1, <2>2, <2>3
<1>10. Read' = Read /\ Begun(1)' = Begun(1) /\ Begun(2)' = Begun(2)
  BY <1>1, <1>5, BegunStays
<1>11. v'.err = "SUCCESS" => Watching'
  <2>1. Reach' = Reach
    BY <1>5 DEF Reach
  <2>2. Objecting' <=> Objecting
    BY <1>1, <1>5 DEF Objecting, Objection, HasMultiple, Around, Seen
  <2>3. v.err = "SUCCESS" => Watching
    BY <1>1 DEF Validating
  <2>4. Watching => RootsCounted' /\ ElementsCounted'
    BY <1>1, <1>5, <1>10 DEF Watching, RootsCounted, ElementsCounted
  <2>5. Watching => SingleSoFar' /\ PrimitiveSoFar' /\ ShallowSoFar'
    BY <1>1, <1>5, <1>10, <2>2 DEF Watching, SingleSoFar, PrimitiveSoFar, ShallowSoFar
  <2> QED
    BY <1>1, <1>5, <2>1, <2>3, <2>4, <2>5 DEF Watching
<1>12. Validating'
  <2>1. CallbackDepth' = CallbackDepth
    BY <1>1 DEF CallbackDepth
  <2>2. loose' = loose
    BY <1>6 DEF readers
  <2> QED
    BY <1>1, <1>5, <1>9, <1>10, <1>11, <2>1, <2>2 DEF Validating
<1> QED
  BY <1>7, <1>8, <1>12 DEF ValidatorInv, ValueStaysInside, ValidIsShallow, FlagsHold, Valid, Decided
-----------------------------------------------------------------------------
(* The verdict. *)

\* A valid value has been fed to its end, has left nothing open, and is one.
LEMMA ValidIsOver ==
  ASSUME ValidatorInv, vpc # "IDLE", EndValidate, Verdict = "SUCCESS"
  PROVE  /\ Watching /\ Validating /\ ~Objecting /\ pos = Len(Wrapped) /\ Len(Wrapped) \in Nat
         /\ OneRoot(Read) /\ Cardinality(Begun(1)) = 1
         /\ Begun(1) = AtDepth(Read, 1) /\ Begun(2) = AtDepth(Read, 2)
<1>1. v.err = "SUCCESS" /\ v.rootcount = 2
  <2>1. v.err = "SUCCESS" /\ ~(v.rootcount < 2) /\ ~(v.rootcount > 2)
    BY DEF Verdict
  <2>2. v.rootcount \in Nat
    BY DEF ValidatorInv, ValidatorTypeOK
  <2> QED
    BY <2>1, <2>2
<1>2. /\ JsonslInv /\ JsonslTypeOK /\ LanguageInv /\ Coupled /\ ValidatorTypeOK /\ Validating /\ Watching
      /\ text = Fed /\ loose = Read[pos] /\ pos \in Nat /\ level \in Nat
      /\ Cardinality(Begun(1)) \in Nat
  BY <1>1, Watched
<1>3. vpc = "END" /\ cb = NoCallback /\ pos = Len(text)
  BY <1>1, <1>2 DEF EndValidate, FeedReturned, Watching
<1>4. pos = Len(Wrapped) /\ Len(Wrapped) \in Nat /\ ~Objecting
  BY <1>2, <1>3, WrappedFacts DEF Fed, Objecting
<1>5. level = 0 /\ Cardinality(Begun(1)) = 1
  <2>1. 2 + 0 + (IF level > 0 THEN 1 ELSE 0) = 2 * Cardinality(Begun(1))
    BY <1>1, <1>2, <1>3 DEF Watching, RootsCounted
  <2> QED
    BY <1>2, <2>1
<1>6. Begun(1) = AtDepth(Read, 1) /\ Begun(2) = AtDepth(Read, 2)
  <2>1. \A d : AtDepth(Read, d) \subseteq 1 .. Len(Wrapped)
    BY DEF AtDepth
  <2>2. \A i \in 1 .. Len(Wrapped) : i <= pos
    BY <1>4
  <2> QED
    BY <2>1, <2>2 DEF Begun
<1>7. Viable(loose) /\ LevelsOpen(loose) = 0
  <2>1. label # "STRUCTURAL"
    BY <1>2, <1>3 DEF Coupled, Pending
  <2>2. Top.type = "ROOT"
    BY <1>2, <1>5 DEF JsonslInv, StackMirrorsText, Top
  <2>3. LevelsOpen(loose) = 0
    BY <1>2, <1>5, <2>1, <2>2, ReaderPlace
  <2> QED
    BY <1>2, <2>3 DEF Coupled, Reader, Viable
<1> QED
  BY <1>2, <1>4, <1>5, <1>6, <1>7 DEF OneRoot

\* It is no deeper than was asked,
LEMMA ValidIsNoDeeper ==
  ASSUME ValidatorInv, vpc # "IDLE", EndValidate, Verdict = "SUCCESS", asked # Unlimited
  PROVE  ValueDepth(Read) <= asked
<1>1. /\ Watching /\ Validating /\ ~Objecting /\ pos = Len(Wrapped) /\ Len(Wrapped) \in Nat
  BY ValidIsOver
<1>2. asked \in Nat /\ v.maxdepth = asked + Wraps /\ Wraps \in Nat
  <2>1. asked \in Nat /\ v.maxdepth = Adjusted(asked, mode.parent)
    BY <1>1 DEF Validating
  <2>2. CASE mode.parent = "PARENT_NONE"
    BY <2>1, <2>2 DEF Adjusted, Wraps
  <2>3. CASE mode.parent # "PARENT_NONE"
    BY <2>1, <2>3 DEF Adjusted, Wraps, Unlimited
  <2> QED
    BY <2>2, <2>3
<1>3. v.maxdepth \in Nat /\ v.maxdepth # Unlimited
  BY <1>2 DEF Unlimited
<1>4. \A i \in 0 .. Len(Wrapped) : LevelsOpen(Read[i]) \in 0 .. v.maxdepth
  BY <1>1, <1>3 DEF Watching, ShallowSoFar
<1> DEFINE depths == {LevelsOpen(Read[i]) : i \in 0 .. Len(Wrapped)}
<1>5. depths \in SUBSET (0 .. v.maxdepth) /\ depths # {}
  <2>1. 0 \in 0 .. Len(Wrapped)
    BY <1>1
  <2> QED
    BY <1>4, <2>1
<1>6. ValueDepth(Read) = Max(depths) - Wraps
  BY DEF ValueDepth
<1> HIDE DEF depths
<1>7. Max(depths) \in 0 .. v.maxdepth
  BY <1>3, <1>5, MaxIsIn
<1> QED
  BY <1>2, <1>6, <1>7

\* and has the flags it was asked for.
LEMMA ValidHasFlags ==
  ASSUME ValidatorInv, vpc # "IDLE", EndValidate, Verdict = "SUCCESS"
  PROVE  /\ "VALUE_SINGLE" \in mode.flags => Cardinality(Elements(Read)) <= 1
         /\ "VALUE_PRIMITIVE" \in mode.flags => \A i \in Elements(Read) : InPrimitive(Read[i])
<1>1. /\ Watching /\ ~Objecting /\ Cardinality(Begun(1)) = 1 /\ Begun(2) = AtDepth(Read, 2)
  BY ValidIsOver
<1>2. Cardinality(Begun(1)) <= 1
  BY <1>1
<1> QED
  BY <1>1, <1>2 DEF Watching, SingleSoFar, PrimitiveSoFar, Elements

\* The verdict keeps the invariant,
LEMMA VerdictKeeps ==
  ASSUME ValidatorInv, vpc # "IDLE", EndValidate, ReadersReset, UNCHANGED asked
  PROVE  ValidatorInv'
<1>1. /\ LexerInv /\ LanguageInv /\ ValidatorTypeOK
      /\ v \in [err : Status, rootcount : Nat, maxdepth : Nat \cup {Unlimited}]
      /\ v' = [v EXCEPT !.err = Verdict] /\ vpc' = "IDLE" /\ Reset /\ UNCHANGED <<value, mode>>
  BY DEF ValidatorInv, ValidatorTypeOK, EndValidate
<1>2. LexerInv' /\ LanguageInv'
  BY <1>1, LexerResetKeeps, ResetCouples
<1>3. Verdict \in Status
  BY <1>1 DEF Verdict, Status
<1>4. v' \in [err : Status, rootcount : Nat, maxdepth : Nat \cup {Unlimited}] /\ v'.err = Verdict
  BY <1>1, <1>3
<1>5. ValidatorTypeOK'
  BY <1>1, <1>4 DEF ValidatorTypeOK
<1>6. Resting'
  BY <1>1 DEF Resting, Reset, ReadersReset
<1>7. Wrapped' = Wrapped /\ Wraps' = Wraps
  BY <1>1 DEF Wrapped, Wraps
<1>8. Read' = Read
  BY <1>7 DEF Read, Reading
<1>9. (OneRoot(Read)' <=> OneRoot(Read)) /\ Elements(Read)' = Elements(Read)
      /\ ValueDepth(Read)' = ValueDepth(Read)
  BY <1>7, <1>8 DEF OneRoot, Elements, AtDepth, Begins, ValueDepth
<1>10. CASE Verdict = "SUCCESS"
  <2>1. ValueStaysInside'
    <3>1. OneRoot(Read)'
      BY <1>9, <1>10, ValidIsOver
    <3> QED
      BY <3>1, Zenon DEF ValueStaysInside, Read
  <2>2. ValidIsShallow'
    <3>1. asked # Unlimited => ValueDepth(Read)' <= asked
      BY <1>9, <1>10, ValidIsNoDeeper
    <3>2. asked' # Unlimited => ValueDepth(Read)' <= asked'
      BY <3>1
    <3> QED
      BY <3>2, Zenon DEF ValidIsShallow, Read
  <2>3. FlagsHold'
    <3>1. /\ "VALUE_SINGLE" \in mode'.flags => Cardinality(Elements(Read)') <= 1
          /\ "VALUE_PRIMITIVE" \in mode'.flags => \A i \in Elements(Read)' : InPrimitive(Read'[i])
      BY <1>1, <1>8, <1>9, <1>10, ValidHasFlags
    <3> QED
      BY <3>1, Zenon DEF FlagsHold, Read
  <2> QED
    BY <1>1, <1>2, <1>5, <1>6, <2>1, <2>2, <2>3 DEF ValidatorInv
<1>11. CASE Verdict # "SUCCESS"
  <2>1. ~Valid'
    BY <1>4, <1>11 DEF Valid
  <2> QED
    BY <1>1, <1>2, <1>5, <1>6, <2>1 DEF ValidatorInv, ValueStaysInside, ValidIsShallow, FlagsHold
<1> QED
  BY <1>10, <1>11

\* The reading begins where the grammar does.
LEMMA ReadStarts == ValidatorTypeOK => Read[0] = Start
  BY WrappedFacts

\* A call keeps it,
LEMMA AskKeeps ==
  ASSUME ValidatorInv, Ask
  PROVE  ValidatorInv'
<1>1. PICK bytes \in Values, maxdepth \in Depths, how \in Modes :
        Validate(bytes, maxdepth, how) /\ asked' = maxdepth
  BY DEF Ask
<1>2. /\ vpc = "IDLE" /\ vpc' = "PRE" /\ value' = bytes /\ mode' = how /\ asked' = maxdepth
      /\ v' = [BlankValid EXCEPT !.maxdepth = Adjusted(maxdepth, how.parent)]
      /\ UNCHANGED <<jsnVars, readers>>
  BY <1>1 DEF Ask, Validate
<1>3. /\ bytes \in Seq(STRING) /\ how \in Mode /\ maxdepth \in Nat \cup {Unlimited}
  BY ValuesAssumption, DepthsAssumption, ModesAssumption
<1>4. /\ LexerInv /\ LanguageInv /\ Resting /\ JsonslInv
  BY <1>2 DEF ValidatorInv, LexerInv
<1>5. LexerInv' /\ LanguageInv'
  BY <1>2, <1>4, LexerStutters, StutterCouples
<1>6. Adjusted(maxdepth, how.parent) \in Nat \cup {Unlimited}
  BY <1>3 DEF Adjusted
<1>7. /\ v' = [err |-> "SUCCESS", rootcount |-> 0, maxdepth |-> Adjusted(maxdepth, how.parent)]
  BY <1>2 DEF BlankValid
<1>8. ValidatorTypeOK'
  <2>1. v' \in [err : Status, rootcount : Nat, maxdepth : Nat \cup {Unlimited}]
    BY <1>6, <1>7 DEF Status
  <2> QED
    BY <1>2, <1>3, <2>1 DEF ValidatorTypeOK
<1>9. /\ text' = <<>> /\ pos' = 0 /\ level' = 0 /\ stack' = [l \in Level |-> BlankState]
      /\ err' = "SUCCESS" /\ ~stopfl' /\ cb' = NoCallback /\ loose' = Start
  BY <1>2, <1>4 DEF Resting, jsnVars, feedVars, clientVars, readers
<1>10. Read'[0] = Start
  <2>1. (Read[0] = Start)'
    BY <1>8, ReadStarts, PTL
  <2> QED
    BY <2>1
<1>11. Begun(1)' = {} /\ Begun(2)' = {} /\ Cardinality({}) = 0
  <2>1. \A d : AtDepth(Read, d)' \subseteq Nat \ {0}
    BY DEF AtDepth
  <2>2. Begun(1)' = {i \in AtDepth(Read, 1)' : i <= 0} /\ Begun(2)' = {i \in AtDepth(Read, 2)' : i <= 0}
    BY <1>9 DEF Begun
  <2> QED
    BY <2>1, <2>2, FS_EmptySet
<1>12. Watching'
  <2>1. \A l \in 0 .. Reach' : ~stack'[l].ignore_callback
    <3>1. Reach' = 0 /\ 0 \in Level
      BY <1>9, LevelsAssumption DEF Reach, NoCallback, Level
    <3> QED
      BY <1>9, <3>1 DEF BlankState
  <2>2. RootsCounted' /\ ElementsCounted'
    <3>1. Cardinality(Begun(1)') = 0 /\ Cardinality(Begun(2)') = 0
      BY <1>11
    <3>2. v'.rootcount = 0 /\ ~(level' > 0) /\ ~(cb' # NoCallback)
      BY <1>7, <1>9
    <3> QED
      BY <1>11, <3>1, <3>2 DEF RootsCounted, ElementsCounted
  <2>4. SingleSoFar' /\ PrimitiveSoFar'
    BY <1>11 DEF SingleSoFar, PrimitiveSoFar
  <2>3. ShallowSoFar'
    <3>1. LevelsOpen(Start) = 0
      BY DEF LevelsOpen, Start, InPrimitive
    <3> QED
      BY <1>6, <1>7, <1>9, <1>10, <3>1 DEF ShallowSoFar
  <2> QED
    BY <1>9, <2>1, <2>2, <2>3, <2>4 DEF Watching
<1>13. Validating'
  <2>1. v'.maxdepth = Adjusted(asked', mode'.parent)
    BY <1>2, <1>7 DEF Adjusted
  <2>2. text' = Fed'
    BY <1>2, <1>9 DEF Fed
  <2> QED
    BY <1>2, <1>3, <1>9, <1>10, <1>12, <2>1, <2>2 DEF Validating
<1> QED
  BY <1>2, <1>5, <1>8, <1>13 DEF ValidatorInv, ValueStaysInside, ValidIsShallow, FlagsHold, Valid, Decided

\* and so does the caller who drops the verdict.
LEMMA ForgetKeeps ==
  ASSUME ValidatorInv, Forget
  PROVE  ValidatorInv'
<1>1. /\ vpc = "IDLE" /\ asked' = NotAsked /\ value' = <<>> /\ mode' = BlankMode /\ v' = BlankValid
      /\ UNCHANGED <<jsnVars, readers, vpc>>
  BY DEF Forget
<1>2. LexerInv' /\ LanguageInv' /\ Resting
  BY <1>1, LexerStutters, StutterCouples DEF ValidatorInv
<1>3. Resting'
  BY <1>1, <1>2 DEF Resting, jsnVars, feedVars, clientVars, readers
<1>4. ValidatorTypeOK'
  BY <1>1 DEF ValidatorTypeOK, BlankMode, BlankValid, Mode, ParentMode, Status, ValidatorInv
<1> QED
  BY <1>1, <1>2, <1>3, <1>4 DEF ValidatorInv, ValueStaysInside, ValidIsShallow, FlagsHold, Valid, Decided

\* What nobody changes stays as it is.
LEMMA ValidatorStutters ==
  ASSUME ValidatorInv, UNCHANGED clientValidateVars
  PROVE  ValidatorInv'
<1>1. UNCHANGED <<jsnVars, readers, value, mode, v, vpc, asked>>
  BY DEF clientValidateVars, validateVars, validatorVars
<1>2. LexerInv' /\ LanguageInv'
  BY <1>1, LexerStutters, StutterCouples DEF ValidatorInv
<1>3. /\ UNCHANGED <<text, pos, level, stack, err, cb, stopfl, max_callback_level, call_HKEY, loose>>
  BY <1>1 DEF jsnVars, feedVars, clientVars, readers
<1>4. ValidatorTypeOK'
  BY <1>1 DEF ValidatorInv, ValidatorTypeOK
<1>5. Resting' <=> Resting
  BY <1>3 DEF Resting
<1>6. Wrapped' = Wrapped /\ Wraps' = Wraps /\ (Valid' <=> Valid)
  BY <1>1 DEF Wrapped, Wraps, Valid, Decided
<1>7. Read' = Read /\ Begun(1)' = Begun(1) /\ Begun(2)' = Begun(2)
  BY <1>1, <1>3, BegunStays
<1>8. Validating' <=> Validating
  <2>1. Fed' = Fed /\ CallbackDepth' = CallbackDepth /\ Reach' = Reach
    BY <1>1, <1>3, <1>6 DEF Fed, CallbackDepth, Reach
  <2>2. Objecting' <=> Objecting
    BY <1>1, <1>3 DEF Objecting, Objection, HasMultiple, Around, Seen
  <2>3. Watching' <=> Watching
    BY <1>1, <1>3, <1>7, <2>1, <2>2
    DEF Watching, RootsCounted, ElementsCounted, SingleSoFar, PrimitiveSoFar, ShallowSoFar
  <2> QED
    BY <1>1, <1>3, <1>7, <2>1, <2>3 DEF Validating
<1>9. /\ Reading(FALSE, Wrapped)' = Reading(FALSE, Wrapped)
      /\ OneRoot(Reading(FALSE, Wrapped))' <=> OneRoot(Reading(FALSE, Wrapped))
      /\ Elements(Reading(FALSE, Wrapped))' = Elements(Reading(FALSE, Wrapped))
      /\ ValueDepth(Reading(FALSE, Wrapped))' = ValueDepth(Reading(FALSE, Wrapped))
  BY <1>6, <1>7, Zenon DEF Read, OneRoot, Elements, AtDepth, Begins, ValueDepth
<1>10. ValueStaysInside' /\ ValidIsShallow' /\ FlagsHold'
  BY <1>1, <1>6, <1>9, Zenon DEF ValidatorInv, ValueStaysInside, ValidIsShallow, FlagsHold
<1> QED
  BY <1>1, <1>2, <1>4, <1>5, <1>8, <1>10 DEF ValidatorInv
-----------------------------------------------------------------------------
(* The validator. *)

\* It begins at rest,
LEMMA ValidatorInvInit == ClientInit => ValidatorInv
<1> SUFFICES ASSUME ClientInit PROVE ValidatorInv
  OBVIOUS
<1>1. JsonslInv /\ JsonslInit /\ ReadersInit /\ ValidatorInit /\ asked = NotAsked
  BY JsonslInvInit DEF ClientInit
<1>2. LexerInv
  <2>1. 0 \in Level
    BY LevelsAssumption DEF Level
  <2>2. stack[0] = BlankState /\ level = 0 /\ ~stopfl /\ cb = NoCallback
    BY <1>1, <2>1 DEF JsonslInit
  <2> QED
    BY <1>1, <2>2, LexerBlank
<1>3. LanguageInv
  BY <1>1, StartCouples DEF JsonslInit, ReadersInit, LanguageInv
<1>4. Resting
  BY <1>1 DEF JsonslInit, ReadersInit, Resting
<1>5. ValidatorTypeOK /\ vpc = "IDLE"
  BY <1>1 DEF ValidatorInit, ValidatorTypeOK, BlankMode, BlankValid, Mode, ParentMode, Status
<1> QED
  BY <1>1, <1>2, <1>3, <1>4, <1>5, Undecided DEF ValidatorInv

\* and every step it or its caller takes keeps the invariant.
LEMMA ValidatorInvStep == ValidatorInv /\ [ClientNext]_clientValidateVars => ValidatorInv'
<1> SUFFICES ASSUME ValidatorInv, [ClientNext]_clientValidateVars PROVE ValidatorInv'
  OBVIOUS
<1>1. CASE Ask
  BY <1>1, AskKeeps
<1>2. CASE Forget
  BY <1>2, ForgetKeeps
<1>3. CASE Run
  <2>1. vpc # "IDLE" /\ asked' = asked
    BY <1>3 DEF Run, ExecValidate
  <2>2. CASE FeedPre
    <3>1. vpc' = "VALUE" /\ ReadOn
      BY <1>3, <2>2 DEF Run, FeedPre, FeedPart
    <3> QED
      BY <2>1, <2>2, <3>1, FeedPartKeeps DEF FeedPre
  <2>3. CASE FeedValue
    <3>1. vpc' = "POST" /\ ReadOn
      BY <1>3, <2>3 DEF Run, FeedValue, FeedPart
    <3> QED
      BY <2>1, <2>3, <3>1, FeedPartKeeps DEF FeedValue
  <2>4. CASE FeedPost
    <3>1. vpc' = "END" /\ ReadOn
      BY <1>3, <2>4 DEF Run, FeedPost, FeedPart
    <3> QED
      BY <2>1, <2>4, <3>1, FeedPartKeeps DEF FeedPost
  <2>5. CASE EndValidate
    <3>1. ReadersReset
      BY <1>3, <2>5 DEF Run, EndValidate
    <3> QED
      BY <2>1, <2>5, <3>1, VerdictKeeps
  <2>6. CASE ValidateLex
    <3>1. ReadOn
      BY <1>3, <2>1, <2>6 DEF Run, ValidateLex
    <3> QED
      BY <2>1, <2>6, <3>1, LexKeeps
  <2>7. CASE cb # NoCallback /\ ValidateCallback
    <3>1. ReadOn
      BY <1>3, <2>1, <2>7 DEF Run, ValidateCallback
    <3> QED
      BY <2>1, <2>7, <3>1, CallbackKeeps
  <2> QED
    BY <1>3, <2>2, <2>3, <2>4, <2>5, <2>6, <2>7 DEF Run, ExecValidate
<1>4. CASE UNCHANGED clientValidateVars
  BY <1>4, ValidatorStutters
<1> QED
  BY <1>1, <1>2, <1>3, <1>4 DEF ClientNext

(* What validate_callback() has counted is what the grammar has read: each *)
(* value at the top twice, the elements of the first in its state, and the *)
(* depth in every level that was not refused, through the three feeds.     *)
THEOREM ValidatorInvariant == ValidatorSpec => []ValidatorInv
  BY ValidatorInvInit, ValidatorInvStep, PTL DEF ValidatorSpec

(* The verdict is a status of the library whatever the value and the mode. *)
THEOREM VerdictHasType == ValidatorSpec => []ValidatorTypeOK
<1>1. ValidatorInv => ValidatorTypeOK
  BY DEF ValidatorInv
<1> QED
  BY <1>1, ValidatorInvariant, PTL

(* No value that validate() accepts closes the wrapper it is put in, opens *)
(* another, or leaves anything open, however long it is and however deep:  *)
(* counting two callbacks at level 1 is enough to know.                    *)
THEOREM ValueAlwaysInside == ValidatorSpec => []ValueStaysInside
<1>1. ValidatorInv => ValueStaysInside
  BY DEF ValidatorInv
<1> QED
  BY <1>1, ValidatorInvariant, PTL

(* No value that validate() accepts is deeper than its caller allows: the  *)
(* callback hears of one level more than is allowed, and that is enough.   *)
THEOREM ValidIsAlwaysShallow == ValidatorSpec => []ValidIsShallow
<1>1. ValidatorInv => ValidIsShallow
  BY DEF ValidatorInv
<1> QED
  BY <1>1, ValidatorInvariant, PTL

(* With VALUE_SINGLE what is accepted is at most one element, and with     *)
(* VALUE_PRIMITIVE it holds no container: the counts of the wrapper's      *)
(* state, keys included, tell, unless the value stands without a wrapper   *)
(* and is then the container whose elements are counted.                   *)
THEOREM FlagsAlwaysHold == ValidatorSpec => []FlagsHold
<1>1. ValidatorInv => FlagsHold
  BY DEF ValidatorInv
<1> QED
  BY <1>1, ValidatorInvariant, PTL

-----------------------------------------------------------------------------
(* What is read as JSON. *)

\* Between values JSON's reader moves to a place of its own,
LEMMA JsonBetweenMoves ==
  ASSUME NEW g \in Reader, NEW ch, Viable(JsonBetween(g, ch))
  PROVE  \/ JsonBetween(g, ch) = g
         \/ \E kind \in {"obj", "list"} : JsonBetween(g, ch) = Open(g, kind)
         \/ g.ctx # <<>> /\ JsonBetween(g, ch) = Close(g)
         \/ \E loc \in {"value", "key", "in_key", "in_string", "in_word"} :
              JsonBetween(g, ch) = Goto(g, loc)
         \/ JsonBetween(g, ch) = Numbered(g, NumberStart(ch))
<1>1. JsonBetween(g, ch) # Bad(g)
  BY BadStays
<1>2. BetweenTable(JsonBetween(g, ch), TRUE, g, ch)
  BY JsonBetweenSymbols
<1>3. CASE ch \in Whitespace \/ ch \notin Known
  BY <1>1, <1>2, <1>3 DEF BetweenTable
<1>4. CASE ch \in {"{", "["}
  BY <1>1, <1>2, <1>4 DEF BetweenTable, Either
<1>5. CASE ch \in {"}", "]"}
  BY <1>1, <1>2, <1>5 DEF BetweenTable, Either, InObject, InList
<1>6. CASE ch \in {":", ","}
  BY <1>1, <1>2, <1>6 DEF BetweenTable, Either
<1>7. CASE ch = Quote
  BY <1>1, <1>2, <1>7 DEF BetweenTable, Either
<1>8. CASE ch \in Digit \cup {"-"}
  <2>1. Either(MayBegin(TRUE, g), JsonBetween(g, ch), g, Numbered(g, NumberStart(ch)))
    BY <1>2, <1>8, Zenon DEF BetweenTable
  <2> QED
    BY <1>1, <2>1 DEF Either
<1>9. CASE ch \in {"true", "false", "null"}
  <2>1. Either(MayBegin(TRUE, g), JsonBetween(g, ch), g, Goto(g, "in_word"))
    BY <1>2, <1>9, Zenon DEF BetweenTable
  <2> QED
    BY <1>1, <2>1 DEF Either
<1> QED
  BY <1>3, <1>4, <1>5, <1>6, <1>7, <1>8, <1>9 DEF Known, Structural

\* and is a reader there.
LEMMA JsonBetweenType ==
  ASSUME NEW g \in Reader, NEW ch, Viable(JsonBetween(g, ch))
  PROVE  JsonBetween(g, ch) \in Reader
<1>1. g.ctx \in Seq({"obj", "list"})
  BY DEF Reader
<1>2. ASSUME NEW kind \in {"obj", "list"} PROVE Open(g, kind) \in Reader
  <2>1. Append(g.ctx, kind) \in Seq({"obj", "list"})
    BY <1>1
  <2> QED
    BY <2>1 DEF Open, Reader, Location, NumberPart
<1>3. ASSUME g.ctx # <<>> PROVE Close(g) \in Reader
  <2> DEFINE inner == [g EXCEPT !.ctx = SubSeq(@, 1, Len(@) - 1)]
  <2>1. SubSeq(g.ctx, 1, Len(g.ctx) - 1) \in Seq({"obj", "list"})
    BY <1>1, <1>3
  <2>2. inner \in Reader
    BY <2>1 DEF Reader
  <2> HIDE DEF inner
  <2>3. AfterValue(inner) \in Reader
    BY <2>2, AfterValueType
  <2> QED
    BY <2>3 DEF Close, inner
<1>4. ASSUME NEW loc \in {"value", "key", "in_key", "in_string", "in_word"} PROVE Goto(g, loc) \in Reader
  BY GotoType DEF Location
<1>5. Numbered(g, NumberStart(ch)) \in Reader
  BY DEF Numbered, NumberStart, Reader, Location, NumberPart
<1> QED
  BY <1>2, <1>3, <1>4, <1>5, JsonBetweenMoves

\* So is it after every symbol that JSON allows.
LEMMA JsonStepType ==
  ASSUME NEW g \in Reader, NEW ch, Viable(JsonStep(g, ch))
  PROVE  JsonStep(g, ch) \in Reader
<1>1. StepTable(JsonStep(g, ch), JsonBetween(g, ch), JsonBetween(AfterValue(g), ch), JsonNumber(g.num, ch), g, ch)
  BY JsonStepSymbols
<1>2. JsonStep(g, ch) # Bad(g)
  BY BadStays
<1>3. AfterValue(g) \in Reader
  BY AfterValueType
<1>4. CASE g.at \in {"in_key", "key_escape"}
  <2>1. JsonStep(g, ch) \in {Goto(g, "in_key"), Goto(g, "colon"), Goto(g, "key_escape"), g}
    BY <1>1, <1>2, <1>4 DEF StepTable, InQuotes
  <2> QED
    BY <2>1, GotoType DEF Location
<1>5. CASE g.at \in {"in_string", "string_escape"}
  <2>1. JsonStep(g, ch) \in {Goto(g, "in_string"), AfterValue(g), Goto(g, "string_escape"), g}
    BY <1>1, <1>2, <1>5 DEF StepTable, InQuotes
  <2> QED
    BY <1>3, <2>1, GotoType DEF Location
<1>6. CASE g.at = "in_word"
  BY <1>1, <1>2, <1>3, <1>6, JsonBetweenType DEF StepTable
<1>7. CASE g.at = "in_number"
  <2>1. JsonNumber(g.num, ch) # "none" => JsonNumber(g.num, ch) \in NumberPart
    BY DEF JsonNumber, NumberNext, NumberPart
  <2>2. ASSUME NEW part \in NumberPart PROVE [g EXCEPT !.num = part] \in Reader
    BY DEF Reader
  <2> QED
    BY <1>1, <1>2, <1>3, <1>7, <2>1, <2>2, JsonBetweenType DEF StepTable
<1>8. CASE g.at \notin {"in_key", "key_escape", "in_string", "string_escape", "in_word", "in_number"}
  BY <1>1, <1>8, JsonBetweenType DEF StepTable
<1> QED
  BY <1>4, <1>5, <1>6, <1>7, <1>8

\* Where a value begins a level opens.
LEMMA BeginningOpens ==
  ASSUME NEW g \in Reader
  PROVE  /\ Len(g.ctx) \in Nat
         /\ \A kind \in {"obj", "list"} : LevelsOpen(Open(g, kind)) = Len(g.ctx) + 1
         /\ \A loc \in {"in_string", "in_word"} : LevelsOpen(Goto(g, loc)) = Len(g.ctx) + 1
         /\ \A part : LevelsOpen(Numbered(g, part)) = Len(g.ctx) + 1
<1>1. g.ctx \in Seq({"obj", "list"}) /\ Len(g.ctx) \in Nat
  BY DEF Reader
<1>2. ASSUME NEW kind \in {"obj", "list"} PROVE LevelsOpen(Open(g, kind)) = Len(g.ctx) + 1
  <2>1. Len(Append(g.ctx, kind)) = Len(g.ctx) + 1
    BY <1>1
  <2>2. Len(g.ctx) + 1 + 0 = Len(g.ctx) + 1
    BY <1>1
  <2> QED
    BY <2>1, <2>2 DEF Open, LevelsOpen, InPrimitive
<1>3. ASSUME NEW loc \in {"in_string", "in_word"} PROVE LevelsOpen(Goto(g, loc)) = Len(g.ctx) + 1
  BY GotoType DEF LevelsOpen, InPrimitive, Location
<1>4. ASSUME NEW part PROVE LevelsOpen(Numbered(g, part)) = Len(g.ctx) + 1
  BY DEF Numbered, LevelsOpen, InPrimitive, Reader
<1> QED
  BY <1>1, <1>2, <1>3, <1>4

\* A key is followed by its value: until that begins, the key's object is
\* where the reader is.
LEMMA KeyGoesOn ==
  ASSUME NEW g \in Reader, NEW ch, Viable(JsonStep(g, ch)),
         g.at \in {"in_key", "key_escape", "colon", "value"}
  PROVE  \/ /\ JsonStep(g, ch).at \in {"in_key", "key_escape", "colon", "value"}
            /\ JsonStep(g, ch).ctx = g.ctx
         \/ LevelsOpen(JsonStep(g, ch)) = Len(g.ctx) + 1
<1>1. StepTable(JsonStep(g, ch), JsonBetween(g, ch), JsonBetween(AfterValue(g), ch), JsonNumber(g.num, ch), g, ch)
  BY JsonStepSymbols
<1>2. JsonStep(g, ch) # Bad(g)
  BY BadStays
<1>3. CASE g.at \in {"in_key", "key_escape"}
  <2>1. JsonStep(g, ch) \in {Goto(g, "in_key"), Goto(g, "colon"), Goto(g, "key_escape"), g}
    BY <1>1, <1>2, <1>3 DEF StepTable, InQuotes
  <2>2. ASSUME NEW loc \in {"in_key", "colon", "key_escape"}
        PROVE  Goto(g, loc).at = loc /\ Goto(g, loc).ctx = g.ctx
    BY GotoType DEF Location
  <2> QED
    BY <1>3, <2>1, <2>2
<1>4. CASE g.at \in {"colon", "value"}
  <2>1. JsonStep(g, ch) = JsonBetween(g, ch)
    BY <1>1, <1>4 DEF StepTable
  <2>2. BetweenTable(JsonBetween(g, ch), TRUE, g, ch)
    BY JsonBetweenSymbols
  <2>3. JsonBetween(g, ch) \in {g, Goto(g, "value"), Open(g, "obj"), Open(g, "list"), Goto(g, "in_string"),
                                Goto(g, "in_word"), Numbered(g, NumberStart(ch))}
    <3>1. CASE ch \in Whitespace \/ ch \notin Known
      BY <1>2, <2>1, <2>2, <3>1 DEF BetweenTable
    <3>2. CASE ch \in {"{", "["}
      BY <1>2, <2>1, <2>2, <3>2 DEF BetweenTable, Either
    <3>3. CASE ch \in {"}", "]"}
      BY <1>2, <1>4, <2>1, <2>2, <3>3 DEF BetweenTable, Either, MayClose
    <3>4. CASE ch \in {":", ","}
      BY <1>2, <1>4, <2>1, <2>2, <3>4 DEF BetweenTable, Either
    <3>5. CASE ch = Quote
      BY <1>2, <1>4, <2>1, <2>2, <3>5 DEF BetweenTable, Either
    <3>6. CASE ch \in Digit \cup {"-"}
      <4>1. Either(MayBegin(TRUE, g), JsonBetween(g, ch), g, Numbered(g, NumberStart(ch)))
        BY <2>2, <3>6, Zenon DEF BetweenTable
      <4> QED
        BY <1>2, <2>1, <4>1 DEF Either
    <3>7. CASE ch \in {"true", "false", "null"}
      <4>1. Either(MayBegin(TRUE, g), JsonBetween(g, ch), g, Goto(g, "in_word"))
        BY <2>2, <3>7, Zenon DEF BetweenTable
      <4> QED
        BY <1>2, <2>1, <4>1 DEF Either
    <3> QED
      BY <3>1, <3>2, <3>3, <3>4, <3>5, <3>6, <3>7 DEF Known, Structural
  <2>4. Goto(g, "value").at = "value" /\ Goto(g, "value").ctx = g.ctx
    BY GotoType DEF Location
  <2> QED
    BY <1>4, <2>1, <2>3, <2>4, BeginningOpens
<1> QED
  BY <1>3, <1>4

\* A symbol that begins something opens a level, but for a key's quote.
LEMMA BeginsLevel ==
  ASSUME NEW g \in Reader, NEW ch, Viable(JsonBetween(g, ch)),
         ch \in {Quote, "{", "["} \/ ExtractSpecial(ch) # {}
  PROVE  \/ LevelsOpen(JsonBetween(g, ch)) = Len(g.ctx) + 1
         \/ JsonBetween(g, ch).at = "in_key" /\ JsonBetween(g, ch).ctx = g.ctx
<1>1. JsonBetween(g, ch) # Bad(g)
  BY BadStays
<1>2. BetweenTable(JsonBetween(g, ch), TRUE, g, ch)
  BY JsonBetweenSymbols
<1>3. ExtractSpecial(ch) # {} => ch \in Digit \cup {"-", "true", "false", "null"}
  BY DEF ExtractSpecial, Digit, ZERO
<1>4. CASE ch \in {"{", "["}
  <2>1. \E kind \in {"obj", "list"} : JsonBetween(g, ch) = Open(g, kind)
    BY <1>1, <1>2, <1>4 DEF BetweenTable, Either
  <2> QED
    BY <2>1, BeginningOpens
<1>5. CASE ch = Quote
  <2>1. JsonBetween(g, ch) \in {Goto(g, "in_key"), Goto(g, "in_string")}
    BY <1>1, <1>2, <1>5 DEF BetweenTable, Either
  <2>2. Goto(g, "in_key").at = "in_key" /\ Goto(g, "in_key").ctx = g.ctx
    BY GotoType DEF Location
  <2> QED
    BY <2>1, <2>2, BeginningOpens
<1>6. CASE ch \in Digit \cup {"-"}
  <2>1. Either(MayBegin(TRUE, g), JsonBetween(g, ch), g, Numbered(g, NumberStart(ch)))
    BY <1>2, <1>6, Zenon DEF BetweenTable
  <2> QED
    BY <1>1, <2>1, BeginningOpens DEF Either
<1>7. CASE ch \in {"true", "false", "null"}
  <2>1. Either(MayBegin(TRUE, g), JsonBetween(g, ch), g, Goto(g, "in_word"))
    BY <1>2, <1>7, Zenon DEF BetweenTable
  <2> QED
    BY <1>1, <2>1, BeginningOpens DEF Either
<1> QED
  BY <1>3, <1>4, <1>5, <1>6, <1>7

(* A value that validate() ought to find valid, and what the callback is   *)
(* told of: a level that has been read, and an element that begins.        *)
Proper ==
  /\ OneRoot(JsonRead)
  /\ asked # Unlimited => ValueDepth(JsonRead) <= asked
  /\ ValueDepth(JsonRead) + Wraps <= LevelsMax - 1
  /\ "VALUE_SINGLE" \in mode.flags => Cardinality(Elements(JsonRead)) = 1
  /\ "VALUE_PRIMITIVE" \in mode.flags =>
       \A i \in Elements(JsonRead) : InPrimitive(JsonRead[i])

Told == cb # NoCallback =>
  /\ \E i \in 0 .. pos : cb.level <= LevelsOpen(Read[i])
  /\ cb.action = "PUSH" /\ cb.level = 2 => pos \in Begun(2)

(* Nothing is objected to in such a value.                                 *)
JsonInv ==
  /\ ValidatorInv
  /\ strict = IF vpc = "IDLE" THEN Start ELSE JsonRead[pos]
  /\ vpc # "IDLE" /\ v.err = "SUCCESS" => Told
  /\ vpc # "IDLE" /\ Proper => v.err = "SUCCESS"
  /\ JsonIsValid

\* A text that is JSON at its end is JSON all along, and is read alike.
LEMMA JsonIsReading ==
  ASSUME ValidatorTypeOK, Viable(JsonRead[Len(Wrapped)])
  PROVE  \A i \in 0 .. Len(Wrapped) :
           Viable(JsonRead[i]) /\ JsonRead[i] = Read[i] /\ JsonRead[i] \in Reader
<1> DEFINE n == Len(Wrapped)
<1>1. /\ n \in Nat /\ Read[0] = Start /\ JsonRead[0] = Start
      /\ \A i \in 1 .. n : Read[i] = LooseStep(Read[i - 1], Wrapped[i])
      /\ \A i \in 1 .. n : JsonRead[i] = JsonStep(JsonRead[i - 1], Wrapped[i])
  BY WrappedFacts
<1>2. Viable(JsonRead[n])
  OBVIOUS
<1> HIDE DEF n
<1>3. \A i \in 0 .. n : Viable(JsonRead[i])
  <2> DEFINE T == {k \in 0 .. n : ~Viable(JsonRead[n - k])}
  <2>1. CASE T = {}
    <3>1. ASSUME NEW i \in 0 .. n PROVE Viable(JsonRead[i])
      <4>1. n - i \in 0 .. n /\ n - (n - i) = i
        BY <1>1
      <4> QED
        BY <2>1, <4>1
    <3> QED
      BY <3>1
  <2>2. CASE T # {}
    <3>1. PICK k \in T : \A j \in T : k <= j
      <4>1. T \in SUBSET Nat
        BY <1>1
      <4> HIDE DEF T
      <4> QED
        BY <2>2, <4>1, Smallest
    <3>2. k \in 0 .. n /\ ~Viable(JsonRead[n - k])
      BY <3>1
    <3>3. k # 0
      <4>1. n - 0 = n
        BY <1>1
      <4> QED
        BY <1>2, <3>2, <4>1
    <3>4. k - 1 \in 0 .. n /\ ~(k <= k - 1) /\ n - (k - 1) \in 1 .. n /\ (n - (k - 1)) - 1 = n - k
      BY <1>1, <3>2, <3>3
    <3>5. Viable(JsonRead[n - (k - 1)])
      BY <3>1, <3>4
    <3>6. Viable(JsonRead[n - k])
      <4>1. JsonRead[n - (k - 1)] = JsonStep(JsonRead[n - k], Wrapped[n - (k - 1)])
        BY <1>1, <3>4
      <4> QED
        BY <3>5, <4>1, BadReaderStays
    <3> QED
      BY <3>2, <3>6
  <2> QED
    BY <2>1, <2>2
<1>4. \A i \in 0 .. n : JsonRead[i] = Read[i] /\ JsonRead[i] \in Reader
  <2> DEFINE T == {i \in 0 .. n : ~(JsonRead[i] = Read[i] /\ JsonRead[i] \in Reader)}
  <2>1. CASE T = {}
    BY <2>1
  <2>2. CASE T # {}
    <3>1. PICK i \in T : \A j \in T : i <= j
      <4>1. T \in SUBSET Nat
        BY <1>1
      <4> HIDE DEF T
      <4> QED
        BY <2>2, <4>1, Smallest
    <3>2. i \in 0 .. n /\ ~(JsonRead[i] = Read[i] /\ JsonRead[i] \in Reader)
      BY <3>1
    <3>3. i # 0
      <4>1. Start \in Reader
        BY DEF Start, Reader, Location, NumberPart
      <4> QED
        BY <1>1, <3>2, <4>1
    <3>4. i - 1 \in 0 .. n /\ ~(i <= i - 1) /\ i \in 1 .. n
      BY <1>1, <3>2, <3>3
    <3>5. JsonRead[i - 1] = Read[i - 1] /\ JsonRead[i - 1] \in Reader
      BY <3>1, <3>4
    <3>6. JsonRead[i] = JsonStep(JsonRead[i - 1], Wrapped[i]) /\ Viable(JsonRead[i])
      BY <1>1, <1>3, <3>4
    <3>7. JsonRead[i] \in Reader /\ LooseStep(JsonRead[i - 1], Wrapped[i]) = JsonRead[i]
      BY <3>5, <3>6, JsonStepType, StrictIsLoose
    <3>8. Read[i] = LooseStep(Read[i - 1], Wrapped[i])
      BY <1>1, <3>4
    <3> QED
      BY <3>2, <3>5, <3>7, <3>8
  <2> QED
    BY <2>1, <2>2
<1> QED
  BY <1>3, <1>4 DEF n

\* Finitely many numbers have a bound.
LEMMA HasBound ==
  ASSUME NEW n \in Nat, NEW f, \A i \in 0 .. n : f[i] \in Nat
  PROVE  \E m \in Nat : \A i \in 0 .. n : f[i] <= m
<1> DEFINE Bounds(k) == {m \in Nat : \A i \in 0 .. k : f[i] <= m}
           T == {k \in 0 .. n : Bounds(k) = {}}
<1>1. CASE T = {}
  <2>1. n \in 0 .. n
    OBVIOUS
  <2>2. Bounds(n) # {}
    BY <1>1, <2>1
  <2> QED
    BY <2>2
<1>2. CASE T # {}
  <2>1. PICK k \in T : \A j \in T : k <= j
    <3>1. T \in SUBSET Nat
      OBVIOUS
    <3> HIDE DEF T
    <3> QED
      BY <1>2, <3>1, Smallest
  <2>2. k # 0
    <3>1. f[0] \in Bounds(0)
      OBVIOUS
    <3> QED
      BY <2>1, <3>1
  <2>3. k - 1 \in 0 .. n /\ k - 1 \notin T
    <3>1. k \in 0 .. n
      BY <2>1
    <3>2. k - 1 \in 0 .. n /\ ~(k <= k - 1)
      BY <2>2, <3>1
    <3> HIDE DEF T
    <3> QED
      BY <2>1, <3>2
  <2>4. PICK m \in Nat : \A i \in 0 .. k - 1 : f[i] <= m
    BY <2>3
  <2>5. f[k] \in Nat /\ k \in Nat
    BY <2>1
  <2> DEFINE most == IF f[k] <= m THEN m ELSE f[k]
  <2>6. most \in Nat /\ f[k] <= most /\ m <= most
    BY <2>4, <2>5
  <2>7. \A i \in 0 .. k : f[i] <= most
    <3> HIDE DEF most
    <3>1. ASSUME NEW i \in 0 .. k PROVE f[i] <= most
      <4>1. CASE i = k
        BY <2>6, <4>1
      <4>2. CASE i # k
        <5>1. i \in 0 .. k - 1 /\ i \in 0 .. n
          BY <2>1, <2>5, <4>2
        <5>2. f[i] \in Nat /\ f[i] <= m
          BY <2>4, <5>1
        <5> QED
          BY <2>4, <2>6, <5>2
      <4> QED
        BY <4>1, <4>2
    <3> QED
      BY <3>1
  <2>8. most \in Bounds(k)
    BY <2>6, <2>7
  <2> QED
    BY <2>1, <2>8
<1> QED
  BY <1>1, <1>2

\* What it means for the reading that the value is proper.
LEMMA ProperReads ==
  ASSUME ValidatorTypeOK, asked \in Nat \cup {Unlimited}, Proper
  PROVE  /\ \A i \in 0 .. Len(Wrapped) :
              /\ Viable(JsonRead[i]) /\ JsonRead[i] = Read[i] /\ JsonRead[i] \in Reader
              /\ LevelsOpen(Read[i]) \in 0 .. LevelsMax - 1
              /\ asked # Unlimited => LevelsOpen(Read[i]) <= Adjusted(asked, mode.parent)
         /\ LevelsOpen(Read[Len(Wrapped)]) = 0 /\ Cardinality(AtDepth(Read, 1)) = 1
         /\ "VALUE_SINGLE" \in mode.flags => Cardinality(AtDepth(Read, 2)) = 1
         /\ "VALUE_PRIMITIVE" \in mode.flags => \A i \in AtDepth(Read, 2) : InPrimitive(Read[i])
<1>1. Len(Wrapped) \in Nat
  BY WrappedFacts
<1>2. \A i \in 0 .. Len(Wrapped) : Viable(JsonRead[i]) /\ JsonRead[i] = Read[i] /\ JsonRead[i] \in Reader
  BY JsonIsReading DEF Proper, OneRoot
<1>3. \A d : AtDepth(JsonRead, d) = AtDepth(Read, d)
  <2> TAKE d
  <2>1. ASSUME NEW i \in 1 .. Len(Wrapped) PROVE JsonRead[i] = Read[i] /\ JsonRead[i - 1] = Read[i - 1]
    <3>1. i \in 0 .. Len(Wrapped) /\ i - 1 \in 0 .. Len(Wrapped)
      BY <1>1
    <3> QED
      BY <1>2, <3>1
  <2> QED
    BY <2>1 DEF AtDepth, Begins
<1>4. ASSUME NEW i \in 0 .. Len(Wrapped) PROVE LevelsOpen(JsonRead[i]) \in Nat
  <2>1. JsonRead[i].ctx \in Seq({"obj", "list"})
    BY <1>2 DEF Reader
  <2>2. Len(JsonRead[i].ctx) \in Nat
    BY <2>1
  <2>3. Len(JsonRead[i].ctx) + 0 \in Nat /\ Len(JsonRead[i].ctx) + 1 \in Nat
    BY <2>2
  <2> QED
    BY <2>3 DEF LevelsOpen
<1> DEFINE f == [i \in 0 .. Len(Wrapped) |-> LevelsOpen(JsonRead[i])]
           depths == {LevelsOpen(JsonRead[i]) : i \in 0 .. Len(Wrapped)}
<1>5. PICK m \in Nat : \A i \in 0 .. Len(Wrapped) : LevelsOpen(JsonRead[i]) <= m
  <2>1. \A i \in 0 .. Len(Wrapped) : f[i] \in Nat
    BY <1>4
  <2>2. \A i \in 0 .. Len(Wrapped) : f[i] = LevelsOpen(JsonRead[i])
    OBVIOUS
  <2> HIDE DEF f
  <2>3. PICK m \in Nat : \A i \in 0 .. Len(Wrapped) : f[i] <= m
    BY <1>1, <2>1, HasBound
  <2> QED
    BY <2>2, <2>3
<1>6. depths \in SUBSET (0 .. m) /\ depths # {}
  <2>1. 0 \in 0 .. Len(Wrapped)
    BY <1>1
  <2>2. \A i \in 0 .. Len(Wrapped) : LevelsOpen(JsonRead[i]) \in 0 .. m
    BY <1>4, <1>5
  <2> QED
    BY <2>1, <2>2
<1>7. ValueDepth(JsonRead) = Max(depths) - Wraps
  BY DEF ValueDepth
<1>8. \A i \in 0 .. Len(Wrapped) : LevelsOpen(JsonRead[i]) \in depths
  OBVIOUS
<1> HIDE DEF depths
<1>9. Max(depths) \in 0 .. m /\ \A k \in depths : k <= Max(depths)
  BY <1>6, MaxIsIn
<1>10. Wraps \in {0, 1} /\ LevelsMax \in Nat
  BY LevelsAssumption DEF Wraps
<1>11. Max(depths) <= LevelsMax - 1
  BY <1>7, <1>9, <1>10 DEF Proper
<1>12. asked # Unlimited => Max(depths) <= Adjusted(asked, mode.parent)
  <2> SUFFICES ASSUME asked # Unlimited PROVE Max(depths) <= Adjusted(asked, mode.parent)
    OBVIOUS
  <2>1. asked \in Nat /\ Max(depths) - Wraps <= asked
    BY <1>7 DEF Proper
  <2>2. Adjusted(asked, mode.parent) = asked + Wraps
    <3>1. CASE mode.parent = "PARENT_NONE"
      BY <2>1, <3>1 DEF Adjusted, Wraps
    <3>2. CASE mode.parent # "PARENT_NONE"
      BY <2>1, <3>2 DEF Adjusted, Wraps, Unlimited
    <3> QED
      BY <3>1, <3>2
  <2> QED
    BY <1>9, <1>10, <2>1, <2>2
<1>13. ASSUME NEW i \in 0 .. Len(Wrapped)
       PROVE  /\ LevelsOpen(Read[i]) \in 0 .. LevelsMax - 1
              /\ asked # Unlimited => LevelsOpen(Read[i]) <= Adjusted(asked, mode.parent)
  <2>1. LevelsOpen(Read[i]) \in Nat /\ LevelsOpen(Read[i]) <= Max(depths)
    BY <1>2, <1>4, <1>8, <1>9
  <2>2. asked # Unlimited => Adjusted(asked, mode.parent) \in Nat
    BY DEF Adjusted
  <2> QED
    BY <1>9, <1>10, <1>11, <1>12, <2>1, <2>2
<1>14. LevelsOpen(Read[Len(Wrapped)]) = 0 /\ Cardinality(AtDepth(Read, 1)) = 1
  <2>1. JsonRead[Len(Wrapped)] = Read[Len(Wrapped)]
    BY <1>1, <1>2
  <2> QED
    BY <1>3, <2>1 DEF Proper, OneRoot
<1>15. /\ "VALUE_SINGLE" \in mode.flags => Cardinality(AtDepth(Read, 2)) = 1
       /\ "VALUE_PRIMITIVE" \in mode.flags => \A i \in AtDepth(Read, 2) : InPrimitive(Read[i])
  <2>1. \A i \in AtDepth(Read, 2) : JsonRead[i] = Read[i]
    <3>1. \A i \in AtDepth(Read, 2) : i \in 0 .. Len(Wrapped)
      BY <1>1 DEF AtDepth
    <3> QED
      BY <1>2, <3>1
  <2> QED
    BY <1>3, <2>1 DEF Proper, Elements
<1> QED
  BY <1>2, <1>13, <1>14, <1>15

\* After a key its value begins, for all of them end.
LEMMA KeyOpensLevel ==
  ASSUME ValidatorTypeOK, Viable(JsonRead[Len(Wrapped)]), LevelsOpen(JsonRead[Len(Wrapped)]) = 0,
         NEW p \in 0 .. Len(Wrapped), JsonRead[p].at = "in_key", JsonRead[p].ctx # <<>>
  PROVE  \E q \in 0 .. Len(Wrapped) : LevelsOpen(JsonRead[q]) = Len(JsonRead[p].ctx) + 1
<1> DEFINE n == Len(Wrapped)
           nest == JsonRead[p].ctx
           InMember(g) == g.at \in {"in_key", "key_escape", "colon", "value"} /\ g.ctx = nest
           T == {i \in p .. n : ~InMember(JsonRead[i])}
<1>1. /\ n \in Nat /\ \A i \in 1 .. n : JsonRead[i] = JsonStep(JsonRead[i - 1], Wrapped[i])
      /\ \A i \in 0 .. n : Viable(JsonRead[i]) /\ JsonRead[i] \in Reader
  BY WrappedFacts, JsonIsReading
<1>2. p \in Nat /\ p \in 0 .. n /\ nest \in Seq({"obj", "list"}) /\ nest # <<>>
  BY <1>1 DEF Reader
<1>3. Len(nest) \in Nat /\ Len(nest) # 0
  BY <1>2
<1>4. n \in T
  <2>1. n \in 0 .. n /\ n \in p .. n
    BY <1>1, <1>2
  <2>2. JsonRead[n].ctx \in Seq({"obj", "list"})
    BY <1>1, <2>1 DEF Reader
  <2>3. Len(JsonRead[n].ctx) \in Nat
    BY <2>2
  <2>4. Len(JsonRead[n].ctx) = 0
    <3>1. LevelsOpen(JsonRead[n]) \in {Len(JsonRead[n].ctx), Len(JsonRead[n].ctx) + 1}
      <4>1. Len(JsonRead[n].ctx) + 0 = Len(JsonRead[n].ctx)
        BY <2>3
      <4> QED
        BY <4>1, Zenon DEF LevelsOpen
    <3>2. LevelsOpen(JsonRead[n]) = 0
      OBVIOUS
    <3> QED
      BY <2>3, <3>1, <3>2
  <2> QED
    BY <1>3, <2>1, <2>4
<1>5. InMember(JsonRead[p])
  OBVIOUS
<1> HIDE DEF n, nest, InMember
<1>6. PICK q \in T : \A j \in T : q <= j
  <2>1. T \in SUBSET Nat
    BY <1>1, <1>2
  <2> HIDE DEF T
  <2> QED
    BY <1>4, <2>1, Smallest
<1>7. q \in p .. n /\ ~InMember(JsonRead[q]) /\ q # p
  BY <1>5, <1>6
<1>8. q - 1 \in p .. n /\ ~(q <= q - 1) /\ q \in 1 .. n /\ q \in 0 .. n /\ q - 1 \in 0 .. n
  BY <1>1, <1>2, <1>7
<1>9. InMember(JsonRead[q - 1])
  BY <1>6, <1>8
<1>10. JsonRead[q] = JsonStep(JsonRead[q - 1], Wrapped[q]) /\ JsonRead[q - 1] \in Reader /\ Viable(JsonRead[q])
  BY <1>1, <1>8
<1>11. LevelsOpen(JsonRead[q]) = Len(nest) + 1
  <2>1. /\ JsonRead[q - 1].at \in {"in_key", "key_escape", "colon", "value"}
        /\ JsonRead[q - 1].ctx = nest
        /\ ~(JsonRead[q].at \in {"in_key", "key_escape", "colon", "value"} /\ JsonRead[q].ctx = nest)
    BY <1>7, <1>9 DEF InMember
  <2> QED
    BY <1>10, <2>1, KeyGoesOn
<1> QED
  BY <1>8, <1>11 DEF n, nest

\* The lexer wants for room only where something begins.
LEMMA ExceededWhere ==
  ASSUME Feed, err' = "LEVELS_EXCEEDED"
  PROVE  InContainer /\ Full /\ (Char \in {Quote, "{", "["} \/ ExtractSpecial(Char) # {})
<1>1. CASE StringEscaped \/ StringChar \/ StringBadChar \/ StringBeginEscape \/ StringEnd \/ SkipWhitespace
  BY <1>1 DEF StringEscaped, StringChar, StringBadChar, StringBeginEscape, StringEnd, SkipWhitespace,
              Fail, InString, InContainer, Running
<1>2. CASE NumberFast \/ NumberDash \/ NumberDigit \/ NumberDot \/ NumberExponent \/ NumberSign
  BY <1>2 DEF NumberFast, NumberDash, NumberDigit, NumberDot, NumberExponent, NumberSign, NumberMark,
              Fail, InNumber, InSpecial, Running
<1>3. CASE NumberInvalid \/ WordInvalid \/ SpecialPop \/ UnexpectedChar
  BY <1>3 DEF NumberInvalid, WordInvalid, SpecialPop, UnexpectedChar, Fail, InSpecial, Running
<1>4. CASE Colon \/ Comma \/ CloseContainer
  BY <1>4 DEF Colon, Comma, CloseContainer, CloseError, Fail, InContainer, Running
<1>5. CASE StringBegin
  BY <1>5 DEF StringBegin, StringError, Fail, InContainer, Running
<1>6. CASE OpenContainer
  BY <1>6 DEF OpenContainer, OpenError, Fail, InContainer, Running
<1>7. CASE SpecialBegin
  BY <1>7 DEF SpecialBegin, SpecialError, Fail, InContainer, Running
<1> QED
  BY <1>1, <1>2, <1>3, <1>4, <1>5, <1>6, <1>7 DEF Feed

\* What JSON's reader makes of the next symbol.
LEMMA JsonReadsOn ==
  ASSUME ValidatorTypeOK, JsonslTypeOK, vpc # "IDLE", text = Fed, Running
  PROVE  /\ pos \in Nat /\ pos \in 0 .. Len(Wrapped) /\ pos + 1 \in 0 .. Len(Wrapped)
         /\ JsonRead[pos + 1] = JsonStep(JsonRead[pos], Char)
<1>1. /\ pos \in Nat /\ pos + 1 \in 1 .. Len(text) /\ Len(text) <= Len(Wrapped)
      /\ Len(Wrapped) \in Nat /\ Len(text) \in Nat
      /\ \A i \in 1 .. Len(text) : text[i] = Wrapped[i]
      /\ \A i \in 1 .. Len(Wrapped) : JsonRead[i] = JsonStep(JsonRead[i - 1], Wrapped[i])
  BY CursorFacts, CharType, FedIsPrefix, WrappedFacts
<1>2. /\ pos + 1 \in 1 .. Len(Wrapped) /\ pos + 1 \in 0 .. Len(Wrapped)
      /\ pos \in 0 .. Len(Wrapped) /\ (pos + 1) - 1 = pos
  BY <1>1
<1>3. Char = Wrapped[pos + 1]
  BY <1>1 DEF Char
<1>4. JsonRead[pos + 1] = JsonStep(JsonRead[(pos + 1) - 1], Wrapped[pos + 1])
  BY <1>1, <1>2
<1> QED
  BY <1>1, <1>2, <1>3, <1>4

\* What the validator's invariant says while it runs.
LEMMA JsonWatched ==
  ASSUME JsonInv, vpc # "IDLE", v.err = "SUCCESS"
  PROVE  /\ ValidatorInv /\ Told /\ strict = JsonRead[pos] /\ loose = Read[pos]
         /\ JsonslInv /\ JsonslTypeOK /\ LexerInv /\ LanguageInv /\ Coupled /\ StrictCoupled /\ Refused
         /\ ValidatorTypeOK /\ Validating /\ Watching /\ text = Fed
         /\ asked \in Nat \cup {Unlimited} /\ v.maxdepth = Adjusted(asked, mode.parent)
         /\ pos \in Nat /\ level \in Nat
<1>1. ValidatorInv /\ Told /\ strict = JsonRead[pos]
  BY DEF JsonInv
<1>2. /\ JsonslInv /\ JsonslTypeOK /\ LexerInv /\ LanguageInv /\ Coupled /\ ValidatorTypeOK
      /\ Validating /\ Watching /\ text = Fed /\ loose = Read[pos] /\ pos \in Nat /\ level \in Nat
  BY <1>1, Watched
<1> QED
  BY <1>1, <1>2 DEF LanguageInv, Validating

\* The lexer does not refuse a proper value: it has room for each level that
\* opens, and for a key, whose value will open one more.
LEMMA ProperIsRead ==
  ASSUME JsonInv, vpc # "IDLE", v.err = "SUCCESS", Proper, FeedRead
  PROVE  err' = "SUCCESS"
<1>1. /\ strict = JsonRead[pos] /\ loose = Read[pos] /\ JsonslInv /\ JsonslTypeOK /\ Coupled /\ StrictCoupled
      /\ Refused /\ ValidatorTypeOK /\ text = Fed /\ asked \in Nat \cup {Unlimited} /\ Feed
  BY JsonWatched DEF FeedRead
<1>2. Running
  BY <1>1, FeedTakes
<1>3. /\ pos \in Nat /\ pos \in 0 .. Len(Wrapped) /\ pos + 1 \in 0 .. Len(Wrapped)
      /\ JsonRead[pos + 1] = JsonStep(strict, Char)
  BY <1>1, <1>2, JsonReadsOn
<1>4. /\ \A i \in 0 .. Len(Wrapped) :
           /\ Viable(JsonRead[i]) /\ JsonRead[i] = Read[i] /\ LevelsOpen(Read[i]) \in 0 .. LevelsMax - 1
      /\ LevelsOpen(Read[Len(Wrapped)]) = 0 /\ Len(Wrapped) \in Nat
  BY <1>1, ProperReads, WrappedFacts
<1>5. Viable(JsonStep(strict, Char)) /\ Viable(strict) /\ strict = loose
  BY <1>1, <1>3, <1>4
<1> SUFFICES ASSUME err' # "SUCCESS" PROVE FALSE
  OBVIOUS
<1>6. err' = "LEVELS_EXCEEDED"
  <2>1. PICK code \in Error : Fail(code)
    <3>1. HasShape /\ err = "SUCCESS"
      BY <1>1, <1>2, FeedHasShape DEF Running
    <3> QED
      BY <3>1 DEF HasShape, Failing, Moves, Learns, Pushes, Pops
  <2>2. UNCHANGED <<text, pos, strict>>
    BY <2>1, FailLeaves DEF feedVars
  <2>3. AcceptsJson'
    BY <1>1, RefusedFeed DEF Refused
  <2>4. ~Viable(Step(TRUE, strict', Char')) \/ err' = "LEVELS_EXCEEDED"
    BY <2>3, Zenon DEF AcceptsJson
  <2>5. strict' = strict /\ Char' = Char
    BY <2>2 DEF Char
  <2>6. ~Viable(JsonStep(strict, Char)) \/ err' = "LEVELS_EXCEEDED"
    BY <2>4, <2>5, Zenon DEF JsonStep
  <2> QED
    BY <1>5, <2>6
<1>7. InContainer /\ Full /\ (Char \in {Quote, "{", "["} \/ ExtractSpecial(Char) # {})
  BY <1>1, <1>6, ExceededWhere
<1> DEFINE g == Facing(loose)
<1>8. /\ JsonStep(strict, Char) = JsonBetween(g, Char) /\ g \in Reader /\ g.ctx = loose.ctx
      /\ Len(loose.ctx) = LevelsMax - 1
  BY <1>1, <1>5, <1>7, JsonFaces, LooseFaces, BetweenReads
<1> HIDE DEF g
<1>9. \/ LevelsOpen(JsonRead[pos + 1]) = Len(g.ctx) + 1
      \/ JsonRead[pos + 1].at = "in_key" /\ JsonRead[pos + 1].ctx = g.ctx
  <2>1. Viable(JsonBetween(g, Char))
    BY <1>5, <1>8
  <2>2. \/ LevelsOpen(JsonBetween(g, Char)) = Len(g.ctx) + 1
        \/ JsonBetween(g, Char).at = "in_key" /\ JsonBetween(g, Char).ctx = g.ctx
    BY <1>7, <1>8, <2>1, BeginsLevel
  <2>3. JsonRead[pos + 1] = JsonBetween(g, Char)
    BY <1>3, <1>8
  <2> QED
    BY <2>2, <2>3, Zenon
<1>10. LevelsMax \in Nat /\ LevelsMax > 1 /\ \A i \in 0 .. Len(Wrapped) : LevelsOpen(JsonRead[i]) # LevelsMax
  <2>1. LevelsMax \in Nat /\ LevelsMax > 1 /\ LevelsMax \notin 0 .. LevelsMax - 1
    BY LevelsAssumption
  <2> QED
    BY <1>4, <2>1
<1>11. Len(g.ctx) + 1 = LevelsMax /\ g.ctx # <<>>
  <2>1. Len(g.ctx) + 1 = LevelsMax
    BY <1>8, <1>10
  <2>2. Len(<<>>) = 0 /\ Len(g.ctx) # 0
    BY <1>8, <1>10
  <2> QED
    BY <2>1, <2>2
<1>12. CASE LevelsOpen(JsonRead[pos + 1]) = Len(g.ctx) + 1
  BY <1>3, <1>10, <1>11, <1>12
<1>13. CASE JsonRead[pos + 1].at = "in_key" /\ JsonRead[pos + 1].ctx = g.ctx
  <2>1. Len(Wrapped) \in 0 .. Len(Wrapped)
    BY <1>4
  <2>2. Viable(JsonRead[Len(Wrapped)]) /\ LevelsOpen(JsonRead[Len(Wrapped)]) = 0
    BY <1>4, <2>1
  <2>3. PICK q \in 0 .. Len(Wrapped) : LevelsOpen(JsonRead[q]) = Len(JsonRead[pos + 1].ctx) + 1
    BY <1>1, <1>3, <1>11, <1>13, <2>2, KeyOpensLevel
  <2> QED
    BY <1>10, <1>11, <1>13, <2>3
<1> QED
  BY <1>9, <1>12, <1>13

\* The callback is told of levels and elements that have been read.
LEMMA FeedTells ==
  ASSUME ValidatorInv, vpc # "IDLE", v.err = "SUCCESS", FeedRead, UNCHANGED <<value, mode>>
  PROVE  Told'
<1>1. /\ JsonslInv /\ Coupled /\ Feed /\ loose = Read[pos] /\ pos \in Nat /\ level \in Nat
  BY Watched DEF FeedRead
<1>2. Running /\ (QuietStep \/ PopStep \/ \E type \in Type \ {"ROOT"} : PushStep(type))
  BY <1>1, FeedTakes
<1>3. cb = NoCallback /\ ~call_HKEY
  BY <1>2, CallbacksReach
<1>4. Read' = Read /\ pos' \in {pos, pos + 1} /\ pos' \in Nat /\ pos \in 0 .. pos'
  BY <1>1, FeedBegins
<1> SUFFICES ASSUME cb' # NoCallback
             PROVE  /\ \E i \in 0 .. pos' : cb'.level <= LevelsOpen(Read[i])
                    /\ cb'.action = "PUSH" /\ cb'.level = 2 => pos' \in Begun(2)'
  BY <1>4 DEF Told
<1>5. CASE QuietStep
  BY <1>3, <1>5 DEF QuietStep
<1>6. CASE PopStep
  <2>1. Top.type # "HKEY" /\ cb' = [action |-> "POP", level |-> level, at |-> pos]
    BY <1>3, <1>6 DEF PopStep, Delivered
  <2>2. LevelsOpen(loose) = level \/ LevelsOpen(loose) = level + 1
    BY <1>1, <2>1, ReaderPlace
  <2>3. level <= LevelsOpen(Read[pos])
    BY <1>1, <2>2
  <2> QED
    BY <1>4, <2>1, <2>3
<1>7. ASSUME NEW type \in Type \ {"ROOT"}, PushStep(type)
      PROVE  /\ \E i \in 0 .. pos' : cb'.level <= LevelsOpen(Read[i])
             /\ cb'.action = "PUSH" /\ cb'.level = 2 => pos' \in Begun(2)'
  <2>1. type # "HKEY" /\ cb' = [action |-> "PUSH", level |-> level + 1, at |-> pos]
    BY <1>3, <1>7 DEF PushStep, Delivered
  <2>2. /\ LevelsOpen(Read[pos']) = level + 1
        /\ level = 1 => Begun(2)' = Begun(2) \cup {pos'}
    BY <2>1, <1>7, FeedBegins
  <2>3. level + 1 <= LevelsOpen(Read[pos']) /\ pos' \in 0 .. pos'
    BY <1>1, <1>4, <2>2
  <2>4. cb'.level = level + 1 /\ (level + 1 = 2 => level = 1)
    BY <1>1, <2>1
  <2> QED
    BY <2>2, <2>3, <2>4
<1> QED
  BY <1>2, <1>5, <1>6, <1>7

\* It does not object to a proper value.
LEMMA ProperIsLiked ==
  ASSUME JsonInv, vpc # "IDLE", v.err = "SUCCESS", Proper, cb # NoCallback
  PROVE  Objection = "SUCCESS"
<1>1. /\ Told /\ loose = Read[pos] /\ JsonslInv /\ Coupled /\ Watching /\ ValidatorTypeOK
      /\ asked \in Nat \cup {Unlimited} /\ v.maxdepth = Adjusted(asked, mode.parent)
      /\ pos \in Nat /\ level \in Nat /\ text = Fed
  BY JsonWatched
<1>2. /\ \A i \in 0 .. Len(Wrapped) :
           asked # Unlimited => /\ LevelsOpen(Read[i]) <= Adjusted(asked, mode.parent)
                                /\ LevelsOpen(Read[i]) \in Nat
      /\ Cardinality(AtDepth(Read, 1)) = 1
      /\ "VALUE_SINGLE" \in mode.flags => Cardinality(AtDepth(Read, 2)) = 1
      /\ "VALUE_PRIMITIVE" \in mode.flags => \A i \in AtDepth(Read, 2) : InPrimitive(Read[i])
  BY <1>1, ProperReads
<1>3. pos <= Len(Wrapped) /\ Len(Wrapped) \in Nat
  BY <1>1, CursorFacts, FedIsPrefix, WrappedFacts DEF JsonslInv
<1>4. cb.level \in Nat
  <2>1. cb \in CallbackRec
    BY <1>1 DEF JsonslInv, JsonslTypeOK
  <2> QED
    BY <2>1, LevelsAssumption DEF CallbackRec, Level
<1>5. ~(v.maxdepth # Unlimited /\ cb.level - 1 = v.maxdepth)
  <2> SUFFICES ASSUME v.maxdepth # Unlimited, cb.level - 1 = v.maxdepth PROVE FALSE
    OBVIOUS
  <2>1. asked # Unlimited /\ v.maxdepth \in Nat
    BY <1>1 DEF Adjusted
  <2>2. PICK i \in 0 .. pos : cb.level <= LevelsOpen(Read[i])
    BY <1>1 DEF Told
  <2>3. i \in 0 .. Len(Wrapped)
    BY <1>1, <1>3, <2>2
  <2>4. LevelsOpen(Read[i]) <= v.maxdepth /\ LevelsOpen(Read[i]) \in Nat
    BY <1>1, <1>2, <2>1, <2>3
  <2> DEFINE open == LevelsOpen(Read[i])
  <2>5. cb.level <= open /\ open <= v.maxdepth /\ open \in Nat
    BY <2>2, <2>4
  <2> HIDE DEF open
  <2> QED
    BY <1>4, <2>1, <2>5
<1>6. CASE cb.level = 2 /\ cb.action = "PUSH"
  <2>1. pos \in Begun(2) /\ level = 2
    BY <1>1, <1>6 DEF Told, JsonslInv, CallbackSeesItsState
  <2>2. /\ Begun(1) \subseteq AtDepth(Read, 1) /\ Begun(2) \subseteq AtDepth(Read, 2)
        /\ pos \in AtDepth(Read, 2) /\ LevelsOpen(Read[pos]) = 2
    BY <2>1 DEF Begun, AtDepth
  <2>3. Top.type # "HKEY" /\ (InPrimitive(loose) => Top.type \in {"STRING", "SPECIAL"})
    <3>1. label # "STRUCTURAL"
      BY <1>1, <2>1, <2>2, ReaderPlace
    <3> QED
      BY <1>1, <2>1, <2>2, <3>1, ReaderPlace
  <2>4. Around = stack[1] /\ Seen = Top
    BY <1>6, <2>1 DEF Around, Seen, Top
  <2>5. "VALUE_SINGLE" \in mode.flags => ~HasMultiple
    <3> SUFFICES ASSUME "VALUE_SINGLE" \in mode.flags PROVE ~HasMultiple
      OBVIOUS
    <3>1. IsFiniteSet(AtDepth(Read, 1)) /\ IsFiniteSet(AtDepth(Read, 2))
      <4>1. AtDepth(Read, 1) \subseteq 1 .. Len(Wrapped) /\ AtDepth(Read, 2) \subseteq 1 .. Len(Wrapped)
        BY DEF AtDepth
      <4>2. IsFiniteSet(1 .. Len(Wrapped))
        <5>1. 1 \in Int /\ Len(Wrapped) \in Int
          BY <1>3
        <5> QED
          BY <5>1, FS_Interval
      <4> QED
        BY <4>1, <4>2, FS_Subset
    <3>2. Cardinality(Begun(1)) <= 1 /\ Cardinality(Begun(2)) <= 1
      BY <1>2, <2>2, <3>1, FS_Subset
    <3>3. Begun(1) # {} /\ Begun(2) # {}
      BY <1>1, <2>1 DEF Watching, ElementsCounted
    <3>4. Cardinality(Begun(1)) = 1 /\ Cardinality(Begun(2)) = 1
      <4>1. /\ Cardinality(Begun(1)) \in Nat /\ Cardinality(Begun(1)) # 0
            /\ Cardinality(Begun(2)) \in Nat /\ Cardinality(Begun(2)) # 0
        BY <1>1, <3>3, BegunFacts
      <4> QED
        BY <3>2, <4>1
    <3>5. level > 0
      BY <2>1
    <3>6. 1 = CASE stack[1].type = "LIST"   -> stack[1].nelem
                [] stack[1].type = "OBJECT" -> stack[1].nelem \div 2
                [] OTHER                    -> 0
      BY <1>1, <3>4, <3>5 DEF Watching, ElementsCounted
    <3>7. stack[1].nelem \in Nat
      <4>1. 1 \in 0 .. level
        BY <2>1
      <4> QED
        BY <1>1, <4>1, LevelFacts, StackFacts DEF JsonslInv, State
    <3>8. ~(stack[1].type = "OBJECT" /\ stack[1].nelem % 2 = 1)
      <4>1. 1 \in 0 .. level - 1 /\ 1 + 1 = level
        BY <2>1
      <4>2. (stack[1 + 1].type = "HKEY") = (stack[1].type = "OBJECT" /\ stack[1].nelem % 2 = 1)
        BY <1>1, <4>1 DEF JsonslInv, KeysPairWithValues
      <4> QED
        BY <2>3, <4>1, <4>2 DEF Top
    <3>9. CASE stack[1].type = "LIST"
      BY <2>4, <3>6, <3>9 DEF HasMultiple
    <3>10. CASE stack[1].type = "OBJECT"
      <4>1. stack[1].nelem \div 2 = 1 /\ stack[1].nelem % 2 = 0
        BY <3>6, <3>7, <3>8, <3>10, Parity
      <4>2. ~(stack[1].nelem > 2)
        BY <3>7, <4>1
      <4> QED
        BY <2>4, <3>10, <4>2 DEF HasMultiple
    <3> QED
      BY <2>4, <3>9, <3>10 DEF HasMultiple
  <2>6. "VALUE_PRIMITIVE" \in mode.flags => Seen.type \notin Container
    BY <1>1, <1>2, <2>2, <2>3, <2>4 DEF Container
  <2> QED
    BY <1>5, <2>5, <2>6 DEF Objection
<1>7. CASE ~(cb.level = 2 /\ cb.action = "PUSH")
  BY <1>5, <1>7 DEF Objection
<1> QED
  BY <1>6, <1>7

\* A proper value that has been fed to its end is found valid.
LEMMA ProperIsValid ==
  ASSUME JsonInv, vpc # "IDLE", Proper, EndValidate
  PROVE  Verdict = "SUCCESS"
<1>1. v.err = "SUCCESS"
  BY DEF JsonInv
<1>2. /\ loose = Read[pos] /\ JsonslInv /\ Coupled /\ Watching /\ ValidatorTypeOK
      /\ asked \in Nat \cup {Unlimited} /\ pos \in Nat /\ level \in Nat /\ text = Fed
  BY <1>1, JsonWatched
<1>3. vpc = "END" /\ cb = NoCallback /\ pos = Len(text)
  BY <1>1, <1>2 DEF EndValidate, FeedReturned, Watching
<1>4. pos = Len(Wrapped)
  BY <1>2, <1>3 DEF Fed
<1>5. LevelsOpen(loose) = 0 /\ Cardinality(AtDepth(Read, 1)) = 1
  BY <1>2, <1>4, ProperReads
<1>6. level = 0
  <2>1. label # "STRUCTURAL"
    BY <1>2, <1>3 DEF Coupled, Pending
  <2>2. LevelsOpen(loose) = IF Top.type = "HKEY" THEN level - 1 ELSE level
    BY <1>2, <2>1, ReaderPlace
  <2>3. CASE Top.type = "HKEY"
    <3>1. level = 1
      BY <1>2, <1>5, <2>2, <2>3
    <3>2. 0 \in 0 .. level - 1 /\ 0 + 1 = level
      BY <3>1
    <3>3. (stack[0 + 1].type = "HKEY") = (stack[0].type = "OBJECT" /\ stack[0].nelem % 2 = 1)
      BY <1>2, <3>2 DEF JsonslInv, KeysPairWithValues
    <3>4. stack[0].type = "ROOT"
      BY <1>2 DEF JsonslInv, StackMirrorsText
    <3> QED
      BY <2>3, <3>2, <3>3, <3>4 DEF Top
  <2> QED
    BY <1>5, <2>2, <2>3
<1>7. Begun(1) = AtDepth(Read, 1)
  <2>1. AtDepth(Read, 1) \subseteq 1 .. Len(Wrapped)
    BY DEF AtDepth
  <2>2. \A i \in 1 .. Len(Wrapped) : i <= pos
    BY <1>2, <1>4
  <2> QED
    BY <2>1, <2>2 DEF Begun
<1>8. v.rootcount = 2
  <2>1. v.rootcount + 0 + 0 = 2 * 1
    BY <1>2, <1>3, <1>5, <1>6, <1>7 DEF Watching, RootsCounted
  <2>2. v.rootcount \in Nat
    BY <1>2 DEF ValidatorTypeOK
  <2> QED
    BY <2>1, <2>2
<1> QED
  BY <1>1, <1>8 DEF Verdict

\* Whether a value is proper does not change while it is looked at.
LEMMA ProperStays ==
  ASSUME UNCHANGED <<value, mode, asked>>
  PROVE  JsonRead' = JsonRead /\ (Proper' <=> Proper)
<1>1. Wrapped' = Wrapped /\ Wraps' = Wraps
  BY DEF Wrapped, Wraps
<1>2. JsonRead' = JsonRead
  BY <1>1 DEF JsonRead, Reading
<1>3. /\ OneRoot(JsonRead)' <=> OneRoot(JsonRead)
      /\ Elements(JsonRead)' = Elements(JsonRead) /\ ValueDepth(JsonRead)' = ValueDepth(JsonRead)
  BY <1>1, <1>2 DEF OneRoot, Elements, AtDepth, Begins, ValueDepth
<1>4. Proper' <=> Proper
  <2>1. (OneRoot(JsonRead))' <=> OneRoot(JsonRead)
    BY <1>3
  <2>2. (asked # Unlimited => ValueDepth(JsonRead) <= asked)' <=>
          (asked # Unlimited => ValueDepth(JsonRead) <= asked)
    BY <1>3
  <2>3. (ValueDepth(JsonRead) + Wraps <= LevelsMax - 1)' <=> (ValueDepth(JsonRead) + Wraps <= LevelsMax - 1)
    BY <1>1, <1>3
  <2>4. ("VALUE_SINGLE" \in mode.flags => Cardinality(Elements(JsonRead)) = 1)' <=>
          ("VALUE_SINGLE" \in mode.flags => Cardinality(Elements(JsonRead)) = 1)
    BY <1>3
  <2>5. ("VALUE_PRIMITIVE" \in mode.flags => \A i \in Elements(JsonRead) : InPrimitive(JsonRead[i]))' <=>
          ("VALUE_PRIMITIVE" \in mode.flags => \A i \in Elements(JsonRead) : InPrimitive(JsonRead[i]))
    BY <1>2, <1>3
  <2> QED
    BY <2>1, <2>2, <2>3, <2>4, <2>5 DEF Proper
<1> QED
  BY <1>2, <1>4

\* A symbol keeps the invariant,
LEMMA JsonLexKeeps ==
  ASSUME JsonInv, vpc # "IDLE", ValidateLex, ReadOn, UNCHANGED asked
  PROVE  JsonInv'
<1>1. /\ ValidatorInv /\ JsonslInv /\ JsonslTypeOK /\ ValidatorTypeOK /\ text = Fed /\ strict = JsonRead[pos]
      /\ FeedRead /\ Feed /\ UNCHANGED <<value, mode, vpc, asked>>
      /\ v \in [err : Status, rootcount : Nat, maxdepth : Nat \cup {Unlimited}]
      /\ v' = IF err' # "SUCCESS" THEN [v EXCEPT !.err = err'] ELSE v
  BY DEF JsonInv, ValidatorInv, ValidatorTypeOK, Validating, LanguageInv, JsonslInv, ValidateLex, FeedRead
<1>2. ValidatorInv'
  BY <1>1, LexKeeps
<1>3. JsonRead' = JsonRead /\ (Proper' <=> Proper)
  BY <1>1, ProperStays
<1>4. strict' = JsonRead'[pos']
  <2>1. CASE pos' = pos
    BY <1>1, <1>3, <2>1 DEF ReadOn, readers
  <2>2. CASE pos' # pos
    <3>1. Consume /\ Running
      BY <1>1, <2>2, Consumes, FeedTakes
    <3>2. strict' = JsonStep(strict, Char) /\ pos' = pos + 1
      BY <1>1, <3>1, ReadersRead DEF Consume
    <3> QED
      BY <1>1, <1>3, <3>1, <3>2, JsonReadsOn
  <2> QED
    BY <2>1, <2>2
<1>5. ASSUME v'.err = "SUCCESS" PROVE Told'
  <2>1. v.err = "SUCCESS"
    BY <1>1, <1>5
  <2> QED
    BY <1>1, <2>1, FeedTells
<1>6. ASSUME Proper' PROVE v'.err = "SUCCESS"
  <2>1. Proper /\ v.err = "SUCCESS"
    BY <1>3, <1>6 DEF JsonInv
  <2>2. err' = "SUCCESS"
    BY <1>1, <2>1, ProperIsRead
  <2> QED
    BY <1>1, <2>1, <2>2
<1> QED
  BY <1>1, <1>2, <1>4, <1>5, <1>6 DEF JsonInv, JsonIsValid, Decided

\* the callback's answer does,
LEMMA JsonCallbackKeeps ==
  ASSUME JsonInv, vpc # "IDLE", cb # NoCallback, ValidateCallback, ReadOn, UNCHANGED asked
  PROVE  JsonInv'
<1>1. /\ ValidatorInv /\ strict = JsonRead[pos] /\ UNCHANGED <<value, mode, vpc, asked>>
      /\ v \in [err : Status, rootcount : Nat, maxdepth : Nat \cup {Unlimited}]
      /\ v' = IF Objection # "SUCCESS" THEN [v EXCEPT !.err = Objection]
              ELSE IF cb.level = 1 THEN [v EXCEPT !.rootcount = @ + 1] ELSE v
  BY DEF JsonInv, ValidatorInv, ValidatorTypeOK, ValidateCallback
<1>2. cb' = NoCallback /\ pos' = pos
  BY DEF ValidateCallback, Answer, feedVars
<1>3. strict' = strict
  BY <1>2 DEF ReadOn, readers
<1>4. ValidatorInv'
  BY <1>1, CallbackKeeps
<1>5. JsonRead' = JsonRead /\ (Proper' <=> Proper)
  BY <1>1, ProperStays
<1>6. ASSUME Proper' PROVE v'.err = "SUCCESS"
  <2>1. Proper /\ v.err = "SUCCESS"
    BY <1>5, <1>6 DEF JsonInv
  <2>2. Objection = "SUCCESS"
    BY <2>1, ProperIsLiked
  <2>3. CASE cb.level = 1
    BY <1>1, <2>1, <2>2, <2>3
  <2>4. CASE cb.level # 1
    BY <1>1, <2>1, <2>2, <2>4
  <2> QED
    BY <2>3, <2>4
<1> QED
  BY <1>1, <1>2, <1>3, <1>4, <1>5, <1>6 DEF JsonInv, JsonIsValid, Decided, Told

\* and each of the three feeds,
LEMMA JsonFeedKeeps ==
  ASSUME JsonInv, vpc # "IDLE", FeedPre \/ FeedValue \/ FeedPost, ReadOn, UNCHANGED asked
  PROVE  JsonInv'
<1>1. PICK from \in {"PRE", "VALUE", "POST"}, to \in {"VALUE", "POST", "END"},
     bytes \in {Pre(mode.parent), value, Post(mode.parent)} :
        /\ FeedPart(from, to, bytes)
        /\ \/ from = "PRE" /\ to = "VALUE" /\ bytes = Pre(mode.parent)
           \/ from = "VALUE" /\ to = "POST" /\ bytes = value
           \/ from = "POST" /\ to = "END" /\ bytes = Post(mode.parent)
  BY DEF FeedPre, FeedValue, FeedPost
<1>2. ValidatorInv'
  BY <1>1, FeedPartKeeps DEF JsonInv
<1>3. /\ vpc' # "IDLE" /\ UNCHANGED <<value, mode, v, asked>>
      /\ CallFeed(bytes, CallbackDepth, FALSE)
  BY <1>1 DEF FeedPart
<1>4. cb' = NoCallback /\ pos' = pos
  <2>1. PICK keys : CallFeed(bytes, CallbackDepth, keys)
    BY <1>3, Zenon
  <2> QED
    BY <2>1 DEF CallFeed
<1>5. strict' = strict
  BY <1>4 DEF ReadOn, readers
<1>6. JsonRead' = JsonRead /\ (Proper' <=> Proper)
  BY <1>3, ProperStays
<1> QED
  BY <1>2, <1>3, <1>4, <1>5, <1>6 DEF JsonInv, JsonIsValid, Decided, Told

\* the verdict,
LEMMA JsonVerdictKeeps ==
  ASSUME JsonInv, vpc # "IDLE", EndValidate, ReadersReset, UNCHANGED asked
  PROVE  JsonInv'
<1>1. /\ ValidatorInv /\ vpc' = "IDLE" /\ UNCHANGED <<value, mode, asked>> /\ strict' = Start
      /\ v \in [err : Status, rootcount : Nat, maxdepth : Nat \cup {Unlimited}]
      /\ v' = [v EXCEPT !.err = Verdict]
  BY DEF JsonInv, ValidatorInv, ValidatorTypeOK, EndValidate, ReadersReset
<1>2. ValidatorInv'
  BY <1>1, VerdictKeeps
<1>3. Proper' <=> Proper
  BY <1>1, ProperStays
<1>4. JsonIsValid'
  <2>1. Proper => Verdict = "SUCCESS"
    BY ProperIsValid
  <2>2. Proper' => v'.err = "SUCCESS"
    BY <1>1, <1>3, <2>1
  <2>3. (/\ OneRoot(JsonRead)
         /\ asked # Unlimited => ValueDepth(JsonRead) <= asked
         /\ ValueDepth(JsonRead) + Wraps <= LevelsMax - 1
         /\ "VALUE_SINGLE" \in mode.flags => Cardinality(Elements(JsonRead)) = 1
         /\ "VALUE_PRIMITIVE" \in mode.flags =>
              \A i \in Elements(JsonRead) : InPrimitive(JsonRead[i])
         => v.err = "SUCCESS")'
    BY <2>2 DEF Proper
  <2> QED
    BY <2>3, Zenon DEF JsonIsValid, JsonRead
<1> QED
  BY <1>1, <1>2, <1>4 DEF JsonInv

\* JSON's reading begins where the grammar does.
LEMMA JsonReadStarts == ValidatorTypeOK => JsonRead[0] = Start
  BY WrappedFacts

\* a call,
LEMMA JsonAskKeeps ==
  ASSUME JsonInv, Ask
  PROVE  JsonInv'
<1>1. PICK bytes \in Values, maxdepth \in Depths, how \in Modes :
        Validate(bytes, maxdepth, how) /\ asked' = maxdepth
  BY DEF Ask
<1>2. /\ vpc = "IDLE" /\ vpc' = "PRE" /\ UNCHANGED <<jsnVars, readers>>
      /\ v' = [BlankValid EXCEPT !.maxdepth = Adjusted(maxdepth, how.parent)]
  BY <1>1 DEF Ask, Validate
<1>3. ValidatorInv'
  BY AskKeeps DEF JsonInv
<1>4. pos' = 0 /\ cb' = NoCallback /\ strict' = Start
  BY <1>2 DEF JsonInv, ValidatorInv, Resting, jsnVars, feedVars, readers
<1>5. JsonRead'[0] = Start
  <2>1. ValidatorTypeOK'
    BY <1>3 DEF ValidatorInv
  <2>2. (JsonRead[0] = Start)'
    BY <2>1, JsonReadStarts, PTL
  <2> QED
    BY <2>2
<1>6. v'.err = "SUCCESS"
  BY <1>2 DEF BlankValid
<1> QED
  BY <1>2, <1>3, <1>4, <1>5, <1>6 DEF JsonInv, JsonIsValid, Decided, Told

\* the caller who drops the verdict,
LEMMA JsonForgetKeeps ==
  ASSUME JsonInv, Forget
  PROVE  JsonInv'
<1>1. vpc = "IDLE" /\ vpc' = "IDLE" /\ asked' = NotAsked /\ strict' = strict
  BY DEF Forget, readers
<1>2. ValidatorInv'
  BY ForgetKeeps DEF JsonInv
<1> QED
  BY <1>1, <1>2 DEF JsonInv, JsonIsValid, Decided

\* and whoever changes nothing.
LEMMA JsonStutters ==
  ASSUME JsonInv, UNCHANGED clientValidateVars
  PROVE  JsonInv'
<1>1. UNCHANGED <<value, mode, v, vpc, asked, pos, cb, strict>>
  BY DEF clientValidateVars, validateVars, validatorVars, jsnVars, feedVars, readers
<1>2. ValidatorInv'
  BY ValidatorStutters DEF JsonInv
<1>3. JsonRead' = JsonRead /\ (Proper' <=> Proper) /\ Read' = Read /\ Begun(2)' = Begun(2)
  BY <1>1, ProperStays, BegunStays
<1>4. Told' <=> Told
  BY <1>1, <1>3 DEF Told
<1>5. JsonIsValid'
  <2>1. (Decided' <=> Decided) /\ Wraps' = Wraps /\ Wrapped' = Wrapped
    BY <1>1 DEF Decided, Wraps, Wrapped
  <2>2. /\ OneRoot(JsonRead)' <=> OneRoot(JsonRead)
        /\ Elements(JsonRead)' = Elements(JsonRead) /\ ValueDepth(JsonRead)' = ValueDepth(JsonRead)
    BY <1>3, <2>1 DEF OneRoot, Elements, AtDepth, Begins, ValueDepth
  <2>3. /\ OneRoot(Reading(TRUE, Wrapped))' <=> OneRoot(Reading(TRUE, Wrapped))
        /\ Elements(Reading(TRUE, Wrapped))' = Elements(Reading(TRUE, Wrapped))
        /\ ValueDepth(Reading(TRUE, Wrapped))' = ValueDepth(Reading(TRUE, Wrapped))
        /\ Reading(TRUE, Wrapped)' = Reading(TRUE, Wrapped)
    BY <1>3, <2>2, Zenon DEF JsonRead
  <2> QED
    BY <1>1, <2>1, <2>3, Zenon DEF JsonInv, JsonIsValid
<1> QED
  BY <1>1, <1>2, <1>3, <1>4, <1>5 DEF JsonInv
-----------------------------------------------------------------------------
(* A validator that begins at rest keeps the invariant with every step.    *)
LEMMA JsonInvInit == ClientInit => JsonInv
<1> SUFFICES ASSUME ClientInit PROVE JsonInv
  OBVIOUS
<1>1. ValidatorInv
  BY ValidatorInvInit
<1>2. vpc = "IDLE" /\ asked = NotAsked /\ strict = Start
  BY DEF ClientInit, ValidatorInit, ReadersInit
<1> QED
  BY <1>1, <1>2 DEF JsonInv, JsonIsValid, Decided

(* Every step, whoever takes it.                                           *)
LEMMA JsonInvStep == JsonInv /\ [ClientNext]_clientValidateVars => JsonInv'
<1> SUFFICES ASSUME JsonInv, [ClientNext]_clientValidateVars PROVE JsonInv'
  OBVIOUS
<1>1. CASE Ask
  BY <1>1, JsonAskKeeps
<1>2. CASE Forget
  BY <1>2, JsonForgetKeeps
<1>3. CASE Run
  <2>1. vpc # "IDLE" /\ asked' = asked
    BY <1>3 DEF Run, ExecValidate
  <2>2. CASE FeedPre \/ FeedValue \/ FeedPost
    <3>1. vpc' # "IDLE"
      BY <2>2 DEF FeedPre, FeedValue, FeedPost, FeedPart
    <3>2. ReadOn
      BY <1>3, <3>1 DEF Run
    <3> QED
      BY <2>1, <2>2, <3>2, JsonFeedKeeps
  <2>3. CASE EndValidate
    <3>1. ReadersReset
      BY <1>3, <2>3 DEF Run, EndValidate
    <3> QED
      BY <2>1, <2>3, <3>1, JsonVerdictKeeps
  <2>4. CASE ValidateLex
    <3>1. ReadOn
      BY <1>3, <2>1, <2>4 DEF Run, ValidateLex
    <3> QED
      BY <2>1, <2>4, <3>1, JsonLexKeeps
  <2>5. CASE cb # NoCallback /\ ValidateCallback
    <3>1. ReadOn
      BY <1>3, <2>1, <2>5 DEF Run, ValidateCallback
    <3> QED
      BY <2>1, <2>5, <3>1, JsonCallbackKeeps
  <2> QED
    BY <1>3, <2>2, <2>3, <2>4, <2>5 DEF Run, ExecValidate
<1>4. CASE UNCHANGED clientValidateVars
  BY <1>4, JsonStutters
<1> QED
  BY <1>1, <1>2, <1>3, <1>4 DEF ClientNext

(* validate() refuses no JSON value that respects the flags and the depth  *)
(* and has room in the stack, whatever it is: no symbol of it is an error  *)
(* to the lexer, even at the last level, no callback objects, and the two  *)
(* callbacks at level 1 have been counted when it ends.                    *)
THEOREM JsonIsAlwaysValid == ValidatorSpec => []JsonIsValid
<1>1. ValidatorSpec => []JsonInv
  BY JsonInvInit, JsonInvStep, PTL DEF ValidatorSpec
<1>2. JsonInv => JsonIsValid
  BY DEF JsonInv
<1> QED
  BY <1>1, <1>2, PTL
=============================================================================
