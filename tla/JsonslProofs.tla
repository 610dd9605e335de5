--------------------------- MODULE JsonslProofs ---------------------------
(***************************************************************************)
(* The theorems about the lexer: for every stack size, every text, every   *)
(* bound on it and every set of callback levels its state is well formed   *)
(* under every client, and what it accepts is between the two grammars.    *)
(*                                                                         *)
(* After them those about the keys it delivers: HashKey converts them as   *)
(* the decoder of HashKeyText reads them.  Both go through the key symbol  *)
(* by symbol, so that the proofs are inductions along it: for a key that   *)
(* is well formed, what has been written is what has been decoded, but for *)
(* the pair that is not complete (ConvertedTo); for one that is converted  *)
(* without an error, the escapes behind are well formed (TakenTo).         *)
(***************************************************************************)
EXTENDS LanguageSteps, JsonslLanguage, HashKeyText

(* Every step of the lexer, or of its client, keeps its invariant.         *)
LEMMA JsonslInvStep == JsonslInv /\ [JsonslNext]_jsnVars => JsonslInv'
<1> SUFFICES ASSUME JsonslInv, [JsonslNext]_jsnVars PROVE JsonslInv'
  OBVIOUS
<1>1. CASE Feed
  BY <1>1, FeedKeeps
<1>2. CASE Reset
  BY <1>2, ResetKeeps
<1>3. ASSUME NEW bytes \in Chunk, NEW maxLevel \in CallbackLevel, NEW keys \in BOOLEAN,
             CallFeed(bytes, maxLevel, keys)
      PROVE  JsonslInv'
  BY <1>3, ChunkAssumption, CallbackLevelAssumption, CallFeedKeeps
<1>4. ASSUME NEW stop \in BOOLEAN, NEW ignore \in BOOLEAN, NEW maxLevel \in CallbackLevel,
             Answer(stop, ignore, maxLevel)
      PROVE  JsonslInv'
  BY <1>4, CallbackLevelAssumption, AnswerKeeps
<1>5. CASE UNCHANGED jsnVars
  BY <1>5, StutterKeeps
<1> QED
  BY <1>1, <1>2, <1>3, <1>4, <1>5 DEF JsonslNext, AnyClient

(* The invariant holds for every client: whatever it feeds, whenever it    *)
(* stops, ignores, limits the callbacks or resets.                         *)
THEOREM JsonslInvariant == JsonslSpec => []JsonslInv
  BY JsonslInvInit, JsonslInvStep, PTL DEF JsonslSpec

(* Every field of the parser is one the code can read back, whatever the   *)
(* client does: the registers hold the tokens they are compared with, and  *)
(* level never leaves the stack jsonsl_new() allocated.                    *)
THEOREM TypesAlwaysHold == JsonslSpec => []JsonslTypeOK
<1>1. JsonslInv => JsonslTypeOK
  BY DEF JsonslInv
<1> QED
  BY <1>1, JsonslInvariant, PTL

(* What the clients rely on when they cut a document: under every client   *)
(* pos - pos_begin never wraps, since a state begins before the cursor, at *)
(* the symbol that opens it and inside its parent.                         *)
THEOREM StackAlwaysMirrorsText == JsonslSpec => []StackMirrorsText
<1>1. JsonslInv => StackMirrorsText
  BY DEF JsonslInv
<1> QED
  BY <1>1, JsonslInvariant, PTL

(* nelem / 2 - 1, the number push_callback() gives a member, is never less *)
(* than zero, and a key is open only where an object expects one.          *)
THEOREM KeysAlwaysPair == JsonslSpec => []KeysPairWithValues
<1>1. JsonslInv => KeysPairWithValues
  BY DEF JsonslInv
<1> QED
  BY <1>1, JsonslInvariant, PTL

(* Every callback finds the state it is about in the slot the client will  *)
(* read, and its parent, which has counted it, below.                      *)
THEOREM CallbacksSeeTheirState == JsonslSpec => []CallbackSeesItsState
<1>1. JsonslInv => CallbackSeesItsState
  BY DEF JsonslInv
<1> QED
  BY <1>1, JsonslInvariant, PTL

-----------------------------------------------------------------------------
(* The client TLC runs, which feeds what the recognisers read, is one of   *)
(* the clients above: whatever families of texts it is given.              *)
THEOREM LanguageIsClient == LanguageSpec => JsonslSpec
<1> DEFINE Inv == JsonslInv /\ family \in Families
<1>1. LanguageInit => JsonslInit /\ Inv
  BY JsonslInvInit DEF LanguageInit
<1>2. Inv /\ [LanguageNext]_languageVars => [JsonslNext]_jsnVars /\ (family \in Families)'
  <2> SUFFICES ASSUME Inv, [LanguageNext]_languageVars
               PROVE  [JsonslNext]_jsnVars /\ (family \in Families)'
    OBVIOUS
  <2>1. CASE FeedChunk
    <3>1. PICK bytes \in family.chunks, maxLevel \in family.levels, keys \in BOOLEAN :
            Fits(bytes) /\ CallFeed(bytes, maxLevel, keys)
      BY <2>1 DEF FeedChunk
    <3>2. /\ bytes \in Chunk /\ maxLevel \in CallbackLevel
          /\ family.longest \in Nat /\ family.longest <= MaxText
      BY FamiliesAssumption, MaxTextAssumption
    <3>3. Len(text) \in Nat /\ Len(bytes) \in Nat
      BY <3>2, ChunkAssumption, CursorFacts, LenProperties DEF JsonslInv
    <3>4. Len(text) + Len(bytes) <= MaxText
      BY <3>1, <3>2, <3>3, MaxTextAssumption DEF Fits
    <3> QED
      BY <2>1, <3>1, <3>2, <3>4 DEF FeedChunk, JsonslNext, AnyClient
  <2>2. CASE FeedStep
    BY <2>2 DEF FeedStep, FeedRead, JsonslNext
  <2>3. CASE AnswerCallback
    BY <2>3, FamiliesAssumption DEF AnswerCallback, JsonslNext, AnyClient
  <2>4. CASE Restart
    BY <2>4 DEF Restart, JsonslNext, AnyClient
  <2>5. CASE UNCHANGED languageVars
    BY <2>5 DEF languageVars
  <2> QED
    BY <2>1, <2>2, <2>3, <2>4, <2>5 DEF LanguageNext
<1>3. Inv /\ [LanguageNext]_languageVars => Inv'
  BY <1>2, JsonslInvStep
<1> QED
  BY <1>1, <1>2, <1>3, PTL DEF LanguageSpec, JsonslSpec
-----------------------------------------------------------------------------
(* The readers beside the lexer.                                           *)

\* The run begins in the invariant,
LEMMA LanguageInvInit == LanguageInit => LanguageInv
<1> SUFFICES ASSUME LanguageInit PROVE LanguageInv
  OBVIOUS
<1>1. JsonslInv
  BY JsonslInvInit DEF LanguageInit
<1>2. Coupled /\ StrictCoupled /\ Refused
  BY StartCouples DEF LanguageInit, ReadersInit, JsonslInit
<1> QED
  BY <1>1, <1>2 DEF LanguageInv

\* and every step of it keeps it.
LEMMA LanguageInvStep ==
  LanguageInv /\ family \in Families /\ [LanguageNext]_languageVars
    => LanguageInv' /\ (family \in Families)'
<1> SUFFICES ASSUME LanguageInv, family \in Families, [LanguageNext]_languageVars
             PROVE  LanguageInv' /\ (family \in Families)'
  OBVIOUS
<1>1. ASSUME NEW bytes \in family.chunks, NEW maxLevel \in family.levels, NEW keys \in BOOLEAN,
             CallFeed(bytes, maxLevel, keys), UNCHANGED readers
      PROVE  LanguageInv'
  BY <1>1, CallCouples, FamiliesAssumption, ChunkAssumption, CallbackLevelAssumption
<1>2. CASE FeedStep
  BY <1>2, FeedCouples DEF FeedStep
<1>3. ASSUME NEW stop \in BOOLEAN, NEW ignore \in BOOLEAN, NEW maxLevel \in family.levels,
             Answer(stop, ignore, maxLevel), UNCHANGED readers
      PROVE  LanguageInv'
  BY <1>3, AnswerCouples, FamiliesAssumption, CallbackLevelAssumption
<1>4. CASE Restart
  BY <1>4, ResetCouples DEF Restart
<1>5. CASE UNCHANGED languageVars
  BY <1>5, StutterCouples DEF languageVars, readers
<1> QED
  BY <1>1, <1>2, <1>3, <1>4, <1>5
  DEF LanguageNext, FeedChunk, AnswerCallback, FeedStep, Restart, languageVars

(* The lexer and the readers of the two grammars go through the text       *)
(* together: the stack is the reader's containers, the registers say where *)
(* between two symbols it is, and every error ends the JSON.               *)
THEOREM LanguageInvariant == LanguageSpec => []LanguageInv
<1> DEFINE Inv == LanguageInv /\ family \in Families
<1>1. LanguageInit => Inv
  BY LanguageInvInit DEF LanguageInit
<1>2. Inv /\ [LanguageNext]_languageVars => Inv'
  BY LanguageInvStep
<1> QED
  BY <1>1, <1>2, PTL DEF LanguageSpec

(* jsonsl_feed() never takes a symbol that breaks the loose language:      *)
(* whatever it is fed and in whatever chunks, inside an object keys,       *)
(* colons, values and commas alternate, every bracket closes the container *)
(* that is open, and every number ends in a digit.                         *)
THEOREM OnlyLooseIsAccepted == LanguageSpec => []AcceptsOnlyLoose
<1>1. LanguageInv => AcceptsOnlyLoose
  BY DEF LanguageInv, Coupled, Reader, AcceptsOnlyLoose, Viable
<1> QED
  BY <1>1, LanguageInvariant, PTL

(* The levels of the stack are the depths of the document: the containers  *)
(* opened and not yet closed, in their order, whatever the callbacks do.   *)
THEOREM StackIsAlwaysNesting == LanguageSpec => []StackIsNesting
<1>1. LanguageInv => StackIsNesting
  <2> SUFFICES ASSUME LanguageInv PROVE StackIsNesting
    OBVIOUS
  <2>1. /\ JsonslInv /\ loose.ctx \in Seq({"obj", "list"})
        /\ SameNesting(loose.ctx, stack, level)
    BY DEF LanguageInv, Coupled, Reader
  <2>2. /\ level \in Nat /\ Top.type \in Type /\ (Top.type = "ROOT" <=> level = 0)
    BY <2>1, LevelTypes DEF State
  <2>3. \A l \in 1 .. level - 1 : stack[l].type \in Container
    BY <2>1, <2>2 DEF JsonslInv, StackMirrorsText
  <2>4. Len(loose.ctx) = (IF Top.type \in Container \cup {"ROOT"} THEN level ELSE level - 1)
        /\ \A l \in 1 .. Len(loose.ctx) : loose.ctx[l] = KindOf(stack[l].type)
    BY <2>1 DEF SameNesting, Top
  <2>5. Nesting = 1 .. Len(loose.ctx)
    <3>1. CASE Top.type \in Container
      <4>1. \A l \in 1 .. level : stack[l].type \in Container
        BY <2>2, <2>3, <3>1 DEF Top
      <4> QED
        BY <2>4, <3>1, <4>1 DEF Nesting
    <3>2. CASE Top.type = "ROOT"
      BY <2>2, <2>4, <3>2 DEF Nesting
    <3>3. CASE Top.type \notin Container \cup {"ROOT"}
      <4>1. stack[level].type \notin Container
        BY <3>3 DEF Top
      <4> QED
        BY <2>2, <2>3, <2>4, <3>3, <4>1 DEF Nesting
    <3> QED
      BY <3>1, <3>2, <3>3
  <2> QED
    BY <2>4, <2>5 DEF StackIsNesting, KindOf
<1> QED
  BY <1>1, LanguageInvariant, PTL

(* While what has been read is JSON, an object's element count is odd      *)
(* exactly between a key and the first symbol of its value: nelem / 2      *)
(* numbers the members the matcher compares.                               *)
THEOREM CountsAlwaysAgree == LanguageSpec => []CountsAgree
<1>1. LanguageInv => CountsAgree
  <2> SUFFICES ASSUME LanguageInv, Top.type = "OBJECT", Viable(strict)
               PROVE  Top.nelem % 2 = 1 <=> strict.at \in {"colon", "value"}
    BY DEF CountsAgree
  <2>1. strict = loose /\ Place(Facing(loose)) /\ loose \in Reader
    BY DEF LanguageInv, Coupled, StrictCoupled
  <2>2. AmongMembers(Facing(loose))
    BY <2>1 DEF Place
  <2>3. Top.nelem % 2 = 1 <=> Facing(loose).at \in {"colon", "value"}
    <3>1. Top.nelem % 2 = 0 => Top.nelem % 2 # 1
      OBVIOUS
    <3> QED
      BY <2>2, <3>1 DEF AmongMembers
  <2>4. Facing(loose).at \in {"colon", "value"} <=> loose.at \in {"colon", "value"}
    <3>1. CASE label = "STRUCTURAL"
      BY <2>1, <3>1, AfterValueType DEF Facing, LanguageInv, Coupled, Pending
    <3>2. CASE label # "STRUCTURAL"
      BY <3>2 DEF Facing
    <3> QED
      BY <3>1, <3>2
  <2> QED
    BY <2>1, <2>3, <2>4
<1> QED
  BY <1>1, LanguageInvariant, PTL

(* jsonsl_feed() refuses no JSON: where it reports an error the symbol     *)
(* cannot continue any JSON text, or the text nests deeper than the stack  *)
(* that jsonsl_new() was asked for.                                        *)
THEOREM JsonIsAccepted == LanguageSpec => []AcceptsJson
<1>1. LanguageInv => AcceptsJson
  BY DEF LanguageInv, Refused, AcceptsJson
<1> QED
  BY <1>1, LanguageInvariant, PTL

-----------------------------------------------------------------------------
(* Keys: what is defined from one symbol to the next. *)

(* A set of numbers that holds 0 and with each number the next one. *)
LEMMA AllAlong ==
  ASSUME NEW n \in Nat, NEW S, 0 \in S, \A i \in 1 .. n : i - 1 \in S => i \in S
  PROVE  0 .. n \subseteq S
<1> SUFFICES ASSUME ~(0 .. n \subseteq S) PROVE FALSE
  OBVIOUS
<1> DEFINE T == {i \in Nat : i <= n /\ i \notin S}
<1>1. PICK k \in T : \A j \in T : k <= j
  <2>1. T \in SUBSET Nat /\ T # {}
    OBVIOUS
  <2> HIDE DEF T
  <2> QED
    BY <2>1, Smallest
<1>2. k \in 1 .. n /\ k - 1 \notin T
  BY <1>1
<1>3. k - 1 \in S
  BY <1>2
<1> QED
  BY <1>1, <1>2, <1>3

(* A fold: what n functions make of a value, one after the other. *)
Steps(n, V) == [1 .. n -> [V -> V]]
Folds(f, n, V, first, next) ==
  f \in [0 .. n -> V] /\ f[0] = first /\ \A i \in 1 .. n : f[i] = next[i][f[i - 1]]

(* There is a fold of as many steps as one likes. *)
LEMMA FoldExists ==
  ASSUME NEW n \in Nat, NEW V, NEW first \in V, NEW next \in Steps(n, V)
  PROVE  \E f : Folds(f, n, V, first, next)
<1> DEFINE FoldsTo(f, k) == f[0] = first /\ \A i \in 1 .. k : f[i] = next[i][f[i - 1]]
           S == {k \in 0 .. n : \E f \in [0 .. k -> V] : FoldsTo(f, k)}
<1>1. 0 \in S
  <2>1. PICK f \in [0 .. 0 -> V] : f = [i \in 0 .. 0 |-> first]
    OBVIOUS
  <2>2. f[0] = first
    BY <2>1
  <2>3. FoldsTo(f, 0)
    BY <2>2
  <2> QED
    BY <2>1, <2>3
<1>2. ASSUME NEW k \in 1 .. n, k - 1 \in S PROVE k \in S
  <2>1. PICK f \in [0 .. k - 1 -> V] : FoldsTo(f, k - 1)
    BY <1>2
  <2> DEFINE g == [i \in 0 .. k |-> IF i = k THEN next[k][f[k - 1]] ELSE f[i]]
  <2>2. f[k - 1] \in V /\ next[k] \in [V -> V]
    BY <1>2, <2>1 DEF Steps
  <2>3. g \in [0 .. k -> V]
    BY <2>1, <2>2
  <2>4. FoldsTo(g, k)
    BY <2>1
  <2>5. k \in 0 .. n
    OBVIOUS
  <2> HIDE DEF g, FoldsTo
  <2> QED
    BY <2>3, <2>4, <2>5
<1>3. n \in S
  <2> HIDE DEF S
  <2>1. 0 .. n \subseteq S
    BY <1>1, <1>2, AllAlong
  <2> QED
    BY <2>1
<1> QED
  BY <1>3 DEF Folds

-----------------------------------------------------------------------------
(* The conversion of a key, symbol by symbol. *)

Unescaped == {"A", "a", Quote, Bslash, ClefChar}
Letters == STRING \cup Unescaped
Statuses == {"SUCCESS", "INVALID_HEXCHARS", "EMBEDDED_NUL", "INVALID_SURROGATE", "INVALID_CODEPOINT"}
Conversions == [out : Seq(Letters), last : {"none", HighUnit}, status : Statuses, skip : 0 .. 2]

Conversion ==
  LET after[i \in 0 .. Len(key)] ==
        IF i = 0 THEN Converting ELSE ConvertStep(after[i - 1], key, i)
  IN  after

LEMMA ConvertStepIn ==
  ASSUME key \in Seq(STRING), NEW c \in Conversions, NEW i \in 1 .. Len(key)
  PROVE  ConvertStep(c, key, i) \in Conversions
<1>1. Len(key) \in Nat /\ key[i] \in Letters
  BY LenProperties, ElementOfSeq DEF Letters
<1>2. c.out \in Seq(Letters) /\ c.last \in {"none", HighUnit} /\ c.status \in Statuses /\ c.skip \in 0 .. 2
  BY DEF Conversions
<1>3. Append(c.out, key[i]) \in Seq(Letters) /\ Append(c.out, ClefChar) \in Seq(Letters)
  BY <1>1, <1>2, AppendProperties DEF Letters, Unescaped
<1>4. \A unit \in BasicUnit : Append(c.out, BasicChar(unit)) \in Seq(Letters)
  <2> TAKE unit \in BasicUnit
  <2>1. BasicChar(unit) \in Letters
    BY DEF BasicUnit, BasicChar, Letters, Unescaped
  <2> QED
    BY <1>2, <2>1, AppendProperties
<1>5. [c EXCEPT !.out = Append(@, key[i])] \in Conversions
  BY <1>3 DEF Conversions
<1>6. c.skip > 0 => [c EXCEPT !.skip = @ - 1] \in Conversions
  <2>1. c.skip > 0 => c.skip - 1 \in 0 .. 2
    BY <1>2
  <2> QED
    BY <2>1 DEF Conversions
<1>7. ASSUME NEW unit PROVE HandleUescape(c, unit) \in Conversions
  <2>1. \A s \in Statuses : [c EXCEPT !.status = s] \in Conversions
    BY DEF Conversions
  <2>2. [c EXCEPT !.out = Append(@, ClefChar), !.last = "none", !.skip = 2] \in Conversions
    <3>1. PICK d : d = [c EXCEPT !.out = Append(@, ClefChar), !.last = "none", !.skip = 2]
      OBVIOUS
    <3>2. d.out = Append(c.out, ClefChar) /\ d.last = "none" /\ d.status = c.status /\ d.skip = 2
      BY <3>1 DEF Conversions
    <3>3. d = [out |-> d.out, last |-> d.last, status |-> d.status, skip |-> d.skip]
      BY <3>1 DEF Conversions
    <3> QED
      BY SMTT(30), <1>2, <1>3, <3>1, <3>2, <3>3 DEF Conversions
  <2>3. [c EXCEPT !.last = HighUnit, !.skip = 2] \in Conversions
    <3>1. PICK d : d = [c EXCEPT !.last = HighUnit, !.skip = 2]
      OBVIOUS
    <3>2. d.out = c.out /\ d.last = HighUnit /\ d.status = c.status /\ d.skip = 2
      BY <3>1 DEF Conversions
    <3>3. d = [out |-> d.out, last |-> d.last, status |-> d.status, skip |-> d.skip]
      BY <3>1 DEF Conversions
    <3> QED
      BY <1>2, <3>1, <3>2, <3>3 DEF Conversions
  <2>4. unit \in BasicUnit => [c EXCEPT !.out = Append(@, BasicChar(unit)), !.skip = 2] \in Conversions
    <3>1. PICK d : d = [c EXCEPT !.out = Append(@, BasicChar(unit)), !.skip = 2]
      OBVIOUS
    <3>2. d.out = Append(c.out, BasicChar(unit)) /\ d.last = c.last /\ d.status = c.status /\ d.skip = 2
      BY <3>1 DEF Conversions
    <3>3. d = [out |-> d.out, last |-> d.last, status |-> d.status, skip |-> d.skip]
      BY <3>1 DEF Conversions
    <3> QED
      BY SMTT(30), <1>2, <1>4, <3>1, <3>2, <3>3 DEF Conversions
  <2>5. /\ "INVALID_HEXCHARS" \in Statuses /\ "EMBEDDED_NUL" \in Statuses
        /\ "INVALID_SURROGATE" \in Statuses /\ "INVALID_CODEPOINT" \in Statuses
    BY DEF Statuses
  <2> HIDE DEF Conversions
  <2> QED
    BY <2>1, <2>2, <2>3, <2>4, <2>5 DEF HandleUescape, Quad
<1>8. PICK unit : unit = IF i + 2 <= Len(key) THEN key[i + 2] ELSE "none"
  OBVIOUS
<1> QED
  BY <1>5, <1>6, <1>7, <1>8 DEF ConvertStep

LEMMA ConversionFacts ==
  ASSUME key \in Seq(STRING)
  PROVE  /\ Conversion[0] = Converting
         /\ \A i \in 1 .. Len(key) : Conversion[i] = ConvertStep(Conversion[i - 1], key, i)
         /\ \A i \in 0 .. Len(key) : Conversion[i] \in Conversions
<1> DEFINE n == Len(key)
           next == [i \in 1 .. n |-> [v \in Conversions |-> ConvertStep(v, key, i)]]
<1>1. n \in Nat
  BY LenProperties
<1>2. next \in Steps(n, Conversions)
  BY ConvertStepIn DEF Steps
<1>3. Converting \in Conversions
  <2>1. <<>> \in Seq(Letters)
    BY EmptySeq
  <2> QED
    BY <2>1 DEF Converting, Conversions, Statuses
<1>4. PICK f : Folds(f, n, Conversions, Converting, next)
  <2> HIDE DEF next, n
  <2> QED
    BY <1>1, <1>2, <1>3, FoldExists
<1>5. f \in [0 .. n -> Conversions] /\ f[0] = Converting
  BY <1>4 DEF Folds
<1>6. \A i \in 1 .. n : f[i - 1] \in Conversions
  <2> HIDE DEF n
  <2> QED
    BY <1>1, <1>5
<1>7. \A i \in 1 .. n : f[i] = ConvertStep(f[i - 1], key, i)
  <2>1. \A i \in 1 .. n : f[i] = next[i][f[i - 1]]
    BY <1>4 DEF Folds
  <2> QED
    BY <1>6, <2>1
<1>8. f = [i \in 0 .. n |-> IF i = 0 THEN Converting ELSE ConvertStep(f[i - 1], key, i)]
  <2> HIDE DEF n
  <2>1. \A i \in 0 .. n : f[i] = IF i = 0 THEN Converting ELSE ConvertStep(f[i - 1], key, i)
    <3> TAKE i \in 0 .. n
    <3>1. i = 0 \/ i \in 1 .. n
      BY <1>1
    <3> QED
      BY <1>1, <1>5, <1>7, <3>1
  <2>2. f = [i \in 0 .. n |-> f[i]]
    BY <1>5
  <2> QED
    BY <2>1, <2>2
<1>9. Conversion = [i \in 0 .. n |-> IF i = 0 THEN Converting ELSE ConvertStep(Conversion[i - 1], key, i)]
  BY <1>8, Zenon DEF Conversion
<1>10. PICK g : /\ g = Conversion
                /\ g = [i \in 0 .. n |-> IF i = 0 THEN Converting ELSE ConvertStep(g[i - 1], key, i)]
  BY <1>9
<1>11. g[0] = Converting /\ \A i \in 1 .. n : g[i] = ConvertStep(g[i - 1], key, i)
  <2> HIDE DEF n
  <2>1. \A i \in 0 .. n : g[i] = IF i = 0 THEN Converting ELSE ConvertStep(g[i - 1], key, i)
    BY <1>10
  <2> QED
    BY <1>1, <2>1
<1>12. 0 .. n \subseteq {i \in 0 .. n : g[i] \in Conversions}
  <2> DEFINE S == {i \in 0 .. n : g[i] \in Conversions}
  <2>1. 0 \in S
    BY <1>1, <1>3, <1>11
  <2>2. ASSUME NEW i \in 1 .. n, i - 1 \in S PROVE i \in S
    <3>1. g[i - 1] \in Conversions
      BY <2>2
    <3>2. PICK c \in Conversions : c = g[i - 1]
      BY <3>1
    <3>3. ConvertStep(c, key, i) \in Conversions
      BY ConvertStepIn
    <3>4. g[i] \in Conversions
      BY <1>11, <3>2, <3>3
    <3> QED
      BY <1>1, <3>4
  <2> HIDE DEF S, n
  <2> QED
    BY <1>1, <2>1, <2>2, AllAlong DEF S
<1> QED
  BY <1>10, <1>11, <1>12

-----------------------------------------------------------------------------
(* Escapes. *)

(* The first of its symbols is no backslash after another. *)
LEMMA FirstOpens == ASSUME key \in Seq(STRING), Len(key) > 0, key[1] = Bslash PROVE EscapeAt(1)
<1>1. Len(SubSeq(key, 1, 0)) = 0
  BY LenProperties, SubSeqProperties
<1> QED
  BY <1>1 DEF EscapeAt, InEscape

(* What convert() takes for a \u escape is one, unless it only looks so. *)
LEMMA EscapeIsSeen ==
  ASSUME key \in Seq(STRING), ~LooksEscaped, NEW i \in 1 .. Len(key)
  PROVE  IsUescape(key, i) <=> i \in UEscapes
<1>1. Len(key) \in Nat
  BY LenProperties
<1>2. ASSUME IsUescape(key, i) PROVE i \in UEscapes
  <2>1. i \in 1 .. Len(key) - 1 /\ key[i] = Bslash /\ key[i + 1] = "u"
    BY <1>1, <1>2 DEF IsUescape
  <2>2. EscapeAt(i)
    <3>1. CASE i = 1
      BY <1>1, <2>1, <3>1, FirstOpens
    <3>2. CASE i # 1
      BY <1>1, <2>1, <3>2 DEF LooksEscaped
    <3> QED
      BY <3>1, <3>2
  <2> QED
    BY <2>1, <2>2 DEF UEscapes
<1>3. ASSUME i \in UEscapes PROVE IsUescape(key, i)
  BY <1>1, <1>3 DEF UEscapes, IsUescape, EscapeAt
<1> QED
  BY <1>2, <1>3

(* What follows the u is the unit of the escape. *)
LEMMA UnitOf ==
  ASSUME key \in Seq(STRING), NEW i \in UEscapes
  PROVE  UnitAt(i) = IF i + 2 <= Len(key) THEN key[i + 2] ELSE "none"
<1>1. Len(key) \in Nat
  BY LenProperties
<1>2. i \in 1 .. Len(key) - 1 /\ EscapeAt(i) /\ key[i + 1] = "u"
  BY DEF UEscapes
<1>3. i + 2 \in 1 .. Len(key) <=> i + 2 <= Len(key)
  BY <1>1, <1>2
<1> QED
  BY <1>2, <1>3 DEF UnitAt

LEMMA UnitHasEscape ==
  ASSUME key \in Seq(STRING), NEW i \in Nat, i # 0, UnitAt(i) # "none"
  PROVE  i \in UEscapes /\ i + 2 <= Len(key)
<1>1. Len(key) \in Nat
  BY LenProperties
<1>2. i + 2 \in 1 .. Len(key) /\ EscapeAt(i) /\ key[i + 1] = "u"
  BY DEF UnitAt
<1> QED
  BY <1>1, <1>2 DEF UEscapes

(* Escapes that have four digits do not overlap. *)
LEMMA EscapesApart ==
  ASSUME key \in Seq(STRING), NEW i \in UEscapes, UnitAt(i) \in Quad
  PROVE  i + 2 <= Len(key) /\ i + 1 \notin UEscapes /\ i + 2 \notin UEscapes
<1>1. Len(key) \in Nat
  BY LenProperties
<1>2. UnitAt(i) # "none" /\ UnitAt(i) # Bslash
  BY DEF Quad, BasicUnit, NulUnit, HighUnit, LowUnit, Bslash
<1>3. i + 2 <= Len(key) /\ key[i + 2] # Bslash
  BY <1>2, UnitOf
<1>4. key[i + 1] = "u"
  BY DEF UEscapes
<1>5. "u" # Bslash
  BY DEF Bslash
<1> QED
  BY <1>3, <1>4, <1>5 DEF UEscapes, EscapeAt

(* The units that convert() writes something for are digits. *)
LEMMA UnitIsQuad ==
  ASSUME NEW i, UnitAt(i) \in BasicUnit \cup {HighUnit, LowUnit}
  PROVE  UnitAt(i) \in Quad /\ UnitAt(i) # "none"
  BY DEF Quad, BasicUnit, HighUnit, LowUnit

-----------------------------------------------------------------------------
(* What the decoder makes of a symbol, and of all up to it. *)
Piece(i) ==
  IF i \in UEscapes /\ BecomesUnit(i) THEN <<BasicChar(UnitAt(i))>>
  ELSE IF i \in UEscapes /\ BecomesPair(i) THEN <<ClefChar>>
  ELSE IF \E j \in UEscapes : i \in j .. j + 2 THEN <<>>
  ELSE <<key[i]>>

Pieces ==
  LET upTo[i \in 0 .. Len(key)] == IF i = 0 THEN <<>> ELSE upTo[i - 1] \o Piece(i)
  IN  upTo

LEMMA PieceIn ==
  ASSUME key \in Seq(STRING), NEW i \in 1 .. Len(key)
  PROVE  Piece(i) \in Seq(Letters)
<1>1. key[i] \in Letters
  BY LenProperties, ElementOfSeq DEF Letters
<1>2. \A unit \in BasicUnit : BasicChar(unit) \in Letters
  BY DEF BasicUnit, BasicChar, Letters, Unescaped
<1>3. ClefChar \in Letters
  BY DEF Letters, Unescaped
<1>4. \A ch \in Letters : <<ch>> \in Seq(Letters)
  OBVIOUS
<1>5. <<>> \in Seq(Letters)
  BY EmptySeq
<1>6. BecomesUnit(i) => <<BasicChar(UnitAt(i))>> \in Seq(Letters)
  BY <1>2, <1>4 DEF BecomesUnit
<1>7. <<ClefChar>> \in Seq(Letters) /\ <<key[i]>> \in Seq(Letters)
  BY <1>1, <1>3, <1>4
<1> QED
  BY <1>5, <1>6, <1>7 DEF Piece

LEMMA PiecesFacts ==
  ASSUME key \in Seq(STRING)
  PROVE  /\ Decoded = Pieces[Len(key)]
         /\ Pieces[0] = <<>>
         /\ \A i \in 1 .. Len(key) : Pieces[i] = Pieces[i - 1] \o Piece(i)
         /\ \A i \in 0 .. Len(key) : Pieces[i] \in Seq(Letters)
<1> DEFINE n == Len(key)
           V == Seq(Letters)
           next == [i \in 1 .. n |-> [v \in V |-> v \o Piece(i)]]
<1>1. n \in Nat
  BY LenProperties
<1>2. next \in Steps(n, V)
  <2>1. \A i \in 1 .. n : \A v \in V : v \o Piece(i) \in V
    BY PieceIn, ConcatProperties
  <2> HIDE DEF V, n
  <2> QED
    BY <2>1 DEF Steps
<1>3. <<>> \in V
  BY EmptySeq
<1>4. PICK f : Folds(f, n, V, <<>>, next)
  <2> HIDE DEF next, n, V
  <2> QED
    BY <1>1, <1>2, <1>3, FoldExists
<1>5. f \in [0 .. n -> V] /\ f[0] = <<>>
  BY <1>4 DEF Folds
<1>6. \A i \in 1 .. n : f[i - 1] \in V
  <2> HIDE DEF n, V
  <2> QED
    BY <1>1, <1>5
<1>7. \A i \in 1 .. n : f[i] = f[i - 1] \o Piece(i)
  <2>1. \A i \in 1 .. n : f[i] = next[i][f[i - 1]]
    BY <1>4 DEF Folds
  <2> HIDE DEF V
  <2> QED
    BY <1>6, <2>1
<1>8. f = [i \in 0 .. n |-> IF i = 0 THEN <<>> ELSE f[i - 1] \o Piece(i)]
  <2> HIDE DEF n, V
  <2>1. \A i \in 0 .. n : f[i] = IF i = 0 THEN <<>> ELSE f[i - 1] \o Piece(i)
    <3> TAKE i \in 0 .. n
    <3>1. i = 0 \/ i \in 1 .. n
      BY <1>1
    <3> QED
      BY <1>1, <1>5, <1>7, <3>1
  <2>2. f = [i \in 0 .. n |-> f[i]]
    BY <1>5
  <2> QED
    BY <2>1, <2>2
<1>9. Pieces = [i \in 0 .. n |-> IF i = 0 THEN <<>> ELSE Pieces[i - 1] \o Piece(i)]
  BY <1>8, Zenon DEF Pieces
<1>10. PICK g : /\ g = Pieces
                /\ g = [i \in 0 .. n |-> IF i = 0 THEN <<>> ELSE g[i - 1] \o Piece(i)]
  BY <1>9
<1>11. g[0] = <<>> /\ \A i \in 1 .. n : g[i] = g[i - 1] \o Piece(i)
  <2> HIDE DEF n
  <2>1. \A i \in 0 .. n : g[i] = IF i = 0 THEN <<>> ELSE g[i - 1] \o Piece(i)
    BY <1>10
  <2>2. g[0] = <<>>
    BY <1>1, <2>1
  <2>3. \A i \in 1 .. n : i # 0 /\ i \in 0 .. n
    BY <1>1
  <2> QED
    BY <2>1, <2>2, <2>3, Zenon
<1>12. 0 .. n \subseteq {i \in 0 .. n : g[i] \in V}
  <2> DEFINE S == {i \in 0 .. n : g[i] \in V}
  <2>1. 0 \in S
    <3>1. 0 \in 0 .. n
      BY <1>1
    <3> HIDE DEF V, n
    <3> QED
      BY <1>3, <1>11, <3>1
  <2>2. ASSUME NEW i \in 1 .. n, i - 1 \in S PROVE i \in S
    <3>1. PICK v \in V : v = g[i - 1]
      BY <2>2
    <3>2. v \o Piece(i) \in V
      BY PieceIn, ConcatProperties
    <3>3. g[i] \in V
      BY <1>11, <3>1, <3>2
    <3> QED
      BY <1>1, <3>3
  <2> HIDE DEF S, n, V
  <2> QED
    BY <1>1, <2>1, <2>2, AllAlong DEF S
<1>13. Decoded = Pieces[n]
  BY Zenon DEF Decoded, Pieces, Piece
<1> QED
  BY <1>10, <1>11, <1>12, <1>13

-----------------------------------------------------------------------------
(* A turn of convert(). *)

IsConversion(c, out, last, status, skip) ==
  c.out = out /\ c.last = last /\ c.status = status /\ c.skip = skip

LEMMA PlainTurn ==
  ASSUME key \in Seq(STRING), ~LooksEscaped, NEW c \in Conversions, NEW i \in 1 .. Len(key),
         c.status = "SUCCESS", c.skip = 0, i \notin UEscapes
  PROVE  IsConversion(ConvertStep(c, key, i), Append(c.out, key[i]), c.last, "SUCCESS", 0)
<1>1. ~IsUescape(key, i)
  BY EscapeIsSeen
<1>2. ConvertStep(c, key, i) = [c EXCEPT !.out = Append(@, key[i])]
  BY <1>1 DEF ConvertStep
<1> QED
  BY <1>2 DEF IsConversion, Conversions

LEMMA SkippingTurn ==
  ASSUME NEW c \in Conversions, NEW i, c.status = "SUCCESS", c.skip > 0
  PROVE  IsConversion(ConvertStep(c, key, i), c.out, c.last, "SUCCESS", c.skip - 1)
<1>1. ConvertStep(c, key, i) = [c EXCEPT !.skip = @ - 1]
  BY DEF ConvertStep
<1> QED
  BY <1>1 DEF IsConversion, Conversions

LEMMA EscapeTurn ==
  ASSUME key \in Seq(STRING), ~LooksEscaped, NEW c \in Conversions, NEW i \in UEscapes,
         c.status = "SUCCESS", c.skip = 0
  PROVE  ConvertStep(c, key, i) = HandleUescape(c, UnitAt(i))
<1>1. i \in 1 .. Len(key)
  BY LenProperties DEF UEscapes
<1>2. IsUescape(key, i)
  BY <1>1, EscapeIsSeen
<1>3. UnitAt(i) = IF i + 2 <= Len(key) THEN key[i + 2] ELSE "none"
  BY UnitOf
<1> QED
  BY <1>2, <1>3 DEF ConvertStep

(* handle_uescape() takes a unit that stands for itself, or a pair. *)
LEMMA BasicTaken ==
  ASSUME NEW c \in Conversions, c.status = "SUCCESS", c.last = "none", NEW unit \in BasicUnit
  PROVE  IsConversion(HandleUescape(c, unit), Append(c.out, BasicChar(unit)), "none", "SUCCESS", 2)
<1>1. unit \in Quad /\ unit # NulUnit /\ unit # HighUnit /\ unit # LowUnit
  BY DEF Quad, BasicUnit, NulUnit, HighUnit, LowUnit
<1>2. HandleUescape(c, unit) = [c EXCEPT !.out = Append(@, BasicChar(unit)), !.skip = 2]
  BY <1>1 DEF HandleUescape
<1>3. PICK out : out = Append(c.out, BasicChar(unit))
  OBVIOUS
<1>4. PICK d : d = [c EXCEPT !.out = out, !.skip = 2]
  OBVIOUS
<1>5. d.out = out /\ d.last = "none" /\ d.status = "SUCCESS" /\ d.skip = 2
  BY <1>4 DEF Conversions
<1>6. d = HandleUescape(c, unit)
  BY <1>2, <1>3, <1>4
<1> QED
  BY <1>3, <1>5, <1>6 DEF IsConversion

LEMMA HighTaken ==
  ASSUME NEW c \in Conversions, c.status = "SUCCESS", c.last = "none"
  PROVE  IsConversion(HandleUescape(c, HighUnit), c.out, HighUnit, "SUCCESS", 2)
<1>1. HighUnit \in Quad /\ HighUnit # NulUnit
  BY DEF Quad, NulUnit, HighUnit
<1>2. HandleUescape(c, HighUnit) = [c EXCEPT !.last = HighUnit, !.skip = 2]
  BY <1>1 DEF HandleUescape
<1> QED
  BY <1>2 DEF IsConversion, Conversions

LEMMA LowTaken ==
  ASSUME NEW c \in Conversions, c.status = "SUCCESS", c.last # "none"
  PROVE  IsConversion(HandleUescape(c, LowUnit), Append(c.out, ClefChar), "none", "SUCCESS", 2)
<1>1. LowUnit \in Quad /\ LowUnit # NulUnit
  BY DEF Quad, NulUnit, LowUnit
<1>2. HandleUescape(c, LowUnit) = [c EXCEPT !.out = Append(@, ClefChar), !.last = "none", !.skip = 2]
  BY <1>1 DEF HandleUescape
<1>3. PICK out : out = Append(c.out, ClefChar)
  OBVIOUS
<1>4. PICK d : d = [c EXCEPT !.out = out, !.last = "none", !.skip = 2]
  OBVIOUS
<1>5. d.out = out /\ d.last = "none" /\ d.status = "SUCCESS" /\ d.skip = 2
  BY <1>4 DEF Conversions
<1>6. d = HandleUescape(c, LowUnit)
  BY <1>2, <1>3, <1>4
<1> QED
  BY <1>3, <1>5, <1>6 DEF IsConversion

(* It takes nothing else. *)
LEMMA OthersRefused ==
  ASSUME NEW c \in Conversions, NEW unit, HandleUescape(c, unit).status = "SUCCESS"
  PROVE  \/ c.last = "none" /\ (unit \in BasicUnit \/ unit = HighUnit)
         \/ c.last # "none" /\ unit = LowUnit
<1>1. /\ [c EXCEPT !.status = "INVALID_HEXCHARS"].status # "SUCCESS"
      /\ [c EXCEPT !.status = "EMBEDDED_NUL"].status # "SUCCESS"
      /\ [c EXCEPT !.status = "INVALID_SURROGATE"].status # "SUCCESS"
      /\ [c EXCEPT !.status = "INVALID_CODEPOINT"].status # "SUCCESS"
  BY DEF Conversions
<1>2. unit \in Quad
  BY <1>1 DEF HandleUescape
<1>3. unit # NulUnit
  BY <1>1, <1>2 DEF HandleUescape
<1>4. c.last # "none" => unit = LowUnit
  BY <1>1, <1>2, <1>3 DEF HandleUescape
<1>5. c.last = "none" => unit # LowUnit
  <2>1. LowUnit # HighUnit
    BY DEF LowUnit, HighUnit
  <2> QED
    BY <1>1, <1>2, <1>3, <2>1 DEF HandleUescape
<1> QED
  BY <1>2, <1>3, <1>4, <1>5 DEF Quad

(* An error stays. *)
LEMMA ErrorTurn ==
  ASSUME NEW c, NEW i, c.status # "SUCCESS"
  PROVE  ConvertStep(c, key, i) = c
  BY DEF ConvertStep

-----------------------------------------------------------------------------
(* Pairs. *)

(* Before the second half of a pair that has begun. *)
PairOpen(i) == \E j \in UEscapes : BecomesPair(j) /\ j <= i /\ i <= j + 2

(* The units of a key that is well formed; escapes leave room for them. *)
LEMMA WellFormedUnits ==
  ASSUME key \in Seq(STRING), WellFormed, NEW i \in UEscapes
  PROVE  /\ i \in 1 .. Len(key) - 1 /\ i + 2 <= Len(key)
         /\ UnitAt(i) \in BasicUnit \cup {HighUnit, LowUnit}
         /\ \A j \in UEscapes : j # i => j < i - 2 \/ i + 2 < j
<1>1. Len(key) \in Nat /\ i \in 1 .. Len(key) - 1 /\ \A j \in UEscapes : j \in 1 .. Len(key) - 1
  BY LenProperties DEF UEscapes
<1>2. \A j \in UEscapes : UnitAt(j) \in BasicUnit \cup {HighUnit, LowUnit}
  BY DEF WellFormed, BecomesUnit, BecomesPair, EndsPair
<1>3. \A j \in UEscapes : j + 2 <= Len(key) /\ j + 1 \notin UEscapes /\ j + 2 \notin UEscapes
  BY <1>2, UnitIsQuad, EscapesApart
<1>4. ASSUME NEW j \in UEscapes, j # i PROVE j < i - 2 \/ i + 2 < j
  <2>1. i # j + 1 /\ i # j + 2 /\ j # i + 1 /\ j # i + 2
    BY <1>3
  <2> QED
    BY <1>1, <1>4, <2>1
<1> QED
  BY <1>1, <1>2, <1>3, <1>4

LEMMA UnitsDiffer ==
  /\ HighUnit # LowUnit /\ HighUnit \notin BasicUnit /\ LowUnit \notin BasicUnit
  /\ HighUnit # "none" /\ LowUnit # "none"
  BY DEF HighUnit, LowUnit, BasicUnit

LEMMA PairNext ==
  ASSUME key \in Seq(STRING), NEW j \in UEscapes, BecomesPair(j)
  PROVE  j + 3 \in UEscapes /\ j + 5 <= Len(key) /\ UnitAt(j + 3) = LowUnit
<1>1. j \in Nat /\ UnitAt(j + 3) = LowUnit
  BY LenProperties DEF UEscapes, BecomesPair
<1>2. PICK k \in Nat : k = j + 3 /\ k # 0
  BY <1>1
<1>3. UnitAt(k) # "none"
  BY <1>1, <1>2, UnitsDiffer
<1>4. k \in UEscapes /\ k + 2 <= Len(key)
  BY <1>2, <1>3, UnitHasEscape
<1> QED
  BY <1>1, <1>2, <1>4

(* At an escape. *)
LEMMA PairAtEscape ==
  ASSUME key \in Seq(STRING), WellFormed, NEW i \in UEscapes
  PROVE  /\ BecomesPair(i) => PairOpen(i)
         /\ PairOpen(i) => BecomesPair(i)
         /\ PairOpen(i - 1) => UnitAt(i) = LowUnit
         /\ EndsPair(i) => PairOpen(i - 1)
<1>1. i \in 1 .. Len(key) - 1 /\ \A j \in UEscapes : j # i => j < i - 2 \/ i + 2 < j
  BY WellFormedUnits
<1>2. \A j \in UEscapes : j \in Nat
  BY LenProperties DEF UEscapes
<1>3. BecomesPair(i) => PairOpen(i)
  BY <1>2 DEF PairOpen
<1>4. ASSUME PairOpen(i) PROVE BecomesPair(i)
  <2>1. PICK j \in UEscapes : BecomesPair(j) /\ j <= i /\ i <= j + 2
    BY <1>4 DEF PairOpen
  <2>2. j = i
    BY <1>1, <1>2, <2>1
  <2> QED
    BY <2>1, <2>2
<1>5. ASSUME PairOpen(i - 1) PROVE UnitAt(i) = LowUnit
  <2>1. PICK j \in UEscapes : BecomesPair(j) /\ j <= i - 1 /\ i - 1 <= j + 2
    BY <1>5 DEF PairOpen
  <2>2. i = j + 3
    BY <1>1, <1>2, <2>1
  <2> QED
    BY <2>1, <2>2 DEF BecomesPair
<1>6. ASSUME EndsPair(i) PROVE PairOpen(i - 1)
  <2>1. i > 3 /\ UnitAt(i - 3) = HighUnit /\ UnitAt(i) = LowUnit
    BY <1>6 DEF EndsPair
  <2>2. PICK j \in Nat : j = i - 3 /\ j # 0 /\ i = j + 3
    BY <1>2, <2>1
  <2>3. UnitAt(j) # "none"
    BY <2>1, <2>2, UnitsDiffer
  <2>4. j \in UEscapes
    BY <2>2, <2>3, UnitHasEscape
  <2>5. BecomesPair(j)
    BY <2>1, <2>2 DEF BecomesPair
  <2>6. j <= i - 1 /\ i - 1 <= j + 2
    BY <2>2
  <2> QED
    BY <2>4, <2>5, <2>6 DEF PairOpen
<1> QED
  BY <1>3, <1>4, <1>5, <1>6

(* Elsewhere. *)
LEMMA PairElsewhere ==
  ASSUME key \in Seq(STRING), NEW i \in Nat, i \notin UEscapes, i # 0
  PROVE  /\ PairOpen(i) => PairOpen(i - 1)
         /\ PairOpen(i - 1) => PairOpen(i)
         /\ PairOpen(i) => i - 1 \in UEscapes \/ i - 2 \in UEscapes
<1>1. \A j \in UEscapes : j \in Nat
  BY LenProperties DEF UEscapes
<1>2. ASSUME NEW j \in UEscapes, BecomesPair(j), j <= i - 1, i - 1 <= j + 2 PROVE i <= j + 2
  <2>1. j + 3 \in UEscapes
    BY <1>2, PairNext
  <2> QED
    BY <1>1, <1>2, <2>1
<1>3. PairOpen(i - 1) => PairOpen(i)
  BY <1>1, <1>2 DEF PairOpen
<1>4. ASSUME NEW j \in UEscapes, j <= i, i <= j + 2 PROVE j <= i - 1 /\ (j = i - 1 \/ j = i - 2)
  BY <1>1, <1>4
<1>5. PairOpen(i) => PairOpen(i - 1)
  <2>1. ASSUME NEW j \in UEscapes, j <= i, i <= j + 2 PROVE j <= i - 1 /\ i - 1 <= j + 2
    BY <1>1, <1>4, <2>1
  <2> QED
    BY <2>1 DEF PairOpen
<1>6. PairOpen(i) => i - 1 \in UEscapes \/ i - 2 \in UEscapes
  <2>1. \A j \in UEscapes : j <= i /\ i <= j + 2 => i - 1 \in UEscapes \/ i - 2 \in UEscapes
    BY <1>4
  <2> QED
    BY <2>1 DEF PairOpen
<1> QED
  BY <1>3, <1>5, <1>6

LEMMA NoPairLeft ==
  ASSUME key \in Seq(STRING)
  PROVE  ~PairOpen(Len(key)) /\ ~PairOpen(0)
<1>1. Len(key) \in Nat /\ \A j \in UEscapes : j \in Nat /\ j > 0
  BY LenProperties DEF UEscapes
<1>2. \A j \in UEscapes : BecomesPair(j) => j + 5 <= Len(key)
  BY PairNext
<1> QED
  BY <1>1, <1>2 DEF PairOpen

(* The pieces. *)
LEMMA PieceAtEscape ==
  ASSUME key \in Seq(STRING), WellFormed, NEW i \in UEscapes
  PROVE  /\ BecomesUnit(i) => Piece(i) = <<BasicChar(UnitAt(i))>>
         /\ BecomesPair(i) => Piece(i) = <<ClefChar>>
         /\ UnitAt(i) = LowUnit => Piece(i) = <<>>
<1>1. i \in Nat
  BY LenProperties DEF UEscapes
<1>2. i \in i .. i + 2
  BY <1>1
<1>3. BecomesPair(i) => ~BecomesUnit(i)
  BY UnitsDiffer DEF BecomesPair, BecomesUnit
<1>4. UnitAt(i) = LowUnit => ~BecomesUnit(i) /\ ~BecomesPair(i)
  BY UnitsDiffer DEF BecomesPair, BecomesUnit
<1> QED
  BY <1>2, <1>3, <1>4 DEF Piece

LEMMA PieceElsewhere ==
  ASSUME key \in Seq(STRING), NEW i \in Nat, i \notin UEscapes
  PROVE  Piece(i) = IF i - 1 \in UEscapes \/ i - 2 \in UEscapes THEN <<>> ELSE <<key[i]>>
<1>1. \A j \in UEscapes : j \in Nat
  BY LenProperties DEF UEscapes
<1>2. ASSUME NEW j \in UEscapes, i \in j .. j + 2 PROVE j = i - 1 \/ j = i - 2
  BY <1>1, <1>2
<1>3. i \in i - 1 .. (i - 1) + 2 /\ i \in i - 2 .. (i - 2) + 2
  OBVIOUS
<1>4. (\E j \in UEscapes : i \in j .. j + 2) <=> (i - 1 \in UEscapes \/ i - 2 \in UEscapes)
  BY <1>2, <1>3
<1> QED
  BY <1>4 DEF Piece

-----------------------------------------------------------------------------
(* A well-formed key: convert() is where the decoder is, but for the pair *)
(* it is inside of.                                                       *)
SkipAt(i) == IF i \in UEscapes THEN 2 ELSE IF i - 1 \in UEscapes THEN 1 ELSE 0

ConvertedTo(i) ==
  LET c == Conversion[i]
  IN  /\ c.status = "SUCCESS" /\ c.skip = SkipAt(i)
      /\ c.last = IF PairOpen(i) THEN HighUnit ELSE "none"
      /\ Pieces[i] = IF PairOpen(i) THEN Append(c.out, ClefChar) ELSE c.out

LEMMA ConvertedInit == ASSUME key \in Seq(STRING) PROVE ConvertedTo(0)
<1>1. 0 \notin UEscapes /\ 0 - 1 \notin UEscapes
  BY LenProperties DEF UEscapes
<1>2. ~PairOpen(0)
  BY NoPairLeft
<1>3. Conversion[0] = Converting /\ Pieces[0] = <<>>
  BY ConversionFacts, PiecesFacts
<1>4. /\ Converting.status = "SUCCESS" /\ Converting.skip = 0
      /\ Converting.last = "none" /\ Converting.out = <<>>
  BY DEF Converting
<1>5. SkipAt(0) = 0
  BY <1>1 DEF SkipAt
<1> QED
  BY <1>2, <1>3, <1>4, <1>5 DEF ConvertedTo

(* From a turn to the next: out is what has been written, piece what the   *)
(* decoder adds.                                                           *)
LEMMA AppendedPiece ==
  ASSUME NEW out \in Seq(Letters), NEW ch \in Letters
  PROVE  out \o <<ch>> = Append(out, ch) /\ out \o <<>> = out
  OBVIOUS

LEMMA ConvertedNext ==
  ASSUME key \in Seq(STRING), WellFormed, ~LooksEscaped,
         NEW i \in 1 .. Len(key), ConvertedTo(i - 1)
  PROVE  ConvertedTo(i)
<1>1. Len(key) \in Nat /\ i \in Nat /\ i # 0 /\ i - 1 \in 0 .. Len(key) /\ i \in 0 .. Len(key)
  BY LenProperties
<1>2. PICK c \in Conversions : c = Conversion[i - 1]
  BY <1>1, ConversionFacts
<1>3. PICK d \in Conversions : d = Conversion[i]
  BY <1>1, ConversionFacts
<1>4. d = ConvertStep(c, key, i)
  BY <1>2, <1>3, ConversionFacts
<1>5. PICK p \in Seq(Letters) : p = Pieces[i - 1]
  BY <1>1, PiecesFacts
<1>6. Pieces[i] = p \o Piece(i)
  BY <1>5, PiecesFacts
<1>7. /\ c.status = "SUCCESS" /\ c.skip = SkipAt(i - 1)
      /\ c.last = IF PairOpen(i - 1) THEN HighUnit ELSE "none"
      /\ p = IF PairOpen(i - 1) THEN Append(c.out, ClefChar) ELSE c.out
  BY <1>2, <1>5 DEF ConvertedTo
<1>8. c.out \in Seq(Letters) /\ key[i] \in Letters /\ ClefChar \in Letters
      /\ \A unit \in BasicUnit : BasicChar(unit) \in Letters
  <2>1. key[i] \in STRING
    BY <1>1, ElementOfSeq
  <2>2. \A unit \in BasicUnit : BasicChar(unit) \in Letters
    BY DEF BasicUnit, BasicChar, Letters, Unescaped
  <2> QED
    BY <2>1, <2>2 DEF Conversions, Letters, Unescaped
<1>9. HighUnit # "none"
  BY UnitsDiffer
<1>10. SUFFICES /\ d.status = "SUCCESS" /\ d.skip = SkipAt(i)
                /\ d.last = IF PairOpen(i) THEN HighUnit ELSE "none"
                /\ Pieces[i] = IF PairOpen(i) THEN Append(d.out, ClefChar) ELSE d.out
  BY <1>3 DEF ConvertedTo
<1>11. CASE i \in UEscapes
  <2>1. i - 1 \notin UEscapes /\ i - 2 \notin UEscapes
    <3>1. \A j \in UEscapes : j # i => j < i - 2 \/ i + 2 < j
      BY <1>11, WellFormedUnits
    <3> QED
      BY <1>1, <3>1
  <2>2. c.skip = 0 /\ SkipAt(i) = 2
    <3>1. (i - 1) - 1 = i - 2
      BY <1>1
    <3>2. SkipAt(i - 1) = 0
      BY <2>1, <3>1 DEF SkipAt
    <3> QED
      BY <1>7, <1>11, <3>2 DEF SkipAt
  <2>3. d = HandleUescape(c, UnitAt(i))
    BY <1>4, <1>7, <1>11, <2>2, EscapeTurn
  <2>4. /\ BecomesPair(i) <=> PairOpen(i)
        /\ PairOpen(i - 1) => UnitAt(i) = LowUnit
        /\ EndsPair(i) => PairOpen(i - 1)
    BY <1>11, PairAtEscape
  <2>5. PICK unit : unit = UnitAt(i)
    OBVIOUS
  <2>6. CASE BecomesUnit(i)
    <3>1. unit \in BasicUnit /\ ~PairOpen(i - 1) /\ ~PairOpen(i)
      BY <2>4, <2>5, <2>6, UnitsDiffer DEF BecomesUnit, BecomesPair
    <3>2. IsConversion(d, Append(c.out, BasicChar(unit)), "none", "SUCCESS", 2)
      BY <1>7, <2>3, <2>5, <3>1, BasicTaken
    <3>3. Piece(i) = <<BasicChar(unit)>>
      BY <1>11, <2>5, <2>6, PieceAtEscape
    <3>4. p \o <<BasicChar(unit)>> = Append(c.out, BasicChar(unit))
      <4>1. PICK ch \in Letters : ch = BasicChar(unit)
        BY <1>8, <3>1
      <4>2. p = c.out
        BY <1>7, <3>1
      <4> QED
        BY <1>8, <4>1, <4>2, AppendedPiece
    <3> QED
      BY <1>6, <2>2, <3>1, <3>2, <3>3, <3>4 DEF IsConversion
  <2>7. CASE BecomesPair(i)
    <3>1. unit = HighUnit /\ ~PairOpen(i - 1) /\ PairOpen(i)
      BY <2>4, <2>5, <2>7, UnitsDiffer DEF BecomesPair
    <3>2. IsConversion(d, c.out, HighUnit, "SUCCESS", 2)
      BY <1>7, <2>3, <2>5, <3>1, HighTaken
    <3>3. Piece(i) = <<ClefChar>>
      BY <1>11, <2>7, PieceAtEscape
    <3>4. p \o <<ClefChar>> = Append(c.out, ClefChar)
      BY <1>7, <1>8, <3>1, AppendedPiece
    <3> QED
      BY <1>6, <2>2, <3>1, <3>2, <3>3, <3>4 DEF IsConversion
  <2>8. CASE EndsPair(i)
    <3>1. unit = LowUnit /\ PairOpen(i - 1) /\ ~PairOpen(i)
      BY <2>4, <2>5, <2>8, UnitsDiffer DEF EndsPair, BecomesPair
    <3>2. IsConversion(d, Append(c.out, ClefChar), "none", "SUCCESS", 2)
      BY <1>7, <1>9, <2>3, <2>5, <3>1, LowTaken
    <3>3. Piece(i) = <<>>
      BY <1>11, <2>5, <3>1, PieceAtEscape
    <3>4. p \o <<>> = Append(c.out, ClefChar)
      BY <1>7, <1>8, <3>1
    <3> QED
      BY <1>6, <2>2, <3>1, <3>2, <3>3, <3>4 DEF IsConversion
  <2> QED
    BY <1>11, <2>6, <2>7, <2>8 DEF WellFormed
<1>12. CASE i \notin UEscapes /\ (i - 1 \in UEscapes \/ i - 2 \in UEscapes)
  <2>1. c.skip > 0 /\ c.skip - 1 = SkipAt(i)
    <3>1. (i - 1) - 1 = i - 2
      BY <1>1
    <3>2. CASE i - 1 \in UEscapes
      <4>1. c.skip = 2
        BY <1>7, <3>2 DEF SkipAt
      <4>2. SkipAt(i) = 1
        BY <1>12, <3>2 DEF SkipAt
      <4> QED
        BY <4>1, <4>2
    <3>3. CASE i - 1 \notin UEscapes
      <4>1. c.skip = 1
        BY <1>7, <1>12, <3>1, <3>3 DEF SkipAt
      <4>2. SkipAt(i) = 0
        BY <1>12, <3>3 DEF SkipAt
      <4> QED
        BY <4>1, <4>2
    <3> QED
      BY <3>2, <3>3
  <2>2. IsConversion(d, c.out, c.last, "SUCCESS", c.skip - 1)
    BY <1>4, <1>7, <2>1, SkippingTurn
  <2>3. PairOpen(i - 1) <=> PairOpen(i)
    BY <1>1, <1>12, PairElsewhere
  <2>4. Piece(i) = <<>>
    BY <1>1, <1>12, PieceElsewhere
  <2>5. Pieces[i] = p
    BY <1>6, <2>4
  <2> QED
    BY <1>7, <2>1, <2>2, <2>3, <2>5 DEF IsConversion
<1>13. CASE i \notin UEscapes /\ i - 1 \notin UEscapes /\ i - 2 \notin UEscapes
  <2>1. c.skip = 0 /\ SkipAt(i) = 0
    <3>1. (i - 1) - 1 = i - 2
      BY <1>1
    <3> QED
      BY <1>7, <1>13, <3>1 DEF SkipAt
  <2>2. IsConversion(d, Append(c.out, key[i]), c.last, "SUCCESS", 0)
    BY <1>4, <1>7, <1>13, <2>1, PlainTurn
  <2>3. ~PairOpen(i - 1) /\ ~PairOpen(i)
    BY <1>1, <1>13, PairElsewhere
  <2>4. Piece(i) = <<key[i]>>
    BY <1>1, <1>13, PieceElsewhere
  <2>5. Pieces[i] = Append(c.out, key[i])
    <3>1. p \o <<key[i]>> = Append(c.out, key[i])
      BY <1>7, <1>8, <2>3, AppendedPiece
    <3> QED
      BY <1>6, <2>4, <3>1
  <2> QED
    BY <1>7, <2>1, <2>2, <2>3, <2>5 DEF IsConversion
<1> QED
  BY <1>11, <1>12, <1>13

LEMMA ConvertedAll ==
  ASSUME key \in Seq(STRING), WellFormed, ~LooksEscaped
  PROVE  ConvertedTo(Len(key))
<1>1. Len(key) \in Nat
  BY LenProperties
<1> DEFINE S == {i \in 0 .. Len(key) : ConvertedTo(i)}
<1>2. 0 \in S
  BY <1>1, ConvertedInit
<1>3. ASSUME NEW i \in 1 .. Len(key), i - 1 \in S PROVE i \in S
  <2>1. ConvertedTo(i)
    BY <1>3, ConvertedNext
  <2> QED
    BY <1>1, <2>1
<1>4. 0 .. Len(key) \subseteq S
  <2> HIDE DEF S
  <2> QED
    BY <1>1, <1>2, <1>3, AllAlong
<1> QED
  BY <1>1, <1>4

(* convert() at the end of the key. *)
LEMMA ConvertIs ==
  Convert(key) = IF Conversion[Len(key)].status = "SUCCESS" /\ Conversion[Len(key)].last # "none"
                 THEN [Conversion[Len(key)] EXCEPT !.status = "INCOMPLETE_SURROGATE"]
                 ELSE Conversion[Len(key)]
  BY Zenon DEF Convert, Conversion

LEMMA WellFormedConverts ==
  ASSUME key \in Seq(STRING), WellFormed, ~LooksEscaped
  PROVE  Convert(key).status = "SUCCESS" /\ Convert(key).out = Decoded
<1>1. ConvertedTo(Len(key)) /\ ~PairOpen(Len(key)) /\ Decoded = Pieces[Len(key)]
  BY ConvertedAll, NoPairLeft, PiecesFacts
<1>2. PICK c : c = Conversion[Len(key)]
  OBVIOUS
<1>3. c.status = "SUCCESS" /\ c.last = "none" /\ c.out = Decoded
  BY <1>1, <1>2 DEF ConvertedTo
<1>4. Convert(key) = c
  BY <1>2, <1>3, ConvertIs
<1> QED
  BY <1>3, <1>4

(* A key without escapes means what it is. *)
LEMMA PlainKey ==
  ASSUME key \in Seq(STRING), UEscapes = {}
  PROVE  Decoded = key
<1>1. Len(key) \in Nat
  BY LenProperties
<1>2. \A i \in 1 .. Len(key) : Piece(i) = <<key[i]>>
  BY DEF Piece
<1> DEFINE Copied(p, i) == p \in Seq(Letters) /\ Len(p) = i /\ \A k \in 1 .. i : p[k] = key[k]
           S == {i \in 0 .. Len(key) : Copied(Pieces[i], i)}
<1>3. 0 \in S
  <2>1. Pieces[0] = <<>>
    BY PiecesFacts
  <2>2. Copied(<<>>, 0)
    BY EmptySeq
  <2> HIDE DEF Copied
  <2> QED
    BY <1>1, <2>1, <2>2
<1>4. ASSUME NEW i \in 1 .. Len(key), i - 1 \in S PROVE i \in S
  <2>1. PICK p \in Seq(Letters) : p = Pieces[i - 1]
    BY <1>4
  <2>2. Len(p) = i - 1 /\ \A k \in 1 .. i - 1 : p[k] = key[k]
    BY <1>4, <2>1
  <2>3. PICK ch \in Letters : ch = key[i]
    BY <1>1, ElementOfSeq DEF Letters
  <2>4. PICK q \in Seq(Letters) : q = Append(p, ch)
    BY AppendProperties
  <2>5. Pieces[i] = q
    <3>1. p \o <<ch>> = Append(p, ch)
      BY AppendedPiece
    <3> QED
      BY <1>2, <2>1, <2>3, <2>4, <3>1, PiecesFacts
  <2>6. Copied(q, i)
    BY <1>1, <2>2, <2>3, <2>4, AppendProperties
  <2>7. i \in 0 .. Len(key)
    BY <1>1
  <2> HIDE DEF Copied
  <2> QED
    BY <2>5, <2>6, <2>7
<1>5. Len(key) \in S
  <2>1. 0 .. Len(key) \subseteq S
    <3> HIDE DEF S
    <3> QED
      BY <1>1, <1>3, <1>4, AllAlong
  <2> HIDE DEF S
  <2> QED
    BY <1>1, <2>1
<1>6. Copied(Decoded, Len(key))
  BY <1>5, PiecesFacts
<1>7. PICK p \in Seq(Letters) : p = Decoded
  BY <1>6
<1>8. Len(p) = Len(key) /\ \A k \in 1 .. Len(key) : p[k] = key[k]
  BY <1>6, <1>7
<1>9. key \in Seq(Letters)
  BY DEF Letters
<1> QED
  BY <1>7, <1>8, <1>9, SeqEqual

-----------------------------------------------------------------------------
(* A key that convert() has no objection to. *)

WellFormedAt(i) == BecomesUnit(i) \/ BecomesPair(i) \/ EndsPair(i)

(* What has been taken up to here is well formed, but for the first half of *)
(* a pair that convert() has in hand, and there is room for it.             *)
TakenTo(i) ==
  LET c == Conversion[i]
  IN  /\ c.skip = SkipAt(i)
      /\ \A j \in UEscapes : j <= i => UnitAt(j) \in Quad
      /\ c.last = "none" => \A j \in UEscapes : j <= i => WellFormedAt(j)
      /\ c.last # "none" =>
           \E h \in UEscapes : /\ h <= i /\ UnitAt(h) = HighUnit
                               /\ \A j \in UEscapes : j <= i => j <= h
                               /\ \A j \in UEscapes : j < h => WellFormedAt(j)

LEMMA TakenInit == ASSUME key \in Seq(STRING) PROVE TakenTo(0)
<1>1. \A j \in UEscapes : j \in Nat /\ j > 0
  BY LenProperties DEF UEscapes
<1>2. Conversion[0] = Converting
  BY ConversionFacts
<1>3. Converting.skip = 0 /\ Converting.last = "none"
  BY DEF Converting
<1>4. SkipAt(0) = 0
  BY <1>1 DEF SkipAt
<1>5. \A j \in UEscapes : ~(j <= 0)
  BY <1>1
<1> QED
  BY <1>2, <1>3, <1>4, <1>5 DEF TakenTo

LEMMA TakenNext ==
  ASSUME key \in Seq(STRING), ~LooksEscaped, ~Apart,
         NEW i \in 1 .. Len(key), TakenTo(i - 1),
         Conversion[i - 1].status = "SUCCESS", Conversion[i].status = "SUCCESS"
  PROVE  TakenTo(i)
<1>1. Len(key) \in Nat /\ i \in Nat /\ i # 0 /\ i - 1 \in 0 .. Len(key) /\ i \in 0 .. Len(key)
  BY LenProperties
<1>2. PICK c \in Conversions : c = Conversion[i - 1]
  BY <1>1, ConversionFacts
<1>3. PICK d \in Conversions : d = Conversion[i]
  BY <1>1, ConversionFacts
<1>4. d = ConvertStep(c, key, i) /\ c.status = "SUCCESS" /\ d.status = "SUCCESS"
  BY <1>2, <1>3, ConversionFacts
<1>5. \A j \in UEscapes : j \in Nat /\ j > 0
  BY LenProperties DEF UEscapes
<1>6. /\ c.skip = SkipAt(i - 1)
      /\ \A j \in UEscapes : j <= i - 1 => UnitAt(j) \in Quad
  BY <1>2 DEF TakenTo
<1>7. c.last = "none" => \A j \in UEscapes : j <= i - 1 => WellFormedAt(j)
  BY <1>2 DEF TakenTo
<1>8. c.last # "none" =>
           \E h \in UEscapes : /\ h <= i - 1 /\ UnitAt(h) = HighUnit
                               /\ \A j \in UEscapes : j <= i - 1 => j <= h
                               /\ \A j \in UEscapes : j < h => WellFormedAt(j)
  BY <1>2 DEF TakenTo
<1>9. \A j \in UEscapes : j <= i - 1 => j + 1 \notin UEscapes /\ j + 2 \notin UEscapes
  BY <1>6, EscapesApart
<1>10. \A j \in UEscapes : j <= i => j = i \/ j <= i - 1
  BY <1>1, <1>5
<1>11. CASE i \in UEscapes
  <2>1. i - 1 \notin UEscapes /\ i - 2 \notin UEscapes
    <3>1. (i - 1) + 1 = i /\ (i - 2) + 2 = i /\ i - 1 <= i - 1 /\ i - 2 <= i - 1
      BY <1>1
    <3> QED
      BY <1>9, <1>11, <3>1
  <2>2. c.skip = 0 /\ SkipAt(i) = 2
    <3>1. (i - 1) - 1 = i - 2
      BY <1>1
    <3> QED
      BY <1>6, <1>11, <2>1, <3>1 DEF SkipAt
  <2>3. PICK unit : unit = UnitAt(i)
    OBVIOUS
  <2>4. d = HandleUescape(c, unit)
    BY <1>4, <1>11, <2>2, <2>3, EscapeTurn
  <2>5. CASE c.last = "none" /\ unit \in BasicUnit
    <3>1. d.skip = 2 /\ d.last = "none"
      BY <1>4, <2>4, <2>5, BasicTaken DEF IsConversion
    <3>2. UnitAt(i) \in Quad /\ WellFormedAt(i)
      BY <2>3, <2>5, UnitIsQuad DEF WellFormedAt, BecomesUnit
    <3>3. \A j \in UEscapes : j <= i => UnitAt(j) \in Quad
      BY <1>6, <1>10, <3>2
    <3>4. \A j \in UEscapes : j <= i => WellFormedAt(j)
      BY <1>7, <1>10, <2>5, <3>2
    <3> QED
      BY <1>3, <2>2, <3>1, <3>3, <3>4 DEF TakenTo
  <2>6. CASE c.last = "none" /\ unit = HighUnit
    <3>1. d.skip = 2 /\ d.last = HighUnit
      BY <1>4, <2>4, <2>6, HighTaken DEF IsConversion
    <3>2. UnitAt(i) \in Quad
      BY <2>3, <2>6, UnitIsQuad
    <3>3. \A j \in UEscapes : j <= i => UnitAt(j) \in Quad
      BY <1>6, <1>10, <3>2
    <3>4. \A j \in UEscapes : j < i => WellFormedAt(j)
      <4>1. \A j \in UEscapes : j < i => j <= i - 1
        BY <1>1, <1>5
      <4> QED
        BY <1>7, <2>6, <4>1
    <3>5. i <= i /\ UnitAt(i) = HighUnit
      BY <1>1, <2>3, <2>6
    <3>6. d.last # "none"
      BY <3>1, UnitsDiffer
    <3> QED
      BY <1>3, <1>11, <2>2, <3>1, <3>3, <3>4, <3>5, <3>6 DEF TakenTo
  <2>7. CASE c.last # "none" /\ unit = LowUnit
    <3>1. d.skip = 2 /\ d.last = "none"
      BY <1>4, <2>4, <2>7, LowTaken DEF IsConversion
    <3>2. UnitAt(i) \in Quad /\ UnitAt(i) = LowUnit
      BY <2>3, <2>7, UnitIsQuad
    <3>3. \A j \in UEscapes : j <= i => UnitAt(j) \in Quad
      BY <1>6, <1>10, <3>2
    <3>4. PICK h \in UEscapes : /\ h <= i - 1 /\ UnitAt(h) = HighUnit
                                /\ \A j \in UEscapes : j <= i - 1 => j <= h
                                /\ \A j \in UEscapes : j < h => WellFormedAt(j)
      BY <1>8, <2>7
    <3>5. i = h + 3
      <4>1. \A k \in h + 1 .. i - 1 : k \notin UEscapes
        <5>1. ASSUME NEW k \in h + 1 .. i - 1, k \in UEscapes PROVE FALSE
          <6>1. k <= h
            BY <1>1, <1>5, <3>4, <5>1
          <6> QED
            BY <1>5, <5>1, <6>1
        <5> QED
          BY <5>1
      <4>2. ~(h + 3 < i)
        BY <1>11, <3>2, <3>4, <4>1 DEF Apart
      <4>3. i # h + 1 /\ i # h + 2
        BY <1>9, <1>11, <3>4
      <4> QED
        BY <1>1, <1>5, <3>4, <4>2, <4>3
    <3>6. WellFormedAt(h)
      BY <3>2, <3>4, <3>5 DEF WellFormedAt, BecomesPair
    <3>7. WellFormedAt(i)
      <4>1. i > 3 /\ i - 3 = h
        BY <1>5, <3>5
      <4> QED
        BY <3>2, <3>4, <4>1 DEF WellFormedAt, EndsPair
    <3>8. \A j \in UEscapes : j <= i => WellFormedAt(j)
      <4>1. \A j \in UEscapes : j <= i => j = i \/ j = h \/ j < h
        BY <1>5, <1>10, <3>4
      <4> QED
        BY <3>4, <3>6, <3>7, <4>1
    <3> QED
      BY <1>3, <2>2, <3>1, <3>3, <3>8 DEF TakenTo
  <2> QED
    BY <1>4, <2>4, <2>5, <2>6, <2>7, OthersRefused
<1>12. CASE i \notin UEscapes
  <2>1. \A j \in UEscapes : (j <= i <=> j <= i - 1)
    BY <1>1, <1>5, <1>12
  <2>2. d.last = c.last /\ d.skip = SkipAt(i)
    <3>1. (i - 1) - 1 = i - 2
      BY <1>1
    <3>2. CASE i - 1 \in UEscapes
      <4>1. c.skip = 2 /\ SkipAt(i) = 1
        BY <1>6, <1>12, <3>2 DEF SkipAt
      <4> QED
        BY <1>4, <4>1, SkippingTurn DEF IsConversion
    <3>3. CASE i - 1 \notin UEscapes /\ i - 2 \in UEscapes
      <4>1. c.skip = 1 /\ SkipAt(i) = 0
        BY <1>6, <1>12, <3>1, <3>3 DEF SkipAt
      <4> QED
        BY <1>4, <4>1, SkippingTurn DEF IsConversion
    <3>4. CASE i - 1 \notin UEscapes /\ i - 2 \notin UEscapes
      <4>1. c.skip = 0 /\ SkipAt(i) = 0
        BY <1>6, <1>12, <3>1, <3>4 DEF SkipAt
      <4> QED
        BY <1>4, <1>12, <4>1, PlainTurn DEF IsConversion
    <3> QED
      BY <3>2, <3>3, <3>4
  <2>3. \A j \in UEscapes : j <= i => UnitAt(j) \in Quad
    BY <1>6, <2>1
  <2>4. d.last = "none" => \A j \in UEscapes : j <= i => WellFormedAt(j)
    BY <1>7, <2>1, <2>2
  <2>5. d.last # "none" =>
           \E h \in UEscapes : /\ h <= i /\ UnitAt(h) = HighUnit
                               /\ \A j \in UEscapes : j <= i => j <= h
                               /\ \A j \in UEscapes : j < h => WellFormedAt(j)
    BY <1>8, <2>1, <2>2
  <2> QED
    BY <1>3, <2>2, <2>3, <2>4, <2>5 DEF TakenTo
<1> QED
  BY <1>11, <1>12

(* convert() goes on after an error, but changes nothing. *)
LEMMA TakenAll ==
  ASSUME key \in Seq(STRING), ~LooksEscaped, ~Apart, Conversion[Len(key)].status = "SUCCESS"
  PROVE  TakenTo(Len(key))
<1>1. Len(key) \in Nat
  BY LenProperties
<1> DEFINE S == {i \in 0 .. Len(key) : Conversion[i].status = "SUCCESS" => TakenTo(i)}
<1>2. 0 \in S
  BY <1>1, TakenInit
<1>3. ASSUME NEW i \in 1 .. Len(key), i - 1 \in S PROVE i \in S
  <2>1. i \in 0 .. Len(key)
    BY <1>1
  <2>2. ASSUME Conversion[i].status = "SUCCESS" PROVE TakenTo(i)
    <3>1. Conversion[i] = ConvertStep(Conversion[i - 1], key, i)
      BY ConversionFacts
    <3>2. PICK c : c = Conversion[i - 1]
      OBVIOUS
    <3>3. c.status # "SUCCESS" => Conversion[i] = c
      BY <3>1, <3>2, ErrorTurn
    <3>4. Conversion[i - 1].status = "SUCCESS"
      BY <2>2, <3>2, <3>3
    <3>5. TakenTo(i - 1)
      BY <1>3, <3>4
    <3> QED
      BY <2>2, <3>4, <3>5, TakenNext
  <2> QED
    BY <2>1, <2>2
<1>4. 0 .. Len(key) \subseteq S
  <2> HIDE DEF S
  <2> QED
    BY <1>1, <1>2, <1>3, AllAlong
<1> QED
  BY <1>1, <1>4

LEMMA ConvertedIsWellFormed ==
  ASSUME key \in Seq(STRING), ~LooksEscaped, ~Apart, Convert(key).status = "SUCCESS"
  PROVE  WellFormed
<1>1. Len(key) \in Nat /\ \A j \in UEscapes : j <= Len(key)
  BY LenProperties DEF UEscapes
<1>2. PICK c \in Conversions : c = Conversion[Len(key)]
  BY <1>1, ConversionFacts
<1>3. [c EXCEPT !.status = "INCOMPLETE_SURROGATE"].status # "SUCCESS"
  BY DEF Conversions
<1>4. c.status = "SUCCESS" /\ c.last = "none"
  BY <1>2, <1>3, ConvertIs
<1>5. TakenTo(Len(key))
  BY <1>2, <1>4, TakenAll
<1>6. \A j \in UEscapes : WellFormedAt(j)
  BY <1>1, <1>2, <1>4, <1>5 DEF TakenTo
<1> QED
  BY <1>6 DEF WellFormed, WellFormedAt

-----------------------------------------------------------------------------
(* The text of a key stays one, however it is spelled. *)
LEMMA KeyIsText == KeySpec => [](key \in Seq(STRING))
<1>1. key = <<>> => key \in Seq(STRING)
  BY EmptySeq
<1>2. key \in Seq(STRING) /\ [SpellOn \/ StartOver]_key => (key \in Seq(STRING))'
  <2> SUFFICES ASSUME key \in Seq(STRING), [SpellOn \/ StartOver]_key PROVE key' \in Seq(STRING)
    OBVIOUS
  <2>1. CASE SpellOn
    <3>1. PICK ch \in Symbols : key' = Append(key, ch)
      BY <2>1 DEF SpellOn
    <3>2. ch \in STRING
      BY SymbolsAssumption
    <3> QED
      BY <3>1, <3>2, AppendProperties
  <2>2. CASE StartOver
    BY <2>2, EmptySeq DEF StartOver
  <2>3. CASE key' = key
    BY <2>3
  <2> QED
    BY <2>1, <2>2, <2>3
<1> QED
  BY <1>1, <1>2, PTL DEF KeySpec

(* A key with well-formed escapes is compared as what it means, for every   *)
(* key of whatever length and symbols; left out are those of the finding,   *)
(* where an escaped backslash stands before a u.                            *)
THEOREM KeysAreDecoded == KeySpec => []KeyIsDecoded
<1>1. ASSUME key \in Seq(STRING) PROVE KeyIsDecoded
  <2> SUFFICES ASSUME WellFormed, ~LooksEscaped PROVE GetHk(key) = Decoded
    BY DEF KeyIsDecoded
  <2>1. CASE HasEscape(key)
    BY <1>1, <2>1, WellFormedConverts DEF GetHk
  <2>2. CASE ~HasEscape(key)
    <3>1. UEscapes = {}
      BY <1>1, <2>2, LenProperties DEF UEscapes, EscapeAt, HasEscape
    <3> QED
      BY <1>1, <2>2, <3>1, PlainKey DEF GetHk
  <2> QED
    BY <2>1, <2>2
<1> QED
  BY <1>1, KeyIsText, PTL

(* convert() reports success for the keys whose escapes are well formed and  *)
(* paired, and for no other, for every key of whatever length and symbols;   *)
(* left out are also surrogates that other text separates.                   *)
THEOREM StatusesAreRight == KeySpec => []StatusIsRight
<1>1. ASSUME key \in Seq(STRING) PROVE StatusIsRight
  <2> SUFFICES ASSUME ~LooksEscaped, ~Apart
               PROVE  (Convert(key).status = "SUCCESS") = WellFormed
    BY DEF StatusIsRight
  <2>1. Convert(key).status = "SUCCESS" => WellFormed
    BY <1>1, ConvertedIsWellFormed
  <2>2. WellFormed => Convert(key).status = "SUCCESS"
    BY <1>1, WellFormedConverts
  <2>3. WellFormed \in BOOLEAN
    BY DEF WellFormed
  <2> QED
    BY <2>1, <2>2, <2>3, Zenon
<1> QED
  BY <1>1, KeyIsText, PTL
=============================================================================
