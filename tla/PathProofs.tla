----------------------------- MODULE PathProofs -----------------------------
(***************************************************************************)
(* The theorems about the Path, under every caller.                        *)
(*                                                                         *)
(* It is well formed: from the invariant of PathSteps.  KeysStand is about *)
(* two states and follows from the invariant in the first.                 *)
(*                                                                         *)
(* parse() reads what the text says, whatever the text: GrammarInv says    *)
(* for each place parse() can stand what it has read so far, in terms of   *)
(* the grammar.  Its proof has three parts.  The first is about texts: how *)
(* many backticks and backslashes are before a place, what the recursive   *)
(* functions of the grammar return, that an item ends at one place only,   *)
(* so that no text can be read in two ways, and what a word that grows by  *)
(* a character becomes.  The second has a lemma for what happens to the    *)
(* components: one is added, a text is refused.  The third has a lemma for *)
(* every step of parse().                                                  *)
(*                                                                         *)
(* What a recursive function returns is proved with the set of the places  *)
(* where it returns that (AllAlong).                                       *)
(***************************************************************************)
EXTENDS PathLanguage, PathSteps, FiniteSetTheorems, WellFoundedInduction

LEMMA ClientIsAny == PathNext => PathStep
  BY TextsAssumption DEF PathNext, ParseAny, PathStep, ParseText

(* The inductive invariant: what the runs check, the place of the scan in  *)
(* the text and the room a conversion has been promised.                   *)
THEOREM PathInvariant == PathSpec => []PathInv
  <1>1. PathInv /\ [PathNext]_parseVars => PathInv'
    BY ClientIsAny, PathInvStep
  <1> QED
    BY <1>1, PathInvInit, PTL DEF PathSpec

(* Whatever is parsed, cleared and parsed again, the value of an index fits *)
(* size_t, and m_used and m_cached number strings that are there.          *)
THEOREM PathTypesHold == PathSpec => []PathTypeOK
  BY PathInvariant, PTL DEF PathInv, TypeInv

(* Match and Operation find the root first and only there, no more levels  *)
(* than the arrays they index hold, and has_negix true exactly if an index *)
(* is negative, after any sequence of calls.                               *)
THEOREM PathShape == PathSpec => []ShapeIsRight
  BY PathInvariant, PTL DEF PathInv

(* The keys with backticks removed never share a string, and clear() gives *)
(* back each string once and empty.                                        *)
THEOREM PathStrings == PathSpec => []StringsAreApart
  BY PathInvariant, PTL DEF PathInv

(* A component points into bytes that are there, in the text or in a string*)
(* of the Path: what Match and Operation read of a key is part of it.      *)
THEOREM PathKeysFit == PathSpec => []KeysFit
  BY PathInvariant, PTL DEF PathInv

-----------------------------------------------------------------------------
(* parse() does not change the key of a component it has already made: a   *)
(* converted key is written to a string that none of them points into.     *)
THEOREM PathKeys == PathSpec => KeysStand
  <1>1. PathInv /\ [PathNext]_parseVars =>
          [Parsing => \A i \in 1 .. Len(components) : ParsedPath'[i] = ParsedPath[i]]_parseVars
    <2> SUFFICES ASSUME PathInv, PathNext, Parsing
                 PROVE  \A i \in 1 .. Len(components) : ParsedPath'[i] = ParsedPath[i]
      OBVIOUS
    <2>1. ParseStep
      BY DEF PathNext, ParseAny, Parse, PathClear, PathNew, Parsing
    <2> QED
      BY <2>1, KeysStep DEF PathInv, Stands
  <1> QED
    BY <1>1, PathInvariant, PTL DEF PathSpec, KeysStand

-----------------------------------------------------------------------------
(* The callers TLC runs are callers: what is proved above holds of them.   *)
THEOREM LanguageIsClient == LanguageSpec => PathInit /\ [][PathNext]_parseVars
  <1>1. LanguageInit => PathInit /\ family \in DOMAIN Families
    BY DEF LanguageInit
  <1>2. family \in DOMAIN Families /\ [LanguageNext]_languageVars =>
          (family \in DOMAIN Families)' /\ [PathNext]_parseVars
    <2> SUFFICES ASSUME family \in DOMAIN Families, [LanguageNext]_languageVars
                 PROVE  (family \in DOMAIN Families)' /\ [PathNext]_parseVars
      OBVIOUS
    <2>1. CASE ParseOne
      BY <2>1, FamiliesAssumption DEF ParseOne, PathNext, ParseAny
    <2>2. CASE ParseOn \/ ClearPath
      BY <2>2 DEF ParseOn, ClearPath, PathNext
    <2>3. CASE Discard
      <3>1. PathNew
        BY <2>3 DEF Discard
      <3>2. family' = family
        BY <2>3 DEF Discard
      <3> QED
        BY <3>1, <3>2 DEF PathNext
    <2>4. CASE UNCHANGED languageVars
      BY <2>4 DEF languageVars
    <2> QED
      BY <2>1, <2>2, <2>3, <2>4 DEF LanguageNext
  <1> QED
    BY <1>1, <1>2, PTL DEF LanguageSpec

-----------------------------------------------------------------------------
(* parse() and the grammar: the invariant. *)
(* A component is what a reading says it is. *)
SaysItem(comp, item) == comp = item \/ (item = Name(Unsaid) /\ comp.ptype = "STRING")

(* The reading goes on from the place with a rest, behind the n components. *)
SoFarIn(t, place, comps, n, reading) ==
  \E rest \in Rests(t)[place] :
    /\ Len(reading) = n + Len(rest)
    /\ \A k \in 1 .. n : SaysItem(comps[k], reading[k])
    /\ \A k \in 1 .. Len(rest) : reading[n + k] = rest[k]

SoFar(reading) == SoFarIn(ptext, ii, ParsedPath, Len(components), reading)

(* What begins with the item and goes on with one of the rests. *)
Beginning(item, rests) == {<<item>> \o rest : rest \in rests}

(* Every reading that fits says what has been parsed, and goes on where *)
(* parse() does; what cannot go on has no reading.                      *)
ReadSoFar ==
  /\ ii \in 1 .. Len(ptext) + 1
  /\ \A reading \in Readings(ptext) : Fits(reading) => SoFar(reading)
  /\ Rests(ptext)[ii] # {} => Readings(ptext) # {}

(* Nothing in the word is refused, wherever it ends. *)
Sound(w) ==
  /\ \A k \in 1 .. Len(w) : IF IsEscaped(w, k) THEN w[k] \in AllowedEscape \ {"u"}
                                              ELSE w[k] \notin {Quote, "tab"}
  /\ \A k \in 1 .. Len(w) : w[k] \in {".", "[", "]"} => Inside(w, k)

(* parse_string() has counted the backticks of the word, and knows whether *)
(* it is inside a pair and behind a backslash.                             *)
NameSoFar ==
  LET w == SubSeq(ptext, ii, scan.at - 1)
  IN  /\ ii <= Len(ptext) /\ ptext[ii] # "[" /\ scan.at \in ii .. Len(ptext) + 1
      /\ scan.n_backticks = Cardinality(Ticks(w))
      /\ scan.in_n1ql_escape = (Cardinality(Ticks(w)) % 2 = 1)
      /\ scan.in_json_escape = IsEscaped(w, Len(w) + 1)
      /\ Sound(w)

(* The value of the digits up to each place, as in IntOf. *)
Counted(bytes) ==
  LET upTo[i \in 0 .. Len(Digits(bytes))] ==
        IF i = 0 THEN 0 ELSE 10 * upTo[i - 1] + DigitOf(Digits(bytes)[i])
  IN  upTo

(* add_num_component() has the value of the digits up to its place, unless *)
(* that is already more than size_t holds.                                 *)
IndexSoFar ==
  /\ ii < Len(ptext) /\ ptext[ii] = "[" /\ Closes /\ scan.at \in ii + 1 .. Len(ptext)
  /\ ~HasMinus =>
       /\ \A k \in ii + 1 .. scan.at - 1 : ptext[k] \in Digit
       /\ \A close \in scan.at .. Len(ptext) :
            ptext[close] = "]" /\ (\A k \in ii + 1 .. close - 1 : ptext[k] \in Digit) =>
              LET value == Counted(SubSeq(ptext, ii + 1, close - 1))[scan.at - ii - 1]
              IN  value < Modulus => scan.numval = value

(* The key with single backticks up to each place, as in Single. *)
Singles(bytes) ==
  LET upTo[i \in 0 .. Len(bytes)] ==
        IF i = 0 THEN <<>>
        ELSE IF bytes[i] = "tick" /\ ~Inside(bytes, i) THEN upTo[i - 1]
        ELSE Append(upTo[i - 1], bytes[i])
  IN  upTo

(* convert_escaped() has written the key up to its place, if backticks pair; *)
(* the name is what begins here, and parse() will go on behind it.           *)
KeySoFar ==
  \E first \in {ii, ii + 1} :
    LET x == SubSeq(ptext, first, scan.past - 1)
    IN  /\ ii <= Len(ptext) /\ scan.past \in first .. Len(ptext) + 1 /\ scan.next \in 1 .. Len(ptext) + 1
        /\ scan.at >= first
        /\ Paired(x) => /\ scan.at <= scan.past /\ ~Inside(x, scan.at - first + 1)
                        /\ Converted = Singles(x)[scan.at - first]
        /\ Rests(ptext)[ii] = Beginning(Name(IF Paired(x) THEN Single(x) ELSE Unsaid),
                                       Rests(ptext)[scan.next])

(* The answer of parse() is the one the readings of the text ask for. *)
AnswerIsRight ==
  /\ \A reading \in Readings(ptext) :
       Fits(reading) =>
         IF Len(reading) > MaxComponents THEN perr = "LEVELS_EXCEEDED"
         ELSE perr = "SUCCESS" /\ Says(ParsedPath, reading)
  /\ Readings(ptext) = {} => perr # "SUCCESS"

(* What parse() has read is what the text says, wherever it stands. *)
GrammarInv ==
  /\ Parsing => ReadSoFar
  /\ ppc = "STRING" => NameSoFar
  /\ ppc = "NUMBER" => IndexSoFar
  /\ ppc = "CONVERT" => KeySoFar
  /\ ppc = "DONE" => AnswerIsRight

-----------------------------------------------------------------------------
(* Slices, backticks and backslashes. *)

(* A set of numbers that is not empty has a least one. *)
LEMMA LeastOf ==
  ASSUME NEW T \in SUBSET Nat, T # {}
  PROVE  \E x \in T : \A y \in T : x <= y
<1>1. PICK x \in T : \A y \in T : ~(<<y, x>> \in OpToRel(<, Nat))
  BY NatLessThanWellFounded, WFMin
<1>2. \A y \in T : ~(y < x)
  BY <1>1 DEF OpToRel
<1> QED
  BY <1>2

(* A slice holds the symbols between its ends. *)
LEMMA SliceOf ==
  ASSUME NEW t \in Seq(STRING), NEW a \in Nat, NEW b \in Nat, 1 <= a, a <= b, b <= Len(t) + 1
  PROVE  /\ SubSeq(t, a, b - 1) \in Seq(STRING) /\ Len(SubSeq(t, a, b - 1)) = b - a
         /\ \A k \in 1 .. b - a : SubSeq(t, a, b - 1)[k] = t[a + k - 1]
<1>1. Len(t) \in Nat
  BY LenProperties
<1>2. \A i \in a .. b - 1 : t[i] \in STRING
  BY <1>1, ElementOfSeq
<1>3. PICK c \in Int : c = b - 1
  OBVIOUS
<1>4. \A i \in a .. c : t[i] \in STRING
  BY <1>2, <1>3
<1>5. /\ SubSeq(t, a, c) \in Seq(STRING)
      /\ Len(SubSeq(t, a, c)) = IF a <= c THEN c - a + 1 ELSE 0
      /\ \A i \in 1 .. c - a + 1 : SubSeq(t, a, c)[i] = t[a + i - 1]
  BY <1>4, SubSeqProperties
<1>6. b - 1 = c /\ c - a + 1 = b - a
  BY <1>3
<1>7. Len(SubSeq(t, a, c)) = b - a
  BY <1>3, <1>5
<1> QED
  BY <1>3, <1>5, <1>6, <1>7

(* What is before a symbol says whether it is escaped: *)
LEMMA EscapesAgree ==
  ASSUME NEW u, NEW w, NEW i \in Nat, \A k \in 1 .. i - 1 : u[k] = w[k]
  PROVE  IsEscaped(u, i) <=> IsEscaped(w, i)
<1>1. \A n \in 1 .. i - 1 :
        /\ (\A j \in i - n .. i - 1 : u[j] = Bslash) <=> (\A j \in i - n .. i - 1 : w[j] = Bslash)
        /\ n < i - 1 => u[i - n - 1] = w[i - n - 1]
  OBVIOUS
<1> QED
  BY <1>1 DEF IsEscaped

(* a backslash before it that is not escaped itself. *)
LEMMA NextEscaped ==
  ASSUME NEW u, NEW i \in Nat \ {0}
  PROVE  IsEscaped(u, i + 1) <=> u[i] = Bslash /\ ~IsEscaped(u, i)
<1> DEFINE Run(m, e) == /\ \A j \in e - m .. e - 1 : u[j] = Bslash
                        /\ m < e - 1 => u[e - m - 1] # Bslash
<1>1. ASSUME NEW n \in 1 .. i, n % 2 = 1, Run(n, i + 1)
      PROVE  u[i] = Bslash /\ ~IsEscaped(u, i)
  <2>1. u[i] = Bslash
    BY <1>1
  <2>2. ASSUME NEW m \in 1 .. i - 1, m % 2 = 1, Run(m, i) PROVE FALSE
    <3>1. m # n - 1
      BY <1>1, <2>2
    <3>2. CASE m < n - 1
      <4>1. m < i - 1 /\ i - m - 1 \in i + 1 - n .. i
        BY <3>2
      <4> QED
        BY <1>1, <2>2, <4>1
    <3>3. CASE m > n - 1
      <4>1. n < i /\ i + 1 - n - 1 \in i - m .. i - 1
        BY <3>3
      <4>2. u[i + 1 - n - 1] # Bslash
        BY <1>1, <4>1
      <4> QED
        BY <2>2, <4>1, <4>2
    <3> QED
      BY <3>1, <3>2, <3>3
  <2> QED
    BY <2>1, <2>2 DEF IsEscaped
<1>2. ASSUME u[i] = Bslash, ~IsEscaped(u, i)
      PROVE  IsEscaped(u, i + 1)
  <2> DEFINE T == {r \in Nat : r = i - 1 \/ (r < i - 1 /\ u[i - 1 - r] # Bslash)}
  <2>1. PICK r \in T : \A s \in T : r <= s
    <3>1. T \in SUBSET Nat /\ i - 1 \in T
      OBVIOUS
    <3> HIDE DEF T
    <3> QED
      BY <3>1, LeastOf
  <2>2. r \in 0 .. i - 1 /\ (r < i - 1 => u[i - 1 - r] # Bslash)
    BY <2>1
  <2>3. \A s \in 0 .. r - 1 : u[i - 1 - s] = Bslash
    BY <2>1, <2>2
  <2>4. \A j \in i - r .. i - 1 : u[j] = Bslash
    <3> TAKE j \in i - r .. i - 1
    <3>1. i - 1 - j \in 0 .. r - 1 /\ i - 1 - (i - 1 - j) = j
      BY <2>2
    <3> QED
      BY <2>3, <3>1
  <2>5. r % 2 = 0
    <3> SUFFICES ASSUME r % 2 # 0 PROVE FALSE
      OBVIOUS
    <3>1. r % 2 = 1 /\ r \in 1 .. i - 1
      BY <2>2
    <3>2. r < i - 1 => u[i - r - 1] # Bslash
      BY <2>2
    <3> QED
      BY <1>2, <2>4, <3>1, <3>2 DEF IsEscaped
  <2>6. (r + 1) % 2 = 1 /\ r + 1 \in 1 .. i + 1 - 1
    BY <2>2, <2>5
  <2>7. \A j \in i + 1 - (r + 1) .. i + 1 - 1 : u[j] = Bslash
    BY <1>2, <2>2, <2>4
  <2>8. r + 1 < i + 1 - 1 => u[i + 1 - (r + 1) - 1] # Bslash
    BY <2>2
  <2> QED
    BY <2>6, <2>7, <2>8 DEF IsEscaped
<1>3. i + 1 - 1 = i
  OBVIOUS
<1> QED
  BY <1>1, <1>2, <1>3 DEF IsEscaped

(* The backticks before a symbol: in an odd number if it is quoted. *)
TicksBefore(bytes, i) == {j \in Ticks(bytes) : j < i}

(* Texts that agree up to a place agree on its backticks. *)
LEMMA TicksAgree ==
  ASSUME NEW u, NEW w, NEW i \in Nat, Len(u) \in Nat, Len(w) \in Nat,
         i <= Len(u) + 1, i <= Len(w) + 1, \A k \in 1 .. i - 1 : u[k] = w[k]
  PROVE  /\ TicksBefore(u, i) = TicksBefore(w, i)
         /\ Inside(u, i) <=> Inside(w, i)
<1>1. TicksBefore(u, i) = TicksBefore(w, i)
  BY DEF TicksBefore, Ticks
<1> QED
  BY <1>1 DEF TicksBefore, Inside

(* The backticks before a place, counted one character after the other. *)
LEMMA TicksCount ==
  ASSUME NEW u, Len(u) \in Nat
  PROVE  /\ \A i \in Nat : /\ IsFiniteSet(TicksBefore(u, i)) /\ Cardinality(TicksBefore(u, i)) \in Nat
                           /\ Inside(u, i) <=> Cardinality(TicksBefore(u, i)) % 2 = 1
         /\ TicksBefore(u, 1) = {} /\ Cardinality(TicksBefore(u, 1)) = 0
         /\ TicksBefore(u, Len(u) + 1) = Ticks(u)
         /\ \A i \in 1 .. Len(u) :
              Cardinality(TicksBefore(u, i + 1)) =
                Cardinality(TicksBefore(u, i)) + (IF u[i] = "tick" THEN 1 ELSE 0)
<1>1. ASSUME NEW i \in Nat
      PROVE  /\ IsFiniteSet(TicksBefore(u, i)) /\ Cardinality(TicksBefore(u, i)) \in Nat
             /\ Inside(u, i) <=> Cardinality(TicksBefore(u, i)) % 2 = 1
  <2>1. IsFiniteSet(1 .. Len(u)) /\ TicksBefore(u, i) \in SUBSET (1 .. Len(u))
    BY FS_Interval DEF TicksBefore, Ticks
  <2>2. IsFiniteSet(TicksBefore(u, i))
    BY <2>1, FS_Subset
  <2> QED
    BY <2>2, FS_CardinalityType DEF Inside, TicksBefore
<1>2. TicksBefore(u, 1) = {} /\ Cardinality(TicksBefore(u, 1)) = 0
  <2>1. TicksBefore(u, 1) = {}
    BY DEF TicksBefore, Ticks
  <2> QED
    BY <2>1, FS_EmptySet
<1>3. TicksBefore(u, Len(u) + 1) = Ticks(u)
  BY DEF TicksBefore, Ticks
<1>4. ASSUME NEW i \in 1 .. Len(u)
      PROVE  Cardinality(TicksBefore(u, i + 1)) =
               Cardinality(TicksBefore(u, i)) + (IF u[i] = "tick" THEN 1 ELSE 0)
  <2>1. CASE u[i] = "tick"
    <3>1. TicksBefore(u, i + 1) = TicksBefore(u, i) \cup {i} /\ i \notin TicksBefore(u, i)
      BY <2>1 DEF TicksBefore, Ticks
    <3> QED
      BY <1>1, <2>1, <3>1, FS_AddElement
  <2>2. CASE u[i] # "tick"
    <3>1. TicksBefore(u, i + 1) = TicksBefore(u, i)
      BY <2>2 DEF TicksBefore, Ticks
    <3> QED
      BY <1>1, <2>2, <3>1
  <2> QED
    BY <2>1, <2>2
<1> QED
  BY <1>1, <1>2, <1>3, <1>4

-----------------------------------------------------------------------------
(* What is defined from one symbol to the next. *)

(* A set of numbers that holds 0 and with each number the next one. *)
LEMMA AllAlong ==
  ASSUME NEW n \in Nat, NEW S, 0 \in S, \A i \in 1 .. n : i - 1 \in S => i \in S
  PROVE  0 .. n \subseteq S
<1> SUFFICES ASSUME ~(0 .. n \subseteq S) PROVE FALSE
  OBVIOUS
<1> DEFINE T == {i \in Nat : i <= n /\ i \notin S}
<1>1. PICK k \in T : \A j \in T : k <= j
  <2>1. T \in SUBSET Nat /\ T # {}
    OBVIOUS
  <2> HIDE DEF T
  <2> QED
    BY <2>1, LeastOf
<1>2. k \in 1 .. n /\ k - 1 \notin T
  BY <1>1
<1>3. k - 1 \in S
  BY <1>2
<1> QED
  BY <1>1, <1>2, <1>3

(* A fold: what n functions make of a value, one after the other. *)
Steps(n, V) == [1 .. n -> [V -> V]]
Folds(f, n, V, first, next) ==
  f \in [0 .. n -> V] /\ f[0] = first /\ \A i \in 1 .. n : f[i] = next[i][f[i - 1]]

(* There is a fold of as many steps as one likes. *)
LEMMA FoldExists ==
  ASSUME NEW n \in Nat, NEW V, NEW first \in V, NEW next \in Steps(n, V)
  PROVE  \E f : Folds(f, n, V, first, next)
<1> DEFINE FoldsTo(f, k) == f[0] = first /\ \A i \in 1 .. k : f[i] = next[i][f[i - 1]]
           S == {k \in 0 .. n : \E f \in [0 .. k -> V] : FoldsTo(f, k)}
<1>1. 0 \in S
  <2>1. PICK f \in [0 .. 0 -> V] : f = [i \in 0 .. 0 |-> first]
    OBVIOUS
  <2>2. f[0] = first
    BY <2>1
  <2>3. FoldsTo(f, 0)
    BY <2>2
  <2> QED
    BY <2>1, <2>3
<1>2. ASSUME NEW k \in 1 .. n, k - 1 \in S PROVE k \in S
  <2>1. PICK f \in [0 .. k - 1 -> V] : FoldsTo(f, k - 1)
    BY <1>2
  <2> DEFINE g == [i \in 0 .. k |-> IF i = k THEN next[k][f[k - 1]] ELSE f[i]]
  <2>2. f[k - 1] \in V /\ next[k] \in [V -> V]
    BY <1>2, <2>1 DEF Steps
  <2>3. g \in [0 .. k -> V]
    BY <2>1, <2>2
  <2>4. FoldsTo(g, k)
    BY <2>1
  <2>5. k \in 0 .. n
    OBVIOUS
  <2> HIDE DEF g, FoldsTo
  <2> QED
    BY <2>3, <2>4, <2>5
<1>3. n \in S
  <2> HIDE DEF S
  <2>1. 0 .. n \subseteq S
    BY <1>1, <1>2, AllAlong
  <2> QED
    BY <2>1
<1> QED
  BY <1>3 DEF Folds

(* A text with its doubled backticks made single, symbol by symbol. *)
LEMMA SinglesFacts ==
  ASSUME NEW bytes \in Seq(STRING)
  PROVE  /\ Single(bytes) = Singles(bytes)[Len(bytes)]
         /\ Singles(bytes)[0] = <<>>
         /\ \A i \in 1 .. Len(bytes) :
              Singles(bytes)[i] = IF bytes[i] = "tick" /\ ~Inside(bytes, i) THEN Singles(bytes)[i - 1]
                                  ELSE Append(Singles(bytes)[i - 1], bytes[i])
         /\ \A i \in 0 .. Len(bytes) : Singles(bytes)[i] \in Seq(STRING)
<1> DEFINE n == Len(bytes)
           V == Seq(STRING)
           next == [i \in 1 .. n |-> [v \in V |-> IF bytes[i] = "tick" /\ ~Inside(bytes, i) THEN v
                                                  ELSE Append(v, bytes[i])]]
<1>1. n \in Nat /\ \A i \in 1 .. n : bytes[i] \in STRING
  BY LenProperties, ElementOfSeq
<1>2. next \in [1 .. n -> [V -> V]] /\ <<>> \in V
  <2>1. \A i \in 1 .. n, v \in V : Append(v, bytes[i]) \in V
    BY <1>1, AppendProperties
  <2>2. <<>> \in V
    BY EmptySeq
  <2> HIDE DEF V, n
  <2> QED
    BY <2>1, <2>2
<1>3. PICK f \in [0 .. n -> V] : f[0] = <<>> /\ \A i \in 1 .. n : f[i] = next[i][f[i - 1]]
  <2>1. n \in Nat
    BY <1>1
  <2> HIDE DEF next, n, V
  <2>2. next \in Steps(n, V)
    BY <1>2 DEF Steps
  <2>3. PICK f : Folds(f, n, V, <<>>, next)
    BY <1>2, <2>1, <2>2, FoldExists
  <2> QED
    BY <2>3 DEF Folds
<1>4. f = [i \in 0 .. n |-> IF i = 0 THEN <<>>
                            ELSE IF bytes[i] = "tick" /\ ~Inside(bytes, i) THEN f[i - 1]
                            ELSE Append(f[i - 1], bytes[i])]
  <2>1. \A i \in 1 .. n : f[i - 1] \in V
    <3>1. n \in Nat
      BY <1>1
    <3> HIDE DEF next, n, V
    <3> QED
      BY <1>3, <3>1
  <2>2. \A i \in 1 .. n : next[i][f[i - 1]] = IF bytes[i] = "tick" /\ ~Inside(bytes, i) THEN f[i - 1]
                                              ELSE Append(f[i - 1], bytes[i])
    BY <2>1
  <2> HIDE DEF next, n, V
  <2>3. \A i \in 0 .. n : f[i] = IF i = 0 THEN <<>>
                            ELSE IF bytes[i] = "tick" /\ ~Inside(bytes, i) THEN f[i - 1]
                            ELSE Append(f[i - 1], bytes[i])
    <3>1. n \in Nat
      BY <1>1
    <3> TAKE i \in 0 .. n
    <3>2. i = 0 \/ i \in 1 .. n
      BY <3>1
    <3> QED
      BY <1>3, <2>2, <3>1, <3>2
  <2>4. f = [i \in 0 .. n |-> f[i]]
    BY <1>3
  <2> QED
    BY <2>3, <2>4
<1>5. Singles(bytes) =
        [i \in 0 .. n |-> IF i = 0 THEN <<>>
                          ELSE IF bytes[i] = "tick" /\ ~Inside(bytes, i) THEN Singles(bytes)[i - 1]
                          ELSE Append(Singles(bytes)[i - 1], bytes[i])]
  BY <1>4, Zenon DEF Singles
<1>6. Single(bytes) = Singles(bytes)[n]
  BY Zenon DEF Single, Singles
<1>7. /\ Singles(bytes)[0] = <<>>
      /\ \A i \in 1 .. n :
           Singles(bytes)[i] = IF bytes[i] = "tick" /\ ~Inside(bytes, i) THEN Singles(bytes)[i - 1]
                               ELSE Append(Singles(bytes)[i - 1], bytes[i])
  <2>1. n \in Nat
    BY <1>1
  <2>2. PICK s : /\ s = Singles(bytes)
                 /\ s = [i \in 0 .. n |-> IF i = 0 THEN <<>>
                                          ELSE IF bytes[i] = "tick" /\ ~Inside(bytes, i) THEN s[i - 1]
                                          ELSE Append(s[i - 1], bytes[i])]
    BY <1>5
  <2> HIDE DEF n
  <2>3. \A i \in 0 .. n : s[i] = IF i = 0 THEN <<>>
                                  ELSE IF bytes[i] = "tick" /\ ~Inside(bytes, i) THEN s[i - 1]
                                  ELSE Append(s[i - 1], bytes[i])
    BY <2>2
  <2>4. s[0] = <<>>
    BY <2>1, <2>3
  <2>5. \A i \in 1 .. n : s[i] = IF bytes[i] = "tick" /\ ~Inside(bytes, i) THEN s[i - 1]
                                  ELSE Append(s[i - 1], bytes[i])
    BY <2>1, <2>3
  <2> QED
    BY <2>2, <2>4, <2>5
<1>8. \A i \in 0 .. n : Singles(bytes)[i] \in V
  <2> DEFINE S == {i \in 0 .. n : Singles(bytes)[i] \in V}
  <2>1. 0 \in S
    <3>1. 0 \in 0 .. n
      BY <1>1
    <3> HIDE DEF V, n
    <3> QED
      BY <1>2, <1>7, <3>1
  <2>3. ASSUME NEW i \in 1 .. n, i - 1 \in S PROVE i \in S
    <3>1. PICK v \in V : v = Singles(bytes)[i - 1]
      BY <2>3
    <3>2. v \in V /\ Append(v, bytes[i]) \in V
      BY <1>1, AppendProperties
    <3>3. Singles(bytes)[i] = v \/ Singles(bytes)[i] = Append(v, bytes[i])
      BY <1>7, <3>1
    <3>4. i \in 0 .. n
      BY <1>1
    <3> HIDE DEF V, n
    <3> QED
      BY <3>2, <3>3, <3>4
  <2>2. 0 .. n \subseteq S
    <3> HIDE DEF S, n
    <3> QED
      BY <1>1, <2>1, <2>3, AllAlong
  <2> QED
    BY <2>2
<1> QED
  BY <1>6, <1>7, <1>8

(* The number that digits make, digit by digit. *)
LEMMA CountedFacts ==
  ASSUME NEW bytes \in Seq(STRING), \A i \in 1 .. Len(bytes) : bytes[i] \in Digit
  PROVE  /\ IntOf(bytes) = Counted(bytes)[Len(bytes)]
         /\ Counted(bytes)[0] = 0
         /\ \A i \in 1 .. Len(bytes) :
              Counted(bytes)[i] = 10 * Counted(bytes)[i - 1] + DigitOf(bytes[i])
         /\ \A i \in 0 .. Len(bytes) : Counted(bytes)[i] \in Nat
<1> DEFINE n == Len(bytes)
           next == [i \in 1 .. n |-> [v \in Nat |-> 10 * v + DigitOf(bytes[i])]]
<1>1. n \in Nat /\ \A i \in 1 .. n : DigitOf(bytes[i]) \in 0 .. 9
  BY LenProperties, DigitsAreSmall
<1>2. ~IsNegative(bytes) /\ Digits(bytes) = bytes
  BY <1>1 DEF IsNegative, Digits, Digit
<1>3. next \in [1 .. n -> [Nat -> Nat]]
  BY <1>1
<1>4. PICK f \in [0 .. n -> Nat] : f[0] = 0 /\ \A i \in 1 .. n : f[i] = next[i][f[i - 1]]
  <2>1. n \in Nat /\ 0 \in Nat
    BY <1>1
  <2> HIDE DEF next, n
  <2>2. next \in Steps(n, Nat)
    BY <1>3 DEF Steps
  <2>3. PICK f : Folds(f, n, Nat, 0, next)
    BY <2>1, <2>2, FoldExists
  <2> QED
    BY <2>3 DEF Folds
<1>5. f = [i \in 0 .. n |-> IF i = 0 THEN 0 ELSE 10 * f[i - 1] + DigitOf(bytes[i])]
  <2>1. \A i \in 1 .. n : f[i - 1] \in Nat
    <3>1. n \in Nat
      BY <1>1
    <3> HIDE DEF next, n
    <3> QED
      BY <1>4, <3>1
  <2>2. \A i \in 1 .. n : next[i][f[i - 1]] = 10 * f[i - 1] + DigitOf(bytes[i])
    BY <2>1
  <2> HIDE DEF next, n
  <2>3. \A i \in 0 .. n : f[i] = IF i = 0 THEN 0 ELSE 10 * f[i - 1] + DigitOf(bytes[i])
    BY <1>1, <1>4, <2>2
  <2>4. f = [i \in 0 .. n |-> f[i]]
    BY <1>4
  <2> QED
    BY <2>3, <2>4
<1>6. f = [i \in 0 .. Len(Digits(bytes)) |-> IF i = 0 THEN 0 ELSE 10 * f[i - 1] + DigitOf(Digits(bytes)[i])]
  BY <1>2, <1>5, Zenon
<1>7. Counted(bytes) = [i \in 0 .. Len(Digits(bytes)) |->
                          IF i = 0 THEN 0 ELSE 10 * Counted(bytes)[i - 1] + DigitOf(Digits(bytes)[i])]
  BY <1>6, Zenon DEF Counted
<1>8. Counted(bytes) = [i \in 0 .. n |-> IF i = 0 THEN 0 ELSE 10 * Counted(bytes)[i - 1] + DigitOf(bytes[i])]
  BY <1>2, <1>7, Zenon
<1>9. IntOf(bytes) = Counted(bytes)[n]
  <2>1. IntOf(bytes) = IF IsNegative(bytes) THEN -(Counted(bytes)[Len(Digits(bytes))])
                       ELSE Counted(bytes)[Len(Digits(bytes))]
    BY Zenon DEF IntOf, Counted
  <2> QED
    BY <1>2, <2>1, Zenon
<1>10. /\ Counted(bytes)[0] = 0
       /\ \A i \in 1 .. n : Counted(bytes)[i] = 10 * Counted(bytes)[i - 1] + DigitOf(bytes[i])
  <2> HIDE DEF n
  <2> QED
    BY <1>1, <1>8
<1>11. \A i \in 0 .. n : Counted(bytes)[i] \in Nat
  <2> DEFINE S == {i \in 0 .. n : Counted(bytes)[i] \in Nat}
  <2>1. 0 \in S
    BY <1>1, <1>10
  <2>3. ASSUME NEW i \in 1 .. n, i - 1 \in S PROVE i \in S
    <3>1. Counted(bytes)[i - 1] \in Nat /\ DigitOf(bytes[i]) \in 0 .. 9
      BY <1>1, <2>3
    <3>2. Counted(bytes)[i] = 10 * Counted(bytes)[i - 1] + DigitOf(bytes[i])
      BY <1>10
    <3> QED
      BY SMTT(30), <3>1, <3>2
  <2>2. 0 .. n \subseteq S
    <3> HIDE DEF S, n
    <3> QED
      BY <1>1, <2>1, <2>3, AllAlong
  <2> QED
    BY <2>2
<1> QED
  BY <1>9, <1>10, <1>11

(* The number of a few digits is not above that of all. *)
LEMMA CountedGrows ==
  ASSUME NEW bytes \in Seq(STRING), \A i \in 1 .. Len(bytes) : bytes[i] \in Digit,
         NEW k \in 0 .. Len(bytes)
  PROVE  Counted(bytes)[k] <= IntOf(bytes)
<1> DEFINE n == Len(bytes)
           S == {j \in 0 .. n - k : Counted(bytes)[k] <= Counted(bytes)[k + j]}
<1>1. /\ n \in Nat /\ \A i \in 0 .. n : Counted(bytes)[i] \in Nat
      /\ \A i \in 1 .. n : /\ Counted(bytes)[i] = 10 * Counted(bytes)[i - 1] + DigitOf(bytes[i])
                           /\ DigitOf(bytes[i]) \in 0 .. 9
  BY CountedFacts, LenProperties, DigitsAreSmall
<1>2. 0 \in S
  BY <1>1
<1>3. ASSUME NEW j \in 1 .. n - k, j - 1 \in S PROVE j \in S
  <2>1. k + j \in 1 .. n /\ k + j - 1 \in 0 .. n /\ k + (j - 1) = k + j - 1
    BY <1>1
  <2>2. Counted(bytes)[k + j] >= Counted(bytes)[k + j - 1]
    <3>1. PICK i \in 1 .. n : i = k + j
      BY <2>1
    <3>2. Counted(bytes)[i] = 10 * Counted(bytes)[i - 1] + DigitOf(bytes[i])
      BY <1>1
    <3>3. Counted(bytes)[i - 1] \in Nat /\ DigitOf(bytes[i]) \in 0 .. 9
      BY <1>1
    <3> QED
      BY <3>1, <3>2, <3>3
  <2> QED
    BY SMTT(30), <1>1, <1>3, <2>1, <2>2
<1>4. n - k \in S
  <2> HIDE DEF S
  <2>1. n - k \in Nat
    BY <1>1
  <2>2. 0 .. n - k \subseteq S
    BY <1>2, <1>3, <2>1, AllAlong
  <2> QED
    BY <2>1, <2>2
<1>5. k + (n - k) = n
  BY <1>1
<1> QED
  BY <1>4, <1>5, CountedFacts

-----------------------------------------------------------------------------
(* What may begin at a place depends only on what may begin behind it. *)

(* What may begin at a place depends on the places behind it. *)
LEMMA RestsDepend ==
  ASSUME NEW t \in Seq(STRING), NEW f, NEW g, NEW i \in 1 .. Len(t) + 1,
         \A k \in i + 1 .. Len(t) + 1 : f[k] = g[k]
  PROVE  RestFrom(t, f, i) = RestFrom(t, g, i)
<1>1. Len(t) \in Nat
  BY LenProperties
<1>2. CASE i > Len(t)
  BY <1>2 DEF RestFrom
<1>3. CASE i <= Len(t)
  <2>1. \A j \in i .. Len(t) : After(t, f, j + 1) = After(t, g, j + 1)
    <3> TAKE j \in i .. Len(t)
    <3>1. j + 1 > Len(t) \/ (j + 1 \in i + 1 .. Len(t) + 1 /\ j + 1 + 1 \in i + 1 .. Len(t) + 1)
      BY <1>1
    <3> QED
      BY <3>1 DEF After
  <2>2. \A j \in i .. Len(t) : Extended(t, f, i, j) = Extended(t, g, i, j)
    <3> TAKE j \in i .. Len(t)
    <3>1. After(t, f, j + 1) = After(t, g, j + 1)
      BY <2>1
    <3> QED
      BY <3>1, ZenonT(30) DEF Extended
  <2>3. {Extended(t, f, i, j) : j \in i .. Len(t)} = {Extended(t, g, i, j) : j \in i .. Len(t)}
    BY <2>2, Zenon
  <2>4. ~(i > Len(t))
    BY <1>1, <1>3
  <2> QED
    BY <2>3, <2>4, Zenon DEF RestFrom
<1> QED
  BY <1>1, <1>2, <1>3

(* The texts of the rests are there. *)
LEMMA RestsAre ==
  ASSUME NEW t \in Seq(STRING)
  PROVE  \A i \in 1 .. Len(t) + 1 : Rests(t)[i] = RestFrom(t, Rests(t), i)
<1> DEFINE n == Len(t)
           Good(f, k) == f = [i \in 1 .. n + 1 |-> f[i]] /\ \A i \in n + 1 - k .. n + 1 : f[i] = RestFrom(t, f, i)
           S == {k \in 0 .. n : \E f : Good(f, k)}
<1>1. n \in Nat
  BY LenProperties
<1>2. 0 \in S
  <2>1. PICK f : f = [i \in 1 .. n + 1 |-> {<<>>}]
    OBVIOUS
  <2>2. f = [i \in 1 .. n + 1 |-> f[i]]
    BY <2>1
  <2>3. RestFrom(t, f, n + 1) = {<<>>}
    BY <1>1 DEF RestFrom
  <2>4. f[n + 1] = {<<>>}
    BY <1>1, <2>1
  <2>5. \A i \in n + 1 - 0 .. n + 1 : f[i] = RestFrom(t, f, i)
    <3> TAKE i \in n + 1 - 0 .. n + 1
    <3>1. i = n + 1
      BY <1>1
    <3> QED
      BY <2>3, <2>4, <3>1
  <2>6. Good(f, 0)
    BY <2>2, <2>5
  <2>7. 0 \in 0 .. n
    BY <1>1
  <2> HIDE DEF Good
  <2> QED
    BY <2>6, <2>7
<1>3. ASSUME NEW k \in 1 .. n, k - 1 \in S PROVE k \in S
  <2>1. PICK f : Good(f, k - 1)
    BY <1>3
  <2>2. PICK a \in 1 .. n : a = n + 1 - k
    BY <1>1
  <2>3. PICK g : g = [i \in 1 .. n + 1 |-> IF i = a THEN RestFrom(t, f, a) ELSE f[i]]
    OBVIOUS
  <2>4. g = [i \in 1 .. n + 1 |-> g[i]]
    BY <2>3
  <2>5. \A i \in 1 .. n + 1 : i # a => g[i] = f[i]
    BY <2>3
  <2>6. \A i \in a .. n + 1 : RestFrom(t, g, i) = RestFrom(t, f, i)
    <3> TAKE i \in a .. n + 1
    <3>1. i \in 1 .. Len(t) + 1
      BY <1>1, <2>2
    <3>2. \A j \in i + 1 .. Len(t) + 1 : g[j] = f[j]
      BY <1>1, <2>2, <2>5
    <3> QED
      BY <3>1, <3>2, RestsDepend
  <2>7. \A i \in a .. n + 1 : g[i] = RestFrom(t, f, i)
    <3> TAKE i \in a .. n + 1
    <3>1. i \in 1 .. n + 1
      BY <1>1, <2>2
    <3>2. CASE i = a
      BY <2>3, <3>1, <3>2
    <3>3. CASE i # a
      <4>1. i \in n + 1 - (k - 1) .. n + 1
        BY <1>1, <2>2, <3>1, <3>3
      <4>2. f[i] = RestFrom(t, f, i)
        BY <2>1, <4>1
      <4> QED
        BY <2>5, <3>1, <3>3, <4>2
    <3> QED
      BY <3>2, <3>3
  <2>8. \A i \in n + 1 - k .. n + 1 : g[i] = RestFrom(t, g, i)
    <3> HIDE DEF n
    <3> QED
      BY <2>2, <2>6, <2>7
  <2>9. Good(g, k) /\ k \in 0 .. n
    BY <1>1, <2>4, <2>8
  <2> HIDE DEF Good
  <2> QED
    BY <2>9
<1>4. n \in S
  <2> HIDE DEF S
  <2>1. 0 .. n \subseteq S
    BY <1>1, <1>2, <1>3, AllAlong
  <2> QED
    BY <1>1, <2>1
<1>5. PICK f : Good(f, n)
  BY <1>4
<1>6. f = [i \in 1 .. n + 1 |-> RestFrom(t, f, i)]
  <2>1. \A i \in 1 .. n + 1 : f[i] = RestFrom(t, f, i)
    <3>1. n + 1 - n = 1
      BY <1>1
    <3> HIDE DEF n
    <3> QED
      BY <1>5, <3>1
  <2>2. f = [i \in 1 .. n + 1 |-> f[i]]
    BY <1>5
  <2> QED
    BY <2>1, <2>2, Zenon
<1>7. Rests(t) = [i \in 1 .. n + 1 |-> RestFrom(t, Rests(t), i)]
  BY <1>6, Zenon DEF Rests
<1> QED
  BY <1>7, Zenon

-----------------------------------------------------------------------------
(* Items: what a slice says by itself. *)

(* Part of a text, by its last place. *)
LEMMA SliceTo ==
  ASSUME NEW t \in Seq(STRING), NEW a \in Nat, NEW b \in Nat, 1 <= a, a <= b + 1, b <= Len(t)
  PROVE  /\ SubSeq(t, a, b) \in Seq(STRING) /\ Len(SubSeq(t, a, b)) = b - a + 1
         /\ \A k \in 1 .. b - a + 1 : SubSeq(t, a, b)[k] = t[a + k - 1]
<1>1. Len(t) \in Nat
  BY LenProperties
<1>2. PICK c \in Nat : c = b + 1
  OBVIOUS
<1>3. /\ SubSeq(t, a, c - 1) \in Seq(STRING) /\ Len(SubSeq(t, a, c - 1)) = c - a
      /\ \A k \in 1 .. c - a : SubSeq(t, a, c - 1)[k] = t[a + k - 1]
  BY <1>1, <1>2, SliceOf
<1>4. c - 1 = b /\ c - a = b - a + 1
  BY <1>2
<1> QED
  BY <1>3, <1>4

(* Two texts of the same symbols are the same text. *)
LEMMA SameText ==
  ASSUME NEW u \in Seq(STRING), NEW w \in Seq(STRING), Len(u) = Len(w),
         \A k \in 1 .. Len(u) : u[k] = w[k]
  PROVE  u = w
<1>1. u = [k \in 1 .. Len(u) |-> u[k]] /\ w = [k \in 1 .. Len(w) |-> w[k]]
  BY LenProperties
<1> QED
  BY <1>1

LEMMA MiddleOf ==
  ASSUME NEW bytes \in Seq(STRING), Len(bytes) >= 2
  PROVE  /\ Middle(bytes) \in Seq(STRING) /\ Len(Middle(bytes)) = Len(bytes) - 2
         /\ \A k \in 1 .. Len(bytes) - 2 : Middle(bytes)[k] = bytes[k + 1]
<1>1. PICK b \in Nat : b = Len(bytes)
  BY LenProperties
<1>2. /\ SubSeq(bytes, 2, b - 1) \in Seq(STRING) /\ Len(SubSeq(bytes, 2, b - 1)) = b - 2
      /\ \A k \in 1 .. b - 2 : SubSeq(bytes, 2, b - 1)[k] = bytes[2 + k - 1]
  BY <1>1, SliceOf
<1>3. \A k \in 1 .. b - 2 : 2 + k - 1 = k + 1
  OBVIOUS
<1> QED
  BY <1>1, <1>2, <1>3 DEF Middle

LEMMA MiddleOfSlice ==
  ASSUME NEW t \in Seq(STRING), NEW a \in 1 .. Len(t), NEW b \in a + 1 .. Len(t)
  PROVE  Middle(SubSeq(t, a, b)) = SubSeq(t, a + 1, b - 1)
<1>1. Len(t) \in Nat /\ a \in Nat /\ b \in Nat /\ a + 1 \in Nat /\ b <= Len(t) /\ 1 <= a /\ a < b
  BY LenProperties
<1>2. PICK s \in Seq(STRING) : s = SubSeq(t, a, b)
  <2>1. a <= b + 1
    BY <1>1
  <2>2. SubSeq(t, a, b) \in Seq(STRING)
    BY <1>1, <2>1, SliceTo
  <2> QED
    BY <2>2
<1>3. Len(s) = b - a + 1 /\ \A k \in 1 .. b - a + 1 : s[k] = t[a + k - 1]
  BY <1>1, <1>2, SliceTo
<1>4. /\ Middle(s) \in Seq(STRING) /\ Len(Middle(s)) = b - a - 1
      /\ \A k \in 1 .. b - a - 1 : Middle(s)[k] = s[k + 1]
  <2>1. Len(s) >= 2 /\ Len(s) - 2 = b - a - 1
    BY <1>1, <1>3
  <2> QED
    BY <2>1, MiddleOf
<1>5. PICK m \in Seq(STRING) : m = SubSeq(t, a + 1, b - 1)
  <2>1. a + 1 <= b /\ b <= Len(t) + 1 /\ 1 <= a + 1
    BY <1>1
  <2>2. SubSeq(t, a + 1, b - 1) \in Seq(STRING)
    BY <1>1, <2>1, SliceOf
  <2> QED
    BY <2>2
<1>6. Len(m) = b - a - 1 /\ \A k \in 1 .. b - a - 1 : m[k] = t[a + k]
  <2>1. PICK a1 \in Nat : a1 = a + 1
    BY <1>1
  <2>2. /\ Len(SubSeq(t, a1, b - 1)) = b - a1
        /\ \A k \in 1 .. b - a1 : SubSeq(t, a1, b - 1)[k] = t[a1 + k - 1]
    BY <1>1, <2>1, SliceOf
  <2>3. b - a1 = b - a - 1 /\ \A k \in 1 .. b - a - 1 : a1 + k - 1 = a + k
    BY <1>1, <2>1
  <2> QED
    BY <1>5, <2>1, <2>2, <2>3
<1>7. \A k \in 1 .. b - a - 1 : Middle(s)[k] = m[k]
  <2> TAKE k \in 1 .. b - a - 1
  <2>1. k + 1 \in 1 .. b - a + 1 /\ a + (k + 1) - 1 = a + k
    BY <1>1
  <2>2. s[k + 1] = t[a + (k + 1) - 1]
    BY <1>3, <2>1
  <2> QED
    BY <1>4, <1>6, <2>1, <2>2
<1>8. Middle(s) = m
  <2>1. PICK u \in Seq(STRING) : u = Middle(s)
    BY <1>4
  <2> QED
    BY <1>4, <1>6, <1>7, <2>1, SameText
<1> QED
  BY <1>2, <1>5, <1>8

(* -1 is the only number with a minus that a path may hold. *)
LEMMA MinusOneIs == IntOf(<<"-", "1">>) = -1
<1> DEFINE u == <<"-", "1">>
<1>1. IsNegative(u) /\ Digits(u) = <<"1">> /\ Len(Digits(u)) = 1 /\ Digits(u)[1] = "1"
  BY DEF IsNegative, Digits
<1>2. DigitOf("1") = 1
  BY DEF DigitOf, DigitText
<1>3. PICK f : f = [i \in 0 .. 1 |-> i]
  OBVIOUS
<1>4. f = [i \in 0 .. Len(Digits(u)) |-> IF i = 0 THEN 0 ELSE 10 * f[i - 1] + DigitOf(Digits(u)[i])]
  <2>1. \A i \in 0 .. 1 : f[i] = IF i = 0 THEN 0 ELSE 10 * f[i - 1] + DigitOf(Digits(u)[i])
    BY <1>1, <1>2, <1>3
  <2> HIDE DEF u
  <2> QED
    BY <1>1, <1>3, <2>1
<1>5. Counted(u) = [i \in 0 .. Len(Digits(u)) |->
                      IF i = 0 THEN 0 ELSE 10 * Counted(u)[i - 1] + DigitOf(Digits(u)[i])]
  <2> HIDE DEF u
  <2> QED
    BY <1>4, Zenon DEF Counted
<1>6. Counted(u)[1] = 1
  <2>1. PICK g : g = Counted(u) /\ g = [i \in 0 .. 1 |-> IF i = 0 THEN 0 ELSE 10 * g[i - 1] + DigitOf(Digits(u)[i])]
    BY <1>1, <1>5
  <2> HIDE DEF u
  <2>2. \A i \in 0 .. 1 : g[i] = IF i = 0 THEN 0 ELSE 10 * g[i - 1] + DigitOf(Digits(u)[i])
    BY <2>1
  <2>3. g[0] = 0 /\ g[1] = 10 * g[0] + DigitOf(Digits(u)[1])
    BY <2>2
  <2> QED
    BY <1>1, <1>2, <2>1, <2>3
<1>7. IntOf(u) = -(Counted(u)[Len(Digits(u))])
  <2>1. IntOf(u) = IF IsNegative(u) THEN -(Counted(u)[Len(Digits(u))]) ELSE Counted(u)[Len(Digits(u))]
    <3> HIDE DEF u
    <3> QED
      BY Zenon DEF IntOf, Counted
  <2> QED
    BY <1>1, <2>1, Zenon
<1> QED
  BY <1>1, <1>6, <1>7

(* An index is digits, which have a value, or -1. *)
LEMMA IndexFacts ==
  ASSUME NEW bytes \in Seq(STRING), IsIndex(bytes)
  PROVE  /\ Middle(bytes) \in Seq(STRING) /\ IntOf(Middle(bytes)) \in Int
         /\ \/ Middle(bytes) = <<"-", "1">> /\ IntOf(Middle(bytes)) = -1
            \/ /\ \A k \in 1 .. Len(Middle(bytes)) : Middle(bytes)[k] \in Digit
               /\ IntOf(Middle(bytes)) \in Nat
<1>1. Len(bytes) \in Nat /\ Len(bytes) >= 2
  BY LenProperties DEF IsIndex
<1>2. PICK m \in Seq(STRING) : m = Middle(bytes)
  BY <1>1, MiddleOf
<1>3. Len(m) = Len(bytes) - 2 /\ \A k \in 1 .. Len(bytes) - 2 : m[k] = bytes[k + 1]
  BY <1>1, <1>2, MiddleOf
<1>4. CASE m = <<"-", "1">>
  BY <1>2, <1>4, MinusOneIs
<1>5. CASE \A i \in 2 .. Len(bytes) - 1 : bytes[i] \in Digit
  <2>1. \A k \in 1 .. Len(m) : m[k] \in Digit
    <3> TAKE k \in 1 .. Len(m)
    <3>1. k + 1 \in 2 .. Len(bytes) - 1 /\ k \in 1 .. Len(bytes) - 2
      BY <1>1, <1>3
    <3> QED
      BY <1>3, <1>5, <3>1
  <2>2. Len(m) \in 0 .. Len(m)
    BY <1>1, <1>3
  <2>3. IntOf(m) \in Nat
    BY <2>1, <2>2, CountedFacts
  <2> QED
    BY <1>2, <2>1, <2>3
<1> QED
  BY <1>2, <1>4, <1>5 DEF IsIndex

(* What a text may be read as: what parse() may make of it, or a name that *)
(* nothing is said of.                                                     *)
Said == Component \cup {Name(Unsaid)}

LEMMA KeyNamedIsText ==
  ASSUME NEW bytes \in Seq(STRING)
  PROVE  KeyNamed(bytes) \in Seq(STRING) \cup {Unsaid}
<1>1. Len(bytes) \in Nat
  BY LenProperties
<1>3. \A x \in Seq(STRING) : Single(x) \in Seq(STRING)
  <2> TAKE x \in Seq(STRING)
  <2>1. Len(x) \in 0 .. Len(x)
    BY LenProperties
  <2> QED
    BY <2>1, SinglesFacts
<1>4. BothEnds(bytes) => Middle(bytes) \in Seq(STRING)
  BY <1>1, MiddleOf DEF BothEnds
<1>5. BothEnds(bytes) => Single(Middle(bytes)) \in Seq(STRING)
  <2>1. BothEnds(bytes) => \E x \in Seq(STRING) : x = Middle(bytes)
    BY <1>4
  <2> QED
    BY <1>3, <2>1
<1> QED
  BY <1>3, <1>5 DEF KeyNamed

(* A text is one item at most. *)
LEMMA ItemsAre ==
  ASSUME NEW bytes \in Seq(STRING)
  PROVE  /\ Items(bytes) \in SUBSET Said
         /\ \A a, b \in Items(bytes) : a = b
<1>1. \A k \in Seq(STRING) \cup {Unsaid} : Name(k) \in Said
  <2>1. \A k \in Seq(STRING) : Name(k) \in Component
    BY DEF Name, Component
  <2> QED
    BY <2>1, Zenon DEF Said
<1>2. \A n \in Int : Index(n) \in Said
  <2>1. \A n \in Int : Index(n) \in Component
    <3>1. <<>> \in Seq(STRING)
      BY EmptySeq
    <3> QED
      BY <3>1 DEF Index, Component
  <2> QED
    BY <2>1 DEF Said
<1>3. KeyNamed(bytes) \in Seq(STRING) \cup {Unsaid}
  BY KeyNamedIsText
<1>4. IsIndex(bytes) => IntOf(Middle(bytes)) \in Int
  BY IndexFacts
<1>5. ~(IsName(bytes) /\ IsIndex(bytes))
  BY DEF IsName, IsIndex
<1>6. Name(KeyNamed(bytes)) \in Said /\ (IsIndex(bytes) => Index(IntOf(Middle(bytes))) \in Said)
  BY <1>1, <1>2, <1>3, <1>4
<1>7. CASE IsName(bytes)
  <2>1. Items(bytes) = {Name(KeyNamed(bytes))}
    BY <1>5, <1>7 DEF Items
  <2> QED
    BY <1>6, <2>1
<1>8. CASE IsIndex(bytes)
  <2>1. Items(bytes) = {Index(IntOf(Middle(bytes)))}
    BY <1>5, <1>8 DEF Items
  <2> QED
    BY <1>6, <1>8, <2>1
<1>9. CASE ~IsName(bytes) /\ ~IsIndex(bytes)
  <2>1. Items(bytes) = {}
    BY <1>9 DEF Items
  <2> QED
    BY <2>1
<1> QED
  BY <1>7, <1>8, <1>9

-----------------------------------------------------------------------------
(* There is one way to read a text, or none. *)

(* An item from i to j, and what follows it. *)
Reads(t, i, j, comp, rest) ==
  comp \in Items(SubSeq(t, i, j)) /\ rest \in After(t, Rests(t), j + 1)

(* A rest is an item and what goes on behind it. *)
LEMMA RestsSplit ==
  ASSUME NEW t \in Seq(STRING), NEW i \in 1 .. Len(t), NEW r
  PROVE  r \in Rests(t)[i] <=> \E j \in i .. Len(t) : r \in Extended(t, Rests(t), i, j)
<1>1. i \in 1 .. Len(t) + 1 /\ ~(i > Len(t))
  BY LenProperties
<1>2. Rests(t)[i] = UNION {Extended(t, Rests(t), i, j) : j \in i .. Len(t)}
  <2>1. Rests(t)[i] = RestFrom(t, Rests(t), i)
    BY <1>1, RestsAre
  <2> QED
    BY <1>1, <2>1, Zenon DEF RestFrom
<1> QED
  BY <1>2, Zenon

LEMMA RestIs ==
  ASSUME NEW t \in Seq(STRING), NEW i \in 1 .. Len(t), NEW r \in Rests(t)[i]
  PROVE  \E j \in i .. Len(t) : \E comp, rest : Reads(t, i, j, comp, rest) /\ r = <<comp>> \o rest
<1>1. PICK j \in i .. Len(t) : r \in Extended(t, Rests(t), i, j)
  BY RestsSplit
<1>2. PICK comp \in Items(SubSeq(t, i, j)) : r \in {<<comp>> \o rest : rest \in After(t, Rests(t), j + 1)}
  BY <1>1, Zenon DEF Extended
<1>3. PICK rest \in After(t, Rests(t), j + 1) : r = <<comp>> \o rest
  BY <1>2, Zenon
<1>4. Reads(t, i, j, comp, rest)
  BY <1>2, <1>3 DEF Reads
<1> QED
  BY <1>3, <1>4, Zenon

LEMMA RestMade ==
  ASSUME NEW t \in Seq(STRING), NEW i \in 1 .. Len(t), NEW j \in i .. Len(t),
         NEW comp, NEW rest, Reads(t, i, j, comp, rest)
  PROVE  <<comp>> \o rest \in Rests(t)[i]
<1>1. <<comp>> \o rest \in Extended(t, Rests(t), i, j)
  <2>1. <<comp>> \o rest \in {<<comp>> \o q : q \in After(t, Rests(t), j + 1)}
    BY Zenon DEF Reads
  <2>2. comp \in Items(SubSeq(t, i, j))
    BY DEF Reads
  <2> QED
    BY <2>1, <2>2, Zenon DEF Extended
<1> QED
  BY <1>1, RestsSplit, Zenon

LEMMA RestAtEnd ==
  ASSUME NEW t \in Seq(STRING)
  PROVE  Rests(t)[Len(t) + 1] = {<<>>}
<1>1. Len(t) + 1 \in 1 .. Len(t) + 1 /\ Len(t) + 1 > Len(t)
  BY LenProperties
<1> QED
  BY <1>1, RestsAre DEF RestFrom

(* What an item that ends at j goes on with, by the character behind it. *)
LEMMA RestsAfter ==
  ASSUME NEW t \in Seq(STRING), NEW j \in 1 .. Len(t)
  PROVE  \/ j = Len(t) /\ After(t, Rests(t), j + 1) = Rests(t)[j + 1]
         \/ j < Len(t) /\ t[j + 1] = "." /\ After(t, Rests(t), j + 1) = Rests(t)[j + 2]
         \/ j < Len(t) /\ t[j + 1] = "[" /\ After(t, Rests(t), j + 1) = Rests(t)[j + 1]
         \/ j < Len(t) /\ t[j + 1] \notin {".", "["} /\ After(t, Rests(t), j + 1) = {}
<1>1. Len(t) \in Nat /\ j + 1 + 1 = j + 2
  BY LenProperties
<1>2. CASE j = Len(t)
  <2>1. j + 1 > Len(t)
    BY <1>1, <1>2
  <2> QED
    BY <1>2, <2>1, RestAtEnd DEF After
<1>3. CASE j < Len(t)
  <2>1. ~(j + 1 > Len(t))
    BY <1>1, <1>3
  <2> QED
    BY <1>1, <1>3, <2>1 DEF After
<1> QED
  BY <1>1, <1>2, <1>3

(* What a rest is made of. *)
LEMMA RestsAreSaid ==
  ASSUME NEW t \in Seq(STRING)
  PROVE  \A i \in 1 .. Len(t) + 1 : Rests(t)[i] \in SUBSET Seq(Said)
<1> DEFINE n == Len(t)
           S == {k \in 0 .. n : \A i \in n + 1 - k .. n + 1 : Rests(t)[i] \in SUBSET Seq(Said)}
<1>1. n \in Nat
  BY LenProperties
<1>2. 0 \in S
  <2>1. \A i \in n + 1 - 0 .. n + 1 : i = Len(t) + 1
    BY <1>1
  <2>2. Rests(t)[Len(t) + 1] \in SUBSET Seq(Said)
    <3>1. Rests(t)[Len(t) + 1] = {<<>>} /\ <<>> \in Seq(Said)
      BY RestAtEnd, EmptySeq
    <3>2. {<<>>} \in SUBSET Seq(Said)
      BY <3>1
    <3> QED
      BY <3>1, <3>2, Zenon
  <2> QED
    BY <1>1, <2>1, <2>2
<1>3. ASSUME NEW k \in 1 .. n, k - 1 \in S PROVE k \in S
  <2>1. PICK a \in 1 .. n : a = n + 1 - k
    BY <1>1
  <2>2. \A i \in a + 1 .. n + 1 : Rests(t)[i] \in SUBSET Seq(Said)
    BY <1>1, <1>3, <2>1
  <2>3. ASSUME NEW r \in Rests(t)[a] PROVE r \in Seq(Said)
    <3>1. PICK j \in a .. Len(t) : \E comp, rest : Reads(t, a, j, comp, rest) /\ r = <<comp>> \o rest
      BY <2>3, RestIs
    <3>2. PICK comp, rest : Reads(t, a, j, comp, rest) /\ r = <<comp>> \o rest
      BY <3>1
    <3>3. comp \in Items(SubSeq(t, a, j)) /\ rest \in After(t, Rests(t), j + 1)
      BY <3>2 DEF Reads
    <3>4. comp \in Said
      <4>1. a \in Nat /\ j \in Nat /\ 1 <= a /\ a <= j + 1 /\ j <= Len(t)
        BY <1>1, <2>1
      <4>2. SubSeq(t, a, j) \in Seq(STRING)
        BY <4>1, SliceTo
      <4>3. Items(SubSeq(t, a, j)) \in SUBSET Said
        BY <4>2, ItemsAre
      <4> QED
        BY <3>3, <4>3
    <3>5. rest \in Seq(Said)
      <4>1. j \in 1 .. Len(t) /\ j + 1 \in a + 1 .. n + 1 /\ (j < Len(t) => j + 2 \in a + 1 .. n + 1)
        BY <1>1, <2>1
      <4>2. After(t, Rests(t), j + 1) \in {{}, Rests(t)[j + 1], Rests(t)[j + 2]} /\
            (j >= Len(t) => After(t, Rests(t), j + 1) = Rests(t)[j + 1])
        BY <4>1, RestsAfter
      <4>3. After(t, Rests(t), j + 1) \in SUBSET Seq(Said)
        <5> HIDE DEF n
        <5>1. j < Len(t) \/ j >= Len(t)
          BY <1>1, <4>1
        <5> QED
          BY <2>2, <4>1, <4>2, <5>1
      <4> QED
        BY <3>3, <4>3
    <3>6. <<comp>> \in Seq(Said)
      BY <3>4
    <3> QED
      BY <3>2, <3>5, <3>6, ConcatProperties
  <2>4. \A i \in n + 1 - k .. n + 1 : i = a \/ i \in a + 1 .. n + 1
    BY <1>1, <2>1
  <2>5. k \in 0 .. n
    BY <1>1
  <2> QED
    BY <2>2, <2>3, <2>4, <2>5
<1>4. n \in S
  <2> HIDE DEF S
  <2>1. 0 .. n \subseteq S
    BY <1>1, <1>2, <1>3, AllAlong
  <2> QED
    BY <1>1, <2>1
<1>5. n + 1 - n = 1
  BY <1>1
<1> QED
  BY <1>4, <1>5

(* Where an item may end. *)
Follows(t, j) == j = Len(t) \/ t[j + 1] \in {".", "["}

(* Of a slice from i: *)
LEMMA SliceFrom ==
  ASSUME NEW t \in Seq(STRING), NEW i \in 1 .. Len(t), NEW j \in i - 1 .. Len(t)
  PROVE  /\ SubSeq(t, i, j) \in Seq(STRING) /\ Len(SubSeq(t, i, j)) = j - i + 1
         /\ \A k \in i .. j : SubSeq(t, i, j)[k - i + 1] = t[k]
         /\ \A k \in 1 .. j - i + 1 : SubSeq(t, i, j)[k] = t[i + k - 1]
<1>1. Len(t) \in Nat /\ i \in Nat /\ j \in Nat /\ 1 <= i /\ i <= j + 1 /\ j <= Len(t)
  BY LenProperties
<1>2. /\ SubSeq(t, i, j) \in Seq(STRING) /\ Len(SubSeq(t, i, j)) = j - i + 1
      /\ \A k \in 1 .. j - i + 1 : SubSeq(t, i, j)[k] = t[i + k - 1]
  BY <1>1, SliceTo
<1>3. \A k \in i .. j : k - i + 1 \in 1 .. j - i + 1 /\ i + (k - i + 1) - 1 = k
  BY <1>1
<1>4. ASSUME NEW k \in i .. j PROVE SubSeq(t, i, j)[k - i + 1] = t[k]
  BY <1>2, <1>3
<1> QED
  BY <1>2, <1>4

(* Where dots and brackets are quoted, what follows a name is not. *)
LEMMA NameReaches ==
  ASSUME NEW t \in Seq(STRING), NEW i \in 1 .. Len(t), NEW j \in i .. Len(t),
         NEW k \in i - 1 .. Len(t), IsName(SubSeq(t, i, j)), Follows(t, j),
         NEW w, w = SubSeq(t, i, k),
         \A m \in 1 .. Len(w) : w[m] \in {".", "[", "]"} => Inside(w, m)
  PROVE  k <= j
<1> SUFFICES ASSUME j < k PROVE FALSE
  BY LenProperties
<1>1. Len(t) \in Nat /\ i \in Nat /\ j \in Nat /\ k \in Nat /\ 1 <= i /\ i <= j /\ k <= Len(t)
  BY LenProperties
<1>2. PICK u \in Seq(STRING) : u = SubSeq(t, i, j)
  <2>1. j \in i - 1 .. Len(t)
    BY <1>1
  <2>2. SubSeq(t, i, j) \in Seq(STRING)
    BY <2>1, SliceFrom
  <2> QED
    BY <2>2
<1>3. Len(u) = j - i + 1 /\ \A m \in 1 .. j - i + 1 : u[m] = t[i + m - 1]
  BY <1>1, <1>2, SliceFrom
<1>5. Len(w) = k - i + 1 /\ \A m \in 1 .. k - i + 1 : w[m] = t[i + m - 1]
  BY <1>1, SliceFrom
<1>6. PICK m \in Nat : m = Len(u) + 1
  BY <1>1, <1>3
<1>7. m \in 1 .. Len(w) /\ m <= Len(u) + 1 /\ m <= Len(w) + 1 /\ Len(u) \in Nat /\ Len(w) \in Nat
  BY <1>1, <1>3, <1>5, <1>6
<1>8. w[m] \in {".", "["}
  <2>1. w[m] = t[j + 1]
    <3>1. i + m - 1 = j + 1 /\ m \in 1 .. k - i + 1
      BY <1>1, <1>3, <1>6
    <3> QED
      BY <1>5, <3>1
  <2>2. j # Len(t)
    BY <1>1
  <2> QED
    BY <2>1, <2>2 DEF Follows
<1>9. Inside(w, m)
  BY <1>7, <1>8
<1>10. \A a \in 1 .. m - 1 : u[a] = w[a]
  BY <1>1, <1>3, <1>5, <1>6
<1>11. Inside(u, m)
  BY <1>7, <1>9, <1>10, TicksAgree
<1>12. Cardinality(TicksBefore(u, m)) % 2 = 1 /\ TicksBefore(u, m) = Ticks(u)
  BY <1>6, <1>7, <1>11, TicksCount
<1> QED
  BY <1>2, <1>12 DEF IsName

(* In a longer name what follows a shorter one would have to be quoted. *)
LEMMA NameEndsOnce ==
  ASSUME NEW t \in Seq(STRING), NEW i \in 1 .. Len(t), NEW j \in i .. Len(t), NEW k \in i .. Len(t),
         IsName(SubSeq(t, i, j)), IsName(SubSeq(t, i, k)), Follows(t, j)
  PROVE  k <= j
<1>1. PICK w : w = SubSeq(t, i, k)
  OBVIOUS
<1>2. \A m \in 1 .. Len(w) : w[m] \in {".", "[", "]"} => Inside(w, m)
  BY <1>1 DEF IsName
<1>3. k \in i - 1 .. Len(t)
  BY LenProperties
<1> QED
  BY <1>1, <1>2, <1>3, NameReaches

(* An index ends at the first bracket that closes. *)
LEMMA IndexIs ==
  ASSUME NEW t \in Seq(STRING), NEW i \in 1 .. Len(t), NEW j \in i .. Len(t)
  PROVE  IsIndex(SubSeq(t, i, j)) <=>
           /\ j > i /\ t[i] = "[" /\ t[j] = "]"
           /\ \/ j = i + 3 /\ t[i + 1] = "-" /\ t[i + 2] = "1"
              \/ \A k \in i + 1 .. j - 1 : t[k] \in Digit
<1>1. Len(t) \in Nat /\ i \in Nat /\ j \in Nat /\ 1 <= i /\ i <= j /\ j <= Len(t) /\ i <= j + 1
  BY LenProperties
<1>2. PICK u \in Seq(STRING) : u = SubSeq(t, i, j)
  <2>1. SubSeq(t, i, j) \in Seq(STRING)
    BY <1>1, SliceTo
  <2> QED
    BY <2>1
<1>3. Len(u) = j - i + 1 /\ \A m \in 1 .. j - i + 1 : u[m] = t[i + m - 1]
  BY <1>1, <1>2, SliceTo
<1>4. u[1] = t[i] /\ u[Len(u)] = t[j]
  <2>1. 1 \in 1 .. j - i + 1 /\ Len(u) \in 1 .. j - i + 1 /\ i + 1 - 1 = i /\ i + Len(u) - 1 = j
    BY <1>1, <1>3
  <2> QED
    BY <1>3, <2>1
<1>5. Len(u) > 1 <=> j > i
  BY <1>1, <1>3
<1>6. (\A m \in 2 .. Len(u) - 1 : u[m] \in Digit) <=> (\A k \in i + 1 .. j - 1 : t[k] \in Digit)
  <2>1. ASSUME \A m \in 2 .. Len(u) - 1 : u[m] \in Digit, NEW k \in i + 1 .. j - 1
        PROVE  t[k] \in Digit
    <3>1. k - i + 1 \in 2 .. Len(u) - 1 /\ k - i + 1 \in 1 .. j - i + 1 /\ i + (k - i + 1) - 1 = k
      BY <1>1, <1>3
    <3> QED
      BY <1>3, <2>1, <3>1
  <2>2. ASSUME \A k \in i + 1 .. j - 1 : t[k] \in Digit, NEW m \in 2 .. Len(u) - 1
        PROVE  u[m] \in Digit
    <3>1. m \in 1 .. j - i + 1 /\ i + m - 1 \in i + 1 .. j - 1
      BY <1>1, <1>3
    <3> QED
      BY <1>3, <2>2, <3>1
  <2> QED
    BY <2>1, <2>2
<1>7. j > i => (Middle(u) = <<"-", "1">> <=> j = i + 3 /\ t[i + 1] = "-" /\ t[i + 2] = "1")
  <2> SUFFICES ASSUME j > i PROVE Middle(u) = <<"-", "1">> <=> j = i + 3 /\ t[i + 1] = "-" /\ t[i + 2] = "1"
    OBVIOUS
  <2>1. PICK x \in Seq(STRING) : x = Middle(u)
    BY <1>1, <1>3, MiddleOf
  <2>2. Len(x) = j - i - 1 /\ \A k \in 1 .. j - i - 1 : x[k] = u[k + 1]
    <3>1. Len(u) >= 2 /\ Len(u) - 2 = j - i - 1
      BY <1>1, <1>3
    <3> QED
      BY <2>1, <3>1, MiddleOf
  <2>3. j = i + 3 => x[1] = t[i + 1] /\ x[2] = t[i + 2]
    <3> SUFFICES ASSUME j = i + 3 PROVE x[1] = t[i + 1] /\ x[2] = t[i + 2]
      OBVIOUS
    <3>1. x[1] = u[2] /\ x[2] = u[3]
      BY <2>2
    <3>2. u[2] = t[i + 2 - 1] /\ u[3] = t[i + 3 - 1]
      BY <1>3
    <3>3. i + 2 - 1 = i + 1 /\ i + 3 - 1 = i + 2
      OBVIOUS
    <3> QED
      BY <3>1, <3>2, <3>3
  <2>4. x = <<"-", "1">> <=> Len(x) = 2 /\ x[1] = "-" /\ x[2] = "1"
    <3>1. x = [k \in 1 .. Len(x) |-> x[k]]
      BY LenProperties
    <3> QED
      BY <3>1
  <2> QED
    BY <1>1, <2>1, <2>2, <2>3, <2>4
<1> QED
  BY <1>2, <1>4, <1>5, <1>6, <1>7 DEF IsIndex

(* What begins with a bracket is an index, what does not is a name. *)
LEMMA ItemIs ==
  ASSUME NEW t \in Seq(STRING), NEW i \in 1 .. Len(t), NEW j \in i .. Len(t), NEW comp
  PROVE  comp \in Items(SubSeq(t, i, j)) <=>
           \/ /\ t[i] = "[" /\ IsIndex(SubSeq(t, i, j)) /\ comp = Index(IntOf(SubSeq(t, i + 1, j - 1)))
           \/ /\ t[i] # "[" /\ IsName(SubSeq(t, i, j)) /\ comp = Name(KeyNamed(SubSeq(t, i, j)))
<1>1. Len(t) \in Nat /\ i \in Nat /\ j \in Nat /\ 1 <= i /\ i <= j + 1 /\ j <= Len(t)
  BY LenProperties
<1>2. SubSeq(t, i, j)[1] = t[i]
  <2>1. 1 \in 1 .. j - i + 1 /\ i + 1 - 1 = i
    BY <1>1
  <2>2. \A k \in 1 .. j - i + 1 : SubSeq(t, i, j)[k] = t[i + k - 1]
    BY <1>1, SliceTo
  <2> QED
    BY <2>1, <2>2
<1>3. IsIndex(SubSeq(t, i, j)) => t[i] = "[" /\ Middle(SubSeq(t, i, j)) = SubSeq(t, i + 1, j - 1)
  <2>1. IsIndex(SubSeq(t, i, j)) => j \in i + 1 .. Len(t)
    BY <1>1, IndexIs
  <2> QED
    BY <1>2, <2>1, MiddleOfSlice DEF IsIndex
<1>4. IsName(SubSeq(t, i, j)) => t[i] # "["
  BY <1>2 DEF IsName
<1>5. CASE t[i] = "["
  <2>1. Items(SubSeq(t, i, j)) =
          IF IsIndex(SubSeq(t, i, j)) THEN {Index(IntOf(Middle(SubSeq(t, i, j))))} ELSE {}
    BY <1>4, <1>5 DEF Items
  <2> QED
    BY <1>3, <1>5, <2>1
<1>6. CASE t[i] # "["
  <2>1. Items(SubSeq(t, i, j)) =
          IF IsName(SubSeq(t, i, j)) THEN {Name(KeyNamed(SubSeq(t, i, j)))} ELSE {}
    BY <1>3, <1>6 DEF Items
  <2> QED
    BY <1>6, <2>1
<1> QED
  BY <1>5, <1>6

(* An index ends at the first bracket that closes. *)
LEMMA IndexEndsOnce ==
  ASSUME NEW t \in Seq(STRING), NEW i \in 1 .. Len(t), NEW j \in i .. Len(t), NEW k \in i .. Len(t),
         IsIndex(SubSeq(t, i, j)), t[k] = "]", k > i
  PROVE  j <= k
<1> SUFFICES ASSUME k < j PROVE FALSE
  BY LenProperties
<1>1. Len(t) \in Nat /\ k \in i + 1 .. j - 1
  BY LenProperties
<1>2. /\ j > i
      /\ \/ j = i + 3 /\ t[i + 1] = "-" /\ t[i + 2] = "1"
         \/ \A m \in i + 1 .. j - 1 : t[m] \in Digit
  BY IndexIs
<1>3. CASE \A m \in i + 1 .. j - 1 : t[m] \in Digit
  <2>1. "]" \in Digit
    BY <1>1, <1>3
  <2> QED
    BY <2>1 DEF Digit
<1>4. CASE j = i + 3 /\ t[i + 1] = "-" /\ t[i + 2] = "1"
  <2>1. k = i + 1 \/ k = i + 2
    BY <1>1, <1>4
  <2> QED
    BY <1>4, <2>1
<1> QED
  BY <1>2, <1>3, <1>4

(* An item that may be followed ends at one place only. *)
LEMMA ItemEndsOnce ==
  ASSUME NEW t \in Seq(STRING), NEW i \in 1 .. Len(t), NEW j \in i .. Len(t), NEW k \in i .. Len(t),
         NEW a, a \in Items(SubSeq(t, i, j)), NEW b, b \in Items(SubSeq(t, i, k)),
         Follows(t, j), Follows(t, k)
  PROVE  j = k /\ a = b
<1>1. j = k
  <2>1. j <= k /\ k <= j
    <3>1. CASE t[i] = "["
      <4>1. IsIndex(SubSeq(t, i, j)) /\ IsIndex(SubSeq(t, i, k))
        BY <3>1, ItemIs
      <4>2. t[j] = "]" /\ j > i /\ t[k] = "]" /\ k > i
        BY <4>1, IndexIs
      <4> QED
        BY <4>1, <4>2, IndexEndsOnce
    <3>2. CASE t[i] # "["
      <4>1. IsName(SubSeq(t, i, j)) /\ IsName(SubSeq(t, i, k))
        BY <3>2, ItemIs
      <4> QED
        BY <4>1, NameEndsOnce
    <3> QED
      BY <3>1, <3>2
  <2> QED
    BY <2>1, LenProperties
<1>2. a \in Items(SubSeq(t, i, j)) /\ b \in Items(SubSeq(t, i, j))
  BY <1>1
<1> QED
  BY <1>1, <1>2, ItemIs

LEMMA AfterFollows ==
  ASSUME NEW t \in Seq(STRING), NEW j \in 1 .. Len(t), NEW rest \in After(t, Rests(t), j + 1)
  PROVE  Follows(t, j)
BY RestsAfter DEF Follows

(* No text can be read in two ways: by the place an item begins, from the end. *)
LEMMA OneRest ==
  ASSUME NEW t \in Seq(STRING)
  PROVE  \A i \in 1 .. Len(t) + 1 : \A a, b \in Rests(t)[i] : a = b
<1> DEFINE n == Len(t)
           One(i) == \A a, b \in Rests(t)[i] : a = b
           S == {k \in 0 .. n : \A i \in n + 1 - k .. n + 1 : One(i)}
<1>1. n \in Nat
  BY LenProperties
<1>2. 0 \in S
  <2>1. \A i \in n + 1 - 0 .. n + 1 : i = Len(t) + 1
    BY <1>1
  <2>2. One(Len(t) + 1)
    BY RestAtEnd
  <2> HIDE DEF One
  <2> QED
    BY <1>1, <2>1, <2>2
<1>3. ASSUME NEW k \in 1 .. n, k - 1 \in S PROVE k \in S
  <2>1. PICK i \in 1 .. n : i = n + 1 - k
    BY <1>1
  <2>2. \A m \in i + 1 .. n + 1 : One(m)
    <3> HIDE DEF One
    <3> QED
      BY <1>1, <1>3, <2>1
  <2>3. ASSUME NEW a \in Rests(t)[i], NEW b \in Rests(t)[i] PROVE a = b
    <3>1. i \in 1 .. Len(t)
      BY <1>1, <2>1
    <3>2. PICK j \in i .. Len(t) : \E comp, rest : Reads(t, i, j, comp, rest) /\ a = <<comp>> \o rest
      BY <2>3, <3>1, RestIs
    <3>3. PICK c1, r1 : Reads(t, i, j, c1, r1) /\ a = <<c1>> \o r1
      BY <3>2
    <3>4. PICK l \in i .. Len(t) : \E comp, rest : Reads(t, i, l, comp, rest) /\ b = <<comp>> \o rest
      BY <2>3, <3>1, RestIs
    <3>5. PICK c2, r2 : Reads(t, i, l, c2, r2) /\ b = <<c2>> \o r2
      BY <3>4
    <3>6. j \in 1 .. Len(t) /\ l \in 1 .. Len(t)
      BY <1>1, <3>1
    <3>7. Follows(t, j) /\ Follows(t, l)
      BY <3>3, <3>5, <3>6, AfterFollows DEF Reads
    <3>8. j = l /\ c1 = c2
      BY <3>1, <3>3, <3>5, <3>7, ItemEndsOnce DEF Reads
    <3>9. r1 = r2
      <4>1. r1 \in After(t, Rests(t), j + 1) /\ r2 \in After(t, Rests(t), j + 1)
        BY <3>3, <3>5, <3>8 DEF Reads
      <4>2. j + 1 \in i + 1 .. n + 1 /\ (j < Len(t) => j + 2 \in i + 1 .. n + 1)
        BY <1>1, <3>1, <3>6
      <4>3. \/ After(t, Rests(t), j + 1) = Rests(t)[j + 1]
            \/ j < Len(t) /\ After(t, Rests(t), j + 1) = Rests(t)[j + 2]
        BY <3>6, <4>1, RestsAfter
      <4> HIDE DEF n
      <4> QED
        BY <2>2, <4>1, <4>2, <4>3
    <3> QED
      BY <3>3, <3>5, <3>8, <3>9
  <2>4. \A m \in n + 1 - k .. n + 1 : m = i \/ m \in i + 1 .. n + 1
    BY <1>1, <2>1
  <2>5. k \in 0 .. n
    BY <1>1
  <2>6. One(i)
    BY <2>3
  <2> HIDE DEF One
  <2> QED
    BY <2>2, <2>4, <2>5, <2>6
<1>4. n \in S
  <2> HIDE DEF S
  <2>1. 0 .. n \subseteq S
    BY <1>1, <1>2, <1>3, AllAlong
  <2> QED
    BY <1>1, <2>1
<1>5. n + 1 - n = 1
  BY <1>1
<1> QED
  BY <1>4, <1>5

(* A text is read in one way, or in none. *)
LEMMA OneReading ==
  ASSUME NEW t \in Seq(STRING)
  PROVE  /\ IsFiniteSet(Readings(t)) /\ Cardinality(Readings(t)) <= 1
         /\ \A reading : reading \in Readings(t) <=> \E comps \in Rests(t)[1] : reading = <<Root>> \o comps
<1>1. 1 \in 1 .. Len(t) + 1
  BY LenProperties
<1>2. \A reading : reading \in Readings(t) <=> \E comps \in Rests(t)[1] : reading = <<Root>> \o comps
  BY Zenon DEF Readings
<1>3. Readings(t) = {} \/ \E reading : Readings(t) = {reading}
  <2>1. CASE Readings(t) = {}
    BY <2>1
  <2>2. ASSUME NEW reading \in Readings(t) PROVE Readings(t) = {reading}
    <3>1. \A other \in Readings(t) : other = reading
      <4> TAKE other \in Readings(t)
      <4>1. PICK a \in Rests(t)[1] : reading = <<Root>> \o a
        BY <1>2, <2>2
      <4>2. PICK b \in Rests(t)[1] : other = <<Root>> \o b
        BY <1>2
      <4>3. a = b
        BY <1>1, OneRest
      <4> QED
        BY <4>1, <4>2, <4>3
    <3> QED
      BY <2>2, <3>1
  <2> QED
    BY <2>1, <2>2
<1>4. IsFiniteSet(Readings(t)) /\ Cardinality(Readings(t)) <= 1
  <2>1. CASE Readings(t) = {}
    BY <2>1, FS_EmptySet
  <2>2. ASSUME NEW reading, Readings(t) = {reading}
        PROVE  IsFiniteSet(Readings(t)) /\ Cardinality(Readings(t)) <= 1
    <3>1. IsFiniteSet({reading}) /\ Cardinality({reading}) = 1
      BY FS_Singleton
    <3>2. IsFiniteSet(Readings(t)) /\ Cardinality(Readings(t)) = 1
      BY <2>2, <3>1, Zenon
    <3> QED
      BY <3>2
  <2> QED
    BY <1>3, <2>1, <2>2
<1> QED
  BY <1>2, <1>4

-----------------------------------------------------------------------------
(* What parse_string() has read of a name. *)

(* A name goes on with what may stand there. *)
LEMMA NameGoesOn ==
  ASSUME NEW t \in Seq(STRING), NEW i \in 1 .. Len(t), NEW at \in i .. Len(t), NEW j \in at .. Len(t),
         IsName(SubSeq(t, i, j)), NEW w, w = SubSeq(t, i, at - 1)
  PROVE  /\ IF IsEscaped(w, Len(w) + 1) THEN t[at] \in AllowedEscape \ {"u"}
                                        ELSE t[at] \notin {Quote, "tab"}
         /\ t[at] \in {".", "[", "]"} => Cardinality(Ticks(w)) % 2 = 1
<1>1. /\ Len(t) \in Nat /\ i \in Nat /\ at \in Nat /\ j \in Nat /\ j \in i - 1 .. Len(t)
      /\ at - 1 \in i - 1 .. Len(t) /\ at \in i .. j
  BY LenProperties
<1>2. PICK u \in Seq(STRING) : u = SubSeq(t, i, j)
  BY <1>1, SliceFrom
<1>3. /\ Len(u) = j - i + 1 /\ (\A m \in 1 .. j - i + 1 : u[m] = t[i + m - 1])
      /\ u[at - i + 1] = t[at]
  BY <1>1, <1>2, SliceFrom
<1>4. Len(w) = at - i /\ \A m \in 1 .. at - i : w[m] = t[i + m - 1]
  <2>1. at - 1 - i + 1 = at - i
    BY <1>1
  <2> QED
    BY <1>1, <2>1, SliceFrom
<1>5. PICK m \in Nat : m = Len(w) + 1
  <2>1. at - i + 1 \in Nat
    BY <1>1
  <2> QED
    BY <1>4, <2>1
<1>6. /\ m \in 1 .. Len(u) /\ m <= Len(u) + 1 /\ m <= Len(w) + 1 /\ Len(u) \in Nat /\ Len(w) \in Nat
      /\ m = at - i + 1
  BY <1>1, <1>3, <1>4, <1>5
<1>7. u[m] = t[at]
  BY <1>3, <1>6
<1>8. \A a \in 1 .. m - 1 : u[a] = w[a]
  BY <1>1, <1>3, <1>4, <1>6
<1>9. IsEscaped(u, m) <=> IsEscaped(w, m)
  BY <1>8, EscapesAgree
<1>10. Inside(u, m) <=> Cardinality(Ticks(w)) % 2 = 1
  <2>1. Inside(u, m) <=> Inside(w, m)
    BY <1>6, <1>8, TicksAgree
  <2>2. TicksBefore(w, m) = Ticks(w) /\ (Inside(w, m) <=> Cardinality(TicksBefore(w, m)) % 2 = 1)
    BY <1>5, <1>6, TicksCount
  <2> QED
    BY <2>1, <2>2
<1>11. /\ IF IsEscaped(u, m) THEN u[m] \in AllowedEscape \ {"u"} ELSE u[m] \notin {Quote, "tab"}
       /\ u[m] \in {".", "[", "]"} => Inside(u, m)
  BY <1>2, <1>6 DEF IsName, Characters
<1> QED
  BY <1>5, <1>7, <1>9, <1>10, <1>11

(* What has been read is a name if nothing is open. *)
LEMMA WordIsName ==
  ASSUME NEW w \in Seq(STRING), Sound(w), w # <<>> => w[1] # "["
  PROVE  IsName(w) <=> /\ w \notin {<<>>, <<"tick", "tick">>}
                       /\ Cardinality(Ticks(w)) % 2 = 0 /\ ~IsEscaped(w, Len(w) + 1)
<1>1. Len(w) \in Nat /\ Len(w) + 1 \in Nat
  BY LenProperties
<1>2. IsEscaped(Append(w, "end"), Len(w) + 1) <=> IsEscaped(w, Len(w) + 1)
  <2>1. PICK e \in Nat : e = Len(w) + 1
    BY <1>1
  <2>2. \A k \in 1 .. e - 1 : Append(w, "end")[k] = w[k]
    <3>1. w = [k \in 1 .. Len(w) |-> w[k]] /\ \A k \in 1 .. Len(w) : w[k] \in STRING
      BY LenProperties, ElementOfSeq
    <3>2. PICK S : S = STRING \cup {"end"}
      OBVIOUS
    <3>3. w \in [1 .. Len(w) -> S]
      BY <3>1, <3>2
    <3>4. w \in Seq(S)
      BY <1>1, <3>3, MapIsSeq
    <3>5. "end" \in S
      BY <3>2
    <3>6. \A k \in 1 .. Len(w) : Append(w, "end")[k] = w[k]
      BY <3>4, <3>5, AppendProperties
    <3> QED
      BY <1>1, <2>1, <3>6
  <2>3. IsEscaped(Append(w, "end"), e) <=> IsEscaped(w, e)
    BY <2>2, EscapesAgree
  <2> QED
    BY <2>1, <2>3
<1>3. Characters(w) <=> (w # <<>> => ~IsEscaped(w, Len(w) + 1))
  BY <1>2 DEF Characters, Sound
<1>4. \A k \in 1 .. Len(w) : w[k] \in {".", "[", "]"} => Inside(w, k)
  BY DEF Sound
<1> QED
  BY <1>3, <1>4 DEF IsName

(* One more character. *)
(* The word v is w and the character at the place. *)
WordGoes(t, at, w, v) ==
  /\ v \in Seq(STRING)
  /\ Cardinality(Ticks(v)) = Cardinality(Ticks(w)) + (IF t[at] = "tick" THEN 1 ELSE 0)
  /\ IsEscaped(v, Len(v) + 1) <=> t[at] = Bslash /\ ~IsEscaped(w, Len(w) + 1)
  /\ Sound(v) <=>
       /\ Sound(w)
       /\ IF IsEscaped(w, Len(w) + 1) THEN t[at] \in AllowedEscape \ {"u"}
                                      ELSE t[at] \notin {Quote, "tab"}
       /\ t[at] \in {".", "[", "]"} => Cardinality(Ticks(w)) % 2 = 1

LEMMA WordGrows ==
  ASSUME NEW t \in Seq(STRING), NEW i \in 1 .. Len(t), NEW at \in i .. Len(t),
         NEW w, w = SubSeq(t, i, at - 1), NEW v, v = SubSeq(t, i, at)
  PROVE  WordGoes(t, at, w, v)
<1>1. Len(t) \in Nat /\ i \in Nat /\ at \in Nat /\ at \in i - 1 .. Len(t) /\ at - 1 \in i - 1 .. Len(t)
  BY LenProperties
<1>2. /\ w \in Seq(STRING) /\ v \in Seq(STRING) /\ Len(w) = at - i /\ Len(v) = at - i + 1
      /\ \A k \in 1 .. at - i : w[k] = t[i + k - 1]
      /\ \A k \in 1 .. at - i + 1 : v[k] = t[i + k - 1]
  <2>1. at - 1 - i + 1 = at - i
    BY <1>1
  <2> QED
    BY <1>1, <2>1, SliceFrom
<1>3. PICK m \in Nat \ {0} : m = Len(w) + 1
  <2>1. at - i + 1 \in Nat \ {0}
    BY <1>1
  <2> QED
    BY <1>2, <2>1
<1>4. Len(v) = m /\ Len(w) = m - 1 /\ m <= Len(w) + 1 /\ m <= Len(v) + 1 /\ m \in 1 .. Len(v)
  BY <1>1, <1>2, <1>3
<1>5. \A k \in 1 .. m - 1 : v[k] = w[k]
  BY <1>1, <1>2, <1>4
<1>6. v[m] = t[at]
  <2>1. m \in 1 .. at - i + 1 /\ i + m - 1 = at
    BY <1>1, <1>2, <1>3
  <2> QED
    BY <1>2, <2>1
<1>7. \A k \in 1 .. m : /\ IsEscaped(v, k) <=> IsEscaped(w, k)
                        /\ Inside(v, k) <=> Inside(w, k)
                        /\ TicksBefore(v, k) = TicksBefore(w, k)
  <2> TAKE k \in 1 .. m
  <2>1. k \in Nat /\ k <= Len(w) + 1 /\ k <= Len(v) + 1 /\ \A a \in 1 .. k - 1 : v[a] = w[a]
    BY <1>4, <1>5
  <2>2. Len(v) \in Nat /\ Len(w) \in Nat
    BY <1>4
  <2> QED
    BY <2>1, <2>2, EscapesAgree, TicksAgree
<1>8. TicksBefore(w, m) = Ticks(w) /\ Cardinality(TicksBefore(w, m)) \in Nat
      /\ (Inside(w, m) <=> Cardinality(TicksBefore(w, m)) % 2 = 1)
  <2>1. Len(w) \in Nat
    BY <1>4
  <2> QED
    BY <1>3, <2>1, TicksCount
<1>9. Cardinality(Ticks(v)) = Cardinality(Ticks(w)) + (IF t[at] = "tick" THEN 1 ELSE 0)
  <2>1. Len(v) \in Nat
    BY <1>4
  <2>2. /\ TicksBefore(v, Len(v) + 1) = Ticks(v)
        /\ Cardinality(TicksBefore(v, m + 1)) =
             Cardinality(TicksBefore(v, m)) + (IF v[m] = "tick" THEN 1 ELSE 0)
    BY <1>4, <2>1, TicksCount
  <2>3. TicksBefore(v, m) = Ticks(w)
    BY <1>7, <1>8
  <2> QED
    BY <1>4, <1>6, <2>2, <2>3
<1>10. IsEscaped(v, m + 1) <=> t[at] = Bslash /\ ~IsEscaped(w, m)
  <2>1. IsEscaped(v, m + 1) <=> v[m] = Bslash /\ ~IsEscaped(v, m)
    BY NextEscaped
  <2>2. m \in 1 .. m
    BY <1>4
  <2> QED
    BY <1>6, <1>7, <2>1, <2>2
<1>11. \A k : k \in 1 .. Len(v) <=> k \in 1 .. Len(w) \/ k = m
  BY <1>4
<1>12. Inside(v, m) <=> Cardinality(Ticks(w)) % 2 = 1
  BY <1>7, <1>8
<1>13. IsEscaped(v, m) <=> IsEscaped(w, m)
  BY <1>7
<1>14. \A k \in 1 .. Len(w) : v[k] = w[k] /\ (IsEscaped(v, k) <=> IsEscaped(w, k))
                              /\ (Inside(v, k) <=> Inside(w, k))
  BY <1>4, <1>5, <1>7
<1>15. Sound(v) <=>
         /\ Sound(w)
         /\ IF IsEscaped(w, m) THEN t[at] \in AllowedEscape \ {"u"} ELSE t[at] \notin {Quote, "tab"}
         /\ t[at] \in {".", "[", "]"} => Cardinality(Ticks(w)) % 2 = 1
  BY <1>6, <1>11, <1>12, <1>13, <1>14 DEF Sound
<1> QED
<2>1. Len(v) + 1 = m + 1 /\ Len(w) + 1 = m
  BY <1>3, <1>4
<2> QED
  BY <1>2, <1>9, <1>10, <1>15, <2>1, Zenon DEF WordGoes

-----------------------------------------------------------------------------
(* No name goes on with the character at at. *)
Stops(t, at, w) ==
  at <= Len(t) => ~ /\ IF IsEscaped(w, Len(w) + 1) THEN t[at] \in AllowedEscape \ {"u"}
                                                   ELSE t[at] \notin {Quote, "tab"}
                    /\ t[at] \in {".", "[", "]"} => Cardinality(Ticks(w)) % 2 = 1

(* The scan stops where a name that begins at i must end. *)
LEMMA NameStops ==
  ASSUME NEW t \in Seq(STRING), NEW i \in 1 .. Len(t), t[i] # "[", NEW at \in i .. Len(t) + 1,
         NEW w, w = SubSeq(t, i, at - 1), Sound(w), Stops(t, at, w),
         NEW r \in Rests(t)[i]
  PROVE  /\ at > i /\ IsName(w) /\ Follows(t, at - 1)
         /\ r \in Beginning(Name(KeyNamed(w)), After(t, Rests(t), at))
<1>1. PICK j \in i .. Len(t) : \E comp, rest : Reads(t, i, j, comp, rest) /\ r = <<comp>> \o rest
  BY RestIs
<1>2. PICK comp, rest : Reads(t, i, j, comp, rest) /\ r = <<comp>> \o rest
  BY <1>1
<1>3. IsName(SubSeq(t, i, j)) /\ comp = Name(KeyNamed(SubSeq(t, i, j)))
  BY <1>2, ItemIs DEF Reads
<1>4. Len(t) \in Nat /\ at - 1 \in i - 1 .. Len(t) /\ j \in 1 .. Len(t)
  BY LenProperties
<1>5. Follows(t, j)
  BY <1>2, <1>4, AfterFollows DEF Reads
<1>6. at - 1 <= j
  <2>1. \A m \in 1 .. Len(w) : w[m] \in {".", "[", "]"} => Inside(w, m)
    BY DEF Sound
  <2> QED
    BY <1>3, <1>4, <1>5, <2>1, NameReaches
<1>7. ~(at <= j)
  <2> SUFFICES ASSUME at <= j PROVE FALSE
    OBVIOUS
  <2>1. at \in i .. Len(t) /\ j \in at .. Len(t)
    BY <1>4
  <2>2. /\ IF IsEscaped(w, Len(w) + 1) THEN t[at] \in AllowedEscape \ {"u"}
                                       ELSE t[at] \notin {Quote, "tab"}
        /\ t[at] \in {".", "[", "]"} => Cardinality(Ticks(w)) % 2 = 1
    BY <1>3, <2>1, NameGoesOn
  <2>3. at <= Len(t)
    BY <1>4, <2>1
  <2> QED
    BY <2>2, <2>3, Zenon DEF Stops
<1>8. j = at - 1 /\ at > i /\ j + 1 = at
  BY <1>4, <1>6, <1>7
<1>9. rest \in After(t, Rests(t), at) /\ IsName(w) /\ comp = Name(KeyNamed(w))
  BY <1>2, <1>3, <1>8 DEF Reads
<1>10. r \in Beginning(Name(KeyNamed(w)), After(t, Rests(t), at))
  <2>1. r = <<Name(KeyNamed(w))>> \o rest
    BY <1>2, <1>9
  <2> QED
    BY <1>9, <2>1, Zenon DEF Beginning
<1> QED
  BY <1>5, <1>8, <1>9, <1>10

(* A name that ends where parse_string() ends it. *)
LEMMA NameRests ==
  ASSUME NEW t \in Seq(STRING), NEW i \in 1 .. Len(t), t[i] # "[", NEW at \in i + 1 .. Len(t) + 1,
         NEW w, w = SubSeq(t, i, at - 1), Sound(w), Stops(t, at, w), IsName(w)
  PROVE  Rests(t)[i] = Beginning(Name(KeyNamed(w)), After(t, Rests(t), at))
<1>1. Len(t) \in Nat /\ at \in i .. Len(t) + 1 /\ at - 1 \in i .. Len(t) /\ at - 1 + 1 = at
  BY LenProperties
<1>2. \A r \in Rests(t)[i] : r \in Beginning(Name(KeyNamed(w)), After(t, Rests(t), at))
  BY <1>1, NameStops
<1>3. ASSUME NEW r \in Beginning(Name(KeyNamed(w)), After(t, Rests(t), at))
      PROVE  r \in Rests(t)[i]
  <2>1. PICK rest \in After(t, Rests(t), at) : r = <<Name(KeyNamed(w))>> \o rest
    BY <1>3, Zenon DEF Beginning
  <2>2. PICK j \in i .. Len(t) : j = at - 1
    BY <1>1
  <2>3. Name(KeyNamed(w)) \in Items(SubSeq(t, i, j))
    BY <2>2, ItemIs
  <2>4. Reads(t, i, j, Name(KeyNamed(w)), rest)
    BY <1>1, <2>1, <2>2, <2>3 DEF Reads
  <2> QED
    BY <2>1, <2>4, RestMade
<1> QED
  BY <1>2, <1>3

(* An item that begins with a bracket is an index that closes. *)
LEMMA IndexStops ==
  ASSUME NEW t \in Seq(STRING), NEW i \in 1 .. Len(t), t[i] = "[", NEW r \in Rests(t)[i]
  PROVE  \E j \in i + 1 .. Len(t) :
           /\ IsIndex(SubSeq(t, i, j))
           /\ r \in Beginning(Index(IntOf(SubSeq(t, i + 1, j - 1))), After(t, Rests(t), j + 1))
<1>1. PICK j \in i .. Len(t) : \E comp, rest : Reads(t, i, j, comp, rest) /\ r = <<comp>> \o rest
  BY RestIs
<1>2. PICK comp, rest : Reads(t, i, j, comp, rest) /\ r = <<comp>> \o rest
  BY <1>1
<1>3. IsIndex(SubSeq(t, i, j)) /\ comp = Index(IntOf(SubSeq(t, i + 1, j - 1)))
  BY <1>2, ItemIs DEF Reads
<1>4. j \in i + 1 .. Len(t)
  <2>1. j > i
    BY <1>3, IndexIs
  <2> QED
    BY <2>1, LenProperties
<1>5. r \in Beginning(Index(IntOf(SubSeq(t, i + 1, j - 1))), After(t, Rests(t), j + 1))
  <2>1. rest \in After(t, Rests(t), j + 1) /\ r = <<Index(IntOf(SubSeq(t, i + 1, j - 1)))>> \o rest
    BY <1>2, <1>3 DEF Reads
  <2> QED
    BY <2>1, Zenon DEF Beginning
<1> QED
  BY <1>3, <1>4, <1>5

LEMMA IndexRests ==
  ASSUME NEW t \in Seq(STRING), NEW i \in 1 .. Len(t), NEW j \in i + 1 .. Len(t),
         IsIndex(SubSeq(t, i, j))
  PROVE  Rests(t)[i] = Beginning(Index(IntOf(SubSeq(t, i + 1, j - 1))), After(t, Rests(t), j + 1))
<1>1. j \in i .. Len(t) /\ Len(t) \in Nat
  BY LenProperties
<1>2. t[i] = "[" /\ t[j] = "]"
  BY <1>1, IndexIs
<1> DEFINE B(k) == Beginning(Index(IntOf(SubSeq(t, i + 1, k - 1))), After(t, Rests(t), k + 1))
<1>3. ASSUME NEW r \in Rests(t)[i] PROVE r \in B(j)
  <2>1. PICK k \in i + 1 .. Len(t) : IsIndex(SubSeq(t, i, k)) /\ r \in B(k)
    BY <1>2, <1>3, IndexStops
  <2>2. k \in i .. Len(t) /\ k > i /\ j > i
    BY <1>1
  <2>3. t[k] = "]"
    BY <2>1, <2>2, IndexIs
  <2>4. j <= k /\ k <= j
    BY <1>1, <1>2, <2>1, <2>2, <2>3, IndexEndsOnce
  <2>5. j = k
    BY <1>1, <2>4
  <2> QED
    BY <2>1, <2>5
<1>4. ASSUME NEW r \in B(j) PROVE r \in Rests(t)[i]
  <2>1. PICK rest \in After(t, Rests(t), j + 1) : r = <<Index(IntOf(SubSeq(t, i + 1, j - 1)))>> \o rest
    BY <1>4, Zenon DEF Beginning
  <2>2. PICK c : c = Index(IntOf(SubSeq(t, i + 1, j - 1)))
    OBVIOUS
  <2>3. c \in Items(SubSeq(t, i, j))
    BY <1>1, <1>2, <2>2, ItemIs
  <2>4. Reads(t, i, j, c, rest)
    BY <2>1, <2>3 DEF Reads
  <2> QED
    BY <1>1, <2>1, <2>2, <2>4, RestMade
<1> HIDE DEF B
<1>5. Rests(t)[i] = B(j)
  BY <1>3, <1>4
<1> QED
  BY <1>5 DEF B

-----------------------------------------------------------------------------
(* The key of a name. *)

(* Without backticks a key is what is written. *)
LEMMA NoTicks ==
  ASSUME NEW x \in Seq(STRING), Ticks(x) = {}
  PROVE  Paired(x) /\ Single(x) = x
<1> DEFINE n == Len(x)
           S == {i \in 0 .. n : /\ Len(Singles(x)[i]) = i
                                /\ \A k \in 1 .. i : Singles(x)[i][k] = x[k]}
<1>1. n \in Nat /\ \A i \in 1 .. n : x[i] \in STRING /\ x[i] # "tick"
  BY LenProperties, ElementOfSeq DEF Ticks
<1>2. /\ Single(x) = Singles(x)[n] /\ Singles(x)[0] = <<>>
      /\ \A i \in 0 .. n : Singles(x)[i] \in Seq(STRING)
  BY SinglesFacts
<1>3. \A i \in 1 .. n : Singles(x)[i] = Append(Singles(x)[i - 1], x[i])
  BY <1>1, SinglesFacts
<1>4. 0 \in S
  BY <1>1, <1>2
<1>5. ASSUME NEW i \in 1 .. n, i - 1 \in S PROVE i \in S
  <2>1. PICK s \in Seq(STRING) : s = Singles(x)[i - 1]
    <3>1. i - 1 \in 0 .. n
      BY <1>1
    <3> QED
      BY <1>2, <3>1
  <2>2. Len(s) = i - 1 /\ \A k \in 1 .. i - 1 : s[k] = x[k]
    BY <1>5, <2>1
  <2>3. /\ Len(Append(s, x[i])) = i /\ Append(s, x[i])[i] = x[i]
        /\ \A k \in 1 .. i - 1 : Append(s, x[i])[k] = x[k]
    <3>1. Len(s) + 1 = i /\ x[i] \in STRING
      BY <1>1, <2>2
    <3> QED
      BY <2>2, <3>1, AppendProperties
  <2>4. Singles(x)[i] = Append(s, x[i])
    BY <1>3, <2>1
  <2>5. i \in 0 .. n
    BY <1>1
  <2> QED
    BY <1>1, <2>3, <2>4, <2>5
<1>6. n \in S
  <2> HIDE DEF S, n
  <2>1. 0 .. n \subseteq S
    BY <1>1, <1>4, <1>5, AllAlong
  <2> QED
    BY <1>1, <2>1
<1>7. Single(x) = x
  <2>1. PICK s \in Seq(STRING) : s = Singles(x)[n]
    BY <1>1, <1>2
  <2>2. Len(s) = Len(x) /\ \A k \in 1 .. Len(s) : s[k] = x[k]
    BY <1>6, <2>1
  <2>3. s = x
    BY <2>2, SameText
  <2> QED
    BY <1>2, <2>1, <2>3
<1> QED
  BY <1>7 DEF Paired

LEMMA TicksAreFinite ==
  ASSUME NEW w \in Seq(STRING)
  PROVE  IsFiniteSet(Ticks(w)) /\ Cardinality(Ticks(w)) \in Nat
<1>1. Len(w) \in Nat /\ Len(w) + 1 \in Nat
  BY LenProperties
<1>2. TicksBefore(w, Len(w) + 1) = Ticks(w)
  BY <1>1, TicksCount
<1>3. /\ IsFiniteSet(TicksBefore(w, Len(w) + 1)) /\ Cardinality(TicksBefore(w, Len(w) + 1)) \in Nat
  BY <1>1, TicksCount
<1> QED
  BY <1>2, <1>3

LEMMA TwoTicks ==
  ASSUME NEW w \in Seq(STRING)
  PROVE  w = <<"tick", "tick">> <=> Len(w) = 2 /\ w[1] = "tick" /\ w[2] = "tick"
<1>1. w = [k \in 1 .. Len(w) |-> w[k]]
  BY LenProperties
<1> QED
  BY <1>1

(* With backticks at both ends and nowhere else there are none between. *)
LEMMA TicksBetween ==
  ASSUME NEW w \in Seq(STRING), BothEnds(w), Cardinality(Ticks(w)) = 2
  PROVE  Ticks(Middle(w)) = {}
<1>1. Len(w) \in Nat /\ Len(w) > 2 /\ w[1] = "tick" /\ w[Len(w)] = "tick"
  BY LenProperties DEF BothEnds
<1>2. Len(Middle(w)) = Len(w) - 2 /\ \A k \in 1 .. Len(w) - 2 : Middle(w)[k] = w[k + 1]
  BY <1>1, MiddleOf
<1> SUFFICES ASSUME NEW k \in Ticks(Middle(w)) PROVE FALSE
  OBVIOUS
<1>3. k \in 1 .. Len(w) - 2 /\ w[k + 1] = "tick"
  BY <1>2 DEF Ticks
<1>4. PICK T : T = {1, Len(w)} \cup {k + 1}
  OBVIOUS
<1>5. T \in SUBSET Ticks(w)
  BY <1>1, <1>3, <1>4 DEF Ticks
<1>6. IsFiniteSet(Ticks(w))
  BY TicksAreFinite
<1>7. Cardinality(T) <= 2
  BY <1>5, <1>6, FS_Subset
<1>8. PICK V : V = {1}
  OBVIOUS
<1>9. IsFiniteSet(V) /\ Cardinality(V) = 1
  <2>1. IsFiniteSet({1}) /\ Cardinality({1}) = 1
    BY FS_Singleton
  <2> QED
    BY <1>8, <2>1, Zenon
<1>10. PICK U : U = V \cup {Len(w)}
  OBVIOUS
<1>11. IsFiniteSet(U) /\ Cardinality(U) = 2
  <2>1. Len(w) \notin V
    BY <1>1, <1>8
  <2>2. IsFiniteSet(V \cup {Len(w)}) /\ Cardinality(V \cup {Len(w)}) = Cardinality(V) + 1
    BY <1>9, <2>1, FS_AddElement
  <2> QED
    BY <1>9, <1>10, <2>2
<1>12. T = U \cup {k + 1} /\ k + 1 \notin U
  BY <1>1, <1>3, <1>4, <1>8, <1>10
<1>13. Cardinality(T) = 3
  <2>1. Cardinality(U \cup {k + 1}) = Cardinality(U) + 1
    BY <1>11, <1>12, FS_AddElement
  <2> QED
    BY <1>11, <1>12, <2>1
<1> QED
  BY <1>7, <1>13

(* A name without the backticks at its ends, as add_str_component() takes  *)
(* it: from first on, length characters with count backticks among them.   *)
TickedIn(t, i, len) == len > 1 /\ t[i] = "tick" /\ t[i + len - 1] = "tick"

(* The locals of add_str_component(). *)
KeyLocals(t, i, at, w, first, length, count, x) ==
  LET len == at - i
  IN  /\ first = (IF TickedIn(t, i, len) THEN i + 1 ELSE i)
      /\ length = (IF TickedIn(t, i, len) THEN len - 2 ELSE len)
      /\ count = (IF TickedIn(t, i, len) THEN Cardinality(Ticks(w)) - 2 ELSE Cardinality(Ticks(w)))
      /\ x = SubSeq(t, first, first + length - 1)

(* They say whether the word is a name, and which key it names. *)
KeyTaken(t, i, at, w, first, length, count, x) ==
  /\ length = 0 => ~IsName(w)
  /\ length # 0 =>
       /\ at > i /\ IsName(w) /\ x \in Seq(STRING) /\ Len(x) = length /\ length \in Nat
       /\ first \in {i, i + 1} /\ first + length \in first + 1 .. Len(t) + 1
       /\ KeyNamed(w) = (IF Paired(x) THEN Single(x) ELSE Unsaid)
       /\ count = 0 => KeyNamed(w) = x

LEMMA NameKey ==
  ASSUME NEW t \in Seq(STRING), NEW i \in 1 .. Len(t), t[i] # "[", NEW at \in i .. Len(t) + 1,
         NEW w, w = SubSeq(t, i, at - 1), Sound(w),
         Cardinality(Ticks(w)) % 2 = 0, ~IsEscaped(w, Len(w) + 1),
         NEW first, NEW length, NEW count, NEW x, KeyLocals(t, i, at, w, first, length, count, x)
  PROVE  KeyTaken(t, i, at, w, first, length, count, x)
<1> DEFINE len == at - i
<1>0. /\ first = (IF TickedIn(t, i, len) THEN i + 1 ELSE i)
      /\ length = (IF TickedIn(t, i, len) THEN len - 2 ELSE len)
      /\ count = (IF TickedIn(t, i, len) THEN Cardinality(Ticks(w)) - 2 ELSE Cardinality(Ticks(w)))
      /\ x = SubSeq(t, first, first + length - 1)
  BY DEF KeyLocals
<1>1. Len(t) \in Nat /\ i \in Nat /\ at \in Nat /\ at - 1 \in i - 1 .. Len(t) /\ at - 1 - i + 1 = at - i
  BY LenProperties
<1>2. /\ w \in Seq(STRING) /\ Len(w) = len /\ len \in Nat
      /\ \A k \in 1 .. len : w[k] = t[i + k - 1]
  BY <1>1, SliceFrom
<1>9. IsFiniteSet(Ticks(w)) /\ Cardinality(Ticks(w)) \in Nat
  BY <1>2, TicksAreFinite
<1>3. len > 0 => w[1] = t[i] /\ w[Len(w)] = t[i + len - 1]
  <2>1. len > 0 => 1 \in 1 .. len /\ len \in 1 .. len /\ i + 1 - 1 = i
    BY <1>1, <1>2
  <2> QED
    BY <1>2, <2>1
<1>4. w = <<>> <=> len = 0
  BY <1>2, EmptySeq
<1>5. IsName(w) <=> w \notin {<<>>, <<"tick", "tick">>}
  <2>1. w # <<>> => w[1] # "["
    BY <1>2, <1>3, <1>4
  <2> QED
    BY <1>2, <2>1, WordIsName
<1>6. w = <<"tick", "tick">> <=> TickedIn(t, i, len) /\ len = 2
  <2>1. w = <<"tick", "tick">> <=> Len(w) = 2 /\ w[1] = "tick" /\ w[2] = "tick"
    BY <1>2, TwoTicks
  <2> QED
    BY <1>2, <1>3, <2>1 DEF TickedIn
<1>7. length = 0 <=> ~IsName(w)
  <2>1. length = 0 <=> len = 0 \/ (TickedIn(t, i, len) /\ len = 2)
    BY <1>0, <1>2 DEF TickedIn
  <2> QED
    BY <1>4, <1>5, <1>6, <2>1
<1>8. ASSUME length # 0
      PROVE  /\ at > i /\ IsName(w) /\ x \in Seq(STRING) /\ Len(x) = length /\ length \in Nat
             /\ first \in {i, i + 1} /\ first + length \in first + 1 .. Len(t) + 1
             /\ KeyNamed(w) = (IF Paired(x) THEN Single(x) ELSE Unsaid)
             /\ count = 0 => KeyNamed(w) = x
  <2>1. IsName(w) /\ at > i /\ len # 0
    BY <1>1, <1>2, <1>4, <1>5, <1>7, <1>8
  <2>2. TickedIn(t, i, len) <=> BothEnds(w)
    <3>1. ~(TickedIn(t, i, len) /\ len = 2)
      BY <1>5, <1>6, <2>1
    <3> QED
      BY <1>2, <1>3, <3>1 DEF TickedIn, BothEnds
  <2>3. CASE BothEnds(w)
    <3>1. first = i + 1 /\ length = len - 2 /\ count = Cardinality(Ticks(w)) - 2 /\ len > 2
      BY <1>0, <1>2, <2>2, <2>3 DEF BothEnds
    <3>2. first + length - 1 = at - 1 - 1 /\ length \in Nat /\ first + length \in first + 1 .. Len(t) + 1
      BY <1>1, <1>2, <3>1
    <3>3. x = Middle(w)
      <4>1. PICK b \in i + 1 .. Len(t) : b = at - 1
        BY <1>1, <1>2, <3>1
      <4>2. Middle(SubSeq(t, i, b)) = SubSeq(t, i + 1, b - 1)
        BY MiddleOfSlice
      <4> QED
        BY <1>0, <3>1, <3>2, <4>1, <4>2
    <3>4. x \in Seq(STRING) /\ Len(x) = length
      <4>1. Len(w) >= 2 /\ length = Len(w) - 2
        BY <1>2, <3>1
      <4>2. Middle(w) \in Seq(STRING) /\ Len(Middle(w)) = Len(w) - 2
        BY <1>2, <4>1, MiddleOf
      <4> QED
        BY <3>3, <4>1, <4>2
    <3>5. KeyNamed(w) = IF Paired(x) THEN Single(x) ELSE Unsaid
      BY <2>3, <3>3 DEF KeyNamed
    <3>6. count = 0 => KeyNamed(w) = x
      <4> SUFFICES ASSUME count = 0 PROVE KeyNamed(w) = x
        OBVIOUS
      <4>1. Cardinality(Ticks(w)) \in Nat
        BY <1>9
      <4>2. Cardinality(Ticks(w)) = 2
        BY <3>1, <4>1
      <4>3. Ticks(x) = {}
        BY <1>2, <2>3, <3>3, <4>2, TicksBetween
      <4> QED
        BY <3>4, <3>5, <4>3, NoTicks
    <3> QED
      BY <2>1, <3>1, <3>2, <3>4, <3>5, <3>6
  <2>4. CASE ~BothEnds(w)
    <3>1. first = i /\ length = len /\ count = Cardinality(Ticks(w))
      BY <1>0, <2>2, <2>4
    <3>2. first + length - 1 = at - 1 /\ first + length \in first + 1 .. Len(t) + 1
      BY <1>1, <2>1, <3>1
    <3>3. x = w
      BY <1>0, <3>1, <3>2
    <3>5. KeyNamed(w) = IF Paired(x) THEN Single(x) ELSE Unsaid
      BY <2>4, <3>3 DEF KeyNamed
    <3>6. count = 0 => KeyNamed(w) = x
      <4> SUFFICES ASSUME count = 0 PROVE KeyNamed(w) = x
        OBVIOUS
      <4>1. IsFiniteSet(Ticks(w))
        BY <1>9
      <4>2. Ticks(x) = {}
        BY <3>1, <3>3, <4>1, FS_EmptySet
      <4> QED
        BY <1>2, <3>3, <3>5, <4>2, NoTicks
    <3> QED
      BY <1>2, <2>1, <3>1, <3>2, <3>3, <3>5, <3>6
  <2> QED
    BY <2>3, <2>4
<1> QED
  BY <1>7, <1>8 DEF KeyTaken

-----------------------------------------------------------------------------
(* The components and the readings of the text. *)

(* An item put before a rest. *)
LEMMA BeginningIs ==
  ASSUME NEW item, NEW rest \in Seq(Said)
  PROVE  /\ Len(<<item>> \o rest) = 1 + Len(rest) /\ Len(rest) \in Nat
         /\ (<<item>> \o rest)[1] = item
         /\ \A k \in 1 .. Len(rest) : (<<item>> \o rest)[1 + k] = rest[k]
<1>1. PICK S : S = Said \cup {item}
  OBVIOUS
<1>2. Len(rest) \in Nat /\ \A k \in 1 .. Len(rest) : rest[k] \in S
  BY <1>1, LenProperties, ElementOfSeq
<1>3. rest = [k \in 1 .. Len(rest) |-> rest[k]]
  BY LenProperties
<1>4. rest \in Seq(S)
  BY <1>2, <1>3, MapIsSeq
<1>5. item \in S
  BY <1>1
<1>6. <<item>> \in Seq(S) /\ Len(<<item>>) = 1 /\ <<item>>[1] = item
  BY <1>5
<1> QED
  BY <1>2, <1>4, <1>6, ConcatProperties

(* One component more has been read. *)
LEMMA Advance ==
  ASSUME NEW t \in Seq(STRING), NEW i \in 1 .. Len(t) + 1, NEW next \in 1 .. Len(t) + 1,
         NEW item, Rests(t)[i] = Beginning(item, Rests(t)[next]),
         NEW n \in Nat, NEW comps, NEW added, NEW reading,
         \A k \in 1 .. n : added[k] = comps[k],
         item.idx < Modulus - 1 => SaysItem(added[n + 1], item),
         Fits(reading), SoFarIn(t, i, comps, n, reading)
  PROVE  SoFarIn(t, next, added, n + 1, reading)
<1>1. PICK rest \in Rests(t)[i] :
        /\ Len(reading) = n + Len(rest)
        /\ \A k \in 1 .. n : SaysItem(comps[k], reading[k])
        /\ \A k \in 1 .. Len(rest) : reading[n + k] = rest[k]
  BY DEF SoFarIn
<1>2. PICK more \in Rests(t)[next] : rest = <<item>> \o more
  BY <1>1, Zenon DEF Beginning
<1>3. more \in Seq(Said)
  BY <1>2, RestsAreSaid
<1>4. /\ Len(rest) = 1 + Len(more) /\ Len(more) \in Nat /\ rest[1] = item
      /\ \A k \in 1 .. Len(more) : rest[1 + k] = more[k]
  BY <1>2, <1>3, BeginningIs
<1>5. reading[n + 1] = item
  BY <1>1, <1>4
<1>6. item.idx < Modulus - 1
  <2>1. n + 1 \in 1 .. Len(reading)
    BY <1>1, <1>4
  <2> QED
    BY <1>5, <2>1 DEF Fits
<1>7. \A k \in 1 .. n + 1 : SaysItem(added[k], reading[k])
  <2> TAKE k \in 1 .. n + 1
  <2>1. CASE k = n + 1
    BY <1>5, <1>6, <2>1
  <2>2. CASE k # n + 1
    <3>1. k \in 1 .. n
      BY <2>2
    <3> QED
      BY <1>1, <3>1
  <2> QED
    BY <2>1, <2>2
<1>8. \A k \in 1 .. Len(more) : reading[n + 1 + k] = more[k]
  <2> TAKE k \in 1 .. Len(more)
  <2>1. 1 + k \in 1 .. Len(rest) /\ n + (1 + k) = n + 1 + k
    BY <1>4
  <2> QED
    BY <1>1, <1>4, <2>1
<1>9. Len(reading) = n + 1 + Len(more)
  BY <1>1, <1>4
<1> QED
  BY <1>2, <1>7, <1>8, <1>9 DEF SoFarIn

LEMMA PathFacts ==
  ASSUME PathInv
  PROVE  /\ ptext \in Seq(STRING) /\ Len(ptext) \in Nat /\ scan \in Scan
         /\ components \in Seq(ParsedInfo) /\ Len(components) \in Nat
         /\ ppc # "IDLE" => Len(components) <= MaxComponents
  BY LenProperties DEF PathInv, TypeInv, PathTypeOK, ShapeIsRight

(* The text is refused, and no reading of it can be told. *)
LEMMA RefusedRight ==
  ASSUME PathInv, ptext' = ptext, ppc' = "DONE", NEW code, code # "SUCCESS", perr' = code,
         \A reading \in Readings(ptext) : ~Fits(reading)
  PROVE  GrammarInv'
<1>1. AnswerIsRight'
  BY DEF AnswerIsRight
<1> QED
  BY <1>1 DEF GrammarInv, Parsing

(* Where nothing may begin, no reading goes on. *)
LEMMA NothingFits ==
  ASSUME ReadSoFar, Rests(ptext)[ii] = {}
  PROVE  \A reading \in Readings(ptext) : ~Fits(reading)
  BY DEF ReadSoFar, SoFar, SoFarIn

(* The path has no room for what follows. *)
LEMMA LevelsRight ==
  ASSUME PathInv, ppc # "IDLE", ReadSoFar, ii <= Len(ptext), ~Room, Refused("LEVELS_EXCEEDED")
  PROVE  GrammarInv'
<1>1. ptext' = ptext /\ ppc' = "DONE" /\ perr' = "LEVELS_EXCEEDED"
  BY DEF Refused, Return
<1>2. Len(components) = MaxComponents
  BY DEF Room
<1>3. ptext \in Seq(STRING) /\ Len(ptext) \in Nat /\ ii \in 1 .. Len(ptext)
  BY PathFacts DEF ReadSoFar
<1>4. ASSUME NEW reading \in Readings(ptext), Fits(reading)
      PROVE  Len(reading) > MaxComponents
  <2>1. PICK rest \in Rests(ptext)[ii] : Len(reading) = Len(components) + Len(rest)
    BY <1>4 DEF ReadSoFar, SoFar, SoFarIn
  <2>2. PICK j \in ii .. Len(ptext) : \E comp, more : Reads(ptext, ii, j, comp, more) /\ rest = <<comp>> \o more
    BY <1>3, RestIs
  <2>3. PICK comp, more : Reads(ptext, ii, j, comp, more) /\ rest = <<comp>> \o more
    BY <2>2
  <2>4. more \in Seq(Said)
    <3>1. j \in 1 .. Len(ptext) /\ j + 1 \in 1 .. Len(ptext) + 1 /\ (j < Len(ptext) => j + 2 \in 1 .. Len(ptext) + 1)
      BY <1>3
    <3>2. more \in After(ptext, Rests(ptext), j + 1)
      BY <2>3 DEF Reads
    <3>3. more \in Rests(ptext)[j + 1] \/ (j < Len(ptext) /\ more \in Rests(ptext)[j + 2])
      BY <1>3, <3>1, <3>2, RestsAfter
    <3> QED
      BY <1>3, <3>1, <3>3, RestsAreSaid
  <2>5. Len(rest) = 1 + Len(more) /\ Len(more) \in Nat
    BY <2>3, <2>4, BeginningIs
  <2> QED
    BY <1>2, <2>1, <2>5, MaxComponentsAssumption
<1>5. AnswerIsRight'
  BY <1>1, <1>4 DEF AnswerIsRight
<1> QED
  BY <1>1, <1>5 DEF GrammarInv, Parsing

(* A component is added. *)
LEMMA AddedRight ==
  ASSUME PathInv, ReadSoFar, NEW comp \in ParsedInfo, components' = Append(components, comp),
         ptext' = ptext, ppc' = "NEXT", ii' \in 1 .. Len(ptext) + 1,
         \A k \in 1 .. Len(components) : ParsedPath'[k] = ParsedPath[k],
         NEW item, Rests(ptext)[ii] = Beginning(item, Rests(ptext)[ii']),
         item.idx < Modulus - 1 => SaysItem(ParsedPath'[Len(components) + 1], item)
  PROVE  GrammarInv'
<1>1. /\ ptext \in Seq(STRING) /\ Len(ptext) \in Nat /\ ii \in 1 .. Len(ptext) + 1
      /\ Len(components) \in Nat /\ components \in Seq(ParsedInfo)
  BY PathFacts DEF ReadSoFar
<1>2. Len(components') = Len(components) + 1
  BY <1>1, AppendProperties
<1>3. ASSUME NEW reading \in Readings(ptext), Fits(reading) PROVE SoFar(reading)'
  <2>1. SoFarIn(ptext, ii, ParsedPath, Len(components), reading)
    BY <1>3 DEF ReadSoFar, SoFar
  <2>2. PICK next \in 1 .. Len(ptext) + 1 : next = ii'
    OBVIOUS
  <2>3. PICK comps, added : comps = ParsedPath /\ added = ParsedPath'
    OBVIOUS
  <2>4. SoFarIn(ptext, next, added, Len(components) + 1, reading)
    BY <1>1, <1>3, <2>1, <2>2, <2>3, Advance
  <2> QED
    BY <1>2, <2>2, <2>3, <2>4 DEF SoFar
<1>4. Rests(ptext)[ii'] # {} => Rests(ptext)[ii] # {}
  <2> SUFFICES ASSUME NEW rest \in Rests(ptext)[ii'] PROVE Rests(ptext)[ii] # {}
    OBVIOUS
  <2>1. <<item>> \o rest \in Rests(ptext)[ii]
    BY Zenon DEF Beginning
  <2> QED
    BY <2>1
<1>5. ReadSoFar'
  BY <1>1, <1>3, <1>4 DEF ReadSoFar
<1> QED
  BY <1>5 DEF GrammarInv

(* What has been read stands while parse() reads on. *)
LEMMA ReadStands ==
  ASSUME PathInv, ReadSoFar, UNCHANGED <<ptext, ii>>, Len(components') = Len(components),
         \A k \in 1 .. Len(components) : ParsedPath'[k] = ParsedPath[k]
  PROVE  ReadSoFar'
<1>1. ASSUME NEW reading \in Readings(ptext), Fits(reading) PROVE SoFar(reading)'
  <2>1. SoFarIn(ptext, ii, ParsedPath, Len(components), reading)
    BY <1>1 DEF ReadSoFar, SoFar
  <2>2. SoFarIn(ptext, ii, ParsedPath', Len(components), reading)
    BY <2>1 DEF SoFarIn
  <2> QED
    BY <2>2 DEF SoFar
<1> QED
  BY <1>1 DEF ReadSoFar

-----------------------------------------------------------------------------
(* A name is added, or begins to be converted. *)

(* The bytes a component points to. *)
KeyIn(k, t, strs) == SubSeq(IF k.owner = 0 THEN t ELSE strs[k.owner], k.at, k.at + k.len - 1)

(* The component that has been added, as it is read. *)
LEMMA NewParsed ==
  ASSUME PathInv, NEW comp \in ParsedInfo, components' = Append(components, comp)
  PROVE  ParsedPath'[Len(components) + 1] =
           [ptype |-> comp.ptype, pstr |-> KeyIn(comp.key, ptext', strings'), idx |-> comp.idx, is_neg |-> comp.is_neg]
<1>1. /\ Len(components) \in Nat /\ Len(components') = Len(components) + 1
      /\ components'[Len(components) + 1] = comp
  BY PathFacts, AppendProperties
<1>2. Len(components) + 1 \in 1 .. Len(components')
  BY <1>1
<1>3. ParsedPath' = [i \in 1 .. Len(components') |->
         [ptype |-> components'[i].ptype, pstr |-> KeyIn(components'[i].key, ptext', strings'),
          idx |-> components'[i].idx, is_neg |-> components'[i].is_neg]]
  BY Zenon DEF ParsedPath, KeyOf, KeyIn
<1>4. PICK m \in 1 .. Len(components') : m = Len(components) + 1
  BY <1>2
<1>5. ParsedPath'[m] =
         [ptype |-> components'[m].ptype, pstr |-> KeyIn(components'[m].key, ptext', strings'),
          idx |-> components'[m].idx, is_neg |-> components'[m].is_neg]
  BY <1>3, <1>4, Zenon
<1>6. components'[m] = comp
  BY <1>1, <1>4
<1> QED
  BY <1>4, <1>5, <1>6, Zenon

(* A string that is taken is empty. *)
LEMMA TakenIsEmpty ==
  ASSUME PathInv, NEW first, NEW past, NEW next, BeginConvert(first, past, next)
  PROVE  Converted' = <<>>
<1>1. /\ strings \in Seq(Seq(STRING)) /\ m_used \in Seq(1 .. Len(strings))
      /\ m_cached \in Seq(1 .. Len(strings)) /\ Len(strings) \in Nat /\ Len(m_used) \in Nat
  BY LenProperties DEF PathInv, TypeInv, PathTypeOK
<1>2. m_used' = Append(m_used, Taken)
  BY DEF BeginConvert
<1>3. Last(m_used') = Taken
  <2>1. PICK S : S = (1 .. Len(strings)) \cup {Taken}
    OBVIOUS
  <2>2. m_used = [k \in 1 .. Len(m_used) |-> m_used[k]] /\ \A k \in 1 .. Len(m_used) : m_used[k] \in S
    BY <1>1, <2>1, LenProperties, ElementOfSeq
  <2>3. m_used \in Seq(S)
    BY <1>1, <2>2, MapIsSeq
  <2>4. Taken \in S
    BY <2>1
  <2>5. Len(Append(m_used, Taken)) = Len(m_used) + 1 /\ Append(m_used, Taken)[Len(m_used) + 1] = Taken
    BY <2>3, <2>4, AppendProperties
  <2> QED
    BY <1>2, <2>5 DEF Last
<1>4. CASE m_cached = <<>>
  <2>1. strings' = Append(strings, <<>>) /\ Taken = Len(strings) + 1
    BY <1>4 DEF BeginConvert, Taken
  <2>2. <<>> \in Seq(STRING)
    BY EmptySeq
  <2>3. Append(strings, <<>>)[Len(strings) + 1] = <<>>
    BY <1>1, <2>2, AppendProperties
  <2> QED
    BY <1>3, <2>1, <2>3 DEF Converted
<1>5. CASE m_cached # <<>>
  <2>1. strings' = strings /\ Taken = Last(m_cached)
    BY <1>5 DEF BeginConvert, Taken
  <2>2. Last(m_cached) = m_cached[Len(m_cached)] /\ Len(m_cached) \in 1 .. Len(m_cached)
    <3>1. PICK S : S = 1 .. Len(strings)
      OBVIOUS
    <3>2. m_cached \in Seq(S)
      BY <1>1, <3>1
    <3>3. Last(m_cached) = m_cached[Len(m_cached)] /\ Len(m_cached) \in Nat \ {0}
      BY <1>5, <3>2, FrontAndLast
    <3> QED
      BY <3>3
  <2>3. strings[m_cached[Len(m_cached)]] = <<>>
    BY <2>2 DEF PathInv, StringsAreApart
  <2> QED
    BY <1>3, <2>1, <2>2, <2>3 DEF Converted
<1> QED
  BY <1>4, <1>5

(* add_str_component() adds the key that the name says. *)
LEMMA AddStringRight ==
  ASSUME PathInv, ReadSoFar, NEW key \in KeyPointer, NEW next \in 1 .. Len(ptext) + 1,
         AddString(key, next), \A k \in 1 .. Len(components) : Stands(k),
         NEW named, Rests(ptext)[ii] = Beginning(Name(named), Rests(ptext)[next]),
         named = KeyIn(key, ptext', strings') \/ named = Unsaid
  PROVE  GrammarInv'
<1>1. StringHere(key) \in ParsedInfo
  BY NewComponents, IntMaxAssumption
<1>2. /\ components' = Append(components, StringHere(key)) /\ ptext' = ptext /\ ppc' = "NEXT" /\ ii' = next
  BY DEF AddString
<1>3. ParsedPath'[Len(components) + 1] = Name(KeyIn(key, ptext', strings'))
  <2>1. PICK comp \in ParsedInfo : comp = StringHere(key)
    BY <1>1
  <2>2. comp.key = key /\ comp.ptype = "STRING" /\ comp.idx = 0 /\ comp.is_neg = FALSE
    BY <2>1 DEF StringHere
  <2>3. ParsedPath'[Len(components) + 1] =
          [ptype |-> comp.ptype, pstr |-> KeyIn(comp.key, ptext', strings'), idx |-> comp.idx,
           is_neg |-> comp.is_neg]
    BY <1>2, <2>1, NewParsed
  <2> QED
    BY <2>2, <2>3, Zenon DEF Name
<1>4. \A k \in 1 .. Len(components) : ParsedPath'[k] = ParsedPath[k]
  BY DEF Stands
<1>5. SaysItem(ParsedPath'[Len(components) + 1], Name(named))
  <2>1. PICK k : k = KeyIn(key, ptext', strings')
    OBVIOUS
  <2>2. Name(k).ptype = "STRING"
    BY DEF Name
  <2>3. ParsedPath'[Len(components) + 1] = Name(k) /\ (named = k \/ named = Unsaid)
    BY <1>3, <2>1
  <2> QED
    BY <2>2, <2>3, Zenon DEF SaysItem
<1>6. ii' \in 1 .. Len(ptext) + 1 /\ Rests(ptext)[ii] = Beginning(Name(named), Rests(ptext)[ii'])
  BY <1>2
<1> QED
  BY <1>1, <1>2, <1>4, <1>5, <1>6, AddedRight

(* What parse_string() knows of what it has read. *)
LEMMA NameFacts ==
  ASSUME PathInv, ReadSoFar, NameSoFar, NEW w, w = SubSeq(ptext, ii, scan.at - 1)
  PROVE  /\ ptext \in Seq(STRING) /\ Len(ptext) \in Nat /\ scan \in Scan /\ ii \in 1 .. Len(ptext)
         /\ ptext[ii] # "[" /\ scan.at \in ii .. Len(ptext) + 1 /\ Len(components) \in Nat
         /\ scan.n_backticks = Cardinality(Ticks(w)) /\ Sound(w)
         /\ scan.in_n1ql_escape = (Cardinality(Ticks(w)) % 2 = 1)
         /\ scan.in_json_escape = IsEscaped(w, Len(w) + 1)
         /\ w \in Seq(STRING) /\ Cardinality(Ticks(w)) \in Nat
         /\ Cardinality(Ticks(w)) % 2 = 1 \/ Cardinality(Ticks(w)) % 2 = 0
         /\ IsName(w) => ~scan.in_n1ql_escape /\ ~scan.in_json_escape
<1>1. ptext \in Seq(STRING) /\ Len(ptext) \in Nat /\ scan \in Scan /\ Len(components) \in Nat
  BY PathFacts
<1>2. ii \in 1 .. Len(ptext) + 1
  BY DEF ReadSoFar
<1>3. /\ ii <= Len(ptext) /\ ptext[ii] # "[" /\ scan.at \in ii .. Len(ptext) + 1
      /\ scan.n_backticks = Cardinality(Ticks(w))
      /\ scan.in_n1ql_escape = (Cardinality(Ticks(w)) % 2 = 1)
      /\ scan.in_json_escape = IsEscaped(w, Len(w) + 1)
      /\ Sound(w)
  BY Zenon DEF NameSoFar
<1>4. ii \in 1 .. Len(ptext)
  BY <1>1, <1>2, <1>3
<1>5. w \in Seq(STRING) /\ Len(w) = scan.at - ii /\ \A k \in 1 .. scan.at - ii : w[k] = ptext[ii + k - 1]
  <2>1. PICK a \in ii - 1 .. Len(ptext) : a = scan.at - 1
    BY <1>1, <1>3, <1>4
  <2>2. a - ii + 1 = scan.at - ii
    BY <1>1, <1>3, <1>4, <2>1
  <2> QED
    BY <1>1, <1>4, <2>1, <2>2, SliceFrom
<1>6. PICK c \in Nat : c = Cardinality(Ticks(w))
  BY <1>5, TicksAreFinite
<1>7. c % 2 = 1 \/ c % 2 = 0
  OBVIOUS
<1>8. w # <<>> => w[1] # "["
  <2>1. w # <<>> => Len(w) \in Nat /\ Len(w) # 0
    BY <1>5, EmptySeq, LenProperties
  <2>2. w # <<>> => w[1] = ptext[ii + 1 - 1] /\ ii + 1 - 1 = ii
    BY <1>1, <1>4, <1>5, <2>1
  <2> QED
    BY <1>3, <2>2
<1>9. IsName(w) => Cardinality(Ticks(w)) % 2 = 0 /\ ~IsEscaped(w, Len(w) + 1)
  BY <1>3, <1>5, <1>8, WordIsName
<1>10. IsName(w) => ~scan.in_n1ql_escape /\ ~scan.in_json_escape
  <2>1. IsName(w) => ~(Cardinality(Ticks(w)) % 2 = 1)
    BY <1>9
  <2> QED
    BY <1>3, <1>9, <2>1, Zenon
<1> QED
  BY <1>1, <1>3, <1>4, <1>5, <1>6, <1>7, <1>10, Zenon

(* add_str_component(), once the scan has stopped: a name that is empty is *)
(* refused, one without inner backticks is added, one with them converted. *)
LEMMA AddStrComponentRight ==
  ASSUME PathInv, ReadSoFar, NameSoFar, ppc = "STRING", \A k \in 1 .. Len(components) : Stands(k),
         NEW w, w = SubSeq(ptext, ii, scan.at - 1), Stops(ptext, scan.at, w),
         ~scan.in_n1ql_escape, ~scan.in_json_escape, NEW next \in 1 .. Len(ptext) + 1,
         After(ptext, Rests(ptext), scan.at) = Rests(ptext)[next],
         NEW len, len = scan.at - ii, AddStrComponent(len, scan.n_backticks, next)
  PROVE  GrammarInv'
<1> DEFINE first  == IF IsTicked(len) THEN ii + 1 ELSE ii
           length == IF IsTicked(len) THEN len - 2 ELSE len
           ticks  == IF IsTicked(len) THEN scan.n_backticks - 2 ELSE scan.n_backticks
           x      == SubSeq(ptext, first, first + length - 1)
<1>1. /\ ptext \in Seq(STRING) /\ Len(ptext) \in Nat /\ scan \in Scan /\ ii \in 1 .. Len(ptext)
      /\ ptext[ii] # "[" /\ scan.at \in ii .. Len(ptext) + 1 /\ Len(components) \in Nat
      /\ scan.n_backticks = Cardinality(Ticks(w)) /\ Sound(w)
      /\ ~(Cardinality(Ticks(w)) % 2 = 1) /\ ~IsEscaped(w, Len(w) + 1)
  BY NameFacts, Zenon
<1>2. Cardinality(Ticks(w)) % 2 = 0
  BY <1>1, NameFacts, Zenon
<1>3. IsTicked(len) <=> TickedIn(ptext, ii, len)
  BY DEF IsTicked, TickedIn, Tick
<1>4. /\ length = 0 => ~IsName(w)
      /\ length # 0 =>
           /\ scan.at > ii /\ IsName(w) /\ x \in Seq(STRING) /\ Len(x) = length /\ length \in Nat
           /\ first \in {ii, ii + 1} /\ first + length \in first + 1 .. Len(ptext) + 1
           /\ KeyNamed(w) = (IF Paired(x) THEN Single(x) ELSE Unsaid)
           /\ ticks = 0 => KeyNamed(w) = x
  <2>1. PICK t \in Seq(STRING), i \in 1 .. Len(ptext), at \in ii .. Len(ptext) + 1 :
          t = ptext /\ i = ii /\ at = scan.at
    BY <1>1
  <2>2. /\ first = (IF TickedIn(t, i, len) THEN i + 1 ELSE i)
        /\ length = (IF TickedIn(t, i, len) THEN len - 2 ELSE len)
        /\ ticks = (IF TickedIn(t, i, len) THEN Cardinality(Ticks(w)) - 2 ELSE Cardinality(Ticks(w)))
        /\ x = SubSeq(t, first, first + length - 1)
    BY <1>1, <1>3, <2>1
  <2>3. PICK f, l, c, y : f = first /\ l = length /\ c = ticks /\ y = x
    OBVIOUS
  <2> HIDE DEF first, length, ticks, x
  <2>4. /\ l = 0 => ~IsName(w)
        /\ l # 0 =>
             /\ at > i /\ IsName(w) /\ y \in Seq(STRING) /\ Len(y) = l /\ l \in Nat
             /\ f \in {i, i + 1} /\ f + l \in f + 1 .. Len(t) + 1
             /\ KeyNamed(w) = (IF Paired(y) THEN Single(y) ELSE Unsaid)
             /\ c = 0 => KeyNamed(w) = y
    <3>1. /\ t[i] # "[" /\ at \in i .. Len(t) + 1 /\ i \in 1 .. Len(t) /\ w = SubSeq(t, i, at - 1)
          /\ Sound(w) /\ Cardinality(Ticks(w)) % 2 = 0 /\ ~IsEscaped(w, Len(w) + 1) /\ len = at - i
      BY <1>1, <1>2, <2>1, Zenon
    <3>2. KeyLocals(t, i, at, w, f, l, c, y)
      BY <2>2, <2>3, <3>1, Zenon DEF KeyLocals
    <3>3. KeyTaken(t, i, at, w, f, l, c, y)
      BY <3>1, <3>2, NameKey
    <3> QED
      BY <3>3 DEF KeyTaken
  <2> QED
    BY <2>1, <2>3, <2>4
<1>5. length # 0 => Rests(ptext)[ii] = Beginning(Name(KeyNamed(w)), Rests(ptext)[next])
  <2> HIDE DEF first, length, ticks, x
  <2> SUFFICES ASSUME length # 0
               PROVE  Rests(ptext)[ii] = Beginning(Name(KeyNamed(w)), Rests(ptext)[next])
    OBVIOUS
  <2>1. scan.at \in ii + 1 .. Len(ptext) + 1 /\ IsName(w)
    BY <1>1, <1>4
  <2> QED
    BY <1>1, <2>1, NameRests
<1>6. CASE ~Room /\ Refused("LEVELS_EXCEEDED")
  BY <1>1, <1>6, LevelsRight
<1>7. CASE length = 0 /\ Refused("JPR_BADPATH")
  <2>1. Rests(ptext)[ii] = {}
    <3> SUFFICES ASSUME NEW r \in Rests(ptext)[ii] PROVE FALSE
      OBVIOUS
    <3>1. IsName(w)
      BY <1>1, NameStops
    <3> QED
      BY <1>4, <1>7, <3>1
  <2>2. ptext' = ptext /\ ppc' = "DONE" /\ perr' = "JPR_BADPATH"
    BY <1>7 DEF Refused, Return
  <2> QED
    BY <2>1, <2>2, NothingFits, RefusedRight
<1>8. CASE length # 0 /\ ticks = 0 /\ AddString(Slice(first, length), next)
  <2>1. KeyNamed(w) = x /\ first \in Nat /\ length \in Nat
    <3>1. first \in Nat
      BY <1>1
    <3> HIDE DEF first, length, ticks, x
    <3> QED
      BY <1>4, <1>8, <3>1
  <2>2. KeyIn(Slice(first, length), ptext', strings') = x
    <3>1. ptext' = ptext
      BY <1>8 DEF AddString
    <3> HIDE DEF first, length, ticks
    <3> QED
      BY <3>1 DEF KeyIn, Slice
  <2> HIDE DEF first, length, ticks, x
  <2>3. PICK key \in KeyPointer : key = Slice(first, length)
    BY <2>1, NewComponents, IntMaxAssumption
  <2>4. KeyIn(key, ptext', strings') = x
    BY <2>2, <2>3, Zenon
  <2> QED
    BY <1>5, <1>8, <2>1, <2>3, <2>4, AddStringRight
<1>9. CASE length # 0 /\ BeginConvert(first, first + length, next)
  <2> HIDE DEF first, length, ticks, x
  <2>1. /\ ptext' = ptext /\ ii' = ii /\ components' = components /\ ppc' = "CONVERT"
        /\ scan'.at = first /\ scan'.past = first + length /\ scan'.next = next
    BY <1>1, <1>9 DEF BeginConvert, Scan
  <2>2. ReadSoFar'
    BY <2>1, ReadStands DEF Stands
  <2>3. Converted' = <<>>
    BY <1>9, TakenIsEmpty
  <2>4. x \in Seq(STRING) /\ x = SubSeq(ptext', first, scan'.past - 1) /\ Len(x) \in Nat
    <3>1. x \in Seq(STRING)
      BY <1>4, <1>9
    <3>2. first \in Nat /\ length \in Nat
      BY SMTT(30), <1>1, <1>4, <1>9
    <3>3. x = SubSeq(ptext, first, first + length - 1)
      BY DEF x
    <3> QED
      BY <2>1, <3>1, <3>2, <3>3, LenProperties
  <2>5. ~Inside(x, 1) /\ Singles(x)[0] = <<>>
    <3>1. Cardinality(TicksBefore(x, 1)) = 0 /\ (Inside(x, 1) <=> Cardinality(TicksBefore(x, 1)) % 2 = 1)
      BY <2>4, TicksCount
    <3> QED
      <4>1. x \in Seq(STRING)
        BY <2>4
      <4>2. Singles(x)[0] = <<>>
        BY <4>1, SinglesFacts
      <4> QED
        BY <3>1, <4>2
  <2>6. first \in Nat /\ scan'.at - first + 1 = 1 /\ scan'.at - first = 0
    <3>1. first \in Nat
      BY SMTT(30), <1>1, <1>4, <1>9
    <3> QED
      BY <2>1, <3>1
  <2>7. /\ Paired(x) => /\ scan'.at <= scan'.past /\ ~Inside(x, scan'.at - first + 1)
                        /\ Converted' = Singles(x)[scan'.at - first]
        /\ scan'.at >= first
    BY <1>1, <1>4, <1>9, <2>1, <2>3, <2>5, <2>6
  <2>8. Rests(ptext')[ii'] = Beginning(Name(IF Paired(x) THEN Single(x) ELSE Unsaid), Rests(ptext')[scan'.next])
    BY <1>4, <1>5, <1>9, <2>1
  <2>9. /\ ii' <= Len(ptext') /\ scan'.past \in first .. Len(ptext') + 1 /\ scan'.next \in 1 .. Len(ptext') + 1
        /\ first \in {ii', ii' + 1}
    BY <1>1, <1>4, <1>9, <2>1
  <2>10. KeySoFar'
    BY <2>4, <2>7, <2>8, <2>9 DEF KeySoFar
  <2> QED
    BY <2>1, <2>2, <2>10 DEF GrammarInv
<1> QED
  BY <1>6, <1>7, <1>8, <1>9 DEF AddStrComponent

-----------------------------------------------------------------------------
(* parse_string(), step by step. *)

(* parse_string() refuses a text where no name can end. *)
LEMMA NameRefused ==
  ASSUME PathInv, ReadSoFar, NameSoFar, NEW w, w = SubSeq(ptext, ii, scan.at - 1),
         Stops(ptext, scan.at, w), ~(IsName(w) /\ scan.at > ii /\ Follows(ptext, scan.at - 1)),
         NEW code, code # "SUCCESS", Refused(code)
  PROVE  GrammarInv'
<1>1. Rests(ptext)[ii] = {}
  <2> SUFFICES ASSUME NEW r \in Rests(ptext)[ii] PROVE FALSE
    OBVIOUS
  <2>1. PICK t \in Seq(STRING), i \in 1 .. Len(ptext), at \in ii .. Len(ptext) + 1 :
          t = ptext /\ i = ii /\ at = scan.at
    BY NameFacts
  <2>2. t[i] # "[" /\ w = SubSeq(t, i, at - 1) /\ Sound(w) /\ Stops(t, at, w) /\ r \in Rests(t)[i]
    BY <2>1, NameFacts
  <2>3. at \in i .. Len(t) + 1 /\ i \in 1 .. Len(t)
    BY <2>1
  <2>4. at > i /\ IsName(w) /\ Follows(t, at - 1)
    BY <2>2, <2>3, NameStops
  <2> QED
    BY <2>1, <2>4
<1>2. ptext' = ptext /\ ppc' = "DONE" /\ perr' = code
  BY DEF Refused, Return
<1> QED
  BY <1>1, <1>2, NothingFits, RefusedRight

LEMMA BeginStringRight ==
  ASSUME PathInv, ReadSoFar, BeginString, \A k \in 1 .. Len(components) : Stands(k)
  PROVE  GrammarInv'
<1>1. /\ ptext \in Seq(STRING) /\ Len(ptext) \in Nat /\ ii \in 1 .. Len(ptext)
  BY PathFacts DEF BeginString, ReadSoFar
<1>2. /\ UNCHANGED <<ptext, ii, components>> /\ ppc' = "STRING" /\ ptext[ii] # "["
      /\ scan'.at = ii /\ scan'.n_backticks = 0 /\ scan'.in_n1ql_escape = FALSE
      /\ scan'.in_json_escape = FALSE
  BY DEF BeginString, BlankScan
<1>3. ReadSoFar'
  BY <1>2, ReadStands DEF Stands
<1>4. PICK w : w = SubSeq(ptext, ii, ii - 1)
  OBVIOUS
<1>5. w \in Seq(STRING) /\ Len(w) = 0
  <2>1. ii - 1 \in ii - 1 .. Len(ptext) /\ ii - 1 - ii + 1 = 0
    BY <1>1
  <2> QED
    BY <1>1, <1>4, <2>1, SliceFrom
<1>6. Cardinality(Ticks(w)) = 0
  <2>1. Ticks(w) = {}
    BY <1>5 DEF Ticks
  <2> QED
    BY <2>1, FS_EmptySet
<1>7. ~IsEscaped(w, Len(w) + 1) /\ Sound(w)
  BY <1>5 DEF IsEscaped, Sound
<1>8. scan'.n_backticks = Cardinality(Ticks(w)) /\ ~(Cardinality(Ticks(w)) % 2 = 1)
  BY <1>2, <1>6
<1>9. w = SubSeq(ptext', ii', scan'.at - 1) /\ ii' <= Len(ptext') /\ scan'.at \in ii' .. Len(ptext') + 1
      /\ ptext'[ii'] # "["
  BY <1>1, <1>2, <1>4
<1>10. /\ scan'.in_n1ql_escape = (Cardinality(Ticks(w)) % 2 = 1)
       /\ scan'.in_json_escape = IsEscaped(w, Len(w) + 1)
  <2>1. (Cardinality(Ticks(w)) % 2 = 1) = FALSE /\ IsEscaped(w, Len(w) + 1) = FALSE
    <3>1. IsEscaped(w, Len(w) + 1) \in BOOLEAN
      BY Zenon DEF IsEscaped
    <3>2. IsEscaped(w, Len(w) + 1) = FALSE
      BY <1>7, <3>1, Zenon
    <3>3. (Cardinality(Ticks(w)) % 2 = 1) = FALSE
      BY <1>8
    <3> QED
      BY <3>2, <3>3
  <2> QED
    BY <1>2, <2>1, Zenon
<1>11. NameSoFar'
  BY <1>7, <1>8, <1>9, <1>10, Zenon DEF NameSoFar
<1> QED
  BY <1>2, <1>3, <1>11 DEF GrammarInv

LEMMA PathCharRight ==
  ASSUME PathInv, ReadSoFar, NameSoFar, PathChar, \A k \in 1 .. Len(components) : Stands(k)
  PROVE  GrammarInv'
<1> DEFINE ch == ptext[scan.at]
           quoted == Scanned(ch).in_n1ql_escape
           ends == ~quoted /\ ch \in {"[", "]", "."}
<1>1. PICK w : w = SubSeq(ptext, ii, scan.at - 1)
  OBVIOUS
<1>2. /\ ptext \in Seq(STRING) /\ Len(ptext) \in Nat /\ scan \in Scan /\ ii \in 1 .. Len(ptext)
      /\ ptext[ii] # "[" /\ scan.at \in ii .. Len(ptext) + 1 /\ Len(components) \in Nat
      /\ scan.n_backticks = Cardinality(Ticks(w)) /\ Sound(w)
      /\ scan.in_n1ql_escape = (Cardinality(Ticks(w)) % 2 = 1)
      /\ scan.in_json_escape = IsEscaped(w, Len(w) + 1)
      /\ w \in Seq(STRING) /\ Cardinality(Ticks(w)) \in Nat
      /\ Cardinality(Ticks(w)) % 2 = 1 \/ Cardinality(Ticks(w)) % 2 = 0
      /\ IsName(w) => ~scan.in_n1ql_escape /\ ~scan.in_json_escape
  BY <1>1, NameFacts, Zenon
<1>3. ppc = "STRING" /\ scan.at <= Len(ptext)
  BY DEF PathChar
<1>4. scan.at \in ii .. Len(ptext)
  BY <1>2, <1>3
<1>5. NeedsEscape(ch) <=>
        ~ IF IsEscaped(w, Len(w) + 1) THEN ch \in AllowedEscape \ {"u"} ELSE ch \notin {Quote, "tab"}
  <2>1. NeedsEscape(ch) <=> IF scan.in_json_escape THEN ch \notin AllowedEscape \ {"u"} ELSE ch \in {Quote, "tab"}
    <3> HIDE DEF ch
    <3> QED
      BY DEF NeedsEscape, PathEscape, Control
  <2> QED
    BY <1>2, <2>1, Zenon
<1>6. quoted <=> IF ch = "tick" THEN ~scan.in_n1ql_escape ELSE scan.in_n1ql_escape
  <2> HIDE DEF ch
  <2> QED
    BY <1>2 DEF Scanned, Tick, Scan
<1>7. Follows(ptext, scan.at - 1) => ch \in {".", "["}
  <2>1. scan.at - 1 # Len(ptext) /\ scan.at - 1 + 1 = scan.at
    BY <1>2, <1>4
  <2> QED
    BY <2>1 DEF Follows
<1> HIDE DEF ch
<1>8. CASE NeedsEscape(ch) /\ Refused("JPR_BADPATH")
  <2>1. Stops(ptext, scan.at, w)
    BY <1>5, <1>8 DEF Stops, ch
  <2>2. ~(IsName(w) /\ scan.at > ii /\ Follows(ptext, scan.at - 1))
    <3> SUFFICES ASSUME IsName(w), Follows(ptext, scan.at - 1) PROVE FALSE
      OBVIOUS
    <3>1. ch \in {Quote, "tab"} /\ ch \in {".", "["}
      BY <1>2, <1>5, <1>7, <1>8
    <3> QED
      BY <3>1 DEF Quote
  <2> QED
    BY <1>1, <1>8, <2>1, <2>2, NameRefused
<1>9. CASE ~NeedsEscape(ch) /\ ends /\ ch = "]" /\ Refused("JPR_BADPATH")
  <2>1. ~(Cardinality(Ticks(w)) % 2 = 1)
    BY <1>2, <1>6, <1>9
  <2>2. Stops(ptext, scan.at, w)
    BY <1>9, <2>1 DEF Stops, ch
  <2>3. ~Follows(ptext, scan.at - 1)
    BY <1>7, <1>9
  <2> QED
    BY <1>1, <1>9, <2>2, <2>3, NameRefused
<1>10. CASE /\ ~NeedsEscape(ch) /\ ends /\ ch # "]"
            /\ AddStrComponent(scan.at - ii, scan.n_backticks, IF ch = "." THEN scan.at + 1 ELSE scan.at)
  <2>1. ch \in {".", "["} /\ ~scan.in_n1ql_escape
    BY <1>6, <1>10
  <2>2. ~(Cardinality(Ticks(w)) % 2 = 1)
    BY <1>2, <2>1
  <2>3. Stops(ptext, scan.at, w)
    BY <2>1, <2>2 DEF Stops, ch
  <2>4. ~scan.in_json_escape
    <3>1. scan.in_json_escape => ch \in AllowedEscape
      BY <1>2, <1>5, <1>10
    <3> QED
      BY <2>1, <3>1 DEF AllowedEscape, Quote, Bslash
  <2>5. PICK next \in 1 .. Len(ptext) + 1 : next = IF ch = "." THEN scan.at + 1 ELSE scan.at
    BY <1>2, <1>4
  <2>6. After(ptext, Rests(ptext), scan.at) = Rests(ptext)[next]
    <3>1. ~(scan.at > Len(ptext))
      BY <1>2, <1>4
    <3> QED
      BY <2>1, <2>5, <3>1 DEF After, ch
  <2>7. PICK len : len = scan.at - ii
    OBVIOUS
  <2>8. AddStrComponent(len, scan.n_backticks, next)
    BY <1>10, <2>5, <2>7
  <2> QED
    BY <1>1, <1>3, <2>1, <2>3, <2>4, <2>6, <2>7, <2>8, AddStrComponentRight
<1>11. CASE /\ ~NeedsEscape(ch) /\ ~ends /\ scan' = Scanned(ch)
            /\ UNCHANGED <<ptext, ii, components, has_negix, heapVars, ppc, perr>>
  <2>1. ReadSoFar'
    BY <1>11, ReadStands DEF Stands
  <2>2. PICK v : v = SubSeq(ptext, ii, scan.at)
    OBVIOUS
  <2>3. /\ scan'.at = scan.at + 1 /\ scan'.in_json_escape = (~scan.in_json_escape /\ ch = Bslash)
        /\ scan'.in_n1ql_escape = (IF ch = "tick" THEN ~scan.in_n1ql_escape ELSE scan.in_n1ql_escape)
        /\ scan'.n_backticks = (IF ch = "tick" THEN scan.n_backticks + 1 ELSE scan.n_backticks)
    BY <1>2, <1>11 DEF Scanned, Tick, Scan
  <2>4. /\ v \in Seq(STRING)
        /\ Cardinality(Ticks(v)) = Cardinality(Ticks(w)) + (IF ch = "tick" THEN 1 ELSE 0)
        /\ IsEscaped(v, Len(v) + 1) <=> ch = Bslash /\ ~IsEscaped(w, Len(w) + 1)
        /\ Sound(v) <=>
             /\ Sound(w)
             /\ IF IsEscaped(w, Len(w) + 1) THEN ch \in AllowedEscape \ {"u"}
                                            ELSE ch \notin {Quote, "tab"}
             /\ ch \in {".", "[", "]"} => Cardinality(Ticks(w)) % 2 = 1
    <3>1. PICK t \in Seq(STRING), i \in 1 .. Len(ptext), at \in ii .. Len(ptext) :
            t = ptext /\ i = ii /\ at = scan.at
      BY <1>2, <1>4
    <3>2. at \in i .. Len(t) /\ i \in 1 .. Len(t) /\ w = SubSeq(t, i, at - 1) /\ v = SubSeq(t, i, at) /\ ch = t[at]
      BY <1>1, <2>2, <3>1 DEF ch
    <3>3. /\ v \in Seq(STRING)
          /\ Cardinality(Ticks(v)) = Cardinality(Ticks(w)) + (IF t[at] = "tick" THEN 1 ELSE 0)
          /\ IsEscaped(v, Len(v) + 1) <=> t[at] = Bslash /\ ~IsEscaped(w, Len(w) + 1)
          /\ Sound(v) <=>
               /\ Sound(w)
               /\ IF IsEscaped(w, Len(w) + 1) THEN t[at] \in AllowedEscape \ {"u"}
                                              ELSE t[at] \notin {Quote, "tab"}
               /\ t[at] \in {".", "[", "]"} => Cardinality(Ticks(w)) % 2 = 1
      <4>1. WordGoes(t, at, w, v)
        BY <3>2, WordGrows, Zenon
      <4> QED
        BY <4>1, Zenon DEF WordGoes
    <3> QED
      BY <3>2, <3>3, Zenon
  <2>5. ch \in {".", "[", "]"} => Cardinality(Ticks(w)) % 2 = 1
    <3>1. ch \in {".", "[", "]"} => quoted /\ ch # "tick"
      BY <1>11
    <3> QED
      BY <1>2, <1>6, <3>1
  <2>6. Sound(v)
    BY <1>2, <1>5, <1>11, <2>4, <2>5, Zenon
  <2>7. scan'.n_backticks = Cardinality(Ticks(v))
    BY <1>2, <2>3, <2>4
  <2>8. scan'.in_n1ql_escape = (Cardinality(Ticks(v)) % 2 = 1)
    <3>1. PICK c \in Nat : c = Cardinality(Ticks(w))
      BY <1>2
    <3>2. (c + 1) % 2 = 1 <=> ~(c % 2 = 1)
      OBVIOUS
    <3>3. Cardinality(Ticks(v)) = IF ch = "tick" THEN c + 1 ELSE c
      BY <2>4, <3>1
    <3>4. (Cardinality(Ticks(v)) % 2 = 1) = (IF ch = "tick" THEN ~(c % 2 = 1) ELSE c % 2 = 1)
      BY <3>2, <3>3
    <3> QED
      BY <1>2, <2>3, <3>1, <3>4
  <2>9. scan'.in_json_escape = IsEscaped(v, Len(v) + 1)
    <3>1. (~scan.in_json_escape /\ ch = Bslash) <=> IsEscaped(v, Len(v) + 1)
      BY <1>2, <2>4, Zenon
    <3>2. IsEscaped(v, Len(v) + 1) \in BOOLEAN
      BY Zenon DEF IsEscaped
    <3>3. (~scan.in_json_escape /\ ch = Bslash) = IsEscaped(v, Len(v) + 1)
      BY <3>1, <3>2, Zenon
    <3> QED
      BY <2>3, <3>3, Zenon
  <2>10. /\ ii' = ii /\ ptext' = ptext /\ v = SubSeq(ptext', ii', scan'.at - 1)
         /\ ii' <= Len(ptext') /\ ptext'[ii'] # "[" /\ scan'.at \in ii' .. Len(ptext') + 1
    <3>1. ii' = ii /\ ptext' = ptext
      BY <1>11
    <3>2. scan'.at - 1 = scan.at
      BY <1>2, <1>4, <2>3
    <3>3. v = SubSeq(ptext', ii', scan'.at - 1)
      BY <2>2, <3>1, <3>2, Zenon
    <3>4. scan.at + 1 \in ii .. Len(ptext) + 1 /\ ii <= Len(ptext)
      BY <1>2, <1>4
    <3> QED
      BY <1>2, <2>3, <3>1, <3>3, <3>4, Zenon
  <2>11. NameSoFar'
    BY <2>6, <2>7, <2>8, <2>9, <2>10, Zenon DEF NameSoFar
  <2> QED
    BY <1>3, <1>11, <2>1, <2>11 DEF GrammarInv
<1> QED
  BY <1>8, <1>9, <1>10, <1>11 DEF PathChar, ch

LEMMA PathStringEndRight ==
  ASSUME PathInv, ReadSoFar, NameSoFar, PathStringEnd, \A k \in 1 .. Len(components) : Stands(k)
  PROVE  GrammarInv'
<1>1. PICK w : w = SubSeq(ptext, ii, scan.at - 1)
  OBVIOUS
<1>2. /\ ptext \in Seq(STRING) /\ Len(ptext) \in Nat /\ ii \in 1 .. Len(ptext)
      /\ scan.at \in ii .. Len(ptext) + 1
      /\ IsName(w) => ~scan.in_n1ql_escape /\ ~scan.in_json_escape
  BY <1>1, NameFacts, Zenon
<1>3. ppc = "STRING" /\ scan.at = Len(ptext) + 1 /\ scan.at > Len(ptext)
  BY <1>2 DEF PathStringEnd
<1>4. Stops(ptext, scan.at, w)
  BY <1>2, <1>3 DEF Stops
<1>5. CASE (scan.in_n1ql_escape \/ scan.in_json_escape) /\ Refused("JPR_BADPATH")
  <2>1. ~IsName(w)
    BY <1>2, <1>5
  <2> QED
    BY <1>1, <1>4, <1>5, <2>1, NameRefused
<1>6. CASE /\ ~scan.in_n1ql_escape /\ ~scan.in_json_escape
           /\ AddStrComponent(Len(ptext) + 1 - ii, scan.n_backticks, Len(ptext) + 1)
  <2>1. PICK next \in 1 .. Len(ptext) + 1 : next = Len(ptext) + 1
    BY <1>2
  <2>2. After(ptext, Rests(ptext), scan.at) = Rests(ptext)[next]
    BY <1>2, <1>3, <2>1, RestAtEnd DEF After
  <2>3. PICK len : len = scan.at - ii
    OBVIOUS
  <2>4. AddStrComponent(len, scan.n_backticks, next)
    <3>1. Len(ptext) + 1 - ii = len
      <4>1. PICK n \in Nat, at \in Nat, i \in Nat : n = Len(ptext) /\ at = scan.at /\ i = ii
        BY <1>2
      <4>2. at = n + 1
        BY <1>3, <4>1
      <4>3. n + 1 - i = at - i
        BY <4>2
      <4> QED
        BY <2>3, <4>1, <4>3
    <3> QED
      BY <1>6, <2>1, <3>1, Zenon
  <2> QED
    BY <1>1, <1>3, <1>4, <1>6, <2>2, <2>3, <2>4, AddStrComponentRight
<1> QED
  BY <1>5, <1>6 DEF PathStringEnd

-----------------------------------------------------------------------------
(* parse_bracket() and add_num_component(), step by step. *)

(* Where parse() goes on behind a bracket is where the rest begins. *)
LEMMA BracketGoesOn ==
  ASSUME NEW close \in 1 .. Len(ptext), ptext \in Seq(STRING), NEW next, next = AfterBracket(close)
  PROVE  \/ next = 0 /\ After(ptext, Rests(ptext), close + 1) = {}
         \/ /\ next # 0 /\ next \in 1 .. Len(ptext) + 1
            /\ After(ptext, Rests(ptext), close + 1) = Rests(ptext)[next]
<1>1. PICK t \in Seq(STRING), j \in Nat, n \in Nat :
        t = ptext /\ j = close /\ n = Len(t) /\ j \in 1 .. Len(t)
  BY LenProperties
<1>2. next = IF j = n \/ t[j + 1] = "[" THEN j + 1 ELSE IF t[j + 1] = "." THEN j + 2 ELSE 0
  BY <1>1 DEF AfterBracket
<1>3. \/ j = n /\ After(t, Rests(t), j + 1) = Rests(t)[j + 1]
      \/ j < n /\ t[j + 1] = "." /\ After(t, Rests(t), j + 1) = Rests(t)[j + 2]
      \/ j < n /\ t[j + 1] = "[" /\ After(t, Rests(t), j + 1) = Rests(t)[j + 1]
      \/ j < n /\ t[j + 1] \notin {".", "["} /\ After(t, Rests(t), j + 1) = {}
  BY <1>1, RestsAfter
<1>4. j \in 1 .. n
  BY <1>1
<1>5. \/ next = 0 /\ After(t, Rests(t), j + 1) = {}
      \/ next # 0 /\ next \in 1 .. n + 1 /\ After(t, Rests(t), j + 1) = Rests(t)[next]
  BY <1>2, <1>3, <1>4
<1> QED
  BY <1>1, <1>5, Zenon

(* No item begins with what has been read: the text is refused. *)
LEMMA IndexRefused ==
  ASSUME PathInv, ReadSoFar, Rests(ptext)[ii] = {}, NEW code, code # "SUCCESS",
         UNCHANGED ptext, Return(code)
  PROVE  GrammarInv'
<1>1. ptext' = ptext /\ ppc' = "DONE" /\ perr' = code
  BY DEF Return
<1> QED
  BY <1>1, NothingFits, RefusedRight

(* add_array_index(), of the value between the brackets. *)
LEMMA AddArrayIndexRight ==
  ASSUME PathInv, ppc # "IDLE", ReadSoFar, NEW ixnum \in Int, ii \in 1 .. Len(ptext),
         NEW close \in ii + 1 .. Len(ptext), IsIndex(SubSeq(ptext, ii, close)),
         NEW value, value = IntOf(SubSeq(ptext, ii + 1, close - 1)),
         value < Modulus - 1 => ixnum = value,
         NEW next, next = AfterBracket(close), AddArrayIndex(ixnum, next),
         \A k \in 1 .. Len(components) : Stands(k)
  PROVE  GrammarInv'
<1>1. ptext \in Seq(STRING) /\ Len(ptext) \in Nat /\ Len(components) \in Nat
  BY PathFacts
<1>2. close \in 1 .. Len(ptext)
  BY <1>1
<1>3. Rests(ptext)[ii] = Beginning(Index(value), After(ptext, Rests(ptext), close + 1))
  <2>1. PICK t \in Seq(STRING), i \in Nat, j \in Nat :
          t = ptext /\ i = ii /\ j = close /\ i \in 1 .. Len(t) /\ j \in i + 1 .. Len(t)
    BY <1>1
  <2>2. Rests(t)[i] = Beginning(Index(IntOf(SubSeq(t, i + 1, j - 1))), After(t, Rests(t), j + 1))
    BY <2>1, IndexRests
  <2> QED
    BY <2>1, <2>2, Zenon
<1>4. \/ next = 0 /\ After(ptext, Rests(ptext), close + 1) = {}
      \/ /\ next # 0 /\ next \in 1 .. Len(ptext) + 1
         /\ After(ptext, Rests(ptext), close + 1) = Rests(ptext)[next]
  BY <1>1, <1>2, BracketGoesOn
<1>5. CASE ~Room /\ Refused("LEVELS_EXCEEDED")
  BY <1>1, <1>5, LevelsRight
<1>6. CASE next = 0 /\ Return("JPR_BADPATH") /\ UNCHANGED ptext
  <2>1. Rests(ptext)[ii] = {}
    BY <1>3, <1>4, <1>6 DEF Beginning
  <2> QED
    BY <1>6, <2>1, IndexRefused
<1>7. CASE /\ next # 0 /\ components' = Append(components, NumericHere(ixnum))
           /\ ii' = next /\ ppc' = "NEXT" /\ UNCHANGED <<ptext, heapVars>>
  <2>1. NumericHere(ixnum) \in ParsedInfo
    BY NewComponents, IntMaxAssumption
  <2>2. ParsedPath'[Len(components) + 1] = Index(ixnum)
    <3>1. PICK comp \in ParsedInfo : comp = NumericHere(ixnum)
      BY <2>1
    <3>2. /\ comp.key = NullKey /\ comp.ptype = "NUMERIC" /\ comp.idx = ixnum
          /\ comp.is_neg = (ixnum = -1)
      BY <3>1, Zenon DEF NumericHere
    <3>3. ParsedPath'[Len(components) + 1] =
            [ptype |-> comp.ptype, pstr |-> KeyIn(comp.key, ptext', strings'), idx |-> comp.idx,
             is_neg |-> comp.is_neg]
      BY <1>7, <3>1, NewParsed
    <3>4. KeyIn(NullKey, ptext', strings') = <<>>
      <4>1. NullKey.owner = 0 /\ NullKey.at = 1 /\ NullKey.len = 0 /\ ptext' = ptext
        BY <1>7 DEF NullKey
      <4>2. KeyIn(NullKey, ptext', strings') = SubSeq(ptext, 1, 0)
        BY <4>1 DEF KeyIn
      <4>3. SubSeq(ptext, 1, 0) \in Seq(STRING) /\ Len(SubSeq(ptext, 1, 0)) = 0
        BY <1>1, SliceTo
      <4> QED
        BY <4>2, <4>3, EmptySeq
    <3> QED
      BY <3>2, <3>3, <3>4, Zenon DEF Index
  <2>3. \A k \in 1 .. Len(components) : ParsedPath'[k] = ParsedPath[k]
    BY DEF Stands
  <2>4. PICK item : item = Index(value)
    OBVIOUS
  <2>5. item.idx < Modulus - 1 => SaysItem(ParsedPath'[Len(components) + 1], item)
    <3>1. item.idx = value
      BY <2>4 DEF Index
    <3> QED
      BY <2>2, <2>4, <3>1, Zenon DEF SaysItem
  <2>6. ii' \in 1 .. Len(ptext) + 1 /\ Rests(ptext)[ii] = Beginning(item, Rests(ptext)[ii'])
    BY <1>3, <1>4, <1>7, <2>4
  <2> QED
    BY <1>7, <2>1, <2>3, <2>5, <2>6, AddedRight
<1> QED
  BY <1>5, <1>6, <1>7 DEF AddArrayIndex

LEMMA BracketFacts ==
  ASSUME PathInv, ReadSoFar
  PROVE  /\ ptext \in Seq(STRING) /\ Len(ptext) \in Nat /\ ii \in 1 .. Len(ptext) + 1
         /\ Len(components) \in Nat /\ scan \in Scan /\ scan.numval \in 0 .. Modulus - 1
<1>1. ii \in 1 .. Len(ptext) + 1
  BY DEF ReadSoFar
<1>2. scan \in Scan
  BY PathFacts
<1> QED
  BY <1>1, <1>2, PathFacts DEF Scan

(* An index that begins here closes. *)
LEMMA IndexHere ==
  ASSUME NEW t \in Seq(STRING), NEW i \in 1 .. Len(t), t[i] = "[", Rests(t)[i] # {}
  PROVE  \E j \in i + 1 .. Len(t) :
           /\ t[j] = "]"
           /\ \/ j = i + 3 /\ t[i + 1] = "-" /\ t[i + 2] = "1"
              \/ \A k \in i + 1 .. j - 1 : t[k] \in Digit
<1>1. PICK r \in Rests(t)[i] : TRUE
  OBVIOUS
<1>2. PICK j \in i + 1 .. Len(t) : IsIndex(SubSeq(t, i, j))
  BY <1>1, IndexStops
<1>3. j \in i .. Len(t)
  BY <1>2, LenProperties
<1> QED
  BY <1>2, <1>3, IndexIs

LEMMA BeginBracketRight ==
  ASSUME PathInv, ReadSoFar, BeginBracket, \A k \in 1 .. Len(components) : Stands(k)
  PROVE  GrammarInv'
<1>1. /\ ptext \in Seq(STRING) /\ Len(ptext) \in Nat /\ ii \in 1 .. Len(ptext) /\ ptext[ii] = "["
  BY BracketFacts DEF BeginBracket
<1>2. CASE ~Closes /\ Refused("JPR_BADPATH")
  <2>1. Rests(ptext)[ii] = {}
    BY <1>1, <1>2, IndexHere DEF Closes
  <2> QED
    BY <1>2, <2>1, IndexRefused DEF Refused
<1>3. CASE /\ Closes /\ scan' = [BlankScan EXCEPT !.at = ii + 1] /\ ppc' = "NUMBER"
           /\ UNCHANGED <<ptext, ii, components, has_negix, heapVars, perr>>
  <2>1. ReadSoFar'
    BY <1>3, ReadStands DEF Stands
  <2>2. scan'.at = ii + 1 /\ scan'.numval = 0
    BY <1>3 DEF BlankScan
  <2>3. PICK c \in ii + 1 .. Len(ptext) : ptext[c] = "]"
    BY <1>3 DEF Closes
  <2>4. ii < Len(ptext) /\ ii + 1 \in ii + 1 .. Len(ptext)
    BY <1>1, <2>3
  <2>5. Closes'
    BY <1>3, <2>3 DEF Closes
  <2>6. ASSUME NEW close \in ii + 1 .. Len(ptext), \A k \in ii + 1 .. close - 1 : ptext[k] \in Digit
        PROVE  Counted(SubSeq(ptext, ii + 1, close - 1))[0] = 0
    <3>1. PICK w : w = SubSeq(ptext, ii + 1, close - 1)
      OBVIOUS
    <3>2. w \in Seq(STRING) /\ Len(w) = close - ii - 1 /\ \A k \in 1 .. close - ii - 1 : w[k] = ptext[ii + k]
      <4>1. PICK a \in Nat, b \in Nat : a = ii + 1 /\ b = close - 1
        BY <1>1
      <4>2. 1 <= a /\ a <= b + 1 /\ b <= Len(ptext) /\ b - a + 1 = close - ii - 1
        BY <1>1, <4>1
      <4>3. w = SubSeq(ptext, a, b)
        BY <3>1, <4>1
      <4>4. w \in Seq(STRING) /\ Len(w) = b - a + 1 /\ \A k \in 1 .. b - a + 1 : w[k] = ptext[a + k - 1]
        BY <1>1, <4>2, <4>3, SliceTo
      <4>5. \A k \in 1 .. close - ii - 1 : a + k - 1 = ii + k
        BY <1>1, <4>1
      <4> QED
        BY <4>2, <4>4, <4>5
    <3>3. \A k \in 1 .. Len(w) : w[k] \in Digit
      <4>1. \A k \in 1 .. close - ii - 1 : ii + k \in ii + 1 .. close - 1
        BY <1>1
      <4> QED
        BY <2>6, <3>2, <4>1
    <3>4. Counted(w)[0] = 0
      BY <1>1, <3>2, <3>3, CountedFacts
    <3> QED
      BY <3>1, <3>4
  <2>7. /\ ptext' = ptext /\ ii' = ii /\ scan'.numval = 0 /\ scan'.at = ii + 1
        /\ \A k \in ii + 1 .. ii + 1 - 1 : ptext[k] \in Digit
    BY <1>1, <1>3, <2>2
  <2>8. scan'.at \in ii' + 1 .. Len(ptext') /\ ii' < Len(ptext') /\ ptext'[ii'] = "["
    BY <1>1, <2>4, <2>7
  <2>9. \A k \in ii' + 1 .. scan'.at - 1 : ptext'[k] \in Digit
    BY <1>1, <2>7
  <2>10. ASSUME NEW close \in scan'.at .. Len(ptext'), \A k \in ii' + 1 .. close - 1 : ptext'[k] \in Digit
         PROVE  Counted(SubSeq(ptext', ii' + 1, close - 1))[scan'.at - ii' - 1] = scan'.numval
    <3>1. close \in ii + 1 .. Len(ptext) /\ \A k \in ii + 1 .. close - 1 : ptext[k] \in Digit
      BY <2>7, <2>10
    <3>2. Counted(SubSeq(ptext, ii + 1, close - 1))[0] = 0
      BY <2>6, <3>1
    <3>3. scan'.at - ii' - 1 = 0 /\ scan'.numval = 0
      BY <1>1, <2>7
    <3>4. SubSeq(ptext', ii' + 1, close - 1) = SubSeq(ptext, ii + 1, close - 1)
      BY <2>7, Zenon
    <3> QED
      BY <3>2, <3>3, <3>4, Zenon
  <2>11. IndexSoFar'
    BY <2>5, <2>8, <2>9, <2>10, Zenon DEF IndexSoFar
  <2> QED
    BY <1>3, <2>1, <2>11 DEF GrammarInv
<1> QED
  BY <1>2, <1>3 DEF BeginBracket

LEMMA NegativeIndexRight ==
  ASSUME PathInv, ReadSoFar, IndexSoFar, NegativeIndex, \A k \in 1 .. Len(components) : Stands(k)
  PROVE  GrammarInv'
<1>1. /\ ptext \in Seq(STRING) /\ Len(ptext) \in Nat /\ ii \in 1 .. Len(ptext) /\ ptext[ii] = "["
      /\ ppc = "NUMBER" /\ ptext[ii + 1] = "-" /\ ii < Len(ptext)
  BY BracketFacts DEF NegativeIndex, IndexSoFar, HasMinus
<1>2. "-" \notin Digit /\ "-" # "]" /\ "1" # "]"
  BY DEF Digit
<1>3. CASE ~MinusOne /\ Refused("INVALID_NUMBER")
  <2>1. Rests(ptext)[ii] = {}
    <3> SUFFICES ASSUME Rests(ptext)[ii] # {} PROVE FALSE
      OBVIOUS
    <3>1. PICK j \in ii + 1 .. Len(ptext) :
            /\ ptext[j] = "]"
            /\ \/ j = ii + 3 /\ ptext[ii + 1] = "-" /\ ptext[ii + 2] = "1"
               \/ \A k \in ii + 1 .. j - 1 : ptext[k] \in Digit
      BY <1>1, IndexHere
    <3>2. CASE j = ii + 3 /\ ptext[ii + 2] = "1"
      BY <1>3, <3>1, <3>2 DEF MinusOne
    <3>3. CASE \A k \in ii + 1 .. j - 1 : ptext[k] \in Digit
      <4>1. j # ii + 1
        BY <1>1, <1>2, <3>1
      <4>2. ii + 1 \in ii + 1 .. j - 1
        BY <1>1, <3>1, <4>1
      <4> QED
        BY <1>1, <1>2, <3>3, <4>2
    <3> QED
      BY <3>1, <3>2, <3>3
  <2> QED
    BY <1>3, <2>1, IndexRefused DEF Refused
<1>4. CASE MinusOne /\ AddArrayIndex(-1, AfterBracket(ii + 3))
  <2>1. ptext[ii + 2] = "1" /\ ptext[ii + 3] = "]"
    BY <1>4 DEF MinusOne
  <2>2. ii + 3 \in ii + 1 .. Len(ptext)
    <3>1. PICK c \in ii + 1 .. Len(ptext) : ptext[c] = "]"
      BY DEF IndexSoFar, Closes
    <3>2. c # ii + 1 /\ c # ii + 2
      BY <1>1, <1>2, <2>1, <3>1
    <3> QED
      BY <1>1, <3>1, <3>2
  <2>3. PICK close \in ii + 1 .. Len(ptext) : close = ii + 3
    BY <2>2
  <2>4. IsIndex(SubSeq(ptext, ii, close))
    <3>1. close \in ii .. Len(ptext) /\ close > ii
      BY <1>1, <2>3
    <3> QED
      BY <1>1, <2>1, <2>3, <3>1, IndexIs
  <2>5. SubSeq(ptext, ii + 1, close - 1) = <<"-", "1">>
    <3>1. PICK a \in Nat, b \in Nat : a = ii + 1 /\ b = close - 1
      BY <1>1, <2>3
    <3>2. 1 <= a /\ a <= b + 1 /\ b <= Len(ptext) /\ b - a + 1 = 2 /\ a + 1 - 1 = ii + 1 /\ a + 2 - 1 = ii + 2
      BY <1>1, <2>3, <3>1
    <3>3. /\ SubSeq(ptext, a, b) \in Seq(STRING) /\ Len(SubSeq(ptext, a, b)) = 2
          /\ \A k \in 1 .. 2 : SubSeq(ptext, a, b)[k] = ptext[a + k - 1]
      BY <1>1, <3>2, SliceTo
    <3>4. SubSeq(ptext, a, b)[1] = "-" /\ SubSeq(ptext, a, b)[2] = "1"
      BY <1>1, <2>1, <3>2, <3>3
    <3>5. SubSeq(ptext, a, b) = <<"-", "1">>
      <4>1. PICK s \in Seq(STRING) : s = SubSeq(ptext, a, b)
        BY <3>3
      <4>2. PICK x \in STRING, y \in STRING : x = s[1] /\ y = s[2]
        <5>1. 1 \in 1 .. Len(s) /\ 2 \in 1 .. Len(s)
          BY <3>3, <4>1
        <5> QED
          BY <5>1, ElementOfSeq
      <4>3. PICK u \in Seq(STRING) : u = <<x, y>>
        <5>1. <<x, y>> \in Seq(STRING)
          BY <4>2
        <5> QED
          BY <5>1
      <4>4. Len(u) = 2 /\ u[1] = x /\ u[2] = y /\ Len(s) = 2
        BY <3>3, <4>1, <4>3
      <4>5. s = u
        BY <4>2, <4>4, SameText
      <4>6. x = "-" /\ y = "1"
        BY <3>4, <4>1, <4>2
      <4> QED
        BY <4>1, <4>3, <4>5, <4>6
    <3> QED
      BY <3>1, <3>5
  <2>6. PICK value : value = IntOf(SubSeq(ptext, ii + 1, close - 1))
    OBVIOUS
  <2>7. value = -1
    BY <2>5, <2>6, MinusOneIs
  <2>8. PICK ixnum \in Int : ixnum = -1
    OBVIOUS
  <2>9. PICK next : next = AfterBracket(close)
    OBVIOUS
  <2>10. AddArrayIndex(ixnum, next)
    BY <1>4, <2>3, <2>8, <2>9
  <2>11. value < Modulus - 1 => ixnum = value
    BY <2>7, <2>8
  <2> QED
    BY <1>1, <2>4, <2>6, <2>9, <2>10, <2>11, AddArrayIndexRight
<1> QED
  BY <1>3, <1>4 DEF NegativeIndex

-----------------------------------------------------------------------------
(* What is between the brackets. *)
Number(t, i, j) ==
  LET w == SubSeq(t, i + 1, j - 1)
  IN  /\ w \in Seq(STRING) /\ Len(w) = j - i - 1
      /\ \A k \in 1 .. Len(w) : w[k] = t[i + k] /\ w[k] \in Digit

LEMMA NumberIs ==
  ASSUME NEW t \in Seq(STRING), NEW i \in 1 .. Len(t), NEW j \in i + 1 .. Len(t),
         \A k \in i + 1 .. j - 1 : t[k] \in Digit
  PROVE  Number(t, i, j)
<1>1. Len(t) \in Nat /\ i \in Nat /\ j \in Nat
  BY LenProperties
<1>2. PICK a \in Nat, b \in Nat : a = i + 1 /\ b = j - 1
  BY <1>1
<1>3. 1 <= a /\ a <= b + 1 /\ b <= Len(t) /\ b - a + 1 = j - i - 1
  BY <1>1, <1>2
<1>4. PICK w : w = SubSeq(t, a, b)
  OBVIOUS
<1>5. w \in Seq(STRING) /\ Len(w) = b - a + 1 /\ \A k \in 1 .. b - a + 1 : w[k] = t[a + k - 1]
  BY <1>3, <1>4, SliceTo
<1>6. \A k \in 1 .. Len(w) : a + k - 1 = i + k /\ i + k \in i + 1 .. j - 1
  BY <1>1, <1>2, <1>3, <1>5
<1>7. \A k \in 1 .. Len(w) : w[k] = t[i + k] /\ w[k] \in Digit
  BY <1>5, <1>6
<1>8. w = SubSeq(t, i + 1, j - 1) /\ Len(w) = j - i - 1
  BY <1>2, <1>3, <1>4, <1>5
<1> QED
  BY <1>5, <1>7, <1>8, Zenon DEF Number

(* One digit more: the value so far is not more than the whole. *)
LEMMA OneDigitMore ==
  ASSUME NEW t \in Seq(STRING), NEW i \in 1 .. Len(t), NEW j \in i + 1 .. Len(t), Number(t, i, j),
         NEW w, w = SubSeq(t, i + 1, j - 1), NEW at \in i + 1 .. j - 1
  PROVE  /\ Counted(w)[at - i - 1] \in Nat /\ DigitOf(t[at]) \in 0 .. 9
         /\ Counted(w)[at - i] = 10 * Counted(w)[at - i - 1] + DigitOf(t[at])
         /\ Counted(w)[at - i] <= IntOf(w) /\ Counted(w)[at - i] \in Nat
<1>1. Len(t) \in Nat /\ i \in Nat /\ j \in Nat /\ at \in Nat
  BY LenProperties
<1>2. w \in Seq(STRING) /\ Len(w) = j - i - 1 /\ \A k \in 1 .. Len(w) : w[k] = t[i + k] /\ w[k] \in Digit
  BY Zenon DEF Number
<1>3. PICK k \in 1 .. Len(w) : k = at - i
  BY <1>1, <1>2
<1>4. k - 1 = at - i - 1 /\ i + k = at /\ k - 1 \in 0 .. Len(w) /\ k \in 0 .. Len(w)
  <2>1. Len(w) \in Nat
    BY <1>2, LenProperties
  <2>2. k \in Nat
    BY <1>1, <1>3, <2>1
  <2> QED
    BY <1>1, <1>3, <2>1, <2>2
<1>5. w[k] = t[at] /\ t[at] \in Digit
  BY <1>2, <1>4
<1>6. \A m \in 1 .. Len(w) : w[m] \in Digit
  BY <1>2
<1>7. /\ \A m \in 1 .. Len(w) : Counted(w)[m] = 10 * Counted(w)[m - 1] + DigitOf(w[m])
      /\ \A m \in 0 .. Len(w) : Counted(w)[m] \in Nat
  BY <1>2, <1>6, CountedFacts
<1>8. Counted(w)[k] <= IntOf(w)
  BY <1>2, <1>4, <1>6, CountedGrows
<1>9. DigitOf(t[at]) \in 0 .. 9
  BY <1>5, DigitsAreSmall
<1> QED
  BY <1>3, <1>4, <1>5, <1>7, <1>8, <1>9

LEMMA IndexSoFarIs ==
  ASSUME PathInv, ReadSoFar, IndexSoFar, ~HasMinus
  PROVE  /\ ptext \in Seq(STRING) /\ Len(ptext) \in Nat /\ ii \in 1 .. Len(ptext) /\ ptext[ii] = "["
         /\ ii < Len(ptext) /\ scan.at \in ii + 1 .. Len(ptext) /\ scan.numval \in 0 .. Modulus - 1
         /\ ptext[ii + 1] # "-" /\ scan \in Scan
         /\ \A k \in ii + 1 .. scan.at - 1 : ptext[k] \in Digit
         /\ \A close \in scan.at .. Len(ptext) :
              ptext[close] = "]" /\ (\A k \in ii + 1 .. close - 1 : ptext[k] \in Digit)
                  /\ Counted(SubSeq(ptext, ii + 1, close - 1))[scan.at - ii - 1] < Modulus =>
                  scan.numval = Counted(SubSeq(ptext, ii + 1, close - 1))[scan.at - ii - 1]
<1>1. /\ ii < Len(ptext) /\ ptext[ii] = "[" /\ scan.at \in ii + 1 .. Len(ptext) /\ ptext[ii + 1] # "-"
      /\ \A k \in ii + 1 .. scan.at - 1 : ptext[k] \in Digit
      /\ \A close \in scan.at .. Len(ptext) :
              ptext[close] = "]" /\ (\A k \in ii + 1 .. close - 1 : ptext[k] \in Digit)
                  /\ Counted(SubSeq(ptext, ii + 1, close - 1))[scan.at - ii - 1] < Modulus =>
                  scan.numval = Counted(SubSeq(ptext, ii + 1, close - 1))[scan.at - ii - 1]
  BY Zenon DEF IndexSoFar, HasMinus
<1>2. /\ ptext \in Seq(STRING) /\ Len(ptext) \in Nat /\ ii \in 1 .. Len(ptext) + 1
      /\ scan.numval \in 0 .. Modulus - 1 /\ scan \in Scan
  BY BracketFacts
<1>3. ii \in 1 .. Len(ptext)
  BY <1>1, <1>2
<1> QED
  BY <1>1, <1>2, <1>3

(* The digits go on to the bracket that closes. *)
LEMMA DigitsGoOn ==
  ASSUME NEW t \in Seq(STRING), NEW i \in 1 .. Len(t), NEW at \in i + 1 .. Len(t), NEW j \in i + 1 .. Len(t),
         t[i + 1] # "-", \A k \in i + 1 .. at - 1 : t[k] \in Digit,
         t[j] = "]",
         \/ j = i + 3 /\ t[i + 1] = "-" /\ t[i + 2] = "1"
         \/ \A k \in i + 1 .. j - 1 : t[k] \in Digit
  PROVE  at <= j /\ (\A k \in i + 1 .. j - 1 : t[k] \in Digit) /\ (at < j => t[at] \in Digit)
<1>1. Len(t) \in Nat /\ i \in Nat /\ j \in Nat /\ at \in Nat
  BY LenProperties
<1>2. "]" \notin Digit
  BY DEF Digit
<1>3. \A k \in i + 1 .. j - 1 : t[k] \in Digit
  OBVIOUS
<1>4. ~(j \in i + 1 .. at - 1)
  BY <1>2
<1>5. at <= j
  BY <1>1, <1>4
<1>6. at < j => at \in i + 1 .. j - 1
  BY <1>1
<1> QED
  BY <1>3, <1>5, <1>6

(* What a reading says of an index fits. *)
LEMMA ReadIndex ==
  ASSUME PathInv, ReadSoFar, IndexSoFar, ~HasMinus, NEW reading \in Readings(ptext), Fits(reading)
  PROVE  \E j \in scan.at .. Len(ptext) :
           /\ ptext[j] = "]" /\ \A k \in ii + 1 .. j - 1 : ptext[k] \in Digit
           /\ scan.at < j => ptext[scan.at] \in Digit
           /\ IntOf(SubSeq(ptext, ii + 1, j - 1)) < Modulus - 1
<1>1. /\ ptext \in Seq(STRING) /\ Len(ptext) \in Nat /\ ii \in 1 .. Len(ptext) /\ ptext[ii] = "["
      /\ scan.at \in ii + 1 .. Len(ptext) /\ ptext[ii + 1] # "-"
      /\ \A k \in ii + 1 .. scan.at - 1 : ptext[k] \in Digit
  BY IndexSoFarIs, Zenon
<1>2. Len(components) \in Nat
  BY PathFacts
<1>3. PICK n \in Nat, t \in Seq(STRING), i \in Nat, at \in Nat :
        n = Len(components) /\ t = ptext /\ i = ii /\ at = scan.at
  <2>1. ii \in Nat /\ scan.at \in Nat
    BY <1>1
  <2> QED
    BY <1>1, <1>2, <2>1
<1>4. i \in 1 .. Len(t) /\ at \in i + 1 .. Len(t) /\ t[i] = "[" /\ Len(t) \in Nat
  BY <1>1, <1>3
<1>5. PICK rest \in Rests(t)[i] : Len(reading) = n + Len(rest) /\ \A k \in 1 .. Len(rest) : reading[n + k] = rest[k]
  BY <1>3 DEF ReadSoFar, SoFar, SoFarIn
<1>6. PICK j \in i + 1 .. Len(t) :
        /\ IsIndex(SubSeq(t, i, j))
        /\ rest \in Beginning(Index(IntOf(SubSeq(t, i + 1, j - 1))), After(t, Rests(t), j + 1))
  BY <1>4, <1>5, IndexStops
<1>7. j \in i .. Len(t) /\ j \in 1 .. Len(t)
  BY <1>4
<1>8. t[j] = "]" /\ \/ j = i + 3 /\ t[i + 1] = "-" /\ t[i + 2] = "1"
                    \/ \A k \in i + 1 .. j - 1 : t[k] \in Digit
  BY <1>4, <1>6, <1>7, IndexIs
<1>9. at <= j /\ (\A k \in i + 1 .. j - 1 : t[k] \in Digit) /\ (at < j => t[at] \in Digit)
  <2>1. t[i + 1] # "-" /\ \A k \in i + 1 .. at - 1 : t[k] \in Digit
    BY <1>1, <1>3
  <2> QED
    BY <1>4, <1>6, <1>8, <2>1, DigitsGoOn
<1>10. PICK value : value = IntOf(SubSeq(t, i + 1, j - 1))
  OBVIOUS
<1>11. value < Modulus - 1
  <2>1. PICK more \in After(t, Rests(t), j + 1) : rest = <<Index(value)>> \o more
    BY <1>6, <1>10 DEF Beginning
  <2>2. more \in Seq(Said)
    <3>1. j + 1 \in 1 .. Len(t) + 1 /\ (j < Len(t) => j + 2 \in 1 .. Len(t) + 1)
      BY <1>4, <1>7
    <3>2. more \in Rests(t)[j + 1] \/ (j < Len(t) /\ more \in Rests(t)[j + 2])
      BY <1>7, <2>1, RestsAfter
    <3> QED
      BY <3>1, <3>2, RestsAreSaid
  <2>3. Len(rest) = 1 + Len(more) /\ Len(more) \in Nat /\ rest[1] = Index(value)
    BY <2>1, <2>2, BeginningIs
  <2>4. reading[n + 1] = Index(value) /\ n + 1 \in 1 .. Len(reading)
    BY <1>5, <2>3
  <2>5. reading[n + 1].idx < Modulus - 1
    BY <2>4 DEF Fits
  <2> QED
    BY <2>4, <2>5 DEF Index
<1>12. j \in at .. Len(t)
  BY <1>4, <1>9
<1> QED
  BY <1>3, <1>8, <1>9, <1>10, <1>11, <1>12

(* A digit more: an overflow is seen, whatever is still to come, because the *)
(* value of the index is not less than that of its first digits.             *)
LEMMA IndexDigitRight ==
  ASSUME PathInv, ReadSoFar, IndexSoFar, IndexDigit, \A k \in 1 .. Len(components) : Stands(k)
  PROVE  GrammarInv'
<1>1. ~HasMinus /\ ppc = "NUMBER" /\ ptext[scan.at] # "]"
  BY DEF IndexDigit
<1>2. /\ ptext \in Seq(STRING) /\ Len(ptext) \in Nat /\ ii \in 1 .. Len(ptext) /\ ptext[ii] = "["
      /\ ii < Len(ptext) /\ scan.at \in ii + 1 .. Len(ptext) /\ scan.numval \in 0 .. Modulus - 1
      /\ ptext[ii + 1] # "-" /\ scan \in Scan
      /\ \A k \in ii + 1 .. scan.at - 1 : ptext[k] \in Digit
      /\ \A close \in scan.at .. Len(ptext) :
           ptext[close] = "]" /\ (\A k \in ii + 1 .. close - 1 : ptext[k] \in Digit)
               /\ Counted(SubSeq(ptext, ii + 1, close - 1))[scan.at - ii - 1] < Modulus =>
               scan.numval = Counted(SubSeq(ptext, ii + 1, close - 1))[scan.at - ii - 1]
  BY <1>1, IndexSoFarIs, Zenon
<1>3. PICK t \in Seq(STRING), i \in Nat, at \in Nat, numval \in 0 .. Modulus - 1 :
        t = ptext /\ i = ii /\ at = scan.at /\ numval = scan.numval
  BY <1>2
<1>4. Len(t) \in Nat /\ i \in 1 .. Len(t) /\ at \in i + 1 .. Len(t) /\ Modulus \in Nat \ {0}
  BY <1>2, <1>3, ModulusIsNat
<1>5. \A close \in at .. Len(t) :
        t[close] = "]" /\ (\A k \in i + 1 .. close - 1 : t[k] \in Digit)
            /\ Counted(SubSeq(t, i + 1, close - 1))[at - i - 1] < Modulus =>
            numval = Counted(SubSeq(t, i + 1, close - 1))[at - i - 1]
  BY <1>2, <1>3, Zenon
<1>6. ASSUME NEW close \in at .. Len(t), t[close] = "]", \A k \in i + 1 .. close - 1 : t[k] \in Digit,
             t[at] \in Digit, NEW w, w = SubSeq(t, i + 1, close - 1), Counted(w)[at - i] < Modulus
      PROVE  /\ NextValue = Counted(w)[at - i] /\ NextValue >= scan.numval
  <2>1. close # at /\ at \in i + 1 .. close - 1 /\ close \in i + 1 .. Len(t)
    <3>1. close # at
      BY <1>1, <1>3, <1>6
    <3> QED
      BY <1>4, <1>6, <3>1
  <2>2. Number(t, i, close)
    BY <1>4, <1>6, <2>1, NumberIs
  <2>3. /\ Counted(w)[at - i - 1] \in Nat /\ DigitOf(t[at]) \in 0 .. 9
        /\ Counted(w)[at - i] = 10 * Counted(w)[at - i - 1] + DigitOf(t[at])
    BY <1>4, <1>6, <2>1, <2>2, OneDigitMore
  <2>4. PICK c \in Nat, d \in 0 .. 9 : c = Counted(w)[at - i - 1] /\ d = DigitOf(t[at])
    BY <2>3
  <2>5. Counted(w)[at - i] = 10 * c + d /\ 10 * c + d < Modulus
    BY <1>6, <2>3, <2>4
  <2>6. c < Modulus
    BY <1>4, <2>5
  <2>7. numval = c
    BY <1>5, <1>6, <2>4, <2>6
  <2>8. NextValue = (numval * 10 + d) % Modulus
    BY <1>3, <2>4 DEF NextValue
  <2>9. (c * 10 + d) % Modulus = c * 10 + d
    <3>1. PICK s \in Nat : s = c * 10 + d /\ s < Modulus
      BY <2>5
    <3>2. s % Modulus = s
      BY <1>4, <3>1
    <3> QED
      BY <3>1, <3>2
  <2>10. NextValue = 10 * c + d
    BY <2>7, <2>8, <2>9
  <2> QED
    BY <1>3, <2>5, <2>7, <2>10
<1>7. CASE ptext[scan.at] \notin Digit /\ Refused("INVALID_NUMBER")
  <2>1. Rests(t)[i] = {}
    <3> SUFFICES ASSUME Rests(t)[i] # {} PROVE FALSE
      OBVIOUS
    <3>1. PICK j \in i + 1 .. Len(t) :
            /\ t[j] = "]"
            /\ \/ j = i + 3 /\ t[i + 1] = "-" /\ t[i + 2] = "1"
               \/ \A k \in i + 1 .. j - 1 : t[k] \in Digit
      BY <1>2, <1>3, <1>4, IndexHere
    <3>2. t[i + 1] # "-" /\ \A k \in i + 1 .. at - 1 : t[k] \in Digit
      BY <1>2, <1>3
    <3>3. at <= j /\ (at < j => t[at] \in Digit)
      BY <1>4, <3>1, <3>2, DigitsGoOn
    <3>4. t[at] \notin Digit /\ t[at] # "]"
      BY <1>1, <1>3, <1>7
    <3> QED
      BY <1>4, <3>1, <3>3, <3>4
  <2>2. Rests(ptext)[ii] = {}
    BY <1>3, <2>1
  <2> QED
    BY <1>7, <2>2, IndexRefused DEF Refused
<1>8. CASE ptext[scan.at] \in Digit /\ NextValue < scan.numval /\ Refused("INVALID_NUMBER")
  <2>1. ASSUME NEW reading \in Readings(ptext), Fits(reading) PROVE FALSE
    <3>1. PICK j \in scan.at .. Len(ptext) :
            /\ ptext[j] = "]" /\ \A k \in ii + 1 .. j - 1 : ptext[k] \in Digit
            /\ IntOf(SubSeq(ptext, ii + 1, j - 1)) < Modulus - 1
      BY <1>1, <2>1, ReadIndex
    <3>2. PICK w : w = SubSeq(t, i + 1, j - 1)
      OBVIOUS
    <3>3. j \in at .. Len(t) /\ t[j] = "]" /\ (\A k \in i + 1 .. j - 1 : t[k] \in Digit) /\ IntOf(w) < Modulus - 1
      BY <1>3, <3>1, <3>2
    <3>4. t[at] \in Digit /\ t[at] # "]"
      BY <1>1, <1>3, <1>8
    <3>5. at \in i + 1 .. j - 1 /\ j \in i + 1 .. Len(t)
      <4>1. j # at
        BY <3>3, <3>4
      <4> QED
        BY <1>4, <3>3, <4>1
    <3>6. Number(t, i, j)
      BY <1>4, <3>3, <3>5, NumberIs
    <3>7. Counted(w)[at - i] <= IntOf(w) /\ Counted(w)[at - i] \in Nat
      BY <1>4, <3>2, <3>5, <3>6, OneDigitMore
    <3>8. IntOf(w) \in Int
      <4>1. w \in Seq(STRING) /\ \A k \in 1 .. Len(w) : w[k] \in Digit
        BY <3>2, <3>6, Zenon DEF Number
      <4>2. IntOf(w) = Counted(w)[Len(w)] /\ Counted(w)[Len(w)] \in Nat
        BY <4>1, CountedFacts
      <4> QED
        BY <4>2
    <3>9. Counted(w)[at - i] < Modulus
      BY <1>4, <3>3, <3>7, <3>8
    <3>10. NextValue >= scan.numval /\ NextValue = Counted(w)[at - i]
      BY <1>6, <3>2, <3>3, <3>4, <3>9
    <3>11. NextValue \in Nat /\ scan.numval \in Nat
      BY <1>2, <1>4, <3>7, <3>10
    <3> QED
      BY <1>8, <3>10, <3>11
  <2>2. ptext' = ptext /\ ppc' = "DONE" /\ perr' = "INVALID_NUMBER"
    BY <1>8 DEF Refused, Return
  <2> QED
    BY <2>1, <2>2, RefusedRight
<1>9. CASE /\ ptext[scan.at] \in Digit /\ NextValue >= scan.numval
           /\ scan' = [scan EXCEPT !.at = @ + 1, !.numval = NextValue]
           /\ UNCHANGED <<ptext, ii, components, has_negix, heapVars, ppc, perr>>
  <2>1. ReadSoFar'
    BY <1>9, ReadStands DEF Stands
  <2>2. t = ptext' /\ i = ii' /\ scan'.at = at + 1 /\ scan'.numval = NextValue /\ t[at] \in Digit
    BY <1>2, <1>3, <1>9 DEF Scan
  <2>3. PICK c \in i + 1 .. Len(t) : t[c] = "]"
    BY <1>3 DEF IndexSoFar, Closes
  <2>4. Closes'
    BY <2>2, <2>3 DEF Closes
  <2>5. \A k \in i + 1 .. at : t[k] \in Digit
    <3>1. \A k \in i + 1 .. at : k \in i + 1 .. at - 1 \/ k = at
      BY <1>4
    <3> QED
      BY <1>2, <1>3, <2>2, <3>1
  <2>6. at + 1 \in i + 1 .. Len(t)
    <3>1. ~(c \in i + 1 .. at)
      BY <2>3, <2>5 DEF Digit
    <3> QED
      BY <1>4, <2>3, <3>1
  <2>7. ASSUME NEW close \in at + 1 .. Len(t), t[close] = "]", \A k \in i + 1 .. close - 1 : t[k] \in Digit,
               NEW w, w = SubSeq(t, i + 1, close - 1), Counted(w)[at - i] < Modulus
        PROVE  NextValue = Counted(w)[at - i]
    <3>1. close \in at .. Len(t)
      BY <1>4
    <3> QED
      BY <1>6, <2>2, <2>7, <3>1
  <2>8. /\ ii' < Len(ptext') /\ ptext'[ii'] = "[" /\ scan'.at \in ii' + 1 .. Len(ptext')
        /\ scan'.at - 1 = at /\ scan'.at - ii' - 1 = at - i
    BY <1>2, <1>3, <1>4, <2>2, <2>6
  <2>9. \A k \in ii' + 1 .. scan'.at - 1 : ptext'[k] \in Digit
    BY <2>2, <2>5, <2>8, Zenon
  <2>10. ASSUME NEW close \in scan'.at .. Len(ptext'), ptext'[close] = "]",
                \A k \in ii' + 1 .. close - 1 : ptext'[k] \in Digit,
                Counted(SubSeq(ptext', ii' + 1, close - 1))[scan'.at - ii' - 1] < Modulus
         PROVE  scan'.numval = Counted(SubSeq(ptext', ii' + 1, close - 1))[scan'.at - ii' - 1]
    <3>1. PICK w : w = SubSeq(t, i + 1, close - 1)
      OBVIOUS
    <3>2. SubSeq(ptext', ii' + 1, close - 1) = w
      BY <2>2, <3>1, Zenon
    <3>3. Counted(w)[at - i] < Modulus
      BY <2>8, <2>10, <3>2, Zenon
    <3>4. close \in at + 1 .. Len(t) /\ t[close] = "]" /\ \A k \in i + 1 .. close - 1 : t[k] \in Digit
      BY <2>2, <2>10, Zenon
    <3>5. NextValue = Counted(w)[at - i]
      BY <2>7, <3>1, <3>3, <3>4
    <3> QED
      BY <2>2, <2>8, <3>2, <3>5, Zenon
  <2>11. IndexSoFar'
    BY <2>4, <2>8, <2>9, <2>10, Zenon DEF IndexSoFar
  <2>12. ppc' = "NUMBER"
    BY <1>1, <1>9
  <2> QED
    BY <2>1, <2>11, <2>12 DEF GrammarInv
<1> QED
  BY <1>7, <1>8, <1>9 DEF IndexDigit

LEMMA IndexEndRight ==
  ASSUME PathInv, ReadSoFar, IndexSoFar, IndexEnd, \A k \in 1 .. Len(components) : Stands(k)
  PROVE  GrammarInv'
<1>1. /\ ~HasMinus /\ ppc = "NUMBER" /\ ptext[scan.at] = "]"
      /\ AddArrayIndex(AsLong(scan.numval), AfterBracket(scan.at))
  BY DEF IndexEnd
<1>2. /\ ptext \in Seq(STRING) /\ Len(ptext) \in Nat /\ ii \in 1 .. Len(ptext) /\ ptext[ii] = "["
      /\ ii < Len(ptext) /\ scan.at \in ii + 1 .. Len(ptext) /\ scan.numval \in 0 .. Modulus - 1
      /\ \A k \in ii + 1 .. scan.at - 1 : ptext[k] \in Digit
      /\ \A close \in scan.at .. Len(ptext) :
           ptext[close] = "]" /\ (\A k \in ii + 1 .. close - 1 : ptext[k] \in Digit)
               /\ Counted(SubSeq(ptext, ii + 1, close - 1))[scan.at - ii - 1] < Modulus =>
               scan.numval = Counted(SubSeq(ptext, ii + 1, close - 1))[scan.at - ii - 1]
  BY <1>1, IndexSoFarIs, Zenon
<1>3. PICK close \in ii + 1 .. Len(ptext) : close = scan.at
  BY <1>2
<1>4. PICK w : w = SubSeq(ptext, ii + 1, close - 1)
  OBVIOUS
<1>5. IsIndex(SubSeq(ptext, ii, close))
  <2>1. close \in ii .. Len(ptext) /\ close > ii
    BY <1>2
  <2> QED
    BY <1>1, <1>2, <1>3, <2>1, IndexIs
<1>6. PICK value : value = IntOf(w)
  OBVIOUS
<1>7. w \in Seq(STRING) /\ Len(w) = close - ii - 1 /\ \A k \in 1 .. Len(w) : w[k] \in Digit
  <2>1. PICK t \in Seq(STRING), i \in Nat, j \in Nat : t = ptext /\ i = ii /\ j = close
    BY <1>2
  <2>2. i \in 1 .. Len(t) /\ j \in i + 1 .. Len(t) /\ \A k \in i + 1 .. j - 1 : t[k] \in Digit
    BY <1>2, <1>3, <2>1
  <2>3. Number(t, i, j)
    BY <2>2, NumberIs
  <2>4. w = SubSeq(t, i + 1, j - 1) /\ close - ii - 1 = j - i - 1
    BY <1>4, <2>1, Zenon
  <2> QED
    BY <2>3, <2>4, Zenon DEF Number
<1>8. value = Counted(w)[scan.at - ii - 1] /\ value \in Nat
  <2>1. IntOf(w) = Counted(w)[Len(w)] /\ Counted(w)[Len(w)] \in Nat
    <3>1. Len(w) \in 0 .. Len(w)
      BY <1>2, <1>7
    <3> QED
      BY <1>7, <3>1, CountedFacts
  <2> QED
    BY <1>3, <1>6, <1>7, <2>1
<1>9. value < Modulus => scan.numval = value
  <2>1. close \in scan.at .. Len(ptext) /\ ptext[close] = "]" /\ \A k \in ii + 1 .. close - 1 : ptext[k] \in Digit
    BY <1>1, <1>2, <1>3
  <2>2. Counted(SubSeq(ptext, ii + 1, close - 1))[scan.at - ii - 1] = value
    BY <1>4, <1>8, Zenon
  <2> QED
    BY <1>2, <2>1, <2>2, Zenon
<1>10. Modulus \in Nat \ {0}
  BY ModulusIsNat
<1>11. PICK ixnum \in Int : ixnum = AsLong(scan.numval)
  <2>1. AsLong(scan.numval) \in Int
    BY <1>2, <1>10 DEF AsLong
  <2> QED
    BY <2>1
<1>12. value < Modulus - 1 => ixnum = value
  BY <1>8, <1>9, <1>10, <1>11 DEF AsLong
<1>13. PICK next : next = AfterBracket(close)
  OBVIOUS
<1>14. AddArrayIndex(ixnum, next)
  BY <1>1, <1>3, <1>11, <1>13
<1>15. value = IntOf(SubSeq(ptext, ii + 1, close - 1)) /\ ppc # "IDLE"
  BY <1>1, <1>4, <1>6
<1> QED
  BY <1>2, <1>5, <1>12, <1>13, <1>14, <1>15, AddArrayIndexRight

-----------------------------------------------------------------------------
(* convert_escaped(), step by step. *)

(* The place moves by one character or by two. *)
LEMMA PlaceMoves ==
  ASSUME NEW a \in Nat, NEW f \in Nat, NEW p \in Nat, f <= a, a < p, NEW n \in Nat, n = a - f + 1
  PROVE  /\ a + 1 <= p /\ a + 1 - f = n /\ a + 1 - f + 1 = n + 1
         /\ n + 1 <= p - f =>
              /\ f + (n + 1) - 1 = a + 1 /\ a + 1 < p /\ a + 2 <= p
              /\ a + 2 - f = n + 1 /\ a + 2 - f + 1 = n + 2
  OBVIOUS

(* Outside a pair of backticks: a character of its own, or a pair. *)
LEMMA PairOrSingle ==
  ASSUME NEW x \in Seq(STRING), NEW m \in 1 .. Len(x), Paired(x), ~Inside(x, m)
  PROVE  /\ x[m] # "tick" => Singles(x)[m] = Append(Singles(x)[m - 1], x[m]) /\ ~Inside(x, m + 1)
         /\ x[m] = "tick" => /\ m + 1 \in 1 .. Len(x) /\ x[m + 1] = "tick"
                             /\ Singles(x)[m + 1] = Append(Singles(x)[m - 1], x[m])
                             /\ ~Inside(x, m + 2)
<1>1. Len(x) \in Nat /\ m \in Nat /\ m + 1 \in Nat /\ m + 2 \in Nat
  BY LenProperties
<1>2. \A i \in 1 .. Len(x) :
        Singles(x)[i] = IF x[i] = "tick" /\ ~Inside(x, i) THEN Singles(x)[i - 1]
                        ELSE Append(Singles(x)[i - 1], x[i])
  BY SinglesFacts
<1>3. /\ \A i \in Nat : /\ Cardinality(TicksBefore(x, i)) \in Nat
                        /\ Inside(x, i) <=> Cardinality(TicksBefore(x, i)) % 2 = 1
      /\ \A i \in 1 .. Len(x) :
           Cardinality(TicksBefore(x, i + 1)) =
             Cardinality(TicksBefore(x, i)) + (IF x[i] = "tick" THEN 1 ELSE 0)
  BY <1>1, TicksCount
<1>4. PICK c \in Nat : c = Cardinality(TicksBefore(x, m))
  BY <1>1, <1>3
<1>5. c % 2 # 1
  BY <1>1, <1>3, <1>4
<1>6. c % 2 = 0 /\ (c + 1) % 2 = 1 /\ (c + 2) % 2 = 0
  BY <1>5
<1>7. CASE x[m] # "tick"
  <2>1. Cardinality(TicksBefore(x, m + 1)) = c
    <3>1. Cardinality(TicksBefore(x, m + 1)) = c + (IF x[m] = "tick" THEN 1 ELSE 0)
      BY <1>3, <1>4, Zenon
    <3>2. c + 0 = c
      OBVIOUS
    <3> QED
      BY <1>7, <3>1, <3>2, Zenon
  <2>2. ~Inside(x, m + 1)
    BY <1>1, <1>3, <1>5, <2>1
  <2> QED
    BY <1>2, <1>7, <2>2
<1>8. CASE x[m] = "tick"
  <2>1. m < Len(x) /\ x[m + 1] = "tick"
    BY <1>8 DEF Paired, Ticks
  <2>2. m + 1 \in 1 .. Len(x)
    BY <1>1, <2>1
  <2>3. Cardinality(TicksBefore(x, m + 1)) = c + 1
    BY <1>3, <1>4, <1>8
  <2>4. Inside(x, m + 1)
    BY <1>1, <1>3, <1>6, <2>3
  <2>5. Cardinality(TicksBefore(x, m + 2)) = c + 2
    <3>1. Cardinality(TicksBefore(x, m + 1 + 1)) = Cardinality(TicksBefore(x, m + 1)) + 1
      BY <1>3, <2>1, <2>2
    <3>2. m + 1 + 1 = m + 2 /\ c + 1 + 1 = c + 2
      BY <1>1
    <3> QED
      BY <2>3, <3>1, <3>2
  <2>6. ~Inside(x, m + 2)
    BY <1>1, <1>3, <1>6, <2>5
  <2>7. Singles(x)[m] = Singles(x)[m - 1]
    BY <1>2, <1>8
  <2>8. Singles(x)[m + 1] = Append(Singles(x)[m], x[m + 1])
    <3>1. PICK k \in 1 .. Len(x) : k = m + 1
      BY <2>2
    <3>2. ~(x[k] = "tick" /\ ~Inside(x, k))
      BY <2>4, <3>1, Zenon
    <3>3. Singles(x)[k] = Append(Singles(x)[k - 1], x[k])
      BY <1>2, <3>2
    <3>4. k - 1 = m
      BY <1>1, <3>1
    <3> QED
      BY <3>1, <3>3, <3>4
  <2> QED
    BY <1>8, <2>1, <2>2, <2>6, <2>7, <2>8
<1> QED
  BY <1>7, <1>8

(* What convert_escaped() works on: x is what is between first and past. *)
KeyText(t, i, first, at, past, x) ==
  /\ t \in Seq(STRING) /\ i \in 1 .. Len(t) /\ first \in {i, i + 1} /\ past \in first .. Len(t) + 1
  /\ at \in Nat /\ at >= first /\ x = SubSeq(t, first, past - 1)
  /\ x \in Seq(STRING) /\ Len(x) = past - first /\ Len(t) \in Nat
  /\ \A k \in 1 .. past - first : x[k] = t[first + k - 1]

LEMMA KeyTextIs ==
  ASSUME PathInv, ReadSoFar, KeySoFar, ppc = "CONVERT"
  PROVE  \E first \in {ii, ii + 1} : \E x :
           /\ KeyText(ptext, ii, first, scan.at, scan.past, x)
           /\ scan.next \in 1 .. Len(ptext) + 1
           /\ Paired(x) => /\ scan.at <= scan.past /\ ~Inside(x, scan.at - first + 1)
                           /\ Converted = Singles(x)[scan.at - first]
           /\ Rests(ptext)[ii] = Beginning(Name(IF Paired(x) THEN Single(x) ELSE Unsaid),
                                           Rests(ptext)[scan.next])
<1>1. PICK first \in {ii, ii + 1} :
    LET x == SubSeq(ptext, first, scan.past - 1)
    IN  /\ ii <= Len(ptext) /\ scan.past \in first .. Len(ptext) + 1 /\ scan.next \in 1 .. Len(ptext) + 1
        /\ scan.at >= first
        /\ Paired(x) => /\ scan.at <= scan.past /\ ~Inside(x, scan.at - first + 1)
                        /\ Converted = Singles(x)[scan.at - first]
        /\ Rests(ptext)[ii] = Beginning(Name(IF Paired(x) THEN Single(x) ELSE Unsaid),
                                       Rests(ptext)[scan.next])
  BY Zenon DEF KeySoFar
<1>2. PICK x : x = SubSeq(ptext, first, scan.past - 1)
  OBVIOUS
<1>3. /\ ii <= Len(ptext) /\ scan.past \in first .. Len(ptext) + 1 /\ scan.next \in 1 .. Len(ptext) + 1
      /\ scan.at >= first
      /\ Paired(x) => /\ scan.at <= scan.past /\ ~Inside(x, scan.at - first + 1)
                      /\ Converted = Singles(x)[scan.at - first]
      /\ Rests(ptext)[ii] = Beginning(Name(IF Paired(x) THEN Single(x) ELSE Unsaid),
                                     Rests(ptext)[scan.next])
  BY <1>1, <1>2, Zenon
<1>4. ptext \in Seq(STRING) /\ Len(ptext) \in Nat /\ ii \in 1 .. Len(ptext) + 1 /\ scan \in Scan
  BY BracketFacts
<1>5. scan.at \in Nat
  BY <1>4 DEF Scan
<1>6. PICK a \in Nat, b \in Nat : a = first /\ b = scan.past
  BY SMTT(30), <1>3, <1>4
<1>7. 1 <= a /\ a <= b /\ b <= Len(ptext) + 1 /\ x = SubSeq(ptext, a, b - 1)
  BY <1>2, <1>3, <1>4, <1>6
<1>8. x \in Seq(STRING) /\ Len(x) = b - a /\ \A k \in 1 .. b - a : x[k] = ptext[a + k - 1]
  BY <1>4, <1>7, SliceOf
<1>9. ii \in 1 .. Len(ptext)
  BY <1>3, <1>4
<1>10. KeyText(ptext, ii, first, scan.at, scan.past, x)
  BY <1>2, <1>3, <1>4, <1>5, <1>6, <1>8, <1>9, Zenon DEF KeyText
<1> QED
  BY <1>3, <1>10

LEMMA ConvertCharRight ==
  ASSUME PathInv, ReadSoFar, KeySoFar, ConvertChar, \A k \in 1 .. Len(components) : Stands(k)
  PROVE  GrammarInv'
<1>1. /\ ppc = "CONVERT" /\ scan.at < scan.past
      /\ strings' = IF AtTick /\ ~Doubled THEN strings
                    ELSE [strings EXCEPT ![Last(m_used)] = Append(@, ptext[scan.at])]
      /\ scan' = [scan EXCEPT !.at = @ + Width]
      /\ UNCHANGED <<ptext, ii, components, m_used, ppc>>
  BY DEF ConvertChar
<1>2. PICK first \in {ii, ii + 1} : \E x :
           /\ KeyText(ptext, ii, first, scan.at, scan.past, x)
           /\ scan.next \in 1 .. Len(ptext) + 1
           /\ Paired(x) => /\ scan.at <= scan.past /\ ~Inside(x, scan.at - first + 1)
                           /\ Converted = Singles(x)[scan.at - first]
           /\ Rests(ptext)[ii] = Beginning(Name(IF Paired(x) THEN Single(x) ELSE Unsaid),
                                           Rests(ptext)[scan.next])
  BY <1>1, KeyTextIs, Zenon
<1>3. PICK x :
           /\ KeyText(ptext, ii, first, scan.at, scan.past, x)
           /\ scan.next \in 1 .. Len(ptext) + 1
           /\ Paired(x) => /\ scan.at <= scan.past /\ ~Inside(x, scan.at - first + 1)
                           /\ Converted = Singles(x)[scan.at - first]
           /\ Rests(ptext)[ii] = Beginning(Name(IF Paired(x) THEN Single(x) ELSE Unsaid),
                                           Rests(ptext)[scan.next])
  BY <1>2, Zenon
<1>4. /\ ptext \in Seq(STRING) /\ ii \in 1 .. Len(ptext) /\ first \in {ii, ii + 1}
      /\ scan.past \in first .. Len(ptext) + 1
      /\ scan.at \in Nat /\ scan.at >= first /\ x = SubSeq(ptext, first, scan.past - 1)
      /\ x \in Seq(STRING) /\ Len(x) = scan.past - first /\ Len(ptext) \in Nat
      /\ \A k \in 1 .. scan.past - first : x[k] = ptext[first + k - 1]
  BY <1>3, Zenon DEF KeyText
<1>5. scan \in Scan /\ strings \in Seq(Seq(STRING)) /\ m_used \in Seq(1 .. Len(strings)) /\ m_used # <<>>
  BY <1>1 DEF PathInv, TypeInv, PathTypeOK, ScanIsInside
<1>6. Width \in {1, 2} /\ scan'.at = scan.at + Width /\ scan'.past = scan.past /\ scan'.next = scan.next
  BY <1>1, <1>5 DEF Width, Scan
<1>7. scan'.at >= first /\ first \in Nat /\ scan.past \in Nat
  <2>1. first \in Nat
    BY <1>4
  <2>2. scan.past \in Nat
    BY <1>4, <2>1
  <2> QED
    BY <1>4, <1>6, <2>1, <2>2
<1>8. ASSUME Paired(x)
      PROVE  /\ scan'.at <= scan.past /\ ~Inside(x, scan'.at - first + 1)
             /\ Converted' = Singles(x)[scan'.at - first]
  <2>1. PICK m \in 1 .. Len(x) : m = scan.at - first + 1
    <3>1. scan.at - first + 1 \in 1 .. scan.past - first
      <4>1. PICK a \in Nat, f \in Nat, p \in Nat : a = scan.at /\ f = first /\ p = scan.past /\ f <= a /\ a < p
        BY <1>1, <1>4, <1>7
      <4>2. a - f + 1 \in 1 .. p - f
        BY <4>1
      <4> QED
        BY <4>1, <4>2, Zenon
    <3> QED
      BY <1>4, <3>1
  <2>2. /\ scan.at - first = m - 1 /\ first + m - 1 = scan.at /\ x[m] = ptext[scan.at] /\ m \in Nat
    <3>1. scan.at - first = m - 1 /\ first + m - 1 = scan.at /\ m \in Nat /\ m \in 1 .. scan.past - first
      BY <1>1, <1>4, <1>7, <2>1
    <3> QED
      BY <1>4, <3>1
  <2>3. ~Inside(x, m) /\ Converted = Singles(x)[m - 1]
    BY <1>3, <1>8, <2>1, <2>2, Zenon
  <2>4. /\ x[m] # "tick" => Singles(x)[m] = Append(Singles(x)[m - 1], x[m]) /\ ~Inside(x, m + 1)
        /\ x[m] = "tick" => /\ m + 1 \in 1 .. Len(x) /\ x[m + 1] = "tick"
                            /\ Singles(x)[m + 1] = Append(Singles(x)[m - 1], x[m])
                            /\ ~Inside(x, m + 2)
    BY <1>4, <1>8, <2>3, PairOrSingle
  <2>5. AtTick <=> x[m] = "tick"
    BY <2>2 DEF AtTick, Tick
  <2>6. x[m] = "tick" => Doubled
    <3> SUFFICES ASSUME x[m] = "tick" PROVE Doubled
      OBVIOUS
    <3>1. m + 1 \in 1 .. scan.past - first /\ x[m + 1] = "tick"
      BY <1>4, <2>4
    <3>2. first + (m + 1) - 1 = scan.at + 1 /\ scan.at + 1 < scan.past
      <4>1. PICK a \in Nat, f \in Nat, p \in Nat : a = scan.at /\ f = first /\ p = scan.past
        BY <1>4, <1>7
      <4>2. f <= a /\ a < p /\ m \in Nat /\ m = a - f + 1
        BY <1>1, <1>4, <2>1, <2>2, <4>1
      <4>3. m + 1 <= p - f
        BY <3>1, <4>1, <1>7
      <4>4. f + (m + 1) - 1 = a + 1 /\ a + 1 < p
        BY <4>2, <4>3, PlaceMoves
      <4> QED
        BY <4>1, <4>4, Zenon
    <3>3. x[m + 1] = ptext[first + (m + 1) - 1]
      BY <1>4, <3>1
    <3> QED
      BY <3>1, <3>2, <3>3 DEF Doubled, Tick
  <2>7. Converted' = Append(Converted, x[m])
    <3>1. PICK S : S = 1 .. Len(strings)
      OBVIOUS
    <3>2. Last(m_used) \in S
      BY <1>5, <3>1, FrontAndLast
    <3>3. Last(m_used) \in DOMAIN strings
      BY <1>5, <3>1, <3>2, LenProperties
    <3>4. strings' = [strings EXCEPT ![Last(m_used)] = Append(@, ptext[scan.at])] /\ m_used' = m_used
      BY <1>1, <2>5, <2>6, Zenon
    <3>5. strings'[Last(m_used)] = Append(strings[Last(m_used)], ptext[scan.at])
      BY <3>3, <3>4
    <3> QED
      BY <2>2, <3>4, <3>5, Zenon DEF Converted
  <2>8. CASE x[m] # "tick"
    <3>1. Width = 1
      BY <2>5, <2>8 DEF Width
    <3>2. /\ scan'.at <= scan.past /\ scan'.at - first = m /\ scan'.at - first + 1 = m + 1
      <4>1. PICK a \in Nat, f \in Nat, p \in Nat : a = scan.at /\ f = first /\ p = scan.past
        BY <1>4, <1>7
      <4>2. f <= a /\ a < p /\ m \in Nat /\ m = a - f + 1
        BY <1>1, <1>4, <2>1, <2>2, <4>1
      <4>3. a + 1 <= p /\ a + 1 - f = m /\ a + 1 - f + 1 = m + 1
        BY <4>2, PlaceMoves
      <4>4. scan'.at = a + 1
        BY <1>6, <3>1, <4>1
      <4>6. PICK b \in Nat : b = a + 1
        OBVIOUS
      <4>7. b <= p /\ b - f = m /\ b - f + 1 = m + 1
        BY <4>6, <4>3
      <4>8. b = scan'.at
        BY <4>6, <4>4
      <4> QED
        BY <4>1, <4>7, <4>8, Zenon
    <3>3. Converted' = Singles(x)[m] /\ ~Inside(x, m + 1)
      BY <2>3, <2>4, <2>7, <2>8
    <3> QED
      BY <3>2, <3>3, Zenon
  <2>9. CASE x[m] = "tick"
    <3>1. Width = 2
      BY <2>5, <2>6, <2>9 DEF Width
    <3>2. /\ scan'.at <= scan.past /\ scan'.at - first = m + 1 /\ scan'.at - first + 1 = m + 2
      <4>1. PICK a \in Nat, f \in Nat, p \in Nat : a = scan.at /\ f = first /\ p = scan.past
        BY <1>4, <1>7
      <4>2. f <= a /\ a < p /\ m \in Nat /\ m = a - f + 1
        BY <1>1, <1>4, <2>1, <2>2, <4>1
      <4>3. m + 1 <= p - f
        <5>1. m + 1 \in 1 .. p - f
          BY <1>4, <2>4, <2>9, <4>1
        <5> QED
          BY <4>1, <4>2, <5>1
      <4>4. a + 2 <= p /\ a + 2 - f = m + 1 /\ a + 2 - f + 1 = m + 2
        BY <4>2, <4>3, PlaceMoves
      <4>5. scan'.at = a + 2
        BY <1>6, <3>1, <4>1
      <4>6. PICK b \in Nat : b = a + 2
        OBVIOUS
      <4>7. b <= p /\ b - f = m + 1 /\ b - f + 1 = m + 2
        BY <4>6, <4>4
      <4>8. b = scan'.at
        BY <4>6, <4>5
      <4> QED
        BY <4>1, <4>7, <4>8, Zenon
    <3>3. Converted' = Singles(x)[m + 1] /\ ~Inside(x, m + 2)
      BY <2>3, <2>4, <2>7, <2>9
    <3> QED
      BY <3>2, <3>3, Zenon
  <2> QED
    BY <2>8, <2>9
<1>9. KeySoFar'
  <2>1. ptext' = ptext /\ ii' = ii /\ scan'.past = scan.past /\ scan'.next = scan.next
    BY <1>1, <1>6
  <2>2. x = SubSeq(ptext', first, scan'.past - 1)
    BY <1>4, <2>1, Zenon
  <2>3. /\ ii' <= Len(ptext') /\ scan'.past \in first .. Len(ptext') + 1
        /\ scan'.next \in 1 .. Len(ptext') + 1 /\ first \in {ii', ii' + 1}
    <3>1. ii <= Len(ptext)
      BY <1>4
    <3> QED
      BY <1>3, <1>4, <2>1, <3>1, Zenon
  <2>4. Rests(ptext')[ii'] = Beginning(Name(IF Paired(x) THEN Single(x) ELSE Unsaid),
                                       Rests(ptext')[scan'.next])
    BY <1>3, <2>1, Zenon
  <2>5. Paired(x) => /\ scan'.at <= scan'.past /\ ~Inside(x, scan'.at - first + 1)
                     /\ Converted' = Singles(x)[scan'.at - first]
    BY <1>8, <2>1, Zenon
  <2> QED
    BY <1>7, <2>2, <2>3, <2>4, <2>5, Zenon DEF KeySoFar
<1>10. ReadSoFar'
  BY <1>1, ReadStands DEF Stands
<1>11. ppc' = "CONVERT"
  BY <1>1
<1> QED
  BY <1>9, <1>10, <1>11 DEF GrammarInv

LEMMA ConvertEndRight ==
  ASSUME PathInv, ReadSoFar, KeySoFar, ConvertEnd, \A k \in 1 .. Len(components) : Stands(k)
  PROVE  GrammarInv'
<1>1. /\ ppc = "CONVERT" /\ scan.at >= scan.past
      /\ AddString(Owned(Last(m_used), Len(Converted)), scan.next)
  BY DEF ConvertEnd
<1>2. PICK first \in {ii, ii + 1} : \E x :
           /\ KeyText(ptext, ii, first, scan.at, scan.past, x)
           /\ scan.next \in 1 .. Len(ptext) + 1
           /\ Paired(x) => /\ scan.at <= scan.past /\ ~Inside(x, scan.at - first + 1)
                           /\ Converted = Singles(x)[scan.at - first]
           /\ Rests(ptext)[ii] = Beginning(Name(IF Paired(x) THEN Single(x) ELSE Unsaid),
                                           Rests(ptext)[scan.next])
  BY <1>1, KeyTextIs, Zenon
<1>3. PICK x :
           /\ KeyText(ptext, ii, first, scan.at, scan.past, x)
           /\ scan.next \in 1 .. Len(ptext) + 1
           /\ Paired(x) => /\ scan.at <= scan.past /\ ~Inside(x, scan.at - first + 1)
                           /\ Converted = Singles(x)[scan.at - first]
           /\ Rests(ptext)[ii] = Beginning(Name(IF Paired(x) THEN Single(x) ELSE Unsaid),
                                           Rests(ptext)[scan.next])
  BY <1>2, Zenon
<1>4. /\ ii \in 1 .. Len(ptext) /\ first \in {ii, ii + 1} /\ scan.past \in first .. Len(ptext) + 1
      /\ scan.at \in Nat /\ scan.at >= first /\ Len(ptext) \in Nat
      /\ x \in Seq(STRING) /\ Len(x) = scan.past - first
  BY <1>3, Zenon DEF KeyText
<1>5. /\ strings \in Seq(Seq(STRING)) /\ m_used \in Seq(1 .. Len(strings)) /\ m_used # <<>>
      /\ TypeInv
  BY <1>1 DEF PathInv, TypeInv, PathTypeOK, ScanIsInside
<1>6. PICK id \in Nat : id = Last(m_used) /\ id # 0 /\ strings[id] \in Seq(STRING)
  <2>1. Last(m_used) \in 1 .. Len(strings)
    BY <1>5, FrontAndLast
  <2>2. strings[Last(m_used)] \in Seq(STRING)
    BY <1>5, <2>1, ElementOfSeq
  <2> QED
    BY <2>1, <2>2
<1>7. PICK key \in KeyPointer : key = Owned(Last(m_used), Len(Converted))
  BY <1>1, <1>5, OwnedKey
<1>8. PICK next \in 1 .. Len(ptext) + 1 : next = scan.next
  BY <1>3
<1>9. AddString(key, next)
  BY <1>1, <1>7, <1>8
<1>10. KeyIn(key, ptext', strings') = Converted
  <2>1. strings' = strings
    BY <1>9 DEF AddString, heapVars
  <2>2. Converted = strings[id] /\ Converted \in Seq(STRING)
    BY <1>6 DEF Converted
  <2>3. PICK s \in Seq(STRING), n \in Nat : s = Converted /\ n = Len(s)
    BY <2>2, LenProperties
  <2>4. key.owner = id /\ key.at = 1 /\ key.len = n
    BY <1>6, <1>7, <2>3 DEF Owned
  <2>5. KeyIn(key, ptext', strings') = SubSeq(s, 1, 1 + n - 1)
    BY <1>6, <2>1, <2>2, <2>3, <2>4, Zenon DEF KeyIn
  <2>6. 1 + n - 1 = n
    OBVIOUS
  <2>7. SubSeq(s, 1, n) = s
    <3>1. /\ SubSeq(s, 1, n) \in Seq(STRING) /\ Len(SubSeq(s, 1, n)) = n
          /\ \A k \in 1 .. n : SubSeq(s, 1, n)[k] = s[k]
      <4>1. n - 1 + 1 = n /\ \A k \in 1 .. n : 1 + k - 1 = k
        OBVIOUS
      <4>2. 1 <= n + 1 /\ n <= Len(s)
        BY <2>3
      <4> QED
        BY <4>1, <4>2, SliceTo
    <3> QED
      BY <2>3, <3>1, SameText
  <2> QED
    BY <2>3, <2>5, <2>6, <2>7
<1>11. PICK named : named = IF Paired(x) THEN Single(x) ELSE Unsaid
  OBVIOUS
<1>12. Rests(ptext)[ii] = Beginning(Name(named), Rests(ptext)[next])
  BY <1>3, <1>8, <1>11, Zenon
<1>13. named = KeyIn(key, ptext', strings') \/ named = Unsaid
  <2>1. CASE Paired(x)
    <3>1. scan.at <= scan.past /\ Converted = Singles(x)[scan.at - first]
      BY <1>3, <2>1
    <3>2. scan.at - first = Len(x)
      BY <1>1, <1>4, <3>1
    <3>3. Single(x) = Singles(x)[Len(x)]
      BY <1>4, SinglesFacts
    <3>4. named = Single(x)
      BY <1>11, <2>1
    <3> QED
      BY <1>10, <3>1, <3>2, <3>3, <3>4
  <2>2. CASE ~Paired(x)
    BY <1>11, <2>2
  <2> QED
    BY <2>1, <2>2
<1> QED
  BY <1>9, <1>12, <1>13, AddStringRight

-----------------------------------------------------------------------------
(* parse() has come to the end: it has read all that the text says. *)
LEMMA ParseEndRight ==
  ASSUME PathInv, ReadSoFar, ParseEnd
  PROVE  GrammarInv'
<1>1. /\ ppc = "NEXT" /\ ii > Len(ptext) /\ ppc' = "DONE" /\ perr' = "SUCCESS"
      /\ ptext' = ptext /\ components' = components /\ strings' = strings
  BY DEF ParseEnd, Refused, Return, heapVars
<1>2. ptext \in Seq(STRING) /\ Len(ptext) \in Nat /\ ii \in 1 .. Len(ptext) + 1
  BY BracketFacts
<1>3. ii = Len(ptext) + 1
  BY <1>1, <1>2
<1>4. Rests(ptext)[ii] = {<<>>}
  BY <1>2, <1>3, RestAtEnd
<1>5. ParsedPath' = ParsedPath /\ Len(ParsedPath) = Len(components) /\ Len(ParsedPath) \in 1 .. MaxComponents
  <2>1. ParsedPath' = ParsedPath
    BY <1>1, Zenon DEF ParsedPath, KeyOf
  <2> QED
    BY <1>1, <2>1, ParsedIsPath
<1>6. ASSUME NEW reading \in Readings(ptext), Fits(reading)
      PROVE  ~(Len(reading) > MaxComponents) /\ Says(ParsedPath, reading)
  <2>1. PICK rest \in Rests(ptext)[ii] :
          /\ Len(reading) = Len(components) + Len(rest)
          /\ \A k \in 1 .. Len(components) : SaysItem(ParsedPath[k], reading[k])
    BY <1>6 DEF ReadSoFar, SoFar, SoFarIn
  <2>2. Len(rest) = 0
    BY <1>4, <2>1
  <2>3. Len(reading) = Len(components)
    BY <1>5, <2>1, <2>2
  <2>4. ~(Len(reading) > MaxComponents)
    BY <1>5, <2>3, MaxComponentsAssumption
  <2>5. PICK p : p = ParsedPath
    OBVIOUS
  <2>6. \A k \in 1 .. Len(p) : p[k] = reading[k] \/ (reading[k] = Name(Unsaid) /\ p[k].ptype = "STRING")
    BY <1>5, <2>1, <2>5 DEF SaysItem
  <2>7. Says(p, reading)
    BY <1>5, <2>3, <2>5, <2>6 DEF Says
  <2> QED
    BY <2>4, <2>5, <2>7
<1>7. Readings(ptext) # {}
  <2>1. Rests(ptext)[ii] # {}
    BY <1>4
  <2> QED
    BY <2>1 DEF ReadSoFar
<1>8. AnswerIsRight'
  BY <1>1, <1>5, <1>6, <1>7 DEF AnswerIsRight
<1> QED
  BY <1>1, <1>8 DEF GrammarInv, Parsing

(* parse() begins with the root, which every reading begins with. *)
LEMMA ParseRight ==
  ASSUME NEW bytes \in Seq(STRING), Parse(bytes)
  PROVE  GrammarInv'
<1>1. ptext' = bytes /\ ii' = 1 /\ components' = <<RootHere>> /\ ppc' = "NEXT"
  BY DEF Parse
<1>2. Len(bytes) \in Nat /\ 1 \in 1 .. Len(bytes) + 1
  BY LenProperties
<1>3. Len(components') = 1 /\ components'[1] = RootHere
  BY <1>1
<1>4. ParsedPath'[1] = Root
  <2>1. ParsedPath' = [i \in 1 .. Len(components') |->
          [ptype |-> components'[i].ptype, pstr |-> KeyIn(components'[i].key, ptext', strings'),
           idx |-> components'[i].idx, is_neg |-> components'[i].is_neg]]
    BY Zenon DEF ParsedPath, KeyOf, KeyIn
  <2>2. PICK m \in 1 .. Len(components') : m = 1
    BY <1>3
  <2>3. ParsedPath'[m] =
          [ptype |-> components'[m].ptype, pstr |-> KeyIn(components'[m].key, ptext', strings'),
           idx |-> components'[m].idx, is_neg |-> components'[m].is_neg]
    BY <2>1, Zenon
  <2>4. /\ components'[m].ptype = "ROOT" /\ components'[m].key = NullKey
        /\ components'[m].idx = 0 /\ components'[m].is_neg = FALSE
    <3>1. components'[m] = RootHere
      BY <1>3, <2>2
    <3>2. /\ RootHere.ptype = "ROOT" /\ RootHere.key = NullKey
          /\ RootHere.idx = 0 /\ RootHere.is_neg = FALSE
      BY DEF RootHere
    <3> QED
      BY <3>1, <3>2, Zenon
  <2>5. KeyIn(NullKey, ptext', strings') = <<>>
    <3>1. NullKey.owner = 0 /\ NullKey.at = 1 /\ NullKey.len = 0
      BY DEF NullKey
    <3>2. KeyIn(NullKey, ptext', strings') = SubSeq(bytes, 1, 0)
      BY <1>1, <3>1 DEF KeyIn
    <3>3. SubSeq(bytes, 1, 0) \in Seq(STRING) /\ Len(SubSeq(bytes, 1, 0)) = 0
      BY <1>2, SliceTo
    <3> QED
      BY <3>2, <3>3, EmptySeq
  <2> QED
    BY <2>2, <2>3, <2>4, <2>5, Zenon DEF Root
<1>5. ASSUME NEW reading \in Readings(bytes)
      PROVE  SoFarIn(bytes, 1, ParsedPath', 1, reading)
  <2>1. PICK comps \in Rests(bytes)[1] : reading = <<Root>> \o comps
    BY <1>5, OneReading
  <2>2. comps \in Seq(Said)
    BY <1>2, <2>1, RestsAreSaid
  <2>3. /\ Len(reading) = 1 + Len(comps) /\ reading[1] = Root
        /\ \A k \in 1 .. Len(comps) : reading[1 + k] = comps[k]
    BY <2>1, <2>2, BeginningIs
  <2>4. \A k \in 1 .. 1 : SaysItem(ParsedPath'[k], reading[k])
    <3>1. SaysItem(ParsedPath'[1], reading[1])
      BY <1>4, <2>3, Zenon DEF SaysItem
    <3>2. \A k \in 1 .. 1 : k = 1
      OBVIOUS
    <3> QED
      BY <3>1, <3>2, Zenon
  <2> QED
    BY <2>1, <2>3, <2>4, Zenon DEF SoFarIn
<1>6. Rests(bytes)[1] # {} => Readings(bytes) # {}
  BY OneReading
<1>7. ReadSoFar'
  <2>1. ASSUME NEW reading \in Readings(ptext') PROVE SoFar(reading)'
    <3>1. SoFarIn(bytes, 1, ParsedPath', 1, reading)
      BY <1>1, <1>5, <2>1
    <3>2. SoFarIn(ptext', ii', ParsedPath', Len(components'), reading)
      BY <1>1, <1>3, <3>1, Zenon
    <3> QED
      BY <3>2, Zenon DEF SoFar
  <2>2. ii' \in 1 .. Len(ptext') + 1
    BY <1>1, <1>2
  <2>3. Rests(ptext')[ii'] # {} => Readings(ptext') # {}
    BY <1>1, <1>6, Zenon
  <2> QED
    BY <2>1, <2>2, <2>3, Zenon DEF ReadSoFar
<1> QED
  BY <1>1, <1>7 DEF GrammarInv

-----------------------------------------------------------------------------
LEMMA GrammarInit == PathInit => GrammarInv
  BY DEF PathInit, GrammarInv, Parsing

(* Every step of the Path keeps it, with PathInv. *)
LEMMA GrammarStep == PathInv /\ GrammarInv /\ [PathStep]_parseVars => GrammarInv'
<1> SUFFICES ASSUME PathInv, GrammarInv, [PathStep]_parseVars PROVE GrammarInv'
  OBVIOUS
<1>1. CASE ParseStep
  <2>1. \A k \in 1 .. Len(components) : Stands(k)
    BY <1>1, KeysStep DEF PathInv
  <2>2. ppc \in {"NEXT", "STRING", "NUMBER", "CONVERT"}
    BY <1>1 DEF ParseStep, BeginBracket, NegativeIndex, IndexDigit, IndexEnd, BeginString,
       PathChar, PathStringEnd, ConvertChar, ConvertEnd, ParseEnd
  <2>3. ReadSoFar
    BY <2>2 DEF GrammarInv, Parsing
  <2>4. CASE BeginBracket
    BY <2>1, <2>3, <2>4, BeginBracketRight
  <2>5. CASE NegativeIndex
    <3>1. IndexSoFar
      BY <2>5 DEF NegativeIndex, GrammarInv
    <3> QED
      BY <2>1, <2>3, <2>5, <3>1, NegativeIndexRight
  <2>6. CASE IndexDigit
    <3>1. IndexSoFar
      BY <2>6 DEF IndexDigit, GrammarInv
    <3> QED
      BY <2>1, <2>3, <2>6, <3>1, IndexDigitRight
  <2>7. CASE IndexEnd
    <3>1. IndexSoFar
      BY <2>7 DEF IndexEnd, GrammarInv
    <3> QED
      BY <2>1, <2>3, <2>7, <3>1, IndexEndRight
  <2>8. CASE BeginString
    BY <2>1, <2>3, <2>8, BeginStringRight
  <2>9. CASE PathChar
    <3>1. NameSoFar
      BY <2>9 DEF PathChar, GrammarInv
    <3> QED
      BY <2>1, <2>3, <2>9, <3>1, PathCharRight
  <2>10. CASE PathStringEnd
    <3>1. NameSoFar
      BY <2>10 DEF PathStringEnd, GrammarInv
    <3> QED
      BY <2>1, <2>3, <2>10, <3>1, PathStringEndRight
  <2>11. CASE ConvertChar
    <3>1. KeySoFar
      BY <2>11 DEF ConvertChar, GrammarInv
    <3> QED
      BY <2>1, <2>3, <2>11, <3>1, ConvertCharRight
  <2>12. CASE ConvertEnd
    <3>1. KeySoFar
      BY <2>12 DEF ConvertEnd, GrammarInv
    <3> QED
      BY <2>1, <2>3, <2>12, <3>1, ConvertEndRight
  <2>13. CASE ParseEnd
    BY <2>3, <2>13, ParseEndRight
  <2> QED
    BY <1>1, <2>4, <2>5, <2>6, <2>7, <2>8, <2>9, <2>10, <2>11, <2>12, <2>13 DEF ParseStep
<1>2. CASE ParseText
  BY <1>2, ParseRight DEF ParseText
<1>3. CASE PathClear \/ PathNew
  <2>1. ppc' = "IDLE"
    BY <1>3 DEF PathClear, PathNew
  <2> QED
    BY <2>1 DEF GrammarInv, Parsing
<1>4. CASE UNCHANGED parseVars
  <2>1. UNCHANGED <<ptext, ii, scan, components, strings, m_used, ppc, perr>>
    BY <1>4 DEF parseVars, heapVars
  <2>2. ParsedPath' = ParsedPath /\ Converted' = Converted
    BY <2>1, Zenon DEF ParsedPath, KeyOf, Converted
  <2>3. ReadSoFar' <=> ReadSoFar
    BY <2>1, <2>2 DEF ReadSoFar, SoFar
  <2>4. NameSoFar' <=> NameSoFar
    BY <2>1 DEF NameSoFar
  <2>5. IndexSoFar' <=> IndexSoFar
    BY <2>1 DEF IndexSoFar, Closes, HasMinus
  <2>6. KeySoFar' <=> KeySoFar
    BY <2>1, <2>2 DEF KeySoFar
  <2>7. AnswerIsRight' <=> AnswerIsRight
    BY <2>1, <2>2 DEF AnswerIsRight
  <2> QED
    BY <2>1, <2>3, <2>4, <2>5, <2>6, <2>7 DEF GrammarInv, Parsing
<1> QED
  BY <1>1, <1>2, <1>3, <1>4 DEF PathStep

(* For every text, every limit on components and every width of size_t: the  *)
(* text can be read in one way at most; parse() returns success with the     *)
(* components it says, or LEVELS_EXCEEDED where they are too many; a text    *)
(* that says nothing is refused.  Only texts with an index that does not fit *)
(* below the value that stands for -1 are left out (see the finding).        *)
THEOREM ParsingIsRight == PathSpec => []ParseIsRight
<1>1. PathInv /\ GrammarInv /\ [PathNext]_parseVars => GrammarInv'
  BY ClientIsAny, GrammarStep
<1>2. PathInv /\ GrammarInv => ParseIsRight
  <2> SUFFICES ASSUME PathInv, GrammarInv, ppc = "DONE"
               PROVE  LET readings == Readings(ptext)
                      IN  /\ Cardinality(readings) <= 1
                          /\ \A reading \in readings :
                               Fits(reading) =>
                                 IF Len(reading) > MaxComponents THEN perr = "LEVELS_EXCEEDED"
                                 ELSE perr = "SUCCESS" /\ Says(ParsedPath, reading)
                          /\ readings = {} => perr # "SUCCESS"
    BY DEF ParseIsRight
  <2>1. AnswerIsRight
    BY DEF GrammarInv
  <2>2. Cardinality(Readings(ptext)) <= 1
    BY PathFacts, OneReading
  <2> QED
    BY <2>1, <2>2, Zenon DEF AnswerIsRight
<1> QED
  BY <1>1, <1>2, GrammarInit, PathInvariant, PTL DEF PathSpec
=============================================================================
