------------------------------ MODULE PathSteps ------------------------------
(***************************************************************************)
(* The Path is well formed under every caller: what its steps preserve, for*)
(* every text, every limit on components and every width of an index.      *)
(*                                                                         *)
(* PathInv is inductive.  Its parts are proved one after the other:        *)
(* TypeInv, ShapeIsRight, StringsAreApart, then KeysFit, each with a lemma *)
(* for the ways a step has of changing the components (none, one appended) *)
(* or the strings (one taken, one written, all given back).                *)
(***************************************************************************)
EXTENDS PathClient, SequenceTheorems, TLAPS

(* Any caller: it parses any text. *)
ParseText == \E bytes \in Seq(STRING) : Parse(bytes)
PathStep  == ParseText \/ ParseStep \/ PathClear \/ PathNew

-----------------------------------------------------------------------------
LEMMA DigitsAreSmall == \A ch \in Digit : DigitOf(ch) \in 0 .. 9
  BY DEF DigitOf, Digit, DigitText

LEMMA FrontAndLast ==
  ASSUME NEW S, NEW s \in Seq(S), s # <<>>
  PROVE  /\ Front(s) \in Seq(S) /\ Len(Front(s)) = Len(s) - 1
         /\ \A i \in 1 .. Len(s) - 1 : Front(s)[i] = s[i]
         /\ Last(s) \in S /\ Last(s) = s[Len(s)] /\ Len(s) \in Nat \ {0}
  <1>1. Len(s) \in Nat \ {0}
    BY EmptySeq
  <1>2. \A i \in 1 .. Len(s) : s[i] \in S
    BY ElementOfSeq
  <1> DEFINE n == Len(s) - 1
  <1>3. /\ SubSeq(s, 1, n) \in Seq(S)
        /\ Len(SubSeq(s, 1, n)) = IF 1 <= n THEN n - 1 + 1 ELSE 0
        /\ \A i \in 1 .. n - 1 + 1 : SubSeq(s, 1, n)[i] = s[1 + i - 1]
    <2>1. n \in Int /\ 1 \in Int /\ \A i \in 1 .. n : s[i] \in S
      BY <1>1, <1>2
    <2> HIDE DEF n
    <2> QED
      BY <2>1, SubSeqProperties
  <1>4. Front(s) = SubSeq(s, 1, Len(s) - 1) /\ Last(s) = s[Len(s)]
    BY DEF Front, Last
  <1>5. /\ Len(Front(s)) = Len(s) - 1
        /\ \A i \in 1 .. Len(s) - 1 : Front(s)[i] = s[i]
    <2>1. n \in Nat /\ Len(s) - 1 = n
      BY <1>1
    <2>2. Len(SubSeq(s, 1, n)) = n
      <3> HIDE DEF n
      <3> QED
        BY <1>3, <2>1
    <2>3. \A i \in 1 .. n : SubSeq(s, 1, n)[i] = s[i]
      <3> HIDE DEF n
      <3> QED
        BY <1>3, <2>1
    <2> QED
      BY <1>4, <2>2, <2>3
  <1> QED
    BY <1>1, <1>2, <1>3, <1>4, <1>5

LEMMA MapIsSeq ==
  ASSUME NEW S, NEW n \in Nat, NEW f \in [1 .. n -> S]
  PROVE  f \in Seq(S) /\ Len(f) = n
  OBVIOUS

LEMMA ModulusIsNat == Modulus \in Nat \ {0} /\ Modulus - 1 \in Nat
  BY IntMaxAssumption DEF Modulus

(* Every change of the locals that parse() makes leaves locals. *)
LEMMA ScanMoves ==
  ASSUME NEW s \in Scan, NEW at \in Nat
  PROVE  /\ [s EXCEPT !.at = at] \in Scan
         /\ [s EXCEPT !.at = at].at = at
         /\ [s EXCEPT !.at = at].past = s.past /\ [s EXCEPT !.at = at].next = s.next
  BY DEF Scan

LEMMA ScanCounts ==
  ASSUME NEW s \in Scan, NEW at \in Nat, NEW num \in 0 .. Modulus - 1
  PROVE  [s EXCEPT !.at = at, !.numval = num] \in Scan
  BY DEF Scan

LEMMA ScanReads ==
  ASSUME NEW s \in Scan, NEW at \in Nat, NEW json \in BOOLEAN, NEW n1ql \in BOOLEAN, NEW n \in Nat
  PROVE  /\ [s EXCEPT !.at = at, !.in_json_escape = json, !.in_n1ql_escape = n1ql,
                       !.n_backticks = n] \in Scan
         /\ [s EXCEPT !.at = at, !.in_json_escape = json, !.in_n1ql_escape = n1ql,
                       !.n_backticks = n].at = at
  BY DEF Scan

-----------------------------------------------------------------------------
ScanIsInside ==
  /\ ppc = "STRING" => ii <= scan.at /\ scan.at <= Len(ptext) + 1
  /\ ppc = "CONVERT" =>
       /\ scan.at # 0 /\ scan.past <= Len(ptext) + 1 /\ scan.next # 0
       /\ m_used # <<>> /\ Len(components) < MaxComponents

TypeInv == PathTypeOK /\ ScanIsInside

(* A component added at the end. *)
LEMMA NewComponents ==
  ASSUME IntMaxAssumption
  PROVE  /\ \A ixnum \in Int : NumericHere(ixnum) \in ParsedInfo
         /\ \A key \in KeyPointer : StringHere(key) \in ParsedInfo
         /\ RootHere \in ParsedInfo /\ EmptyHere \in ParsedInfo
         /\ \A at, len \in Nat : Slice(at, len) \in KeyPointer
         /\ \A id, len \in Nat : Owned(id, len) \in KeyPointer
         /\ BlankScan \in Scan
  BY ModulusIsNat DEF NumericHere, StringHere, ParsedInfo, KeyPointer, Slice, Owned, RootHere,
     EmptyHere, NullKey, BlankScan, Scan

LEMMA RefusedTypes ==
  ASSUME TypeInv, NEW code \in {"SUCCESS", "JPR_BADPATH", "INVALID_NUMBER", "LEVELS_EXCEEDED"},
         Refused(code)
  PROVE  TypeInv'
  BY DEF TypeInv, PathTypeOK, ScanIsInside, Refused, Return, heapVars

LEMMA AddArrayIndexTypes ==
  ASSUME TypeInv, NEW ixnum \in Int, NEW next \in Nat, AddArrayIndex(ixnum, next)
  PROVE  TypeInv'
  <1>1. CASE ~Room /\ Refused("LEVELS_EXCEEDED")
    BY <1>1, RefusedTypes
  <1>2. CASE Room /\ ~(~Room /\ Refused("LEVELS_EXCEEDED"))
    <2>1. /\ components' = Append(components, NumericHere(ixnum))
          /\ has_negix' = (has_negix \/ ixnum = -1)
          /\ ii' \in Nat \ {0} /\ ppc' \in {"NEXT", "DONE"}
          /\ perr' \in {perr, "JPR_BADPATH"}
          /\ UNCHANGED <<ptext, scan, heapVars>>
      BY <1>2 DEF AddArrayIndex, Return, TypeInv, PathTypeOK
    <2>2. components' \in Seq(ParsedInfo)
      BY <2>1, NewComponents, IntMaxAssumption, AppendProperties DEF TypeInv, PathTypeOK
    <2>3. has_negix' \in BOOLEAN
      BY <2>1 DEF TypeInv, PathTypeOK
    <2> QED
      BY <2>1, <2>2, <2>3 DEF TypeInv, PathTypeOK, ScanIsInside, heapVars
  <1> QED
    BY <1>1, <1>2 DEF AddArrayIndex

LEMMA AddStringTypes ==
  ASSUME TypeInv, NEW key \in KeyPointer, NEW next \in Nat \ {0}, AddString(key, next)
  PROVE  TypeInv'
  <1>1. components' \in Seq(ParsedInfo)
    BY NewComponents, IntMaxAssumption, AppendProperties DEF TypeInv, PathTypeOK, AddString
  <1> QED
    BY <1>1 DEF TypeInv, PathTypeOK, ScanIsInside, AddString, heapVars

LEMMA BeginConvertTypes ==
  ASSUME TypeInv, NEW first \in Nat \ {0}, NEW past \in Nat, NEW next \in Nat \ {0},
         past <= Len(ptext) + 1, Room, Len(components) <= MaxComponents,
         BeginConvert(first, past, next)
  PROVE  TypeInv'
  <1>1. scan' \in Scan
    BY DEF BeginConvert, TypeInv, PathTypeOK, Scan
  <1>2. /\ strings' \in Seq(Seq(STRING)) /\ Taken \in 1 .. Len(strings')
        /\ Len(strings) <= Len(strings')
        /\ m_cached' \in Seq(1 .. Len(strings))
    <2>1. CASE m_cached = <<>>
      <3>1. /\ strings' = Append(strings, <<>>) /\ Taken = Len(strings) + 1
            /\ m_cached' = <<>> /\ strings \in Seq(Seq(STRING)) /\ <<>> \in Seq(STRING)
        BY <2>1, EmptySeq DEF BeginConvert, Taken, CachedLeft, TypeInv, PathTypeOK
      <3>2. strings' \in Seq(Seq(STRING)) /\ Len(strings') = Len(strings) + 1
        BY <3>1, AppendProperties
      <3>3. Len(strings) \in Nat
        BY <3>1, LenProperties
      <3> QED
        BY <3>1, <3>2, <3>3, EmptySeq
    <2>2. CASE m_cached # <<>>
      <3>1. /\ strings' = strings /\ Taken = Last(m_cached) /\ m_cached' = Front(m_cached)
            /\ strings \in Seq(Seq(STRING)) /\ m_cached \in Seq(1 .. Len(strings))
        BY <2>2 DEF BeginConvert, Taken, CachedLeft, TypeInv, PathTypeOK
      <3>2. /\ Last(m_cached) \in 1 .. Len(strings)
            /\ Front(m_cached) \in Seq(1 .. Len(strings))
        BY <2>2, <3>1, FrontAndLast
      <3>3. Len(strings) \in Nat
        BY <3>1, LenProperties
      <3> QED
        BY <3>1, <3>2, <3>3
    <2> QED
      BY <2>1, <2>2
  <1>3. m_used' \in Seq(1 .. Len(strings')) /\ m_used' # <<>>
    <2>1. m_used \in Seq(1 .. Len(strings'))
      BY <1>2, SeqMonotonic DEF TypeInv, PathTypeOK
    <2> QED
      BY <1>2, <2>1, AppendProperties DEF BeginConvert
  <1>4. m_cached' \in Seq(1 .. Len(strings'))
    BY <1>2, SeqMonotonic
  <1>5. Len(components) < MaxComponents
    BY MaxComponentsAssumption DEF Room, TypeInv, PathTypeOK
  <1> QED
    BY <1>1, <1>2, <1>3, <1>4, <1>5
    DEF BeginConvert, TypeInv, PathTypeOK, ScanIsInside, Scan

LEMMA AddStrComponentTypes ==
  ASSUME TypeInv, NEW len \in Nat, NEW n_backticks \in Nat, NEW next \in Nat \ {0},
         ii + len <= Len(ptext) + 1, Len(components) <= MaxComponents,
         AddStrComponent(len, n_backticks, next)
  PROVE  TypeInv'
  <1> DEFINE first  == IF IsTicked(len) THEN ii + 1 ELSE ii
             length == IF IsTicked(len) THEN len - 2 ELSE len
  <1>1. /\ first \in Nat \ {0} /\ length \in Nat /\ first + length \in Nat
        /\ first + length <= Len(ptext) + 1
    BY DEF IsTicked, TypeInv, PathTypeOK
  <1>2. CASE Refused("LEVELS_EXCEEDED") \/ Refused("JPR_BADPATH")
    BY <1>2, RefusedTypes
  <1>3. CASE AddString(Slice(first, length), next)
    BY <1>1, <1>3, NewComponents, IntMaxAssumption, AddStringTypes
  <1>4. CASE Room /\ BeginConvert(first, first + length, next)
    BY <1>1, <1>4, BeginConvertTypes
  <1> QED
    BY <1>2, <1>3, <1>4 DEF AddStrComponent

-----------------------------------------------------------------------------
LEMMA ConvertCharTypes ==
  ASSUME TypeInv, ConvertChar
  PROVE  TypeInv'
  <1>1. /\ scan.at \in 1 .. Len(ptext) /\ m_used # <<>>
        /\ ptext \in Seq(STRING) /\ strings \in Seq(Seq(STRING))
        /\ m_used \in Seq(1 .. Len(strings))
    BY SMTT(30) DEF ConvertChar, TypeInv, PathTypeOK, ScanIsInside, Scan
  <1>2. Last(m_used) \in 1 .. Len(strings) /\ ptext[scan.at] \in STRING
    BY <1>1, FrontAndLast, ElementOfSeq
  <1>3. strings' \in Seq(Seq(STRING)) /\ Len(strings') = Len(strings)
    <2>1. CASE AtTick /\ ~Doubled
      BY <1>1, <2>1 DEF ConvertChar
    <2>2. CASE ~(AtTick /\ ~Doubled)
      <3>1. strings[Last(m_used)] \in Seq(STRING)
        BY <1>1, <1>2, ElementOfSeq
      <3>2. Append(strings[Last(m_used)], ptext[scan.at]) \in Seq(STRING)
        BY <1>2, <3>1, AppendProperties
      <3>3. strings' = [strings EXCEPT ![Last(m_used)] =
                          Append(strings[Last(m_used)], ptext[scan.at])]
        BY <2>2 DEF ConvertChar
      <3> QED
        BY <1>1, <1>2, <3>2, <3>3, ExceptSeq
    <2> QED
      BY <2>1, <2>2
  <1>4. scan' \in Scan /\ scan'.at # 0 /\ scan'.past = scan.past /\ scan'.next = scan.next
    <2>1. Width \in 1 .. 2
      BY DEF Width
    <2>2. scan \in Scan /\ scan.at \in Nat \ {0}
      BY <1>1 DEF TypeInv, PathTypeOK
    <2>4. scan.at + Width \in Nat /\ scan.at + Width # 0
      BY <2>1, <2>2
    <2>3. scan' = [scan EXCEPT !.at = scan.at + Width]
      BY DEF ConvertChar
    <2> QED
      BY <2>2, <2>3, <2>4, ScanMoves
  <1> QED
    BY <1>3, <1>4 DEF ConvertChar, TypeInv, PathTypeOK, ScanIsInside

(* A key that has been converted is a key. *)
LEMMA OwnedKey ==
  ASSUME TypeInv, ppc = "CONVERT"
  PROVE  Owned(Last(m_used), Len(Converted)) \in KeyPointer
  <1>1. /\ m_used # <<>> /\ strings \in Seq(Seq(STRING)) /\ m_used \in Seq(1 .. Len(strings))
    BY DEF TypeInv, PathTypeOK, ScanIsInside
  <1>2. Last(m_used) \in 1 .. Len(strings)
    BY <1>1, FrontAndLast
  <1>3. Converted \in Seq(STRING)
    BY <1>1, <1>2, ElementOfSeq DEF Converted
  <1>4. Len(Converted) \in Nat /\ Last(m_used) \in Nat
    BY <1>1, <1>2, <1>3, LenProperties
  <1> QED
    BY <1>4, NewComponents, IntMaxAssumption

LEMMA ConvertEndTypes ==
  ASSUME TypeInv, ConvertEnd
  PROVE  TypeInv'
  <1>1. scan.next \in Nat \ {0}
    BY DEF ConvertEnd, TypeInv, PathTypeOK, ScanIsInside, Scan
  <1> QED
    BY <1>1, OwnedKey, AddStringTypes DEF ConvertEnd

LEMMA BracketTypes ==
  ASSUME TypeInv, BeginBracket \/ NegativeIndex \/ IndexDigit \/ IndexEnd
  PROVE  TypeInv'
  <1>0. ii \in Nat \ {0} /\ scan \in Scan /\ ptext \in Seq(STRING)
    BY DEF TypeInv, PathTypeOK
  <1>1. \A close \in Nat : AfterBracket(close) \in Nat
    BY DEF AfterBracket
  <1>2. CASE BeginBracket
    <2>1. CASE Refused("JPR_BADPATH")
      BY <2>1, RefusedTypes
    <2>2. CASE ~Refused("JPR_BADPATH")
      <3>1. scan' \in Scan
        <4>1. scan' = [BlankScan EXCEPT !.at = ii + 1]
          BY <1>2, <2>2 DEF BeginBracket
        <4>2. BlankScan \in Scan
          BY NewComponents, IntMaxAssumption
        <4>3. ii + 1 \in Nat
          BY <1>0
        <4> QED
          BY <4>1, <4>2, <4>3, ScanMoves
      <3> QED
        BY <1>2, <2>2, <3>1 DEF BeginBracket, TypeInv, PathTypeOK, ScanIsInside, heapVars
    <2> QED
      BY <2>1, <2>2
  <1>3. CASE NegativeIndex
    BY <1>0, <1>1, <1>3, RefusedTypes, AddArrayIndexTypes DEF NegativeIndex
  <1>4. CASE IndexDigit
    <2>1. CASE Refused("INVALID_NUMBER")
      BY <2>1, RefusedTypes
    <2>2. CASE ~Refused("INVALID_NUMBER")
      <3>1. ptext[scan.at] \in Digit /\ scan.numval \in Nat
        BY <1>0, <1>4, <2>2, ModulusIsNat DEF IndexDigit, Scan
      <3>2. scan.numval * 10 + DigitOf(ptext[scan.at]) \in Nat
        BY <3>1, DigitsAreSmall
      <3>3. NextValue \in 0 .. Modulus - 1
        BY <3>2, ModulusIsNat DEF NextValue
      <3>4. scan' \in Scan
        <4>1. scan' = [scan EXCEPT !.at = scan.at + 1, !.numval = NextValue]
          BY <1>4, <2>2 DEF IndexDigit
        <4>2. scan.at + 1 \in Nat
          BY <1>0 DEF Scan
        <4> QED
          BY <1>0, <3>3, <4>1, <4>2, ScanCounts
      <3> QED
        BY <1>4, <2>2, <3>4 DEF IndexDigit, TypeInv, PathTypeOK, ScanIsInside, heapVars
    <2> QED
      BY <2>1, <2>2
  <1>5. CASE IndexEnd
    <2>1. AsLong(scan.numval) \in Int /\ scan.at \in Nat
      BY <1>0, ModulusIsNat DEF AsLong, Scan
    <2> QED
      BY <1>1, <1>5, <2>1, AddArrayIndexTypes DEF IndexEnd
  <1> QED
    BY <1>2, <1>3, <1>4, <1>5

LEMMA StringTypes ==
  ASSUME TypeInv, Len(components) <= MaxComponents, BeginString \/ PathChar \/ PathStringEnd
  PROVE  TypeInv'
  <1>0. /\ ii \in Nat \ {0} /\ scan \in Scan /\ ptext \in Seq(STRING) /\ Len(ptext) \in Nat
        /\ scan.at \in Nat /\ scan.n_backticks \in Nat
    BY LenProperties DEF TypeInv, PathTypeOK, Scan
  <1>1. CASE BeginString
    <2>1. scan' = [BlankScan EXCEPT !.at = ii] /\ BlankScan \in Scan
      BY <1>1, NewComponents, IntMaxAssumption DEF BeginString
    <2>2. scan' \in Scan /\ scan'.at = ii
      BY <1>0, <2>1, ScanMoves
    <2> QED
      BY <1>0, <1>1, <2>2 DEF BeginString, TypeInv, PathTypeOK, ScanIsInside, heapVars
  <1>2. CASE PathChar
    <2>1. CASE Refused("JPR_BADPATH")
      BY <2>1, RefusedTypes
    <2>2. CASE \E next \in {scan.at, scan.at + 1} :
                 AddStrComponent(scan.at - ii, scan.n_backticks, next)
      <3>1. scan.at - ii \in Nat /\ scan.at <= Len(ptext) /\ scan.at # 0
        BY <1>0, <1>2 DEF PathChar, TypeInv, ScanIsInside
      <3> QED
        BY <1>0, <2>2, <3>1, AddStrComponentTypes
    <2>3. CASE /\ scan' = Scanned(ptext[scan.at])
               /\ UNCHANGED <<ptext, ii, components, has_negix, heapVars, ppc, perr>>
      <3>1. scan' \in Scan /\ scan'.at = scan.at + 1
        <4> DEFINE ch   == ptext[scan.at]
                   json == ~scan.in_json_escape /\ ch = Bslash
                   n1ql == IF ch = Tick THEN ~scan.in_n1ql_escape ELSE scan.in_n1ql_escape
                   n    == IF ch = Tick THEN scan.n_backticks + 1 ELSE scan.n_backticks
        <4>1. json \in BOOLEAN
          OBVIOUS
        <4>3. n1ql \in BOOLEAN
          BY <1>0 DEF Scan
        <4>4. n \in Nat /\ scan.at + 1 \in Nat
          BY <1>0
        <4>2. scan' = [scan EXCEPT !.at = scan.at + 1, !.in_json_escape = json,
                         !.in_n1ql_escape = n1ql, !.n_backticks = n]
          BY <2>3 DEF Scanned
        <4> HIDE DEF json, n1ql, n
        <4> QED
          <5>1. PICK j \in BOOLEAN, q \in BOOLEAN, k \in Nat :
                   scan' = [scan EXCEPT !.at = scan.at + 1, !.in_json_escape = j,
                              !.in_n1ql_escape = q, !.n_backticks = k]
            BY <4>1, <4>2, <4>3, <4>4, Zenon
          <5>2. scan.at + 1 \in Nat
            BY <4>4
          <5> DEFINE at == scan.at + 1
          <5> HIDE DEF at
          <5> QED
            BY <1>0, <5>1, <5>2 DEF Scan, at
      <3> QED
        BY <1>0, <1>2, <2>3, <3>1 DEF PathChar, TypeInv, PathTypeOK, ScanIsInside, heapVars
    <2> QED
      BY <1>2, <2>1, <2>2, <2>3 DEF PathChar
  <1>3. CASE PathStringEnd
    <2>1. CASE Refused("JPR_BADPATH")
      BY <2>1, RefusedTypes
    <2>2. CASE AddStrComponent(Len(ptext) + 1 - ii, scan.n_backticks, Len(ptext) + 1)
      <3>1. Len(ptext) + 1 - ii \in Nat
        BY <1>0, <1>3 DEF PathStringEnd, TypeInv, ScanIsInside
      <3> QED
        BY <1>0, <2>2, <3>1, AddStrComponentTypes
    <2> QED
      BY <1>3, <2>1, <2>2 DEF PathStringEnd
  <1> QED
    BY <1>1, <1>2, <1>3

LEMMA PathTypes ==
  ASSUME TypeInv, ParseText \/ ParseEnd \/ PathClear \/ PathNew
  PROVE  TypeInv'
  <1>0. /\ BlankScan \in Scan /\ <<>> \in Seq(STRING) /\ <<RootHere>> \in Seq(ParsedInfo)
        /\ EmptyHere \in ParsedInfo
    BY NewComponents, IntMaxAssumption, EmptySeq
  <1>1. CASE ParseText
    <2>1. PICK bytes \in Seq(STRING) : Parse(bytes)
      BY <1>1 DEF ParseText
    <2>2. /\ ptext' \in Seq(STRING) /\ ii' = 1 /\ scan' \in Scan
          /\ components' \in Seq(ParsedInfo) /\ ppc' = "NEXT" /\ perr' = "SUCCESS"
      BY <1>0, <2>1 DEF Parse
    <2>3. has_negix' \in BOOLEAN
      BY <2>1 DEF Parse
    <2>4. UNCHANGED heapVars
      BY <2>1 DEF Parse
    <2> QED
      BY <2>2, <2>3, <2>4 DEF TypeInv, PathTypeOK, ScanIsInside, heapVars
  <1>2. CASE ParseEnd
    BY <1>2, RefusedTypes DEF ParseEnd
  <1>3. CASE PathClear
    <2>1. /\ components \in Seq(ParsedInfo) /\ Len(components) \in Nat
          /\ strings \in Seq(Seq(STRING)) /\ Len(strings) \in Nat
          /\ m_used \in Seq(1 .. Len(strings)) /\ m_cached \in Seq(1 .. Len(strings))
      BY LenProperties DEF TypeInv, PathTypeOK
    <2>2. components' \in Seq(ParsedInfo)
      <3>1. components' \in [1 .. Len(components) -> ParsedInfo]
        BY <1>0, <1>3, <2>1, ElementOfSeq DEF PathClear
      <3> QED
        BY <2>1, <3>1, MapIsSeq
    <2>3. strings' \in Seq(Seq(STRING)) /\ Len(strings') = Len(strings)
      <3>1. strings' \in [1 .. Len(strings) -> Seq(STRING)]
        BY <1>0, <1>3, <2>1, ElementOfSeq DEF PathClear
      <3> QED
        BY <2>1, <3>1, MapIsSeq
    <2>4. m_cached' \in Seq(1 .. Len(strings)) /\ m_used' \in Seq(1 .. Len(strings))
      BY <1>3, <2>1, ConcatProperties, EmptySeq DEF PathClear
    <2>5. /\ ptext' \in Seq(STRING) /\ ii' = 1 /\ scan' \in Scan
          /\ ppc' = "IDLE" /\ perr' = "SUCCESS" /\ UNCHANGED has_negix
      BY <1>0, <1>3 DEF PathClear
    <2> QED
      BY <2>2, <2>3, <2>4, <2>5 DEF TypeInv, PathTypeOK, ScanIsInside
  <1>4. CASE PathNew
    <2>1. /\ ptext' \in Seq(STRING) /\ ii' = 1 /\ scan' \in Scan
          /\ components' \in Seq(ParsedInfo) /\ strings' \in Seq(Seq(STRING))
          /\ m_used' \in Seq(1 .. Len(strings')) /\ m_cached' \in Seq(1 .. Len(strings'))
          /\ ppc' = "IDLE" /\ perr' = "SUCCESS"
      BY <1>0, <1>4, EmptySeq DEF PathNew
    <2>2. has_negix' \in BOOLEAN
      BY <1>4 DEF PathNew
    <2> QED
      BY <2>1, <2>2 DEF TypeInv, PathTypeOK, ScanIsInside
  <1> QED
    BY <1>1, <1>2, <1>3, <1>4

-----------------------------------------------------------------------------
LEMMA ShapeStands ==
  ASSUME ShapeIsRight, UNCHANGED <<components, has_negix>>, ppc # "IDLE"
  PROVE  ShapeIsRight'
  BY DEF ShapeIsRight

LEMMA ShapeGrows ==
  ASSUME TypeInv, ShapeIsRight, ppc # "IDLE", Len(components) < MaxComponents,
         NEW comp \in ParsedInfo, comp.ptype \in {"STRING", "NUMERIC"},
         components' = Append(components, comp), has_negix' <=> (has_negix \/ comp.is_neg)
  PROVE  ShapeIsRight'
  <1>1. /\ Len(components') = Len(components) + 1 /\ Len(components) \in Nat
        /\ components' # <<>> /\ components'[Len(components) + 1] = comp
        /\ \A i \in 1 .. Len(components) : components'[i] = components[i]
    <2>1. components \in Seq(ParsedInfo)
      BY DEF TypeInv, PathTypeOK
    <2> QED
      BY <2>1, AppendProperties, LenProperties
  <1>2. /\ components # <<>> /\ Len(components) >= 1 /\ components[1] = RootHere
        /\ \A i \in 2 .. Len(components) : components[i].ptype \in {"STRING", "NUMERIC"}
        /\ has_negix <=> \E i \in 1 .. Len(components) : components[i].is_neg
    BY EmptySeq DEF ShapeIsRight, TypeInv, PathTypeOK
  <1>3. Len(components') <= MaxComponents
    BY <1>1, MaxComponentsAssumption
  <1>4. components'[1] = RootHere
    BY <1>1, <1>2
  <1>5. \A i \in 2 .. Len(components') : components'[i].ptype \in {"STRING", "NUMERIC"}
    BY <1>1, <1>2
  <1>6. has_negix' <=> \E i \in 1 .. Len(components') : components'[i].is_neg
    BY <1>1, <1>2
  <1> QED
    BY <1>1, <1>3, <1>4, <1>5, <1>6 DEF ShapeIsRight

LEMMA RoomIsRoom ==
  ASSUME TypeInv, ShapeIsRight, Room
  PROVE  Len(components) < MaxComponents
  BY LenProperties, MaxComponentsAssumption DEF TypeInv, PathTypeOK, ShapeIsRight, Room

LEMMA RefusedShape ==
  ASSUME ShapeIsRight, ppc # "IDLE", NEW code, Refused(code)
  PROVE  ShapeIsRight'
  BY ShapeStands DEF Refused

LEMMA AddArrayIndexShape ==
  ASSUME TypeInv, ShapeIsRight, ppc # "IDLE", NEW ixnum \in Int, NEW next \in Nat,
         AddArrayIndex(ixnum, next)
  PROVE  ShapeIsRight'
  <1>1. CASE ~Room
    BY <1>1, RefusedShape DEF AddArrayIndex
  <1>2. CASE Room
    <2>1. /\ components' = Append(components, NumericHere(ixnum))
          /\ has_negix' <=> (has_negix \/ NumericHere(ixnum).is_neg)
      BY <1>2 DEF AddArrayIndex, NumericHere
    <2>2. NumericHere(ixnum) \in ParsedInfo /\ NumericHere(ixnum).ptype = "NUMERIC"
      BY NewComponents, IntMaxAssumption DEF NumericHere
    <2> QED
      BY <1>2, <2>1, <2>2, RoomIsRoom, ShapeGrows
  <1> QED
    BY <1>1, <1>2

LEMMA AddStringShape ==
  ASSUME TypeInv, ShapeIsRight, ppc # "IDLE", Len(components) < MaxComponents,
         NEW key \in KeyPointer, NEW next, AddString(key, next)
  PROVE  ShapeIsRight'
  <1>1. components' = Append(components, StringHere(key))
    BY DEF AddString
  <1>2. has_negix' <=> (has_negix \/ StringHere(key).is_neg)
    BY DEF AddString, StringHere
  <1>3. StringHere(key) \in ParsedInfo /\ StringHere(key).ptype = "STRING"
    BY NewComponents, IntMaxAssumption DEF StringHere
  <1> QED
    BY <1>1, <1>2, <1>3, ShapeGrows

LEMMA AddStrComponentShape ==
  ASSUME TypeInv, ShapeIsRight, ppc # "IDLE", NEW len \in Nat, NEW n_backticks, NEW next,
         AddStrComponent(len, n_backticks, next)
  PROVE  ShapeIsRight'
  <1> DEFINE first  == IF IsTicked(len) THEN ii + 1 ELSE ii
             length == IF IsTicked(len) THEN len - 2 ELSE len
  <1>1. first \in Nat /\ length \in Nat
    BY DEF IsTicked, TypeInv, PathTypeOK
  <1>2. CASE Refused("LEVELS_EXCEEDED") \/ Refused("JPR_BADPATH")
    BY <1>2, RefusedShape
  <1>3. CASE Room /\ AddString(Slice(first, length), next)
    BY <1>1, <1>3, NewComponents, IntMaxAssumption, AddStringShape, RoomIsRoom
  <1>4. CASE BeginConvert(first, first + length, next)
    BY <1>4, ShapeStands DEF BeginConvert
  <1> QED
    BY <1>2, <1>3, <1>4 DEF AddStrComponent

LEMMA ShapeStep ==
  ASSUME TypeInv, ShapeIsRight, PathStep
  PROVE  ShapeIsRight'
  <1>0. /\ ii \in Nat \ {0} /\ scan \in Scan /\ scan.at \in Nat /\ Len(ptext) \in Nat
        /\ components \in Seq(ParsedInfo) /\ Len(components) \in Nat
    BY LenProperties DEF TypeInv, PathTypeOK, Scan
  <1>1. CASE BeginBracket
    BY <1>1, RefusedShape, ShapeStands DEF BeginBracket
  <1>2. CASE NegativeIndex \/ IndexEnd
    <2>1. AsLong(scan.numval) \in Int
      BY <1>0, ModulusIsNat DEF AsLong, Scan
    <2>2. AfterBracket(ii + 3) \in Nat /\ AfterBracket(scan.at) \in Nat
      BY <1>0 DEF AfterBracket
    <2>3. CASE NegativeIndex
      BY <2>2, <2>3, RefusedShape, AddArrayIndexShape DEF NegativeIndex
    <2>4. CASE IndexEnd
      BY <2>1, <2>2, <2>4, AddArrayIndexShape DEF IndexEnd
    <2> QED
      BY <1>2, <2>3, <2>4
  <1>3. CASE IndexDigit
    BY <1>3, RefusedShape, ShapeStands DEF IndexDigit
  <1>4. CASE BeginString
    BY <1>4, ShapeStands DEF BeginString
  <1>5. CASE PathChar
    <2>1. CASE \E next : AddStrComponent(scan.at - ii, scan.n_backticks, next)
      <3>1. scan.at - ii \in Nat /\ ppc # "IDLE"
        BY <1>0, <1>5 DEF PathChar, TypeInv, ScanIsInside
      <3> QED
        BY <2>1, <3>1, AddStrComponentShape
    <2>2. CASE UNCHANGED <<components, has_negix>>
      BY <1>5, <2>2, ShapeStands DEF PathChar
    <2> QED
      BY <1>5, <2>1, <2>2 DEF PathChar, Refused
  <1>6. CASE PathStringEnd
    <2>1. CASE AddStrComponent(Len(ptext) + 1 - ii, scan.n_backticks, Len(ptext) + 1)
      <3>1. Len(ptext) + 1 - ii \in Nat /\ ppc # "IDLE"
        BY <1>0, <1>6 DEF PathStringEnd, TypeInv, ScanIsInside
      <3> QED
        BY <2>1, <3>1, AddStrComponentShape
    <2>2. CASE UNCHANGED <<components, has_negix>>
      BY <1>6, <2>2, ShapeStands DEF PathStringEnd
    <2> QED
      BY <1>6, <2>1, <2>2 DEF PathStringEnd, Refused
  <1>7. CASE ConvertChar
    BY <1>7, ShapeStands DEF ConvertChar
  <1>8. CASE ConvertEnd
    <2>1. Owned(Last(m_used), Len(Converted)) \in KeyPointer
      BY <1>8, OwnedKey DEF ConvertEnd
    <2> QED
      BY <1>8, <2>1, AddStringShape DEF ConvertEnd, TypeInv, ScanIsInside
  <1>9. CASE ParseEnd
    BY <1>9, RefusedShape DEF ParseEnd
  <1>10. CASE ParseText
    <2>1. components' = <<RootHere>> /\ has_negix' = FALSE
      BY <1>10 DEF ParseText, Parse
    <2> QED
      BY <2>1, MaxComponentsAssumption DEF ShapeIsRight, RootHere
  <1>11. CASE PathClear
    <2>1. ppc' = "IDLE" /\ Len(components') = Len(components)
      BY <1>0, <1>11 DEF PathClear
    <2>2. components' # <<>> => components'[1] = RootHere
      BY <1>0, <1>11, <2>1, EmptySeq DEF PathClear, ShapeIsRight
    <2> QED
      BY <2>1, <2>2 DEF ShapeIsRight
  <1>12. CASE PathNew
    BY <1>12, MaxComponentsAssumption DEF PathNew, ShapeIsRight
  <1> QED
    BY <1>1, <1>2, <1>3, <1>4, <1>5, <1>6, <1>7, <1>8, <1>9, <1>10, <1>11, <1>12
    DEF PathStep, ParseStep

-----------------------------------------------------------------------------
(* Whose key a component holds; 0 is the text. *)
Owner(i) == components[i].key.owner

LEMMA NothingMoves ==
  ASSUME TypeInv, StringsAreApart, UNCHANGED <<components, heapVars>>,
         ppc' = "CONVERT" => ppc = "CONVERT"
  PROVE  StringsAreApart'
  BY DEF StringsAreApart, heapVars, EachOnce

LEMMA ComponentFromText ==
  ASSUME TypeInv, StringsAreApart, UNCHANGED heapVars, ppc' # "CONVERT",
         NEW comp \in ParsedInfo, comp.key.owner = 0, components' = Append(components, comp)
  PROVE  StringsAreApart'
  <1>1. /\ Len(components') = Len(components) + 1 /\ Len(components) \in Nat
        /\ components'[Len(components) + 1] = comp
        /\ \A i \in 1 .. Len(components) : components'[i] = components[i]
    <2>1. components \in Seq(ParsedInfo)
      BY DEF TypeInv, PathTypeOK
    <2> QED
      BY <2>1, AppendProperties, LenProperties
  <1>2. \A i \in 1 .. Len(components') :
          components'[i].key.owner # 0 => i \in 1 .. Len(components)
    BY <1>1
  <1>3. \A i \in 1 .. Len(components') :
          components'[i].key.owner # 0 =>
            /\ \E k \in 1 .. Len(m_used) : m_used[k] = components'[i].key.owner
            /\ \A j \in 1 .. Len(components') :
                 components'[j].key.owner = components'[i].key.owner => i = j
    BY <1>1, <1>2 DEF StringsAreApart
  <1> QED
    BY <1>3 DEF StringsAreApart, heapVars, EachOnce

LEMMA ComponentFromString ==
  ASSUME TypeInv, StringsAreApart, ConvertEnd
  PROVE  StringsAreApart'
  <1> DEFINE comp == StringHere(Owned(Last(m_used), Len(Converted)))
  <1>1. /\ Len(components') = Len(components) + 1 /\ Len(components) \in Nat
        /\ components'[Len(components) + 1] = comp
        /\ \A i \in 1 .. Len(components) : components'[i] = components[i]
    <2>1. components \in Seq(ParsedInfo)
      BY DEF TypeInv, PathTypeOK
    <2>2. comp \in ParsedInfo
      BY OwnedKey, NewComponents, IntMaxAssumption DEF ConvertEnd
    <2>3. components' = Append(components, comp)
      BY DEF ConvertEnd, AddString
    <2> HIDE DEF comp
    <2> QED
      BY <2>1, <2>2, <2>3, AppendProperties, LenProperties
  <1>2. comp.key.owner = Last(m_used)
    BY DEF StringHere, Owned
  <1>3. \E k \in 1 .. Len(m_used) : m_used[k] = Last(m_used)
    <2>1. m_used # <<>> /\ m_used \in Seq(1 .. Len(strings))
      BY DEF ConvertEnd, TypeInv, PathTypeOK, ScanIsInside
    <2>2. Last(m_used) = m_used[Len(m_used)] /\ Len(m_used) \in Nat \ {0}
      BY <2>1, FrontAndLast
    <2> QED
      BY <2>2
  <1>4. \A i \in 1 .. Len(components) : Owner(i) # Last(m_used)
    <2>1. ppc = "CONVERT"
      BY DEF ConvertEnd
    <2>2. \A k \in 1 .. Len(m_used) : m_used[k] # 0
      BY ElementOfSeq DEF TypeInv, PathTypeOK
    <2> QED
      BY <1>3, <2>1, <2>2 DEF StringsAreApart, Owner
  <1> HIDE DEF comp
  <1>5. ppc' = "NEXT" /\ UNCHANGED heapVars
    BY DEF ConvertEnd, AddString
  <1>6. \A i \in 1 .. Len(components') :
          components'[i].key.owner # 0 =>
            /\ \E k \in 1 .. Len(m_used) : m_used[k] = components'[i].key.owner
            /\ \A j \in 1 .. Len(components') :
                 components'[j].key.owner = components'[i].key.owner => i = j
    BY <1>1, <1>2, <1>3, <1>4 DEF StringsAreApart, Owner
  <1> QED
    BY <1>5, <1>6 DEF StringsAreApart, heapVars, EachOnce

LEMMA BeginConvertStrings ==
  ASSUME TypeInv, StringsAreApart, NEW first, NEW past, NEW next, BeginConvert(first, past, next)
  PROVE  StringsAreApart'
  <1>0. /\ m_used \in Seq(1 .. Len(strings)) /\ m_cached \in Seq(1 .. Len(strings))
        /\ strings \in Seq(Seq(STRING))
        /\ Len(strings) \in Nat /\ Len(m_used) \in Nat /\ Len(m_cached) \in Nat
    BY LenProperties DEF TypeInv, PathTypeOK
  <1>1. /\ m_used' = Append(m_used, Taken) /\ ppc' = "CONVERT" /\ components' = components
        /\ m_cached' = CachedLeft
    BY DEF BeginConvert
  (* Neither in use nor among those that stay free. *)
  <1>2. /\ Taken \in Nat \ {0}
        /\ \A k \in 1 .. Len(m_used) : m_used[k] # Taken
        /\ \A i \in 1 .. Len(m_cached') :
             /\ i \in 1 .. Len(m_cached) /\ m_cached'[i] = m_cached[i]
             /\ m_cached'[i] # Taken /\ strings'[m_cached'[i]] = <<>>
    <2>1. CASE m_cached = <<>>
      <3>1. Taken = Len(strings) + 1 /\ Len(m_cached') = 0
        BY <1>1, <2>1 DEF Taken, CachedLeft
      <3>2. \A k \in 1 .. Len(m_used) : m_used[k] \in 1 .. Len(strings)
        BY <1>0, ElementOfSeq
      <3> QED
        BY <1>0, <3>1, <3>2
    <2>2. CASE m_cached # <<>>
      <3>1. /\ Taken = m_cached[Len(m_cached)] /\ Taken \in 1 .. Len(strings)
            /\ Len(m_cached) \in Nat \ {0} /\ Len(m_cached') = Len(m_cached) - 1
            /\ \A i \in 1 .. Len(m_cached) - 1 : m_cached'[i] = m_cached[i]
        BY <1>0, <1>1, <2>2, FrontAndLast DEF Taken, CachedLeft
      <3>2. strings' = strings
        BY <2>2 DEF BeginConvert
      <3> QED
        BY <1>0, <3>1, <3>2, SMTT(30) DEF StringsAreApart, EachOnce
    <2> QED
      BY <2>1, <2>2
  <1>3. /\ Len(m_used') = Len(m_used) + 1 /\ m_used'[Len(m_used) + 1] = Taken
        /\ \A k \in 1 .. Len(m_used) : m_used'[k] = m_used[k]
    <2>1. m_used \in Seq(Nat) /\ Taken \in Nat
      BY <1>0, <1>2, SeqMonotonic
    <2> QED
      BY <1>1, <2>1, AppendProperties
  <1>8. \A k \in 1 .. Len(m_used') : k \in 1 .. Len(m_used) \/ m_used'[k] = Taken
    BY <1>0, <1>3
  <1>9. \A k \in 1 .. Len(m_used') : k \notin 1 .. Len(m_used) => k = Len(m_used) + 1
    BY <1>0, <1>3
  <1>4. EachOnce(m_used') /\ EachOnce(m_cached')
    <2>1. /\ \A i, j \in 1 .. Len(m_used) : m_used[i] = m_used[j] => i = j
          /\ \A i, j \in 1 .. Len(m_cached) : m_cached[i] = m_cached[j] => i = j
      BY DEF StringsAreApart, EachOnce
    <2>2. \A i, j \in 1 .. Len(m_used') : m_used'[i] = m_used'[j] => i = j
      BY <1>2, <1>3, <1>8, <1>9, <2>1
    <2>3. \A i, j \in 1 .. Len(m_cached') : m_cached'[i] = m_cached'[j] => i = j
      BY <1>2, <2>1
    <2> QED
      BY <2>2, <2>3 DEF EachOnce
  <1>5. \A i \in 1 .. Len(m_cached') :
          /\ strings'[m_cached'[i]] = <<>>
          /\ \A k \in 1 .. Len(m_used') : m_used'[k] # m_cached'[i]
    <2>1. \A i \in 1 .. Len(m_cached) : \A k \in 1 .. Len(m_used) : m_used[k] # m_cached[i]
      BY DEF StringsAreApart
    <2> QED
      BY <1>2, <1>3, <1>8, <2>1
  <1>6. Last(m_used') = Taken
    BY <1>3 DEF Last
  <1>7. \A i \in 1 .. Len(components) :
          Owner(i) # 0 =>
            /\ \E k \in 1 .. Len(m_used') : m_used'[k] = Owner(i)
            /\ \A j \in 1 .. Len(components) : Owner(j) = Owner(i) => i = j
            /\ Owner(i) # Taken
    <2>1. \A i \in 1 .. Len(components) :
            Owner(i) # 0 =>
              /\ \E k \in 1 .. Len(m_used) : m_used[k] = Owner(i)
              /\ \A j \in 1 .. Len(components) : Owner(j) = Owner(i) => i = j
      BY DEF StringsAreApart, Owner
    <2>2. \A k \in 1 .. Len(m_used) : k \in 1 .. Len(m_used') /\ m_used'[k] = m_used[k]
      BY <1>0, <1>3
    <2> QED
      BY <1>2, <2>1, <2>2
  <1> QED
    BY <1>1, <1>4, <1>5, <1>6, <1>7 DEF StringsAreApart, Owner

LEMMA ConvertCharStrings ==
  ASSUME TypeInv, StringsAreApart, ConvertChar
  PROVE  StringsAreApart'
  <1>1. /\ UNCHANGED <<components, m_used, m_cached, ppc>>
        /\ strings \in Seq(Seq(STRING)) /\ m_used # <<>> /\ m_used \in Seq(1 .. Len(strings))
        /\ m_cached \in Seq(1 .. Len(strings))
    BY DEF ConvertChar, TypeInv, PathTypeOK, ScanIsInside
  <1>2. /\ Last(m_used) = m_used[Len(m_used)] /\ Len(m_used) \in 1 .. Len(m_used)
    <2>1. Last(m_used) = m_used[Len(m_used)] /\ Len(m_used) \in Nat \ {0}
      BY <1>1, FrontAndLast
    <2> QED
      BY <2>1
  <1>3. \A id : id # Last(m_used) => strings'[id] = strings[id]
    BY <1>1 DEF ConvertChar
  <1>4. \A i \in 1 .. Len(m_cached) : strings'[m_cached[i]] = <<>>
    BY <1>2, <1>3 DEF StringsAreApart
  <1> QED
    BY <1>1, <1>4 DEF StringsAreApart, EachOnce

(* clear() joins two lists without repetitions and without a common element. *)
LEMMA PathClearStrings ==
  ASSUME TypeInv, ShapeIsRight, StringsAreApart, PathClear
  PROVE  StringsAreApart'
  <1>0. /\ m_used \in Seq(1 .. Len(strings)) /\ m_cached \in Seq(1 .. Len(strings))
        /\ components \in Seq(ParsedInfo) /\ Len(components) \in Nat
    BY LenProperties DEF TypeInv, PathTypeOK
  <1>1. /\ m_used' = <<>> /\ Len(m_used') = 0 /\ ppc' = "IDLE"
        /\ m_cached' = m_used \o m_cached
    BY DEF PathClear
  <1>2. /\ EachOnce(m_cached')
        /\ \A i \in 1 .. Len(m_cached') :
             \/ \E k \in 1 .. Len(m_used) : m_cached'[i] = m_used[k]
             \/ \E k \in 1 .. Len(m_cached) : m_cached'[i] = m_cached[k]
    <2> DEFINE m == Len(m_used)
               n == Len(m_cached)
    <2>1. m \in Nat /\ n \in Nat
      BY <1>0, LenProperties
    <2>2. /\ Len(m_cached') = m + n
          /\ \A i \in 1 .. m + n :
               m_cached'[i] = IF i <= m THEN m_used[i] ELSE m_cached[i - m]
      BY <1>0, <1>1, ConcatProperties
    <2>3. /\ \A i, j \in 1 .. m : m_used[i] = m_used[j] => i = j
          /\ \A i, j \in 1 .. n : m_cached[i] = m_cached[j] => i = j
          /\ \A i \in 1 .. n : \A k \in 1 .. m : m_used[k] # m_cached[i]
      BY DEF StringsAreApart, EachOnce
    <2>4. Len(m_used) = m /\ Len(m_cached) = n
      OBVIOUS
    <2> HIDE DEF m, n
    <2>5. \A i \in 1 .. m + n :
            \/ i \in 1 .. m /\ m_cached'[i] = m_used[i]
            \/ i - m \in 1 .. n /\ m_cached'[i] = m_cached[i - m]
      BY <2>1, <2>2
    <2>6. ASSUME NEW i \in 1 .. m + n, NEW j \in 1 .. m + n, m_cached'[i] = m_cached'[j]
          PROVE  i = j
      <3>1. CASE i \in 1 .. m /\ m_cached'[i] = m_used[i]
        <4>1. j \in 1 .. m /\ m_cached'[j] = m_used[j]
          BY <2>3, <2>5, <2>6, <3>1
        <4> QED
          BY <2>3, <2>6, <3>1, <4>1
      <3>2. CASE i - m \in 1 .. n /\ m_cached'[i] = m_cached[i - m]
        <4>1. j - m \in 1 .. n /\ m_cached'[j] = m_cached[j - m]
          BY <2>3, <2>5, <2>6, <3>2
        <4>2. i - m = j - m
          BY <2>3, <2>6, <3>2, <4>1
        <4> QED
          BY <2>1, <4>2
      <3> QED
        BY <2>5, <3>1, <3>2
    <2>7. EachOnce(m_cached')
      BY <2>2, <2>6 DEF EachOnce
    <2> QED
      BY <2>2, <2>4, <2>5, <2>7
  <1>3. \A i \in 1 .. Len(m_cached') : strings'[m_cached'[i]] = <<>>
    <2>1. strings' = [id \in 1 .. Len(strings) |->
                        IF id \in ToSet(m_used) THEN <<>> ELSE strings[id]]
      BY DEF PathClear
    <2>2. \A k \in 1 .. Len(m_used) : m_used[k] \in ToSet(m_used) /\ m_used[k] \in 1 .. Len(strings)
      BY <1>0, ElementOfSeq, LenProperties DEF ToSet
    <2>3. \A i \in 1 .. Len(m_cached) : strings[m_cached[i]] = <<>> /\ m_cached[i] \in 1 .. Len(strings)
      BY <1>0, ElementOfSeq DEF StringsAreApart
    <2>4. /\ \A k \in 1 .. Len(m_used) : strings'[m_used[k]] = <<>>
          /\ \A i \in 1 .. Len(m_cached) : strings'[m_cached[i]] = <<>>
      BY <2>1, <2>2, <2>3
    <2> QED
      BY <1>2, <2>4
  <1>4. \A i \in 1 .. Len(components') : components'[i].key.owner = 0
    <2>1. components' = [i \in 1 .. Len(components) |->
                          IF i = 1 THEN components[1] ELSE EmptyHere]
      BY DEF PathClear
    <2>2. Len(components') = Len(components)
      BY <1>0, <2>1
    <2>3. EmptyHere.key.owner = 0 /\ RootHere.key.owner = 0
      BY DEF EmptyHere, RootHere, NullKey
    <2>4. components # <<>> => components[1] = RootHere
      BY DEF ShapeIsRight
    <2>5. 1 \in 1 .. Len(components) => components # <<>>
      BY <1>0
    <2>6. TAKE i \in 1 .. Len(components')
    <2>7. components'[i] = IF i = 1 THEN components[1] ELSE EmptyHere
      BY <2>1, <2>2
    <2> QED
      BY <2>2, <2>3, <2>4, <2>5, <2>7
  <1>5. EachOnce(m_used')
    BY <1>1 DEF EachOnce
  <1>6. \A i \in 1 .. Len(m_cached') :
          /\ strings'[m_cached'[i]] = <<>>
          /\ \A k \in 1 .. Len(m_used') : m_used'[k] # m_cached'[i]
    <2> QED
      BY <1>1, <1>3
  <1> QED
    BY <1>2, <1>4, <1>5, <1>6 DEF StringsAreApart, EachOnce

LEMMA StringsStep ==
  ASSUME TypeInv, ShapeIsRight, StringsAreApart, PathStep
  PROVE  StringsAreApart'
  <1>1. CASE /\ UNCHANGED <<components, heapVars>> /\ (ppc' = "CONVERT" => ppc = "CONVERT")
    BY <1>1, NothingMoves
  <1>2. CASE NegativeIndex \/ IndexEnd
    <2>1. CASE \E code : Refused(code)
      BY <2>1, NothingMoves DEF Refused, Return
    <2>2. ASSUME NEW ixnum \in Int, NEW next, AddArrayIndex(ixnum, next)
          PROVE  StringsAreApart'
      <3>1. CASE ~Room
        BY <2>1, <2>2, <3>1 DEF AddArrayIndex
      <3>2. CASE Room
        <4>1. /\ components' = Append(components, NumericHere(ixnum))
              /\ UNCHANGED heapVars /\ ppc' # "CONVERT"
          BY <2>2, <3>2 DEF AddArrayIndex, Return
        <4>2. NumericHere(ixnum) \in ParsedInfo /\ NumericHere(ixnum).key.owner = 0
          BY NewComponents, IntMaxAssumption DEF NumericHere, NullKey
        <4> QED
          BY <4>1, <4>2, ComponentFromText
      <3> QED
        BY <3>1, <3>2
    <2>3. AsLong(scan.numval) \in Int
      BY ModulusIsNat DEF AsLong, TypeInv, PathTypeOK, Scan
    <2>4. CASE NegativeIndex
      BY <2>1, <2>2, <2>4 DEF NegativeIndex
    <2>5. CASE IndexEnd
      BY <2>2, <2>3, <2>5 DEF IndexEnd
    <2> QED
      BY <1>2, <2>4, <2>5
  <1>3. ASSUME NEW len \in Nat, NEW n_backticks, NEW next,
               AddStrComponent(len, n_backticks, next)
        PROVE  StringsAreApart'
    <2> DEFINE first  == IF IsTicked(len) THEN ii + 1 ELSE ii
               length == IF IsTicked(len) THEN len - 2 ELSE len
    <2>2. CASE Refused("LEVELS_EXCEEDED") \/ Refused("JPR_BADPATH")
      BY <2>2, NothingMoves DEF Refused, Return
    <2>3. CASE AddString(Slice(first, length), next)
      <3>1. first \in Nat /\ length \in Nat
        BY DEF IsTicked, TypeInv, PathTypeOK
      <3>2. StringHere(Slice(first, length)) \in ParsedInfo
        BY <3>1, NewComponents, IntMaxAssumption
      <3>3. StringHere(Slice(first, length)).key.owner = 0
        BY DEF StringHere, Slice
      <3>4. /\ components' = Append(components, StringHere(Slice(first, length)))
            /\ UNCHANGED heapVars /\ ppc' = "NEXT"
        BY <2>3 DEF AddString
      <3> QED
        BY <3>2, <3>3, <3>4, ComponentFromText
    <2>4. CASE BeginConvert(first, first + length, next)
      BY <2>4, BeginConvertStrings
    <2> QED
      BY <1>3, <2>2, <2>3, <2>4 DEF AddStrComponent
  <1>4. CASE ConvertChar
    BY <1>4, ConvertCharStrings
  <1>5. CASE ConvertEnd
    BY <1>5, ComponentFromString
  <1>6. CASE ParseText
    <2>1. components' = <<RootHere>> /\ UNCHANGED <<strings, m_used, m_cached>> /\ ppc' = "NEXT"
      BY <1>6 DEF ParseText, Parse, heapVars
    <2>2. Len(components') = 1 /\ components'[1].key.owner = 0
      BY <2>1 DEF RootHere, NullKey
    <2>3. \A i \in 1 .. Len(components') : components'[i].key.owner = 0
      BY <2>2
    <2>4. /\ EachOnce(m_used)' /\ EachOnce(m_cached)'
          /\ \A i \in 1 .. Len(m_cached') :
               /\ strings'[m_cached'[i]] = <<>>
               /\ \A k \in 1 .. Len(m_used') : m_used'[k] # m_cached'[i]
      BY <2>1 DEF StringsAreApart, EachOnce
    <2> QED
      BY <2>1, <2>3, <2>4 DEF StringsAreApart
  <1>7. CASE PathClear
    BY <1>7, PathClearStrings
  <1>8. CASE PathNew
    <2>1. Len(components') = 0 /\ Len(m_used') = 0 /\ Len(m_cached') = 0
      BY <1>8 DEF PathNew
    <2> QED
      BY <2>1 DEF StringsAreApart, EachOnce
  <1>9. CASE BeginBracket \/ IndexDigit \/ BeginString \/ ParseEnd
    BY <1>1, <1>9 DEF BeginBracket, IndexDigit, BeginString, ParseEnd, Refused, Return
  <1>10. CASE PathChar \/ PathStringEnd
    <2>1. /\ scan.at \in Nat /\ ii \in Nat /\ Len(ptext) \in Nat
      BY LenProperties DEF TypeInv, PathTypeOK, Scan
    <2>2. PathChar => scan.at - ii \in Nat
      BY <2>1 DEF PathChar, TypeInv, ScanIsInside
    <2>3. PathStringEnd => Len(ptext) + 1 - ii \in Nat
      BY <2>1 DEF PathStringEnd, TypeInv, ScanIsInside
    <2> QED
      BY <1>1, <1>3, <1>10, <2>2, <2>3 DEF PathChar, PathStringEnd, Refused, Return
  <1> QED
    BY <1>2, <1>4, <1>5, <1>6, <1>7, <1>8, <1>9, <1>10 DEF PathStep, ParseStep

-----------------------------------------------------------------------------
Stands(i) == /\ ParsedPath'[i] = ParsedPath[i] /\ components'[i] = components[i]
             /\ (Source(components[i].key))' = Source(components[i].key)

(* A key is read as before where the text, its component and the string it *)
(* points into are as before.                                              *)
LEMMA KeysAreSame ==
  ASSUME ptext' = ptext, Len(components) \in Nat, Len(components') \in Nat,
         Len(components) <= Len(components'),
         \A i \in 1 .. Len(components) :
           /\ components'[i] = components[i]
           /\ Owner(i) # 0 => strings'[Owner(i)] = strings[Owner(i)]
  PROVE  \A i \in 1 .. Len(components) : Stands(i)
  <1> TAKE i \in 1 .. Len(components)
  <1>1. i \in 1 .. Len(components')
    OBVIOUS
  <1>2. (KeyOf(components[i].key))' = KeyOf(components[i].key)
    BY DEF KeyOf, Owner
  <1>3. components'[i] = components[i] /\ (Source(components[i].key))' = Source(components[i].key)
    BY DEF Source, Owner
  <1>4. ParsedPath'[i] = ParsedPath[i]
    BY <1>1, <1>2, <1>3 DEF ParsedPath
  <1> QED
    BY <1>3, <1>4 DEF Stands

LEMMA KeysStep ==
  ASSUME TypeInv, StringsAreApart, ParseStep
  PROVE  \A i \in 1 .. Len(components) : Stands(i)
  <1>0. /\ TypeInv /\ StringsAreApart
        /\ components \in Seq(ParsedInfo) /\ Len(components) \in Nat
        /\ m_used \in Seq(1 .. Len(strings)) /\ strings \in Seq(Seq(STRING))
        /\ Len(strings) \in Nat
    BY LenProperties DEF TypeInv, PathTypeOK
  (* A string in use is one of the strings. *)
  <1>1. \A i \in 1 .. Len(components) : Owner(i) # 0 => Owner(i) \in 1 .. Len(strings)
    <2>1. \A i \in 1 .. Len(components) :
            Owner(i) # 0 => \E k \in 1 .. Len(m_used) : m_used[k] = Owner(i)
      BY <1>0, Zenon DEF StringsAreApart, Owner
    <2>2. \A k \in 1 .. Len(m_used) : m_used[k] \in 1 .. Len(strings)
      BY <1>0, ElementOfSeq
    <2> QED
      BY <2>1, <2>2, Zenon
  <1>2. CASE UNCHANGED <<ptext, components, strings>>
    BY <1>0, <1>2, KeysAreSame
  <1>3. ASSUME NEW comp, components' = Append(components, comp), UNCHANGED <<ptext, strings>>,
               comp \in ParsedInfo
        PROVE  \A i \in 1 .. Len(components) : Stands(i)
    <2>1. /\ Len(components') = Len(components) + 1
          /\ \A i \in 1 .. Len(components) : components'[i] = components[i]
      BY <1>0, <1>3, AppendProperties
    <2> QED
      BY <1>0, <1>3, <2>1, KeysAreSame
  <1>4. ASSUME NEW ixnum \in Int, NEW next, AddArrayIndex(ixnum, next)
        PROVE  \A i \in 1 .. Len(components) : Stands(i)
    <2>1. NumericHere(ixnum) \in ParsedInfo
      BY NewComponents, IntMaxAssumption
    <2> QED
      BY <1>2, <1>3, <1>4, <2>1 DEF AddArrayIndex, Refused, heapVars
  <1>5. ASSUME NEW len \in Nat, NEW n_backticks, NEW next, AddStrComponent(len, n_backticks, next)
        PROVE  \A i \in 1 .. Len(components) : Stands(i)
    <2> DEFINE first  == IF IsTicked(len) THEN ii + 1 ELSE ii
               length == IF IsTicked(len) THEN len - 2 ELSE len
    <2>1. CASE Refused("LEVELS_EXCEEDED") \/ Refused("JPR_BADPATH")
      BY <1>2, <2>1 DEF Refused, heapVars
    <2>2. CASE AddString(Slice(first, length), next)
      <3>1. first \in Nat /\ length \in Nat
        BY <1>0 DEF IsTicked, TypeInv, PathTypeOK
      <3>2. StringHere(Slice(first, length)) \in ParsedInfo
        BY <3>1, NewComponents, IntMaxAssumption
      <3> QED
        BY <1>3, <2>2, <3>2 DEF AddString, heapVars
    <2>3. CASE BeginConvert(first, first + length, next)
      <3>1. /\ UNCHANGED <<ptext, components>>
            /\ strings' = IF m_cached = <<>> THEN Append(strings, <<>>) ELSE strings
        BY <2>3 DEF BeginConvert
      <3>2. \A id \in 1 .. Len(strings) : strings'[id] = strings[id]
        BY <1>0, <3>1, AppendProperties, EmptySeq
      <3> QED
        BY <1>0, <1>1, <3>1, <3>2, KeysAreSame
    <2> QED
      BY <1>5, <2>1, <2>2, <2>3 DEF AddStrComponent
  <1>6. CASE ConvertChar
    <2>1. UNCHANGED <<ptext, components>> /\ ppc = "CONVERT"
      BY <1>6 DEF ConvertChar
    <2>2. \A id : id # Last(m_used) => strings'[id] = strings[id]
      BY <1>0, <1>6 DEF ConvertChar
    <2>3. \A i \in 1 .. Len(components) : Owner(i) # 0 => Owner(i) # Last(m_used)
      BY <1>0, <2>1 DEF StringsAreApart, Owner
    <2> QED
      BY <1>0, <2>1, <2>2, <2>3, KeysAreSame
  <1>7. CASE ConvertEnd
    <2>1. StringHere(Owned(Last(m_used), Len(Converted))) \in ParsedInfo
      BY <1>0, <1>7, OwnedKey, NewComponents, IntMaxAssumption DEF ConvertEnd
    <2> QED
      BY <1>3, <1>7, <2>1 DEF ConvertEnd, AddString, heapVars
  <1>8. CASE BeginBracket \/ IndexDigit \/ BeginString \/ ParseEnd
    BY <1>2, <1>8 DEF BeginBracket, IndexDigit, BeginString, ParseEnd, Refused, heapVars
  <1>9. CASE NegativeIndex \/ IndexEnd
    <2>1. AsLong(scan.numval) \in Int
      BY ModulusIsNat, <1>0 DEF AsLong, TypeInv, PathTypeOK, Scan
    <2>2. CASE NegativeIndex
      BY <1>2, <1>4, <2>2 DEF NegativeIndex, Refused, heapVars
    <2>3. CASE IndexEnd
      BY <1>4, <2>1, <2>3 DEF IndexEnd
    <2> QED
      BY <1>9, <2>2, <2>3
  <1>10. CASE PathChar \/ PathStringEnd
    <2>1. scan.at \in Nat /\ ii \in Nat /\ Len(ptext) \in Nat
      BY <1>0, LenProperties DEF TypeInv, PathTypeOK, Scan
    <2>2. PathChar => scan.at - ii \in Nat
      BY <1>0, <2>1 DEF PathChar, TypeInv, ScanIsInside
    <2>3. PathStringEnd => Len(ptext) + 1 - ii \in Nat
      BY <1>0, <2>1 DEF PathStringEnd, TypeInv, ScanIsInside
    <2>4. CASE PathChar
      BY <1>2, <1>5, <2>2, <2>4 DEF PathChar, Refused, heapVars
    <2>5. CASE PathStringEnd
      BY <1>2, <1>5, <2>3, <2>5 DEF PathStringEnd, Refused, heapVars
    <2> QED
      BY <1>10, <2>4, <2>5
  <1> QED
    BY <1>6, <1>7, <1>8, <1>9, <1>10 DEF ParseStep

(* A component that a step adds points into bytes that are there.          *)
LEMMA NewKeyFits ==
  ASSUME TypeInv, ShapeIsRight, StringsAreApart, ParseStep
  PROVE  /\ Len(components) <= Len(components')
         /\ \A i \in 1 .. Len(components') :
              i \in 1 .. Len(components) \/ (KeyFits(components[i].key))'
  <1>0. /\ components \in Seq(ParsedInfo) /\ Len(components) \in Nat
        /\ ii \in Nat \ {0} /\ Len(ptext) \in Nat /\ scan.at \in Nat
        /\ m_used \in Seq(1 .. Len(strings)) /\ strings \in Seq(Seq(STRING))
    BY LenProperties DEF TypeInv, PathTypeOK, Scan
  <1>1. CASE UNCHANGED components
    BY <1>0, <1>1
  <1>2. ASSUME NEW comp \in ParsedInfo, components' = Append(components, comp), (KeyFits(comp.key))'
        PROVE  /\ Len(components) <= Len(components')
               /\ \A i \in 1 .. Len(components') :
                    i \in 1 .. Len(components) \/ (KeyFits(components[i].key))'
    <2>1. /\ Len(components') = Len(components) + 1 /\ components'[Len(components) + 1] = comp
      BY <1>0, <1>2, AppendProperties
    <2>2. \A i \in 1 .. Len(components') : i \in 1 .. Len(components) \/ components'[i] = comp
      BY <1>0, <2>1
    <2>3. ASSUME NEW i \in 1 .. Len(components'), components'[i] = comp
          PROVE  (KeyFits(components[i].key))'
      BY <1>2, <2>3 DEF KeyFits, Source
    <2> QED
      BY <1>0, <2>1, <2>2, <2>3
  <1>3. CASE NegativeIndex \/ IndexEnd
    <2>1. AsLong(scan.numval) \in Int
      BY ModulusIsNat DEF AsLong, TypeInv, PathTypeOK, Scan
    <2>2. ASSUME NEW ixnum \in Int, NEW next, AddArrayIndex(ixnum, next), ~UNCHANGED components
          PROVE  \E comp \in ParsedInfo : components' = Append(components, comp) /\ (KeyFits(comp.key))'
      <3>1. components' = Append(components, NumericHere(ixnum)) /\ ptext' = ptext
        BY <2>2 DEF AddArrayIndex, Refused
      <3>2. NumericHere(ixnum) \in ParsedInfo /\ NumericHere(ixnum).key = NullKey
        BY NewComponents, IntMaxAssumption DEF NumericHere
      <3>3. (KeyFits(NullKey))'
        BY <1>0, <3>1 DEF KeyFits, NullKey, Source
      <3> QED
        BY <3>1, <3>2, <3>3
    <2>3. CASE NegativeIndex
      BY <1>1, <1>2, <2>2, <2>3 DEF NegativeIndex, Refused
    <2>4. CASE IndexEnd
      BY <1>1, <1>2, <2>1, <2>2, <2>4 DEF IndexEnd
    <2> QED
      BY <1>3, <2>3, <2>4
  <1>4. ASSUME NEW len \in Nat, NEW n_backticks, NEW next, ii + len <= Len(ptext) + 1,
               AddStrComponent(len, n_backticks, next), ~UNCHANGED components
        PROVE  \E comp \in ParsedInfo : components' = Append(components, comp) /\ (KeyFits(comp.key))'
    <2> DEFINE first  == IF IsTicked(len) THEN ii + 1 ELSE ii
               length == IF IsTicked(len) THEN len - 2 ELSE len
    <2>1. AddString(Slice(first, length), next)
      BY <1>4 DEF AddStrComponent, Refused, BeginConvert
    <2>2. /\ first \in Nat /\ length \in Nat /\ first >= 1
          /\ first + length <= Len(ptext) + 1
      BY <1>0, <1>4 DEF IsTicked
    <2> HIDE DEF first, length
    <2>3. PICK comp \in ParsedInfo : comp = StringHere(Slice(first, length))
      BY <2>2, NewComponents, IntMaxAssumption
    <2>4. components' = Append(components, comp) /\ ptext' = ptext
      BY <2>1, <2>3 DEF AddString
    <2>5. comp.key.owner = 0 /\ comp.key.at = first /\ comp.key.len = length
      BY <2>3 DEF StringHere, Slice
    <2>6. (KeyFits(comp.key))'
      BY <2>2, <2>4, <2>5 DEF KeyFits, Source
    <2> QED
      BY <2>4, <2>6
  <1>5. CASE PathChar \/ PathStringEnd
    <2>1. PathChar => scan.at - ii \in Nat /\ ii + (scan.at - ii) <= Len(ptext) + 1
      BY <1>0 DEF PathChar, TypeInv, ScanIsInside
    <2>2. PathStringEnd => Len(ptext) + 1 - ii \in Nat /\ ii + (Len(ptext) + 1 - ii) <= Len(ptext) + 1
      BY <1>0 DEF PathStringEnd, TypeInv, ScanIsInside
    <2>3. CASE PathChar
      BY <1>1, <1>2, <1>4, <2>1, <2>3 DEF PathChar, Refused
    <2>4. CASE PathStringEnd
      BY <1>1, <1>2, <1>4, <2>2, <2>4 DEF PathStringEnd, Refused
    <2> QED
      BY <1>5, <2>3, <2>4
  <1>6. CASE ConvertEnd
    <2>1. PICK comp \in ParsedInfo : comp = StringHere(Owned(Last(m_used), Len(Converted)))
      BY <1>6, OwnedKey, NewComponents, IntMaxAssumption DEF ConvertEnd
    <2>2. components' = Append(components, comp) /\ ptext' = ptext /\ strings' = strings
      BY <1>6, <2>1 DEF ConvertEnd, AddString, heapVars
    <2>3. Last(m_used) # 0 /\ Len(Converted) \in Nat
      <3>1. m_used # <<>>
        BY <1>6 DEF ConvertEnd, TypeInv, ScanIsInside
      <3>2. Last(m_used) \in 1 .. Len(strings)
        BY <1>0, <3>1, FrontAndLast
      <3>3. Converted \in Seq(STRING)
        BY <1>0, <3>2, ElementOfSeq DEF Converted
      <3> QED
        BY <1>0, <3>2, <3>3, LenProperties
    <2>4. comp.key.at = 1 /\ comp.key.len = Len(Converted) /\ comp.key.owner = Last(m_used)
      BY <2>1 DEF StringHere, Owned
    <2>5. (KeyFits(comp.key))'
      BY <2>2, <2>3, <2>4 DEF KeyFits, Source, Converted
    <2> QED
      BY <1>2, <2>1, <2>2, <2>5
  <1>7. CASE BeginBracket \/ IndexDigit \/ BeginString \/ ParseEnd \/ ConvertChar
    BY <1>1, <1>7 DEF BeginBracket, IndexDigit, BeginString, ParseEnd, ConvertChar, Refused
  <1> QED
    BY <1>3, <1>5, <1>6, <1>7 DEF ParseStep

LEMMA KeysFitStep ==
  ASSUME TypeInv, ShapeIsRight, StringsAreApart, KeysFit, PathStep
  PROVE  KeysFit'
  <1>0. components \in Seq(ParsedInfo) /\ Len(components) \in Nat /\ Len(<<>>) = 0
    BY LenProperties, EmptySeq DEF TypeInv, PathTypeOK
  <1>1. CASE ParseText
    <2>1. PICK bytes \in Seq(STRING) : Parse(bytes)
      BY <1>1 DEF ParseText
    <2>2. components' = <<RootHere>> /\ ptext' = bytes /\ Len(bytes) \in Nat
      BY <2>1 DEF Parse
    <2>3. \A i \in 1 .. Len(components') : components'[i].key = NullKey
      BY <2>2 DEF RootHere
    <2> QED
      BY <2>2, <2>3 DEF KeysFit, KeyFits, Source, NullKey
  <1>2. CASE PathClear \/ PathNew
    BY <1>2 DEF PathClear, PathNew, KeysFit
  <1>4. CASE ParseStep
    <2>1. \A i \in 1 .. Len(components) : Stands(i)
      BY <1>4, KeysStep
    <2>2. ppc # "IDLE"
      BY <1>4 DEF ParseStep, BeginBracket, NegativeIndex, IndexDigit, IndexEnd, BeginString,
         PathChar, PathStringEnd, ConvertChar, ConvertEnd, ParseEnd
    <2>3. \A i \in 1 .. Len(components) : (KeyFits(components[i].key))'
      BY <2>1, <2>2 DEF Stands, KeysFit, KeyFits
    <2> QED
      BY <1>4, <2>3, NewKeyFits DEF KeysFit
  <1> QED
    BY <1>1, <1>2, <1>4 DEF PathStep

-----------------------------------------------------------------------------
PathInv == TypeInv /\ ShapeIsRight /\ StringsAreApart /\ KeysFit

LEMMA PathInvInit == PathInit => PathInv
  <1> SUFFICES ASSUME PathInit PROVE PathInv
    OBVIOUS
  <1>1. BlankScan \in Scan
    BY NewComponents, IntMaxAssumption
  <1>2. PathTypeOK
    <2>1. /\ ptext \in Seq(STRING) /\ components \in Seq(ParsedInfo)
          /\ strings \in Seq(Seq(STRING))
          /\ m_used \in Seq(1 .. Len(strings)) /\ m_cached \in Seq(1 .. Len(strings))
      BY EmptySeq DEF PathInit
    <2>2. has_negix \in BOOLEAN
      BY DEF PathInit
    <2> QED
      BY <1>1, <2>1, <2>2 DEF PathInit, PathTypeOK
  <1>5. TypeInv
    BY <1>2 DEF PathInit, TypeInv, ScanIsInside
  <1>3. ShapeIsRight
    BY MaxComponentsAssumption DEF PathInit, ShapeIsRight
  <1>4. StringsAreApart
    BY DEF PathInit, StringsAreApart, EachOnce
  <1>6. KeysFit
    BY DEF PathInit, KeysFit
  <1> QED
    BY <1>3, <1>4, <1>5, <1>6 DEF PathInv

LEMMA PathInvStep == PathInv /\ [PathStep]_parseVars => PathInv'
  <1> SUFFICES ASSUME PathInv, [PathStep]_parseVars PROVE PathInv'
    OBVIOUS
  <1>1. CASE PathStep
    <2>1. Len(components) <= MaxComponents
      BY DEF PathInv, ShapeIsRight
    <2>2. TypeInv'
      BY <1>1, <2>1, BracketTypes, StringTypes, PathTypes, ConvertCharTypes, ConvertEndTypes
      DEF PathInv, PathStep, ParseStep
    <2> QED
      BY <1>1, <2>2, ShapeStep, StringsStep, KeysFitStep DEF PathInv
  <1>2. CASE UNCHANGED parseVars
    <2>1. UNCHANGED <<ptext, ii, scan, components, has_negix, strings, m_used, m_cached, ppc, perr>>
      BY <1>2 DEF parseVars, heapVars
    <2>2. TypeInv'
      BY <2>1 DEF PathInv, TypeInv, PathTypeOK, ScanIsInside
    <2>3. ShapeIsRight'
      BY <2>1 DEF PathInv, ShapeIsRight
    <2>4. StringsAreApart'
      BY <2>1, NothingMoves DEF PathInv, heapVars
    <2>5. KeysFit'
      BY <2>1 DEF PathInv, KeysFit, KeyFits, Source
    <2> QED
      BY <2>2, <2>3, <2>4, <2>5 DEF PathInv
  <1> QED
    BY <1>1, <1>2

-----------------------------------------------------------------------------
(* What the readers of a Path that has been parsed find.                   *)
LEMMA ParsedIsPath ==
  ASSUME PathInv, ppc # "IDLE"
  PROVE  /\ ParsedPath \in Seq(Component) /\ Len(ParsedPath) = Len(components)
         /\ Len(ParsedPath) \in 1 .. MaxComponents /\ ~ParsedPath[1].is_neg
  <1>1. /\ components \in Seq(ParsedInfo) /\ Len(components) \in Nat \ {0}
        /\ Len(components) <= MaxComponents /\ components[1] = RootHere
        /\ \A i \in 2 .. Len(components) : components[i].ptype \in {"STRING", "NUMERIC"}
    BY LenProperties, EmptySeq DEF PathInv, TypeInv, PathTypeOK, ShapeIsRight
  <1>2. ASSUME NEW i \in 1 .. Len(components)
        PROVE  KeyOf(components[i].key) \in Seq(STRING)
    <2> DEFINE key == components[i].key
    <2>1. /\ key.at \in Nat /\ key.len \in Nat /\ key.at >= 1
          /\ key.at + key.len <= Len(Source(key)) + 1
      <3>1. components[i] \in ParsedInfo
        BY <1>1, <1>2, ElementOfSeq
      <3>2. key.at \in Nat /\ key.len \in Nat
        BY <3>1 DEF ParsedInfo, KeyPointer
      <3> QED
        BY <1>2, <3>2 DEF PathInv, KeysFit, KeyFits
    <2>2. Source(key) \in Seq(STRING)
      <3>1. key.owner = 0 \/ \E k \in 1 .. Len(m_used) : m_used[k] = key.owner
        BY <1>2 DEF PathInv, StringsAreApart
      <3>2. /\ ptext \in Seq(STRING) /\ strings \in Seq(Seq(STRING))
            /\ m_used \in Seq(1 .. Len(strings))
        BY DEF PathInv, TypeInv, PathTypeOK
      <3>3. key.owner = 0 \/ key.owner \in 1 .. Len(strings)
        BY <3>1, <3>2, ElementOfSeq
      <3> HIDE DEF key
      <3> QED
        BY <3>2, <3>3, ElementOfSeq DEF Source
    <2>3. KeyOf(key) = SubSeq(Source(key), key.at, key.at + key.len - 1)
      BY DEF KeyOf, Source
    <2> HIDE DEF key
    <2>4. PICK a \in Nat, n \in Nat, s \in Seq(STRING) :
            a = key.at /\ n = key.len /\ s = Source(key)
      BY <2>1, <2>2
    <2>5. SubSeq(s, a, a + n - 1) \in Seq(STRING)
      <3>1. Len(s) \in Nat /\ a >= 1 /\ a + n - 1 <= Len(s) /\ a + n - 1 \in Int
        BY <2>1, <2>4, LenProperties
      <3>2. \A j \in a .. a + n - 1 : s[j] \in STRING
        BY <3>1, ElementOfSeq
      <3> QED
        BY <3>1, <3>2, SubSeqProperties
    <2>6. KeyOf(key) \in Seq(STRING)
      BY <2>3, <2>4, <2>5
    <2> QED
      BY <2>6 DEF key
  <1>3. \A i \in 1 .. Len(components) :
          /\ components[i].ptype \in {"ROOT", "STRING", "NUMERIC"}
          /\ components[i].idx \in Int /\ components[i].is_neg \in BOOLEAN
    <2> TAKE i \in 1 .. Len(components)
    <2>1. components[i] \in ParsedInfo
      BY <1>1, ElementOfSeq
    <2>2. i = 1 \/ i \in 2 .. Len(components)
      BY <1>1
    <2> QED
      BY <1>1, <2>1, <2>2 DEF RootHere, ParsedInfo
  <1>4. ParsedPath \in [1 .. Len(components) -> Component]
    BY <1>2, <1>3 DEF ParsedPath, Component
  <1>5. ParsedPath \in Seq(Component) /\ Len(ParsedPath) = Len(components)
    BY <1>1, <1>4, MapIsSeq
  <1>6. ~ParsedPath[1].is_neg
    BY <1>1 DEF ParsedPath, RootHere
  <1> QED
    BY <1>1, <1>5, <1>6, MaxComponentsAssumption
=============================================================================
