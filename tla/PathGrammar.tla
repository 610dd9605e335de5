---------------------------- MODULE PathGrammar ----------------------------
(***************************************************************************)
(* What a path says, from its text: the reference for PathParse, which it  *)
(* knows nothing of.                                                       *)
(*                                                                         *)
(* A path is a sequence of names and indexes.  A dot follows a name unless *)
(* a bracket does, and may follow a bracket; the last dot may have nothing *)
(* behind it.  A name is bare or between backticks, which take its dots    *)
(* and brackets for characters; a doubled backtick is one of the key.  A   *)
(* key is what may stand between the quotes of a JSON string, without \u.  *)
(***************************************************************************)
EXTENDS PathInfo, Numbers, FiniteSets

Ticks(bytes) == {i \in 1 .. Len(bytes) : bytes[i] = "tick"}

(* A backtick opens what the next one closes. *)
Inside(bytes, i) == Cardinality({j \in Ticks(bytes) : j < i}) % 2 = 1

(* A character after an odd number of backslashes. *)
IsEscaped(bytes, i) ==
  \E n \in 1 .. i - 1 :
    /\ n % 2 = 1 /\ \A j \in i - n .. i - 1 : bytes[j] = Bslash
    /\ n < i - 1 => bytes[i - n - 1] # Bslash

Characters(bytes) ==
  /\ \A i \in 1 .. Len(bytes) :
       IF IsEscaped(bytes, i) THEN bytes[i] \in AllowedEscape \ {"u"}
                              ELSE bytes[i] \notin {Quote, "tab"}
  /\ bytes # <<>> => ~IsEscaped(Append(bytes, "end"), Len(bytes) + 1)

IsName(bytes) ==
  /\ bytes \notin {<<>>, <<"tick", "tick">>} /\ bytes[1] # "["
  /\ Cardinality(Ticks(bytes)) % 2 = 0
  /\ \A i \in 1 .. Len(bytes) : bytes[i] \in {".", "[", "]"} => Inside(bytes, i)
  /\ Characters(bytes)

(* The first backtick and the second are neighbours, and so on. *)
Paired(bytes) ==
  \A i \in Ticks(bytes) : Inside(bytes, i) \/ (i < Len(bytes) /\ bytes[i + 1] = "tick")
Single(bytes) ==
  LET upTo[i \in 0 .. Len(bytes)] ==
        IF i = 0 THEN <<>>
        ELSE IF bytes[i] = "tick" /\ ~Inside(bytes, i) THEN upTo[i - 1]
        ELSE Append(upTo[i - 1], bytes[i])
  IN  upTo[Len(bytes)]

Middle(bytes) == SubSeq(bytes, 2, Len(bytes) - 1)
BothEnds(bytes) == /\ Len(bytes) > 2
                   /\ bytes[1] = "tick" /\ bytes[Len(bytes)] = "tick"

(* Nothing says what backticks mean elsewhere in a name. *)
Unsaid == <<"unsaid">>

KeyNamed(bytes) ==
  IF BothEnds(bytes) /\ Paired(Middle(bytes)) THEN Single(Middle(bytes))
  ELSE IF ~BothEnds(bytes) /\ Paired(bytes) THEN Single(bytes)
  ELSE Unsaid

IsIndex(bytes) ==
  /\ Len(bytes) > 1 /\ bytes[1] = "[" /\ bytes[Len(bytes)] = "]"
  /\ \/ Middle(bytes) = <<"-", "1">>
     \/ \A i \in 2 .. Len(bytes) - 1 : bytes[i] \in Digit

Items(bytes) ==
  (IF IsName(bytes) THEN {Name(KeyNamed(bytes))} ELSE {})
    \cup (IF IsIndex(bytes) THEN {Index(IntOf(Middle(bytes)))} ELSE {})

(* What an item that ends before j may go on with: rests says what may     *)
(* begin at each place.                                                    *)
After(bytes, rests, j) ==
  IF j > Len(bytes) THEN {<<>>}
  ELSE IF bytes[j] = "." THEN rests[j + 1]
  ELSE IF bytes[j] = "[" THEN rests[j] ELSE {}

Extended(bytes, rests, i, j) ==
  UNION {{<<comp>> \o rest : rest \in After(bytes, rests, j + 1)} :
           comp \in Items(SubSeq(bytes, i, j))}

RestFrom(bytes, rests, i) ==
  IF i > Len(bytes) THEN {<<>>}
  ELSE UNION {Extended(bytes, rests, i, j) : j \in i .. Len(bytes)}

Rests(bytes) == LET from[i \in 1 .. Len(bytes) + 1] == RestFrom(bytes, from, i) IN from

(* All a text can be read as: at most one sequence of components. *)
Readings(bytes) == {<<Root>> \o comps : comps \in Rests(bytes)[1]}

(* The text of a path: names between backticks where they have to be. *)
NameText(key) ==
  LET doubled[i \in 0 .. Len(key)] ==
        IF i = 0 THEN <<>>
        ELSE doubled[i - 1] \o (IF key[i] = "tick" THEN <<"tick", "tick">> ELSE <<key[i]>>)
  IN  IF \E i \in 1 .. Len(key) : key[i] \in {".", "[", "]", "tick"}
      THEN <<"tick">> \o doubled[Len(key)] \o <<"tick">> ELSE key

ItemText(comp) ==
  IF comp.ptype = "STRING" THEN NameText(comp.pstr) ELSE <<"[">> \o TextOf(comp.idx) \o <<"]">>

PathText(p) ==
  LET upTo[i \in 1 .. Len(p)] ==
        IF i = 1 THEN <<>>
        ELSE upTo[i - 1] \o (IF i > 2 /\ p[i].ptype = "STRING" THEN <<".">> ELSE <<>>)
                         \o ItemText(p[i])
  IN  upTo[Len(p)]
=============================================================================
