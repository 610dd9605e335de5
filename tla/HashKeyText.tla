---------------------------- MODULE HashKeyText ----------------------------
(***************************************************************************)
(* The key conversion of HashKey beside the meaning of a JSON key: every   *)
(* key the lexer can deliver is spelled out symbol by symbol, converted,   *)
(* and read by a decoder that takes one whole escape after the other.      *)
(***************************************************************************)
EXTENDS HashKey

CONSTANTS
  Symbols,     \* what keys are made of
  MaxKey       \* bound on their length

ASSUME SymbolsAssumption == Symbols \subseteq STRING
ASSUME MaxKeyAssumption  == MaxKey \in Nat

VARIABLE key

(* A text that ends in the backslash of an escape: in an odd number.       *)
InEscape(k) ==
  \E n \in 1 .. Len(k) : /\ n % 2 = 1
                         /\ \A i \in Len(k) - n + 1 .. Len(k) : k[i] = Bslash
                         /\ n < Len(k) => k[Len(k) - n] # Bslash

(* The text of a key, spelled on: after a backslash only what the lexer    *)
(* lets pass, a quote only there.                                          *)
SpellOn ==
  \E ch \in Symbols :
    /\ Len(key) < MaxKey
    /\ IF InEscape(key) THEN ch \in AllowedEscape ELSE ch # Quote
    /\ key' = Append(key, ch)

StartOver == Len(key) = MaxKey /\ key' = <<>>

KeySpec == key = <<>> /\ [][SpellOn \/ StartOver]_key

-----------------------------------------------------------------------------
(* The decoder: escapes other than \u stay as they are written, as in the  *)
(* library; a surrogate pair is two escapes side by side.                  *)
EscapeAt(i) == key[i] = Bslash /\ ~InEscape(SubSeq(key, 1, i - 1))
UnitAt(i)   == IF /\ i + 2 \in 1 .. Len(key) /\ EscapeAt(i) /\ key[i + 1] = "u"
               THEN key[i + 2] ELSE "none"
UEscapes    == {i \in 1 .. Len(key) - 1 : EscapeAt(i) /\ key[i + 1] = "u"}

BecomesUnit(i) == UnitAt(i) \in BasicUnit
BecomesPair(i) == UnitAt(i) = HighUnit /\ UnitAt(i + 3) = LowUnit
EndsPair(i)    == UnitAt(i) = LowUnit /\ i > 3 /\ UnitAt(i - 3) = HighUnit

WellFormed == \A i \in UEscapes : BecomesUnit(i) \/ BecomesPair(i) \/ EndsPair(i)

Decoded ==
  LET Piece(i) == IF i \in UEscapes /\ BecomesUnit(i) THEN <<BasicChar(UnitAt(i))>>
                    ELSE IF i \in UEscapes /\ BecomesPair(i) THEN <<ClefChar>>
                    ELSE IF \E j \in UEscapes : i \in j .. j + 2 THEN <<>>
                    ELSE <<key[i]>>
      upTo[i \in 0 .. Len(key)] == IF i = 0 THEN <<>> ELSE upTo[i - 1] \o Piece(i)
  IN  upTo[Len(key)]

Whole == ~InEscape(key)

(* An escaped backslash with a u after it; see the finding about it. *)
LooksEscaped == \E i \in 2 .. Len(key) - 1 : key[i] = Bslash /\ ~EscapeAt(i) /\ key[i + 1] = "u"

(* Surrogates that other text separates: convert() pairs them all the same. *)
Apart == \E i, j \in UEscapes : /\ i + 3 < j /\ UnitAt(i) = HighUnit /\ UnitAt(j) = LowUnit
                                /\ \A k \in i + 1 .. j - 1 : k \notin UEscapes

-----------------------------------------------------------------------------
(* A key that is a well-formed JSON string is compared as what it means,   *)
(* however its characters are escaped with \u.                             *)
KeyIsDecoded ==
  Whole /\ WellFormed /\ ~LooksEscaped => GetHk(key) = Decoded

(* convert() reports success exactly for the keys whose \u escapes are     *)
(* well formed and paired.                                                 *)
StatusIsRight ==
  Whole /\ ~LooksEscaped /\ ~Apart => (Convert(key).status = "SUCCESS") = WellFormed

(* subdoc-api.h: a component of the path matches a key of the document     *)
(* that is written the same; a component has no \u escapes.                *)
SameTextMatches == Whole /\ UEscapes = {} => GetHk(key) = key
=============================================================================
