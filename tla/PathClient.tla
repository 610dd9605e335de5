----------------------------- MODULE PathClient -----------------------------
(***************************************************************************)
(* A caller of Path: it parses any of its texts, clears the Path or does   *)
(* not, and parses another one.                                            *)
(***************************************************************************)
EXTENDS PathParse

CONSTANTS
  Texts,        \* what a caller parses
  MaxInUse      \* bound on the strings in use when a parse begins

ASSUME TextsAssumption == Texts \subseteq Seq(STRING)
ASSUME MaxInUseAssumption == MaxInUse \in Nat

ParseAny == /\ Len(m_used) < MaxInUse
            /\ \E bytes \in Texts : Parse(bytes)

PathNext == ParseAny \/ ParseStep \/ PathClear \/ PathNew

(* Within parse() there is nothing to wait for. *)
PathSpec == PathInit /\ [][PathNext]_parseVars /\ WF_parseVars(ParseStep)

-----------------------------------------------------------------------------
Parsing == ppc \notin {"IDLE", "DONE"}

KeyPointer == [owner : Nat, at : Nat, len : Nat]
ParsedInfo == [ptype : {"ROOT", "STRING", "NUMERIC", "NONE"}, key : KeyPointer, idx : Int,
            is_neg : BOOLEAN]

PathTypeOK ==
  /\ ptext \in Seq(STRING) /\ ii \in Nat \ {0} /\ scan \in Scan
  /\ components \in Seq(ParsedInfo) /\ has_negix \in BOOLEAN
  /\ strings \in Seq(Seq(STRING))
  /\ m_used \in Seq(1 .. Len(strings)) /\ m_cached \in Seq(1 .. Len(strings))
  /\ ppc \in {"IDLE", "NEXT", "STRING", "NUMBER", "CONVERT", "DONE"}
  /\ perr \in {"SUCCESS", "JPR_BADPATH", "INVALID_NUMBER", "LEVELS_EXCEEDED"}

(* What Match and Operation rely on: the root first and only there, no     *)
(* more components than the array and the lexer have room for, and         *)
(* has_negix, which chooses how Match searches, exactly when an index is   *)
(* negative.  After clear() has_negix may be what it was.                  *)
ShapeIsRight ==
  /\ Len(components) <= MaxComponents
  /\ components # <<>> => components[1] = RootHere
  /\ ppc # "IDLE" =>
       /\ components # <<>>
       /\ \A i \in 2 .. Len(components) : components[i].ptype \in {"STRING", "NUMERIC"}
       /\ has_negix <=> \E i \in 1 .. Len(components) : components[i].is_neg

(* The strings of the Path: each is in use or free, once, and a free one   *)
(* is empty; a component points into the text or into a string in use, no  *)
(* two into the same, and none into the one that is being written.         *)
EachOnce(ids) == \A i, j \in 1 .. Len(ids) : ids[i] = ids[j] => i = j

StringsAreApart ==
  /\ EachOnce(m_used) /\ EachOnce(m_cached)
  /\ \A i \in 1 .. Len(m_cached) :
       /\ strings[m_cached[i]] = <<>>
       /\ \A k \in 1 .. Len(m_used) : m_used[k] # m_cached[i]
  /\ \A i \in 1 .. Len(components) :
       LET owner == components[i].key.owner
       IN  owner # 0 =>
             /\ \E k \in 1 .. Len(m_used) : m_used[k] = owner
             /\ \A j \in 1 .. Len(components) : components[j].key.owner = owner => i = j
             /\ ppc = "CONVERT" => owner # Last(m_used)

(* A key ends where the bytes it points into do, or before: nothing past   *)
(* the text or past a string is read, also while there are components of a *)
(* parse that has failed.                                                  *)
Source(key)  == IF key.owner = 0 THEN ptext ELSE strings[key.owner]
KeyFits(key) == key.at >= 1 /\ key.at + key.len <= Len(Source(key)) + 1

KeysFit == ppc # "IDLE" => \A i \in 1 .. Len(components) : KeyFits(components[i].key)

(* parse() moves no key that is already there: a string it writes to is    *)
(* not one an earlier component points into.                               *)
KeysStand ==
  [][Parsing => \A i \in 1 .. Len(components) : ParsedPath'[i] = ParsedPath[i]]_parseVars

(* parse() returns. *)
ParseReturns == []<>~Parsing
=============================================================================
