---------------------------- MODULE PathLanguage ----------------------------
(***************************************************************************)
(* Path::parse() beside the grammar of paths: callers that parse every     *)
(* text of a family with a Path of its own, and one that parses a few      *)
(* texts in any order with one Path, cleared or not.                       *)
(***************************************************************************)
EXTENDS PathClient, PathGrammar

CONSTANT Families   \* by name: [texts |-> a set of texts, reuse |-> whether the
                    \* Path is used again]

ASSUME FamiliesAssumption == \A f \in DOMAIN Families : Families[f].texts \subseteq Texts

VARIABLE family

languageVars == <<parseVars, family>>

LanguageInit == PathInit /\ family \in DOMAIN Families

ParseOne ==
  /\ Families[family].reuse \/ components = <<>>
  /\ Len(m_used) < MaxInUse
  /\ \E bytes \in Families[family].texts : Parse(bytes)
  /\ UNCHANGED family

ParseOn == ParseStep /\ UNCHANGED family

ClearPath == Families[family].reuse /\ PathClear /\ UNCHANGED family

Discard == ppc = "DONE" /\ PathNew /\ UNCHANGED family

LanguageNext == ParseOne \/ ParseOn \/ ClearPath \/ Discard

LanguageSpec == /\ LanguageInit /\ [][LanguageNext]_languageVars
                /\ WF_languageVars(ParseOn)

-----------------------------------------------------------------------------
(* A component is what the text says, if it says what a key is. *)
Says(comps, reading) ==
  /\ Len(comps) = Len(reading)
  /\ \A i \in 1 .. Len(comps) :
       \/ comps[i] = reading[i]
       \/ reading[i] = Name(Unsaid) /\ comps[i].ptype = "STRING"

Fits(reading) == \A i \in 1 .. Len(reading) : reading[i].idx < Modulus - 1

(* parse() reads what the text says, and refuses a text only because it    *)
(* says nothing or has more components than a path may have.               *)
ParseIsRight ==
  ppc = "DONE" =>
    LET readings == Readings(ptext)
    IN  /\ Cardinality(readings) <= 1
        /\ \A reading \in readings :
             Fits(reading) =>
               IF Len(reading) > MaxComponents THEN perr = "LEVELS_EXCEEDED"
               ELSE perr = "SUCCESS" /\ Says(ParsedPath, reading)
        /\ readings = {} => perr # "SUCCESS"

(* An index is the number in the text, or the text is refused. *)
IndexFits ==
  ppc = "DONE" /\ perr = "SUCCESS" =>
    \A reading \in Readings(ptext) :
      \A i \in 1 .. Len(reading) : ParsedPath[i].idx = reading[i].idx
=============================================================================
