---------------------------- MODULE MatchClient ----------------------------
(***************************************************************************)
(* A caller of Match::exec_match(): it searches any of its documents, well *)
(* formed or not, for any of its paths, then clears the Match.             *)
(***************************************************************************)
EXTENDS Match

CONSTANTS
  Documents,   \* texts
  Paths,       \* parsed paths
  Options      \* Matches as the caller may have prepared them

ASSUME DocumentsAssumption == Documents \subseteq Seq(STRING)
ASSUME PathsAssumption ==
  \A p \in Paths : p \in Seq(Component) /\ Len(p) > 0 /\ ~p[1].is_neg

(* The callers clear the Match, then set these two fields of it.           *)
ASSUME OptionsAssumption ==
  \A match \in Options :
    /\ match.extra_options \in {"GET_MATCH_ONLY", "GET_FOLLOWING_SIBLINGS"}
    /\ match.ensure_unique \in Seq(STRING)
    /\ match = [BlankMatch EXCEPT !.extra_options = match.extra_options,
                                  !.ensure_unique = match.ensure_unique]

Ask == /\ pc = "IDLE"
       /\ \E document \in Documents, p \in Paths, match \in Options :
            Search(document, p, match)

MatchNext == Ask \/ ExecMatch \/ Clear

(* Within exec_match() there is nothing to wait for. *)
MatchSpec == MatchInit /\ [][MatchNext]_searchVars /\ WF_searchVars(ExecMatch)

-----------------------------------------------------------------------------
Kind == {"NONE"} \cup (Type \ {"ROOT", "HKEY"})

MatchTypeOK ==
  /\ doc \in Seq(STRING) /\ path \in Seq(Component)
  /\ m.type \in Kind /\ m.status \in Error \cup {"SUCCESS"} /\ m.matchres \in MatchRes
  /\ m.match_level \in Nat /\ m.position \in Nat /\ m.num_siblings \in Nat
  /\ m.num_children \in Nat /\ m.immediate_parent_found \in BOOLEAN
  /\ m.loc_deepest \in Loc /\ m.loc_key \in Loc /\ m.unique_item_found \in BOOLEAN
  /\ mres \in [Level -> MatchRes \ {"UNKNOWN"}]
  /\ callbacks \in {"MATCH", "UNIQUE", "SIBLING"}
  /\ pc \in {"IDLE", "ROUND", "FEED", "DONE"}

(* The assertions (Expects) of the callbacks: elements compared for        *)
(* uniqueness are children of the match; siblings are counted only for a   *)
(* complete match, at its level or at its parent's end, from a key in an   *)
(* object.                                                                 *)
ExpectsHold ==
  pc = "FEED" /\ cb # NoCallback =>
    /\ callbacks = "UNIQUE" /\ cb.action = "POP" /\ mres[cb.level] # "COMPLETE" =>
         cb.level = m.match_level + 1
    /\ callbacks = "SIBLING" =>
         /\ m.matchres = "COMPLETE" /\ m.extra_options = "GET_FOLLOWING_SIBLINGS"
         /\ cb.action = "POP" => cb.level = m.match_level - 1
         /\ cb.action = "PUSH" /\ HasParent /\ Parent.type = "OBJECT" =>
              State_.type = "HKEY"

(* What the caller cuts out of the document is inside it, whatever the     *)
(* document: the match or the deepest parent, and the match's key before   *)
(* it.                                                                     *)
Within(loc) == loc.at >= 0 /\ loc.length >= 0 /\ loc.at + loc.length <= Len(doc)

LocationsInDocument ==
  pc = "DONE" /\ m.status = "SUCCESS" =>
    /\ m.matchres = "COMPLETE" => Within(m.loc_deepest)
    /\ m.loc_deepest.length > 0 => Within(m.loc_deepest)
    /\ m.loc_key # NoLoc => /\ Within(m.loc_key)
                            /\ m.loc_key.at + m.loc_key.length < m.loc_deepest.at
                            /\ doc[m.loc_key.at + 1] = Quote
                            /\ doc[m.loc_key.at + m.loc_key.length] = Quote

(* Once the match or the deepest parent has its length, nothing that is    *)
(* still fed in that pass moves it.                                        *)
LocationStands ==
  [][pc = "FEED" /\ pc' = "FEED" /\ m.loc_deepest.length > 0 =>
       UNCHANGED <<m.loc_deepest, m.loc_key, m.match_level, m.type>>]_searchVars

(* Among its siblings the match is the one that the component names: in an *)
(* array by its number; in an object by its key, which stands before it    *)
(* with nothing but a colon and white space between them.                  *)
ColonBetween(first, last) ==
  \E i \in first + 1 .. last :
    doc[i] = ":" /\ \A j \in first + 1 .. last : j # i => doc[j] \in Whitespace

MatchKey == DocSlice([at |-> m.loc_key.at + 1, length |-> m.loc_key.length - 2])

NamedBy(component) ==
  IF component.ptype = "NUMERIC"
  THEN m.loc_key = NoLoc /\ m.position = component.idx
  ELSE /\ m.loc_key # NoLoc /\ GetHk(MatchKey) = component.pstr
       /\ ColonBetween(m.loc_key.at + m.loc_key.length, m.loc_deepest.at)

(* What is found is what the last component of the path names, whatever    *)
(* the document; the last element has all the others before it.            *)
MatchIsNamed ==
  pc = "DONE" /\ m.status = "SUCCESS" /\ m.matchres = "COMPLETE" =>
    LET last == LastComponent(path)
    IN IF Len(path) = 1 THEN m.loc_key = NoLoc
       ELSE IF ~last.is_neg THEN NamedBy(last)
       ELSE m.loc_deepest.length > 0 => m.loc_key = NoLoc /\ m.position = m.num_siblings

(* exec_match() returns, on every document. *)
SearchReturns == []<>(pc \in {"IDLE", "DONE"})
=============================================================================
