-------------------------- MODULE OperationsClient --------------------------
(***************************************************************************)
(* A caller of Operation: it sets any document, calls op_exec() for any    *)
(* command with any path and any value, and writes the new document from   *)
(* the segments of the Result.                                             *)
(***************************************************************************)
EXTENDS Operations

SetDocument == \E document \in Seq(STRING) : OpClear(document)
CallExec    == \E pth, bytes \in Seq(STRING), command \in Command : OpExec(pth, command, bytes)

OpNext == SetDocument \/ CallExec \/ ExecOp \/ OpNew
OpSpec == OperationInit /\ [][OpNext]_subdocVars

-----------------------------------------------------------------------------
Answered == oppc = "DONE"

(* GET_COUNT leaves a segment that is no document. *)
Changed == Answered /\ result.newdoc # <<>> /\ op.optype.base # "GET_COUNT"

(* The match or the deepest parent has no end, or there is none: the       *)
(* document breaks off or is blank.  The segments made from it then are no *)
(* part of the document.                                                   *)
BreaksOff == m.loc_deepest.length = 0 /\ ~EmptyAppends

(* The segments of the old document are bytes of it, in order and without  *)
(* overlap, from its first one: nothing is written twice and no length     *)
(* wraps, whether the document is JSON or not.                             *)
OldParts == {i \in DOMAIN result.newdoc : result.newdoc[i].at # Null}

InOrder(i, j) == result.newdoc[i].at + result.newdoc[i].length <= result.newdoc[j].at

SegmentsInOrder ==
  Changed /\ ~BreaksOff =>
    /\ \E first \in OldParts :
         result.newdoc[first].at = 0 /\ \A i \in OldParts : first <= i
    /\ \A i \in OldParts :
         /\ result.newdoc[i].at >= 0 /\ result.newdoc[i].length >= 0
         /\ result.newdoc[i].at + result.newdoc[i].length <= Len(op.doc)
    /\ \A i, j \in OldParts : i < j => InOrder(i, j)
=============================================================================
