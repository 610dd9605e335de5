--------------------------- MODULE OperationsTree ---------------------------
(***************************************************************************)
(* A caller of Operation that holds one document, beside the tree the      *)
(* document means: op_exec() on bytes implements Subdoc on trees.          *)
(***************************************************************************)
EXTENDS OperationsClient, JsonTree

CONSTANT Callers   \* by name: the documents a caller begins with, as bytes,
                   \* what it asks for, and up to which length it goes on
                   \* with a document a command has left

ASSUME CallersAssumption == \A c \in DOMAIN Callers : Callers[c].longest \in Nat

VARIABLES
  caller,
  tree,      \* what the document held now means; NoTree if there is none
  request    \* what the caller has asked for

operationsTreeVars == <<subdocVars, caller, tree, request>>

NoTree    == [Broken EXCEPT !.kind = "none"]
NoRequest == [base |-> "NONE", is_mkdir_p |-> FALSE, path |-> <<>>, text |-> <<>>,
              value |-> <<>>]

(* Nothing ends a primitive at the root: the library promises nothing. *)
Meaning(bytes) == IF IsContainer(Parsed(bytes)) THEN Parsed(bytes) ELSE Broken

-----------------------------------------------------------------------------
Load ==
  /\ tree = NoTree /\ request = NoRequest
  /\ \E bytes \in Callers[caller].documents : OpClear(bytes) /\ tree' = Meaning(bytes)
  /\ UNCHANGED <<caller, request>>

Ask ==
  /\ tree # NoTree /\ request = NoRequest
  /\ \E r \in Callers[caller].requests :
       /\ request' = r
       /\ OpExec(r.text, [base |-> r.base, is_mkdir_p |-> r.is_mkdir_p], r.value)
  /\ UNCHANGED <<caller, tree>>

(* The document changes when op_exec() returns. *)
Exec ==
  /\ ExecOp
  /\ IF ~Changed' THEN UNCHANGED tree
     ELSE IF BreaksOff' THEN tree' = Broken
     ELSE \E bytes \in {NewBytes'} : tree' = Meaning(bytes)
  /\ UNCHANGED <<caller, request>>

HeldDoc == IF Changed THEN NewBytes ELSE op.doc

GoOnWith == /\ Answered /\ ~(Changed /\ BreaksOff) /\ Len(HeldDoc) <= Callers[caller].longest
            /\ OpClear(HeldDoc)
            /\ request' = NoRequest /\ UNCHANGED <<caller, tree>>

(* The caller has done with the Operation; the next one is a new one. *)
PutAway == /\ Answered
           /\ OpNew
           /\ tree' = NoTree /\ request' = NoRequest /\ UNCHANGED caller

TreeInit == /\ OperationInit /\ tree = NoTree /\ request = NoRequest
            /\ caller \in DOMAIN Callers
TreeNext == Load \/ Ask \/ Exec \/ GoOnWith \/ PutAway
TreeSpec == /\ TreeInit /\ [][TreeNext]_operationsTreeVars
            /\ WF_subdocVars(ExecOp)

-----------------------------------------------------------------------------
(* Subdoc with every request there can be. *)
Request == [base : Base, is_mkdir_p : BOOLEAN, path : Seq(Component), text : Seq(STRING),
            value : Seq(STRING)]
Trees == UNION {{Meaning(bytes) : bytes \in Callers[c].documents} : c \in DOMAIN Callers}

Abstract == INSTANCE Subdoc WITH
  Documents <- Trees, Requests <- Request,
  answer <- IF Answered
            THEN [code |-> result.code, reply |-> Unspaced(BytesOf(result.match))]
            ELSE [code |-> "NONE", reply |-> <<>>]

(* Every command answers, and changes the document, as Subdoc says. *)
ImplementsSubdoc == Abstract!Spec

(* What was no deeper than a path can reach stays so: every value of the   *)
(* new document can be asked for.                                          *)
StaysInReach ==
  Changed /\ Meaning(op.doc) # Broken /\ Depth(Parsed(op.doc)) <= MaxComponents =>
    Depth(tree) <= MaxComponents

(* Util::get_root_type(): the root a new document needs for a path. *)
RootOfNames(optype, pth) == "OBJECT"   \* mutant: no look at the bracket
GetRootType(optype, pth) ==
  LET visible == {i \in 1 .. Len(pth) : pth[i] \notin Whitespace}
  IN  IF visible = {}
      THEN IF optype.base \in {"ARRAY_APPEND", "ARRAY_PREPEND", "ARRAY_ADD_UNIQUE"}
           THEN "LIST" ELSE "UNKNOWN"
      ELSE IF pth[Min(visible)] = "[" THEN "LIST" ELSE "OBJECT"

(* get_root_type() passes over the blanks a path begins with, parse()      *)
(* makes them part of the first name.  So of a path that begins with a     *)
(* blank the two disagree if an index, or nothing, is what can be seen.    *)
BlankName == /\ ptext # <<>> /\ Head(ptext) \in Whitespace
             /\ Unspaced(ptext) = <<>> \/ Head(Unspaced(ptext)) = "["

(* Errors of the path and of the value: nothing is said about the root.    *)
RefusedUnsearched == {"PATH_EINVAL", "PATH_E2BIG", "VALUE_EMPTY", "VALUE_CANTINSERT",
                      "VALUE_ETOODEEP", "DELTA_EINVAL"}

(* In a new document with the root get_root_type() gives for a path, a     *)
(* command on that path meets a value of the wrong type exactly where the  *)
(* two functions disagree about its blanks.                                *)
NewRootFits ==
  LET type == GetRootType(op.optype, ptext)
  IN  /\ Answered /\ type # "UNKNOWN" /\ result.code \notin RefusedUnsearched
      /\ op.doc = IF type = "LIST" THEN <<"[", "]">> ELSE <<"{", "}">>
      => (result.code = "PATH_MISMATCH" <=> BlankName)

(* op_exec() returns: no request is left unanswered for ever.              *)
ExecReturns == []<>(request = NoRequest \/ Answered)

-----------------------------------------------------------------------------
(* What subdoc-api.h says and the code does not do: see the findings. *)

(* REMOVE leaves a document: one comma goes with the element.              *)
RemoveLeavesJson == Changed /\ op.optype.base = "REMOVE" => tree # Broken

(* A value that would invalidate the document is refused.                  *)
InsertLeavesJson == Changed /\ op.optype.base = "ARRAY_APPEND" => tree # Broken

(* ARRAY_ADD_UNIQUE says that a value exists only where it does.           *)
OldArray   == Deepest(Parsed(op.doc), OpPath)
IsInArray  == \E i \in 1 .. Len(OldArray.kids) : OldArray.kids[i] = Parsed(op.userval)
ExistsMeansExists == Answered /\ IsUnique /\ result.code = "DOC_EEXISTS" => IsInArray
=============================================================================
