------------------------------- MODULE Subdoc -------------------------------
(***************************************************************************)
(* What the library promises: commands on a tree.  A caller holds one      *)
(* document; a request names a command, a path and the bytes of a value,   *)
(* and the answer is a code, a reply and the document as it is then.  The  *)
(* path of a request is what its text says, <<>> if it says nothing.       *)
(* Nothing is promised about a document that is Broken.                    *)
(*                                                                         *)
(* OperationsTree shows that Operations does this to the bytes.            *)
(***************************************************************************)
EXTENDS JsonTree, Numbers

CONSTANTS
  Documents,      \* the trees a caller may begin with
  Requests,       \* the requests a caller may make
  MaxComponents   \* Limits::MAX_COMPONENTS

VARIABLES tree, request, answer

subdocSpecVars == <<tree, request, answer>>

NoTree    == [Broken EXCEPT !.kind = "none"]
NoRequest == [base |-> "NONE", is_mkdir_p |-> FALSE, path |-> <<>>, text |-> <<>>,
              value |-> <<>>]
NoAnswer  == [code |-> "NONE", reply |-> <<>>]

-----------------------------------------------------------------------------
(* What a request does: refuse, reply, or change the document. *)
Refuse(code) == answer' = [code |-> code, reply |-> <<>>] /\ UNCHANGED tree
Reply(bytes) == answer' = [code |-> "SUCCESS", reply |-> bytes] /\ UNCHANGED tree
Change(new, reply) == answer' = [code |-> "SUCCESS", reply |-> reply] /\ tree' = new

Does(bases) == request.base \in bases

(* The path, as far as it leads in the document. *)
Path   == request.path
Way    == Names(tree, Path)
Target == Deepest(tree, Path)
IsRoot == Len(Path) = 1
End    == LastComponent(Path)
Absent == SubSeq(Path, Len(Way) + 2, Len(Path))

Put(node) == PlaceAt(tree, Way, node)

(* A path that leads somewhere, nowhere, or through a value of the wrong   *)
(* type.                                                                   *)
Lookup(found, missing) ==
  \/ Mismatch(tree, Path) /\ Refuse("PATH_MISMATCH")
  \/ Found(tree, Path) /\ found
  \/ ~Found(tree, Path) /\ ~Mismatch(tree, Path) /\ missing

NotThere == Refuse("PATH_ENOENT")

(* A new member, and what _P builds below the deepest parent there is.     *)
WithMember(node, key, kid) ==
  [node EXCEPT !.keys = Append(@, key), !.kids = Append(@, kid)]

RECURSIVE Nest(_, _)
Nest(comps, node) ==
  IF comps = <<>> THEN node ELSE Obj(<<Head(comps).pstr>>, <<Nest(Tail(comps), node)>>)

Create(node, reply) ==
  IF \A i \in 1 .. Len(Absent) : Absent[i].ptype = "STRING"
  THEN Change(Put(WithMember(Target, Absent[1].pstr, Nest(Tail(Absent), node))), reply)
  ELSE NotThere

-----------------------------------------------------------------------------
(* The values.  A value goes where the path's last component is, or one    *)
(* level below it; the new document may not be deeper than a path can go.  *)
OneValue == Does({"DICT_ADD", "DICT_UPSERT", "REPLACE"})
Series   == Does({"ARRAY_PREPEND", "ARRAY_APPEND", "ARRAY_INSERT", "ARRAY_ADD_UNIQUE"})

Value == Parsed(request.value)
Items == Parsed(<<"[">> \o request.value \o <<"]">>).kids

Readable == IF OneValue THEN Value # Broken
            ELSE Parsed(<<"[">> \o request.value \o <<"]">>) # Broken

LevelsLeft == MaxComponents - Len(Path)
                + (IF OneValue \/ Does({"ARRAY_INSERT"}) THEN 1 ELSE 0)

TooDeep == Depth(IF OneValue THEN Value ELSE List(Items))
             > LevelsLeft + (IF OneValue THEN 0 ELSE 1)

(* A value that cannot be read may be refused as one that is too deep.     *)
ValueIs(code) ==
  CASE code = "VALUE_EMPTY"      -> request.value = <<>>
    [] code = "VALUE_ETOODEEP"   -> request.value # <<>> /\ (Readable => TooDeep)
    [] code = "VALUE_CANTINSERT" ->
         /\ request.value # <<>>
         /\ ~Readable \/ (Does({"ARRAY_ADD_UNIQUE"}) /\ Len(Items) # 1)

ValueCode == {"VALUE_EMPTY", "VALUE_ETOODEEP", "VALUE_CANTINSERT"}

Insert(handler) ==
  \/ \E code \in ValueCode : ValueIs(code) /\ Refuse(code)
  \/ (\A code \in ValueCode : ~ValueIs(code)) /\ handler

-----------------------------------------------------------------------------
(* The commands. *)

RefusePath ==
  \/ Path = <<>> /\ Refuse("PATH_EINVAL")
  \/ Len(Path) > MaxComponents /\ Refuse("PATH_E2BIG")

Retrieve == Does({"GET", "EXISTS"}) /\ Lookup(Reply(Text(Target)), NotThere)

GetCount ==
  /\ Does({"GET_COUNT"})
  /\ Lookup(IF IsContainer(Target) THEN Reply(TextOf(Len(Target.kids)))
            ELSE Refuse("PATH_MISMATCH"),
            NotThere)

RefuseRoot == /\ IsRoot /\ Does({"REMOVE", "DICT_ADD", "DICT_UPSERT", "REPLACE"})
              /\ Refuse("VALUE_CANTINSERT")

Without(node, i) == [node EXCEPT !.kids = RemoveAt(@, i),
                                 !.keys = IF @ = <<>> THEN @ ELSE RemoveAt(@, i)]

Delete ==
  /\ Does({"REMOVE"}) /\ ~IsRoot
  /\ Lookup(Change(PlaceAt(tree, Front(Way), Without(ParentOf(tree, Path), Last(Way))), <<>>),
            NotThere)

StoreMissing ==
  IF Does({"REPLACE"}) \/ (Len(Absent) > 1 /\ ~request.is_mkdir_p)
  THEN NotThere ELSE Create(Value, <<>>)

StoreDict ==
  /\ OneValue /\ ~IsRoot
  /\ Insert(IF End.ptype = "NUMERIC" /\ ~Does({"REPLACE"})
            THEN Lookup(Refuse("PATH_EINVAL"), Refuse("PATH_EINVAL"))
            ELSE Lookup(IF Does({"DICT_ADD"}) THEN Refuse("DOC_EEXISTS")
                        ELSE Change(Put(Value), <<>>),
                        StoreMissing))

(* At an end of an array, which _P creates with the value in it. *)
Extend(kids) ==
  Lookup(IF Target.kind = "list" THEN Change(Put(List(kids)), <<>>)
         ELSE Refuse("PATH_MISMATCH"),
         IF request.is_mkdir_p THEN Create(List(Items), <<>>) ELSE NotThere)

ArrayPrepend ==
  /\ Does({"ARRAY_PREPEND"})
  /\ Insert(IF Len(Path) = MaxComponents THEN Refuse("PATH_E2BIG")
            ELSE Extend(Items \o Target.kids))

ArrayAppend == Does({"ARRAY_APPEND"}) /\ Insert(Extend(Target.kids \o Items))

(* Primitives only, in the array and as the value.                         *)
HasContainer(kids) == \E i \in 1 .. Len(kids) : IsContainer(kids[i])
Has(kids, item)    == \E i \in 1 .. Len(kids) : kids[i] = item

(* Where it is not so subdoc-api.h says PATH_MISMATCH, and the library may *)
(* name another error: nothing is said but that there is one.              *)
RefuseSomehow == answer'.code # "SUCCESS" /\ answer'.reply = <<>> /\ UNCHANGED tree

AddUnique ==
  LET kids == IF Found(tree, Path) /\ Target.kind = "list" THEN Target.kids ELSE <<>>
  IN  /\ Does({"ARRAY_ADD_UNIQUE"})
      /\ IF Readable /\ HasContainer(Items) THEN RefuseSomehow
         ELSE Insert(CASE HasContainer(kids) /\ Has(kids, Items[1])   -> RefuseSomehow
                       [] HasContainer(kids) /\ ~Has(kids, Items[1])  -> Refuse("PATH_MISMATCH")
                       [] ~HasContainer(kids) /\ Has(kids, Items[1])  -> Refuse("DOC_EEXISTS")
                       [] ~HasContainer(kids) /\ ~Has(kids, Items[1]) -> Extend(kids \o Items))

(* Before an element, or after the last one. *)
InsertBefore(kids, i) == SubSeq(kids, 1, i) \o Items \o SubSeq(kids, i + 1, Len(kids))

ArrayInsert ==
  /\ Does({"ARRAY_INSERT"})
  /\ Insert(IF End.ptype # "NUMERIC" \/ End.is_neg THEN Refuse("PATH_EINVAL")
            ELSE Lookup(Change(PlaceAt(tree, Front(Way),
                                       List(InsertBefore(ParentOf(tree, Path).kids, End.idx))), <<>>),
                        IF Len(Absent) = 1 /\ End.idx = Len(Target.kids)
                        THEN Change(Put(List(Target.kids \o Items)), <<>>)
                        ELSE NotThere))

(* A counter is an integer in the range; it must stay in it. *)
DeltaIs(code) ==
  CASE code = "VALUE_EMPTY"  -> request.value = <<>>
    [] code = "DELTA_EINVAL" ->
         /\ request.value # <<>>
         /\ \/ ~IsInteger(request.value)
            \/ Head(Digits(request.value)) = "0"
            \/ ~InRange(IntOf(request.value))

Add(number, delta) ==
  IF ~InRange(number) THEN Refuse("NUM_E2BIG")
  ELSE IF ~InRange(number + delta) THEN Refuse("DELTA_OVERFLOW")
  ELSE Change(Put(Lit(TextOf(number + delta))), TextOf(number + delta))

Count ==
  IF Target.kind # "lit" \/ ~IsInteger(Target.toks) THEN Refuse("PATH_MISMATCH")
  ELSE Add(IntOf(Target.toks), IntOf(request.value))

StartCount ==
  IF Target.kind # "obj" \/ (Len(Absent) > 1 /\ ~request.is_mkdir_p) THEN NotThere
  ELSE IF End.ptype = "NUMERIC" THEN Refuse("PATH_EINVAL")
  ELSE Create(Lit(TextOf(IntOf(request.value))), TextOf(IntOf(request.value)))

Counter ==
  /\ Does({"COUNTER"})
  /\ \/ \E code \in {"VALUE_EMPTY", "DELTA_EINVAL"} : DeltaIs(code) /\ Refuse(code)
     \/ /\ \A code \in {"VALUE_EMPTY", "DELTA_EINVAL"} : ~DeltaIs(code)
        /\ Lookup(Count, StartCount)

Command == \/ Retrieve \/ GetCount \/ RefuseRoot \/ Delete \/ StoreDict
           \/ ArrayPrepend \/ ArrayAppend \/ AddUnique \/ ArrayInsert \/ Counter

-----------------------------------------------------------------------------
Init == tree = NoTree /\ request = NoRequest /\ answer = NoAnswer

Load == /\ tree = NoTree /\ request = NoRequest
        /\ tree' \in Documents
        /\ UNCHANGED <<request, answer>>

Ask == /\ tree # NoTree /\ request = NoRequest
       /\ request' \in Requests
       /\ UNCHANGED <<tree, answer>>

Do == /\ answer' # NoAnswer
      /\ request # NoRequest /\ answer = NoAnswer
      /\ \/ tree = Broken
         \/ tree # Broken /\ RefusePath
         \/ tree # Broken /\ Len(Path) \in 1 .. MaxComponents /\ Command
      /\ UNCHANGED request

(* The caller goes on with the document, or puts it away. *)
Forget == /\ answer # NoAnswer
          /\ answer' = NoAnswer /\ request' = NoRequest
          /\ tree' \in {tree, NoTree}

Next == Load \/ Ask \/ Do \/ Forget
Spec == Init /\ [][Next]_subdocSpecVars
=============================================================================
