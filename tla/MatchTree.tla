----------------------------- MODULE MatchTree -----------------------------
(***************************************************************************)
(* exec_match() on well-formed documents, against what the path means in   *)
(* the tree the document was written from.                                 *)
(***************************************************************************)
EXTENDS Match, JsonTree

CONSTANTS
  Trees,      \* the documents, as trees
  Spacing,    \* the white space they may be written with
  Paths,      \* parsed paths
  Uniques     \* what ensure_unique may be set to: trees, or NoUnique

VARIABLES
  tree,       \* the document being searched
  unique      \* the value that ensure_unique was set to

treeVars == <<searchVars, tree, unique>>

NoUnique == Lit(<<>>)

(* The caller sets one option at a time. *)
Prepared(option) ==
  CASE option \in {"GET_FOLLOWING_SIBLINGS", "GET_MATCH_ONLY"} ->
         [BlankMatch EXCEPT !.extra_options = option]
    [] option = "get_last" -> [BlankMatch EXCEPT !.get_last = TRUE]

Ask ==
  /\ pc = "IDLE"
  /\ \E node \in Trees, sp \in Spacing, p \in Paths :
       /\ tree' = node
       /\ \/ \E option \in {"GET_FOLLOWING_SIBLINGS", "GET_MATCH_ONLY", "get_last"} :
               /\ unique' = NoUnique
               /\ Search(sp \o Render(node, sp) \o sp, p, Prepared(option))
          \/ \E value \in Uniques :
               /\ unique' = value
               /\ Search(sp \o Render(node, sp) \o sp, p,
                         [BlankMatch EXCEPT !.ensure_unique = Text(value)])

TreeInit == MatchInit /\ tree = List(<<>>) /\ unique = NoUnique
TreeNext ==
  \/ Ask
  \/ ExecMatch /\ UNCHANGED <<tree, unique>>
  \/ Clear /\ tree' = List(<<>>) /\ unique' = NoUnique
TreeSpec == TreeInit /\ [][TreeNext]_treeVars

-----------------------------------------------------------------------------
(* The path whose value exec_match() is asked for: get_last moves on to    *)
(* the last element.                                                       *)
Asked == IF m.get_last /\ ~HasNegix(path) THEN Append(path, Index(-1)) ELSE path

Answered == pc = "DONE" /\ m.status = "SUCCESS"
Complete == Answered /\ m.matchres = "COMPLETE"

(* A pass of a path with several negative indices begins at the value the  *)
(* pass before it found.  On a primitive, which is no document for         *)
(* jsonsl_feed(), it ends in an error of the lexer.                        *)
PassesBeginAtContainers ==
  \A i \in 2 .. Len(path) - 1 :
    path[i].is_neg /\ Found(tree, SubSeq(path, 1, i)) =>
      IsContainer(Deepest(tree, SubSeq(path, 1, i)))

Hole == Lit(<<"hole">>)

(* The document with a hole in place of a location is the tree with a hole *)
(* in place of a node: the location is that node's bytes and no others.    *)
IsAt(loc, walk) ==
  Unspaced(SubSeq(doc, 1, loc.at) \o <<"hole">>
             \o SubSeq(doc, loc.at + loc.length + 1, Len(doc)))
    = Text(PlaceAt(tree, walk, Hole))

TypeOfKind(node) == CASE node.kind = "obj"  -> "OBJECT"
                      [] node.kind = "list" -> "LIST"
                      [] node.kind = "str"  -> "STRING"
                      [] node.kind = "lit"  -> "SPECIAL"

(* exec_match() says COMPLETE exactly when the path is in the document and *)
(* TYPE_MISMATCH exactly when it treats a value as what it is not; it      *)
(* reports no error on a well-formed document.                             *)
VerdictIsRight ==
  pc = "DONE" /\ unique = NoUnique /\ PassesBeginAtContainers =>
    /\ m.status = "SUCCESS"
    /\ (m.matchres = "COMPLETE") = Found(tree, Asked)
    /\ (m.matchres = "TYPE_MISMATCH") = Mismatch(tree, Asked)

(* A complete match is exactly the value's bytes, and is described as what *)
(* it is: its type, its level, its children.                               *)
MatchIsExact ==
  Complete /\ ~m.unique_item_found /\ PassesBeginAtContainers =>
    LET value == Deepest(tree, Asked)
    IN /\ IsAt(m.loc_deepest, Names(tree, Asked))
       /\ m.type = TypeOfKind(value)
       /\ m.match_level = Len(Asked)
       /\ m.immediate_parent_found
       /\ IsContainer(value) => m.num_children = Len(value.keys) + Len(value.kids)

(* Among its siblings the match has its own number, and GET_FOLLOWING_     *)
(* SIBLINGS, or a final negative index, counts all the others: what        *)
(* do_remove() chooses its comma by.                                       *)
SiblingsAreCounted ==
  Complete /\ Len(Asked) > 1 /\ unique = NoUnique /\ PassesBeginAtContainers =>
    LET counted == \/ LastComponent(Asked).is_neg
                   \/ m.extra_options = "GET_FOLLOWING_SIBLINGS"
    IN /\ m.position = Last(Names(tree, Asked)) - 1
       /\ counted => m.num_siblings = Len(ParentOf(tree, Asked).kids) - 1

(* Where the path ends in nothing, the location is the deepest value on    *)
(* the way, with its level and its number of elements: what do_mkdir_p()   *)
(* and the insertions build on.  The immediate parent is found exactly     *)
(* when only the last component is missing.                                *)
DeepestParentIsExact ==
  pc = "DONE" /\ unique = NoUnique /\ ~Found(tree, path) /\ ~Mismatch(tree, path)
              /\ PassesBeginAtContainers =>
    LET walk == Names(tree, path)
        node == Deepest(tree, path)
    IN /\ IsAt(m.loc_deepest, walk)
       /\ m.match_level = Len(walk) + 1
       /\ m.type = TypeOfKind(node)
       /\ m.num_siblings = Len(node.kids)
       /\ m.immediate_parent_found = (Len(walk) = Len(path) - 2)

(* ensure_unique finds the value among the elements before the first one   *)
(* that is not a primitive, and stops there with TYPE_MISMATCH.            *)
UniqueIsDecided ==
  pc = "DONE" /\ unique # NoUnique /\ ~HasNegix(path) /\ Found(tree, path)
              /\ Deepest(tree, path).kind = "list" =>
    LET kids    == Deepest(tree, path).kids
        settles == {i \in 1 .. Len(kids) : kids[i] = unique \/ IsContainer(kids[i])}
        first   == Min(settles)
    IN /\ m.unique_item_found = (settles # {} /\ ~IsContainer(kids[first]))
       /\ (m.matchres = "TYPE_MISMATCH") = (settles # {} /\ IsContainer(kids[first]))
=============================================================================
