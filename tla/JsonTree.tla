------------------------------ MODULE JsonTree ------------------------------
(***************************************************************************)
(* JSON documents as trees: what a document means, how it is written, and  *)
(* what a path names in it.  Independent of the lexer; the runs compare    *)
(* what the library does to the bytes with what should happen to the tree. *)
(*                                                                         *)
(* All nodes have the same fields: toks are the symbols of a bare word, of *)
(* a number or between a string's quotes, keys name an object's kids.      *)
(***************************************************************************)
EXTENDS PathInfo, Chars, FiniteSetsExt, SequencesExt

Lit(toks)       == [kind |-> "lit", toks |-> toks, keys |-> <<>>, kids |-> <<>>]
Str(toks)       == [kind |-> "str", toks |-> toks, keys |-> <<>>, kids |-> <<>>]
List(kids)      == [kind |-> "list", toks |-> <<>>, keys |-> <<>>, kids |-> kids]
Obj(keys, kids) == [kind |-> "obj", toks |-> <<>>, keys |-> keys, kids |-> kids]

IsContainer(node) == node.kind \in {"list", "obj"}

Quoted(toks) == <<Quote>> \o toks \o <<Quote>>

(* The text of a tree, with sp around every structural symbol. *)
RECURSIVE Render(_, _)
Render(node, sp) ==
  LET Entry(i) == IF node.kind = "list" THEN Render(node.kids[i], sp)
                  ELSE Quoted(node.keys[i]) \o sp \o <<":">> \o sp
                         \o Render(node.kids[i], sp)
      entries  == [i \in 1 .. Len(node.kids) |->
                     IF i = 1 THEN Entry(i) ELSE sp \o <<",">> \o sp \o Entry(i)]
  IN CASE node.kind = "lit"  -> node.toks
       [] node.kind = "str"  -> Quoted(node.toks)
       [] node.kind = "list" -> <<"[">> \o sp \o FlattenSeq(entries) \o sp \o <<"]">>
       [] node.kind = "obj"  -> <<"{">> \o sp \o FlattenSeq(entries) \o sp \o <<"}">>

Text(node) == Render(node, <<>>)

(* A text without the white space between its symbols. *)
WithinString(bytes, i) == Cardinality({j \in 1 .. i - 1 : bytes[j] = Quote}) % 2 = 1
IsSpace(bytes, i)  == bytes[i] \in Whitespace /\ ~WithinString(bytes, i)

Unspaced(bytes) ==
  LET kept == SelectSeq([i \in 1 .. Len(bytes) |-> i], LAMBDA i : ~IsSpace(bytes, i))
  IN  [n \in 1 .. Len(kept) |-> bytes[kept[n]]]

-----------------------------------------------------------------------------
(* The kid a component names, as an index from 1; 0 if there is none. *)
KidNamed(node, comp) ==
  CASE comp.ptype = "STRING" /\ node.kind = "obj" ->
         Max({0} \cup {i \in 1 .. Len(node.keys) : node.keys[i] = comp.pstr})
    [] comp.ptype = "NUMERIC" /\ node.kind = "list" /\ comp.is_neg -> Len(node.kids)
    [] comp.ptype = "NUMERIC" /\ node.kind = "list" /\ comp.idx \in 0 .. Len(node.kids) - 1 ->
         comp.idx + 1
    [] OTHER -> 0

(* As far as the components of a path (the root left out) lead: the        *)
(* indices of the kids on the way.                                         *)
RECURSIVE Walk(_, _)
Walk(node, comps) ==
  IF comps = <<>> \/ KidNamed(node, Head(comps)) = 0 THEN <<>>
  ELSE <<KidNamed(node, Head(comps))>>
         \o Walk(node.kids[KidNamed(node, Head(comps))], Tail(comps))

RECURSIVE NodeAt(_, _)
NodeAt(node, walk) ==
  IF walk = <<>> THEN node ELSE NodeAt(node.kids[Head(walk)], Tail(walk))

RECURSIVE PlaceAt(_, _, _)
PlaceAt(node, walk, new) ==
  IF walk = <<>> THEN new
  ELSE [node EXCEPT !.kids[Head(walk)] = PlaceAt(@, Tail(walk), new)]

(* What a path means in a document. *)
Names(node, path)     == Walk(node, Tail(path))
Found(node, path)     == Len(Names(node, path)) = Len(path) - 1
Deepest(node, path)   == NodeAt(node, Names(node, path))
NextComp(node, path)  == path[Len(Names(node, path)) + 2]

(* The path treats something that exists as the wrong type. *)
Mismatch(node, path) ==
  /\ ~Found(node, path)
  /\ Deepest(node, path).kind #
       IF NextComp(node, path).ptype = "NUMERIC" THEN "list" ELSE "obj"

ParentOf(node, path) == NodeAt(node, Front(Names(node, path)))

-----------------------------------------------------------------------------
(* The tree a text is written from, Broken if it is from none.  Strings    *)
(* have no escapes in the runs.                                            *)
Broken    == [kind |-> "broken", toks |-> <<>>, keys |-> <<>>, kids |-> <<>>]
Unread    == [node |-> Broken, next |-> 0]
Reads(node, next) == [node |-> node, next |-> next]

RECURSIVE ParseValue(_, _), ParseKids(_, _, _)
ParseValue(b, i) ==
  LET quotes == {j \in i + 1 .. Len(b) : b[j] = Quote}
      ends   == {j \in i .. Len(b) : b[j] \in SpecialEnd} \cup {Len(b) + 1}
  IN IF i > Len(b) THEN Unread
     ELSE CASE b[i] = Quote -> IF quotes = {} THEN Unread
                               ELSE Reads(Str(SubSeq(b, i + 1, Min(quotes) - 1)), Min(quotes) + 1)
            [] b[i] = "[" -> IF i < Len(b) /\ b[i + 1] = "]" THEN Reads(List(<<>>), i + 2)
                             ELSE ParseKids(b, i + 1, List(<<>>))
            [] b[i] = "{" -> IF i < Len(b) /\ b[i + 1] = "}" THEN Reads(Obj(<<>>, <<>>), i + 2)
                             ELSE ParseKids(b, i + 1, Obj(<<>>, <<>>))
            [] OTHER -> IF Min(ends) = i THEN Unread
                        ELSE Reads(Lit(SubSeq(b, i, Min(ends) - 1)), Min(ends))

ParseKids(b, i, node) ==
  LET isObj == node.kind = "obj"
      key   == IF isObj THEN ParseValue(b, i) ELSE Reads(Broken, i - 1)
      named == isObj => /\ key.node.kind = "str"
                        /\ key.next <= Len(b) /\ b[key.next] = ":"
      kid   == IF named THEN ParseValue(b, key.next + 1) ELSE Unread
      grown == [node EXCEPT !.kids = Append(@, kid.node),
                            !.keys = IF isObj THEN Append(@, key.node.toks) ELSE @]
  IN IF kid.next \notin 1 .. Len(b) THEN Unread
     ELSE CASE b[kid.next] = "," -> ParseKids(b, kid.next + 1, grown)
            [] b[kid.next] = (IF isObj THEN "}" ELSE "]") -> Reads(grown, kid.next + 1)
            [] OTHER -> Unread

(* White space that parts what would be one word without it. *)
Parts(bytes) ==
  \E i, j \in 1 .. Len(bytes) :
    /\ i + 1 < j /\ \A k \in i + 1 .. j - 1 : IsSpace(bytes, k)
    /\ {bytes[i], bytes[j]} \cap SpecialEnd = {}

Parsed(bytes) ==
  LET read == ParseValue(Unspaced(bytes), 1)
  IN  IF read.next = Len(Unspaced(bytes)) + 1 /\ ~Parts(bytes) THEN read.node ELSE Broken

(* How many levels a document takes: containers and primitives. *)
RECURSIVE Depth(_)
Depth(node) == 1 + Max({0} \cup {Depth(node.kids[i]) : i \in 1 .. Len(node.kids)})
=============================================================================
