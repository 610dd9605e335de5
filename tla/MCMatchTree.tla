---------------------------- MODULE MCMatchTree ----------------------------
(***************************************************************************)
(* Documents two and three levels deep, with no, one and two elements at   *)
(* each level, primitives of each kind, and the same values in several     *)
(* places.                                                                 *)
(***************************************************************************)
EXTENDS MatchTree

KeyA == <<"a">>
KeyB == <<"b">>
One  == Lit(<<"1">>)
Ten  == Lit(<<"1", "0">>)
XStr == Str(<<"x", ",">>)

Leaf  == {One, XStr}
Small == {List(<<>>), Obj(<<>>, <<>>), List(<<XStr>>), List(<<Ten, One>>),
          Obj(<<KeyA>>, <<One>>), Obj(<<KeyB, KeyA>>, <<One, XStr>>)}

MCTrees ==
  Small \cup {List(<<x>>) : x \in Small \cup Leaf}
        \cup {List(<<x, y>>) : x \in Small \cup Leaf, y \in {XStr, List(<<Ten>>)}}
        \cup {Obj(<<KeyA>>, <<x>>) : x \in Small \cup Leaf}
        \cup {Obj(<<KeyA, KeyB>>, <<x, y>>) :
                 x \in Small \cup Leaf, y \in {One, Obj(<<KeyA>>, <<Ten>>)}}
        \cup {Obj(<<KeyB>>, <<Obj(<<KeyA>>, <<x>>)>>) : x \in Small}
        \cup {List(<<One, List(<<x, Ten>>)>>) : x \in Small}

MCSpacing == {<<>>, <<"sp">>}

Step_ == {Name(KeyA), Name(KeyB), Index(0), Index(1), Index(-1)}
MCPaths == {<<Root>>} \cup {<<Root, c>> : c \in Step_}
             \cup {<<Root, c, d>> : c, d \in Step_}
             \cup {<<Root, Name(KeyB), Name(KeyA), c>> : c \in Step_}
             \cup {<<Root, Index(-1), c, Index(-1)>> : c \in Step_}

MCUniques == {One, XStr}
=============================================================================
