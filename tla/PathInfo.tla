------------------------------ MODULE PathInfo ------------------------------
(***************************************************************************)
(* A parsed path: the components PathComponentInfo holds, the root first.  *)
(***************************************************************************)
EXTENDS Integers, Sequences

Component == [ptype : {"ROOT", "STRING", "NUMERIC"}, pstr : Seq(STRING),
              idx : Int, is_neg : BOOLEAN]

Root        == [ptype |-> "ROOT", pstr |-> <<>>, idx |-> 0, is_neg |-> FALSE]
Name(key)   == [ptype |-> "STRING", pstr |-> key, idx |-> 0, is_neg |-> FALSE]

(* Path::add_array_index(): -1, the only negative index a path may hold,   *)
(* is the last element.                                                    *)
Index(ixnum) == [ptype |-> "NUMERIC", pstr |-> <<>>, idx |-> ixnum,
                 is_neg |-> ixnum = -1]

HasNegix(pth) == \E i \in 1 .. Len(pth) : pth[i].is_neg

LastComponent(pth) == pth[Len(pth)]
=============================================================================
