------------------------ MODULE MCOperationsFindings ------------------------
(* The requests the runs of OperationsTree leave out, for the findings.    *)
EXTENDS OperationsTree, PathGrammar

One  == Lit(<<"1">>)
KeyA == <<"a">>
KeyB == <<"b">>

Trees_ ==
  {List(<<Obj(<<KeyA, KeyB>>, <<One, One>>)>>), List(<<List(<<One>>)>>),
   List(<<One>>), List(<<Str(<<"1">>)>>)}

MCDocuments == {Text(node) : node \in Trees_}

Command_(base, p, bytes) ==
  [base |-> base, is_mkdir_p |-> FALSE, path |-> p, text |-> PathText(p),
   value |-> bytes]

Asks(requests) == [one |-> [documents |-> MCDocuments, requests |-> requests, longest |-> 0]]

MCRemove == Asks({Command_("REMOVE", <<Root, Index(-1), Name(KeyA)>>, <<>>)})
MCUnique == Asks({Command_("ARRAY_ADD_UNIQUE", <<Root>>, bytes) :
                    bytes \in {Text(One), <<"2", "1", "2">>}})
MCBlank  == Asks({Command_("ARRAY_APPEND", <<Root>>, <<"sp">>)})
=============================================================================
