-------------------------- MODULE MCOperationsTree --------------------------
(***************************************************************************)
(* Four callers: every command on every short path of a few documents,    *)
(* with the values the command takes and some it must refuse; a few        *)
(* requests in every order on one document that grows and shrinks; one     *)
(* request of each kind on texts that are or are not JSON; and every       *)
(* command on paths that begin with a blank.                               *)
(***************************************************************************)
EXTENDS OperationsTree, PathGrammar

KeyA == <<"a">>
KeyB == <<"b">>
One  == Lit(<<"1">>)
XStr == Str(<<"x">>)
Deep == List(<<List(<<One>>)>>)

SomeTrees ==
  {List(<<>>), Obj(<<>>, <<>>),
   List(<<XStr, List(<<One>>)>>), List(<<One, XStr, List(<<>>)>>),
   List(<<Obj(<<KeyA, KeyB>>, <<One, XStr>>)>>),
   Obj(<<KeyB, KeyA>>, <<XStr, Lit(<<"9", "0">>)>>),
   Obj(<<KeyA>>, <<Lit(<<"-", "9">>)>>),
   Obj(<<KeyA>>, <<Lit(<<"9", "9", "9">>)>>),
   Obj(<<KeyA, KeyB>>, <<Obj(<<>>, <<>>), Lit(<<"1", ".", "0">>)>>),
   Obj(<<KeyA>>, <<Obj(<<KeyA>>, <<List(<<>>)>>)>>),
   Obj(<<KeyA>>, <<Obj(<<KeyA>>, <<List(<<One, XStr>>)>>)>>)}

(* Parsed() reads back what Render() writes. *)
SpacedTrees == {List(<<>>), List(<<XStr, List(<<One>>)>>),
                Obj(<<KeyA, KeyB>>, <<Obj(<<>>, <<>>), Lit(<<"1", ".", "0">>)>>)}
Spaced(node, sp) == sp \o Render(node, sp) \o sp
SomeDocuments == {Spaced(node, <<>>) : node \in SomeTrees}
                   \cup {Spaced(node, <<"sp">>) : node \in SpacedTrees}
ASSUME \A node \in SomeTrees, sp \in {<<>>, <<"sp">>} : Parsed(sp \o Render(node, sp)) = node

(* Paths that lead somewhere in one document and nowhere in another. *)
Comps == {Name(KeyA), Name(KeyB), Index(0), Index(1), Index(2), Index(-1)}
MCPaths == {<<Root>>} \cup {<<Root, c>> : c \in Comps}
             \cup {<<Root, Name(KeyA), c>> : c \in {Name(KeyA), Name(KeyB), Index(0)}}
             \cup {<<Root, Index(-1), Name(KeyA)>>, <<Root, Index(1), Index(0)>>}
             \cup {<<Root, Name(KeyA), Name(KeyA), c>> : c \in {Name(KeyB), Index(1), Index(2)}}
FewPaths == {<<Root>>, <<Root, Name(KeyA)>>, <<Root, Name(KeyA), Name(KeyA)>>}

Values  == {Text(Obj(<<KeyA>>, <<One>>)), Text(Deep), <<>>, <<"[", "1">>, <<"1", "]">>}
Series == {Text(One) \o <<",">> \o Text(XStr), Text(One) \o <<",">>}
Deltas  == {TextOf(-120), <<"5", "0">>, <<"9", "9", "9">>, <<"0">>, <<>>, <<"a">>}

Plain(base, is_mkdir_p, p, bytes) ==
  [base |-> base, is_mkdir_p |-> is_mkdir_p, path |-> p, text |-> PathText(p), value |-> bytes]

Of(base, is_mkdir_p, paths, values) ==
  {Plain(base, is_mkdir_p, p, bytes) : p \in paths, bytes \in values}

(* A plain value on every path, the other ones on a few. *)
WithValues(base, is_mkdir_p, others) ==
  Of(base, is_mkdir_p, MCPaths, {Text(One)}) \cup Of(base, is_mkdir_p, FewPaths, others)

(* REMOVE below a negative index, ADD_UNIQUE with one: the search forgets  *)
(* what it was asked, see RemoveLeavesJson.                                *)
Expected(r) == CASE r.base = "REMOVE"           -> ~HasNegix(Front(r.path))
                 [] r.base = "ARRAY_ADD_UNIQUE" -> ~HasNegix(r.path)
                 [] OTHER                       -> TRUE

(* Texts that are no path, and one of a path that is too long. *)
Unreadable ==
  {[base |-> base, is_mkdir_p |-> FALSE, path |-> <<>>, text |-> pth, value |-> <<"1">>] :
     base \in {"GET", "DICT_ADD"}, pth \in {<<".", "a">>, <<"[", "-", "2", "]">>, <<"tick", "a">>}}
TooLong == Of("GET", FALSE, {<<Root, Index(0), Index(0), Index(0), Name(KeyA)>>}, {<<>>})

MCRequests == Unreadable \cup TooLong \cup
  {r \in UNION {Of(base, FALSE, MCPaths, {<<>>}) : base \in {"GET", "EXISTS", "GET_COUNT", "REMOVE"}}
         \cup WithValues("REPLACE", FALSE, Values)
         \cup UNION {WithValues(base, p, Values) : base \in {"DICT_ADD", "DICT_UPSERT"}, p \in BOOLEAN}
         \cup UNION {WithValues(base, p, Values \cup Series) :
                       base \in {"ARRAY_APPEND", "ARRAY_PREPEND", "ARRAY_ADD_UNIQUE"}, p \in BOOLEAN}
         \cup WithValues("ARRAY_INSERT", FALSE, Values \cup Series)
         \cup UNION {WithValues("COUNTER", p, Deltas) : p \in BOOLEAN} : Expected(r)}

-----------------------------------------------------------------------------
OneDocument == {Text(Obj(<<KeyA>>, <<List(<<>>)>>))}

MCSeriesOfRequests ==
  {Plain("DICT_UPSERT", TRUE, <<Root, Name(KeyB), Name(KeyA)>>, Text(One)),
   Plain("COUNTER", TRUE, <<Root, Name(KeyB), Name(KeyA)>>, <<"5", "0">>),
   Plain("ARRAY_ADD_UNIQUE", FALSE, <<Root, Name(KeyA)>>, Text(One)),
   Plain("ARRAY_PREPEND", FALSE, <<Root, Name(KeyA)>>, Text(XStr)),
   Plain("ARRAY_INSERT", FALSE, <<Root, Name(KeyA), Index(1)>>, Text(One)),
   Plain("REPLACE", FALSE, <<Root, Name(KeyA), Index(0)>>, Text(List(<<>>))),
   Plain("REMOVE", FALSE, <<Root, Name(KeyA), Index(0)>>, <<>>),
   Plain("REMOVE", FALSE, <<Root, Name(KeyB)>>, <<>>),
   Plain("GET_COUNT", FALSE, <<Root, Name(KeyA)>>, <<>>)}
-----------------------------------------------------------------------------
(* Documents of a few tokens, and requests that search them in every way.  *)
Token == {<<"{">>, <<"}">>, <<"[">>, <<"]">>, <<",">>, <<"quote", "a", "quote", ":">>,
          <<"1">>, <<"sp">>}
MCTexts == UNION {{FlattenSeq(tokens) : tokens \in [1 .. n -> Token]} : n \in 1 .. 3}

OneOfEach ==
  {Plain("GET", FALSE, <<Root, Name(KeyA)>>, <<>>),
   Plain("GET_COUNT", FALSE, <<Root>>, <<>>),
   Plain("REMOVE", FALSE, <<Root, Index(-1)>>, <<>>),
   Plain("REMOVE", FALSE, <<Root, Name(KeyA)>>, <<>>),
   Plain("DICT_UPSERT", TRUE, <<Root, Name(KeyA), Name(KeyB)>>, Text(One)),
   Plain("COUNTER", TRUE, <<Root, Name(KeyA)>>, <<"5", "0">>),
   Plain("ARRAY_APPEND", FALSE, <<Root>>, Text(One)),
   Plain("ARRAY_ADD_UNIQUE", FALSE, <<Root>>, Text(One)),
   Plain("ARRAY_PREPEND", FALSE, <<Root, Name(KeyA)>>, Text(One)),
   Plain("ARRAY_INSERT", FALSE, <<Root, Index(1)>>, Text(One))}

-----------------------------------------------------------------------------
(* Names that begin with a blank, on new documents and where they are.     *)
Blank == <<"sp">>
BlankPaths == {<<Root, Name(Blank)>>, <<Root, Name(Blank), Index(0)>>,
               <<Root, Name(Blank), Name(KeyA)>>, <<Root, Name(Blank \o KeyA)>>}
BlankDocuments == {Text(List(<<>>)), Text(Obj(<<>>, <<>>)),
                   Text(Obj(<<Blank>>, <<List(<<One>>)>>)),
                   Text(Obj(<<Blank \o KeyA, KeyA>>, <<One, XStr>>))}

GoodValue(base) ==
  CASE base \in {"GET", "EXISTS", "GET_COUNT", "REMOVE"} -> <<>>
    [] base = "COUNTER" -> <<"5", "0">>
    [] OTHER            -> Text(XStr)

OnBlanks ==
  {Plain(c.base, c.is_mkdir_p, p, GoodValue(c.base)) : c \in Command, p \in BlankPaths}
    \cup {[base |-> "GET", is_mkdir_p |-> FALSE, path |-> <<>>,
           text |-> <<"tab", "[", "0", "]">>, value |-> <<>>]}

AllCallers ==
  [trees     |-> [documents |-> SomeDocuments, requests |-> MCRequests, longest |-> 0],
   sequences |-> [documents |-> OneDocument, requests |-> MCSeriesOfRequests, longest |-> 22],
   texts     |-> [documents |-> MCTexts, requests |-> OneOfEach, longest |-> 0],
   blanks    |-> [documents |-> BlankDocuments, requests |-> OnBlanks, longest |-> 0]]

(* Named again, so that TLC evaluates it once. *)
MCCallers == AllCallers
=============================================================================
