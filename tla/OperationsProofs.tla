-------------------------- MODULE OperationsProofs --------------------------
(***************************************************************************)
(* op_exec() for every document, path, value and command: the Path, the    *)
(* validator and the matcher take turns at the one lexer, and the new      *)
(* document is cut out of the old one in order.                            *)
(*                                                                         *)
(* OpInv joins the invariants of the parts: PathInv throughout, SearchInv  *)
(* when no value is being validated, and what the search leaves behind     *)
(* when one is.  Turns says who may move.                                  *)
(***************************************************************************)
EXTENDS OperationsClient, MatchProofs, PathSteps

-----------------------------------------------------------------------------
ValidRecord == [err : Status, rootcount : Nat, maxdepth : Nat \cup {Unlimited}]

OpTypes ==
  /\ value \in Seq(STRING) /\ mode \in Mode /\ v \in ValidRecord
  /\ vpc \in {"IDLE", "PRE", "VALUE", "POST", "END"}
  /\ op \in [doc : Seq(STRING), optype : Command, userval : Seq(STRING)]
  /\ oppc \in {"IDLE", "BEGIN", "VALIDATE", "MATCH", "DONE"}

(* The lexer is the validator's, and the search has not begun. *)
LexerLent == LexerInv /\ SearchTypes /\ Placed /\ mres = NoResults

Turns ==
  /\ vpc # "IDLE" => oppc = "VALIDATE"
  /\ oppc \in {"IDLE", "BEGIN", "VALIDATE"} => pc = "IDLE"
  /\ oppc \in {"VALIDATE", "MATCH"} => ppc = "DONE"
  /\ oppc = "MATCH" => pc # "IDLE" /\ doc = op.doc /\ ~EmptyAppends

OpInv ==
  /\ PathInv /\ OpTypes /\ Turns
  /\ IF vpc = "IDLE" THEN SearchInv ELSE LexerLent
  /\ SegmentsInOrder

-----------------------------------------------------------------------------
(* The document in pieces. *)

(* parts begins with one piece of the document and ends with another; what *)
(* is between them is new.                                                 *)
Frames(parts, n, before, after) ==
  /\ n \in Nat /\ n >= 2 /\ DOMAIN parts = 1 .. n
  /\ parts[1] = before /\ parts[n] = after
  /\ \A i \in 2 .. n - 1 : parts[i].at = Null

\* Two pieces that do not overlap, the first one from the first byte, are in
\* order.
LEMMA FramesInOrder ==
  ASSUME op' = op, Len(op.doc) \in Nat, NEW parts, NEW n, NEW x \in Nat, NEW y \in Nat, NEW z \in Nat,
         Frames(parts, n, DocPart(0, x), DocPart(y, z)), x <= y, y + z <= Len(op.doc),
         result'.newdoc = parts
  PROVE  SegmentsInOrder'
<1>1. /\ n \in Nat /\ n >= 2 /\ DOMAIN result'.newdoc = 1 .. n
      /\ result'.newdoc[1].at = 0 /\ result'.newdoc[1].length = x
      /\ result'.newdoc[n].at = y /\ result'.newdoc[n].length = z
      /\ \A i \in 2 .. n - 1 : result'.newdoc[i].at = Null
  BY DEF Frames, DocPart
<1>2. \A i \in OldParts' : i = 1 \/ i = n
  <2>1. ASSUME NEW i \in 1 .. n, i # 1, i # n PROVE result'.newdoc[i].at = Null
    <3>1. i \in 2 .. n - 1
      BY <1>1, <2>1
    <3> QED
      BY <1>1, <3>1
  <2> QED
    BY <1>1, <2>1 DEF OldParts
<1>3. 1 \in OldParts' /\ n \in OldParts'
  BY <1>1 DEF OldParts, Null
<1>4. \A i \in OldParts' : 1 <= i
  BY <1>1, <1>2
<1>5. \A i \in OldParts' :
        /\ result'.newdoc[i].at >= 0 /\ result'.newdoc[i].length >= 0
        /\ result'.newdoc[i].at + result'.newdoc[i].length <= Len(op'.doc)
  <2>1. 0 + x <= Len(op.doc)
    OBVIOUS
  <2> QED
    BY <1>1, <1>2, <2>1
<1>6. \A i, j \in OldParts' : i < j => InOrder(i, j)'
  <2> SUFFICES ASSUME NEW i \in OldParts', NEW j \in OldParts', i < j PROVE InOrder(i, j)'
    OBVIOUS
  <2>1. i = 1 /\ j = n
    BY <1>1, <1>2
  <2> QED
    BY <1>1, <2>1 DEF InOrder
<1> QED
  BY <1>1, <1>3, <1>4, <1>5, <1>6 DEF SegmentsInOrder

\* A refusal changes nothing.
LEMMA RefusalInOrder ==
  ASSUME result'.newdoc = <<>> \/ oppc' # "DONE"
  PROVE  SegmentsInOrder'
  BY DEF SegmentsInOrder, Changed, Answered

LEMMA FailsMeans ==
  ASSUME NEW code, Fails(code)
  PROVE  result'.newdoc = <<>>
  BY DEF Fails, BlankResult

LEMMA AnswersMeans ==
  ASSUME NEW parts, NEW reply, Answers(parts, reply)
  PROVE  result'.newdoc = parts
  BY DEF Answers, BlankResult

-----------------------------------------------------------------------------
(* The handlers. *)

(* A handler is called after the search, and leaves the parts alone. *)
Handling ==
  /\ SearchTypes /\ Placed /\ doc = op.doc /\ ~EmptyAppends /\ MatchError = "SUCCESS"
  /\ op' = op /\ m' = m /\ UNCHANGED parseVars

\* The path, read through the pointers of the Path, is what it was.
LEMMA PathIsSame ==
  ASSUME op' = op, UNCHANGED parseVars
  PROVE  OpPath' = OpPath /\ (EmptyAppends' <=> EmptyAppends)
<1>1. ParsedPath' = ParsedPath
  BY DEF parseVars, heapVars, ParsedPath, KeyOf
<1> QED
  BY <1>1 DEF OpPath, EmptyAppends

(* Two pieces of the document, one after the other. *)
Cut(before, after) ==
  \E x, y, z \in Nat : /\ before = DocPart(0, x) /\ after = DocPart(y, z)
                       /\ x <= y /\ y + z <= Len(op.doc)

\* What is laid out in a cut is in order.
LEMMA CutInOrder ==
  ASSUME op' = op, Len(op.doc) \in Nat, NEW parts, NEW n, NEW before, NEW after,
         Frames(parts, n, before, after), Cut(before, after), result'.newdoc = parts
  PROVE  SegmentsInOrder'
<1>1. PICK x \in Nat, y \in Nat, z \in Nat :
        /\ before = DocPart(0, x) /\ after = DocPart(y, z)
        /\ x <= y /\ y + z <= Len(op.doc)
  BY DEF Cut
<1> QED
  BY <1>1, FramesInOrder

\* Where the search has found anything, it is inside the document.
LEMMA PlaceFacts ==
  ASSUME Handling
  PROVE  /\ Place.at \in Int /\ Place.length \in Int /\ Len(op.doc) \in Nat
         /\ Place.length # 0 => /\ Place.at \in Nat /\ Place.length \in Nat
                                /\ Place.at + Place.length <= Len(op.doc)
<1>1. SearchTypes /\ Placed /\ doc = op.doc
  BY DEF Handling
<1>2. Place.at \in Int /\ Place.length \in Int /\ Len(op.doc) \in Nat
  BY <1>1, SearchFacts DEF Place, Null
<1>3. Place.length # 0 => Within(Place)
  BY <1>1 DEF Placed, Place
<1> QED
  BY <1>1, <1>2, <1>3 DEF Within

\* Around it the document is cut.
LEMMA PlaceCuts ==
  ASSUME Handling, Place.length # 0
  PROVE  /\ Cut(EndAtBegin(Place, 0), BeginAtEnd(Place, 0))
         /\ Cut(EndAtBegin(Place, 0), BeginAtBegin(Place))
         /\ Cut(EndAtEnd(Place, 0), BeginAtEnd(Place, 1))
         /\ Place.length # 1 => Cut(EndAtBegin(Place, 1), BeginAtEnd(Place, 1))
<1>1. PICK at \in Nat, length \in Nat, all \in Nat :
        /\ at = Place.at /\ length = Place.length /\ all = Len(op.doc)
        /\ length # 0 /\ at + length <= all
  BY PlaceFacts
<1>2. length # 0 /\ at + length <= all
  BY <1>1
<1>3. Cut(EndAtBegin(Place, 0), BeginAtEnd(Place, 0))
  <2>1. at \in Nat /\ at + length \in Nat /\ all - (at + length) \in Nat
        /\ at <= at + length /\ at + length + (all - (at + length)) <= all
    BY <1>2
  <2>2. EndAtBegin(Place, 0) = DocPart(0, at) /\ BeginAtEnd(Place, 0) = DocPart(at + length, all - (at + length))
    BY <1>1 DEF EndAtBegin, BeginAtEnd
  <2> QED
    BY <1>1, <2>1, <2>2 DEF Cut
<1>4. Cut(EndAtBegin(Place, 0), BeginAtBegin(Place))
  <2>1. at \in Nat /\ all - at \in Nat /\ at <= at /\ at + (all - at) <= all
    BY <1>2
  <2>2. EndAtBegin(Place, 0) = DocPart(0, at) /\ BeginAtBegin(Place) = DocPart(at, all - at)
    BY <1>1 DEF EndAtBegin, BeginAtBegin
  <2> QED
    BY <1>1, <2>1, <2>2 DEF Cut
<1>5. Cut(EndAtEnd(Place, 0), BeginAtEnd(Place, 1))
  <2>1. /\ at + length - 1 \in Nat /\ all - (at + length) + 1 \in Nat
        /\ at + length - 1 <= at + length - 1
        /\ at + length - 1 + (all - (at + length) + 1) <= all
    BY <1>2
  <2>2. /\ EndAtEnd(Place, 0) = DocPart(0, at + length - 1)
        /\ BeginAtEnd(Place, 1) = DocPart(at + length - 1, all - (at + length) + 1)
    BY <1>1 DEF EndAtEnd, BeginAtEnd
  <2> QED
    BY <1>1, <2>1, <2>2 DEF Cut
<1>6. ASSUME Place.length # 1 PROVE Cut(EndAtBegin(Place, 1), BeginAtEnd(Place, 1))
  <2>0. length # 1
    BY <1>1, <1>6
  <2>1. /\ at + 1 \in Nat /\ at + length - 1 \in Nat /\ all - (at + length) + 1 \in Nat
        /\ at + 1 <= at + length - 1
        /\ at + length - 1 + (all - (at + length) + 1) <= all
    BY <1>2, <2>0
  <2>2. /\ EndAtBegin(Place, 1) = DocPart(0, at + 1)
        /\ BeginAtEnd(Place, 1) = DocPart(at + length - 1, all - (at + length) + 1)
    BY <1>1 DEF EndAtBegin, BeginAtEnd
  <2> QED
    BY <1>1, <2>1, <2>2 DEF Cut
<1> QED
  BY <1>3, <1>4, <1>5, <1>6

\* Nothing is asked of what breaks off.
LEMMA BrokenInOrder ==
  ASSUME Handling, Place.length = 0
  PROVE  SegmentsInOrder'
<1>1. m'.loc_deepest.length = 0 /\ ~EmptyAppends'
  BY PathIsSame DEF Handling, Place
<1> QED
  BY <1>1 DEF SegmentsInOrder, BreaksOff

\* A relation between the Match and the Result that lays out the document
\* around the Place keeps it in order.
LEMMA LaidOut ==
  ASSUME Handling, NEW parts, NEW reply, Answers(parts, reply), NEW n, NEW before, NEW after,
         Frames(parts, n, before, after), Place.length # 0 => Cut(before, after)
  PROVE  SegmentsInOrder'
<1>1. CASE Place.length = 0
  BY <1>1, BrokenInOrder
<1>2. CASE Place.length # 0
  BY <1>2, PlaceFacts, AnswersMeans, CutInOrder DEF Handling
<1> QED
  BY <1>1, <1>2

\* The value's bytes, and all others that are new, are no piece of the
\* document.
LEMMA NewBytesAreNew ==
  \A bytes : Bytes(bytes).at = Null
  BY DEF Bytes

LEMMA InsertSingletonInOrder ==
  ASSUME Handling, InsertSingleton, Place.length # 1
  PROVE  SegmentsInOrder'
<1> DEFINE parts == <<EndAtBegin(Place, 1), UserValue, BeginAtEnd(Place, 1)>>
<1>1. Answers(parts, NoPart)
  BY DEF InsertSingleton, NewDoc
<1>2. Frames(parts, 3, EndAtBegin(Place, 1), BeginAtEnd(Place, 1))
  BY NewBytesAreNew DEF Frames, UserValue
<1> QED
  BY <1>1, <1>2, PlaceCuts, LaidOut

LEMMA AppendToListInOrder ==
  ASSUME Handling, AppendToList
  PROVE  SegmentsInOrder'
<1> DEFINE parts == <<EndAtEnd(Place, 0), COMMA, UserValue, BeginAtEnd(Place, 1)>>
<1>1. Answers(parts, NoPart)
  BY DEF AppendToList, NewDoc
<1>2. COMMA.at = Null /\ UserValue.at = Null
  BY NewBytesAreNew DEF UserValue, COMMA
<1>3. Frames(parts, 4, EndAtEnd(Place, 0), BeginAtEnd(Place, 1))
  BY <1>2 DEF Frames
<1> QED
  BY <1>1, <1>3, PlaceCuts, LaidOut

LEMMA MkdirPInOrder ==
  ASSUME Handling, NEW part, part.at = Null, NEW opening, NEW closing, NEW reply,
         DoMkdirP(part, opening, closing, reply)
  PROVE  SegmentsInOrder'
<1>1. CASE Fails("PATH_ENOENT")
  BY <1>1, FailsMeans, RefusalInOrder
<1>2. ASSUME NEW keys, NEW braces,
             Answers(<<EndAtEnd(Place, 0), Bytes(CommaIfAny \o keys \o opening), part,
                       Bytes(closing \o braces), BeginAtEnd(Place, 1)>>, reply)
      PROVE  SegmentsInOrder'
  <2> DEFINE parts == <<EndAtEnd(Place, 0), Bytes(CommaIfAny \o keys \o opening), part,
                        Bytes(closing \o braces), BeginAtEnd(Place, 1)>>
  <2>1. Frames(parts, 5, EndAtEnd(Place, 0), BeginAtEnd(Place, 1))
    BY NewBytesAreNew DEF Frames
  <2> QED
    BY <1>2, <2>1, PlaceCuts, LaidOut
<1> QED
  BY <1>1, <1>2 DEF DoMkdirP

\* A match of one byte is whole and a primitive: a container has two brackets.
LEMMA OneByteIsPrimitive ==
  ASSUME Handling, Place.length = 1
  PROVE  Complete /\ m.type # "LIST"
<1>1. m.matchres \in {"COMPLETE", "TYPE_MISMATCH"} /\ m.type \notin Container
  BY DEF Handling, Placed, Place
<1>2. m.matchres # "TYPE_MISMATCH"
  BY DEF Handling, MatchError
<1> QED
  BY <1>1, <1>2 DEF Complete, Container

LEMMA StoreDictInOrder ==
  ASSUME Handling, NEW optype, NEW part, part.at = Null, NEW reply, DoStoreDict(optype, part, reply)
  PROVE  SegmentsInOrder'
<1>1. ASSUME NEW code, Fails(code) PROVE SegmentsInOrder'
  BY <1>1, FailsMeans, RefusalInOrder
<1>2. CASE Answers(<<EndAtBegin(Place, 0), part, BeginAtEnd(Place, 0)>>, reply)
  <2> DEFINE parts == <<EndAtBegin(Place, 0), part, BeginAtEnd(Place, 0)>>
  <2>1. Frames(parts, 3, EndAtBegin(Place, 0), BeginAtEnd(Place, 0))
    BY DEF Frames
  <2> QED
    BY <1>2, <2>1, PlaceCuts, LaidOut
<1>3. CASE Answers(<<EndAtEnd(Place, 0), Bytes(CommaIfAny \o <<Quote>>),
                     Bytes(LastComponent(OpPath).pstr), Bytes(<<Quote, ":">>),
                     part, BeginAtEnd(Place, 1)>>, reply)
  <2> DEFINE parts == <<EndAtEnd(Place, 0), Bytes(CommaIfAny \o <<Quote>>),
                        Bytes(LastComponent(OpPath).pstr), Bytes(<<Quote, ":">>),
                        part, BeginAtEnd(Place, 1)>>
  <2>1. Frames(parts, 6, EndAtEnd(Place, 0), BeginAtEnd(Place, 1))
    BY NewBytesAreNew DEF Frames
  <2> QED
    BY <1>3, <2>1, PlaceCuts, LaidOut
<1>4. CASE DoMkdirP(part, <<>>, <<>>, reply)
  BY <1>4, MkdirPInOrder
<1> QED
  BY <1>1, <1>2, <1>3, <1>4 DEF DoStoreDict

LEMMA MkdirPArrayInOrder ==
  ASSUME Handling, MkdirPArray
  PROVE  SegmentsInOrder'
<1>1. UserValue.at = Null
  BY NewBytesAreNew DEF UserValue
<1> QED
  BY <1>1, MkdirPInOrder DEF MkdirPArray

\* ARRAY_PREPEND and ARRAY_INSERT put the value before an element.
LEMMA BeforeInOrder ==
  ASSUME Handling, NewDoc(<<EndAtBegin(Place, 0), UserValue, COMMA, BeginAtBegin(Place)>>)
  PROVE  SegmentsInOrder'
<1> DEFINE parts == <<EndAtBegin(Place, 0), UserValue, COMMA, BeginAtBegin(Place)>>
<1>1. Answers(parts, NoPart)
  BY DEF NewDoc
<1>2. COMMA.at = Null /\ UserValue.at = Null
  BY NewBytesAreNew DEF UserValue, COMMA
<1>3. Frames(parts, 4, EndAtBegin(Place, 0), BeginAtBegin(Place))
  BY <1>2 DEF Frames
<1> QED
  BY <1>1, <1>3, PlaceCuts, LaidOut

LEMMA ListPrependInOrder ==
  ASSUME Handling, DoListPrepend
  PROVE  SegmentsInOrder'
<1>1. ASSUME NEW code, Fails(code) PROVE SegmentsInOrder'
  BY <1>1, FailsMeans, RefusalInOrder
<1>2. ~Complete => Place.length # 1
  BY OneByteIsPrimitive
<1> QED
  BY <1>1, <1>2, BeforeInOrder, InsertSingletonInOrder, MkdirPArrayInOrder DEF DoListPrepend

LEMMA ListAppendInOrder ==
  ASSUME Handling, DoListAppend
  PROVE  SegmentsInOrder'
<1>1. ASSUME NEW code, Fails(code) PROVE SegmentsInOrder'
  BY <1>1, FailsMeans, RefusalInOrder
<1>2. m.type = "LIST" => Place.length # 1
  BY OneByteIsPrimitive
<1> QED
  BY <1>1, <1>2, AppendToListInOrder, InsertSingletonInOrder, MkdirPArrayInOrder DEF DoListAppend

LEMMA InsertInOrder ==
  ASSUME Handling, DoInsert
  PROVE  SegmentsInOrder'
<1>1. ASSUME NEW code, Fails(code) PROVE SegmentsInOrder'
  BY <1>1, FailsMeans, RefusalInOrder
<1>2. ~Complete => Place.length # 1
  BY OneByteIsPrimitive
<1> QED
  BY <1>1, <1>2, BeforeInOrder, AppendToListInOrder, InsertSingletonInOrder DEF DoInsert

LEMMA ArithOpInOrder ==
  ASSUME Handling, DoArithOp
  PROVE  SegmentsInOrder'
<1>1. ASSUME NEW code, Fails(code) PROVE SegmentsInOrder'
  BY <1>1, FailsMeans, RefusalInOrder
<1>2. CASE ChangeNumber
  <2>1. PICK sum : sum.at = Null /\ Answers(<<EndAtBegin(Place, 0), sum, BeginAtEnd(Place, 0)>>, sum)
    BY <1>2, NewBytesAreNew DEF ChangeNumber
  <2> DEFINE parts == <<EndAtBegin(Place, 0), sum, BeginAtEnd(Place, 0)>>
  <2>2. Frames(parts, 3, EndAtBegin(Place, 0), BeginAtEnd(Place, 0))
    BY <2>1 DEF Frames
  <2> QED
    BY <2>1, <2>2, PlaceCuts, LaidOut
<1>3. CASE CreateNumber
  <2>1. PICK delta, optype : delta.at = Null /\ DoStoreDict(optype, delta, delta)
    BY <1>3, NewBytesAreNew DEF CreateNumber
  <2> QED
    BY <2>1, StoreDictInOrder
<1> QED
  BY <1>1, <1>2, <1>3 DEF DoArithOp

LEMMA GetInOrder ==
  ASSUME Handling, DoGet
  PROVE  SegmentsInOrder'
<1>1. result'.newdoc = <<>>
  BY FailsMeans, AnswersMeans DEF DoGet
<1> QED
  BY <1>1, RefusalInOrder

\* GET_COUNT answers with a number where a new document would be.
LEMMA ContainerSizeInOrder ==
  ASSUME Handling, op.optype.base = "GET_COUNT"
  PROVE  SegmentsInOrder'
  BY DEF Handling, SegmentsInOrder, Changed

\* strip_comma() takes bytes off the end it is told to and no others.
LEMMA StripFacts ==
  ASSUME NEW at \in Nat, NEW length \in Nat
  PROVE  /\ \E x \in Nat : x <= length /\ StripLast(DocPart(at, length)) = DocPart(at, x)
         /\ \E y, z \in Nat : /\ at <= y /\ y + z = at + length
                              /\ StripFirst(DocPart(at, length)) = DocPart(y, z)
<1> DEFINE part == DocPart(at, length)
<1> DEFINE commas == CommasIn(part)
<1>1. part.at = at /\ part.length = length
  BY DEF DocPart
<1>2. commas \in SUBSET (at .. at + length - 1)
  BY <1>1 DEF CommasIn
<1>3. /\ StripLast(part) = IF commas = {} THEN part ELSE DocPart(at, Max(commas) - at)
      /\ StripFirst(part) = IF commas = {} THEN part
                            ELSE DocPart(Min(commas) + 1, at + length - (Min(commas) + 1))
  BY <1>1 DEF StripLast, StripFirst
<1> HIDE DEF commas
<1>4. CASE commas = {}
  <2>1. StripLast(part) = DocPart(at, length) /\ StripFirst(part) = DocPart(at, length)
    BY <1>3, <1>4
  <2>2. length <= length /\ at <= at /\ at + length = at + length
    OBVIOUS
  <2> QED
    BY <2>1, <2>2
<1>5. CASE commas # {}
  <2>1. commas \in SUBSET (0 .. at + length) /\ at + length \in Nat
        /\ \A i \in commas : i \in Nat /\ at <= i /\ i < at + length
    BY <1>2
  <2>2. Max(commas) \in commas
    BY <1>5, <2>1, MaxIsIn
  <2>3. Min(commas) \in commas
    BY <1>5, <2>1, MinIsIn
  <2>4. PICK last \in Nat, first \in Nat :
          /\ last = Max(commas) /\ first = Min(commas)
          /\ at <= last /\ last < at + length /\ at <= first /\ first < at + length
    BY <2>1, <2>2, <2>3
  <2>5. at <= last /\ last < at + length /\ at <= first /\ first < at + length
    BY <2>4
  <2>6. /\ last - at \in Nat /\ last - at <= length
        /\ first + 1 \in Nat /\ at + length - (first + 1) \in Nat /\ at <= first + 1
        /\ first + 1 + (at + length - (first + 1)) = at + length
    BY <2>5
  <2>7. /\ StripLast(part) = DocPart(at, last - at)
        /\ StripFirst(part) = DocPart(first + 1, at + length - (first + 1))
    BY <1>3, <1>5, <2>4
  <2> QED
    BY <2>6, <2>7
<1> QED
  BY <1>4, <1>5

\* REMOVE takes the element from its key, or from its first byte, to its end.
LEMMA RemoveInOrder ==
  ASSUME Handling, DoRemove
  PROVE  SegmentsInOrder'
<1> DEFINE start  == IF m.loc_key.length # 0 THEN m.loc_key ELSE Place
           before == EndAtBegin(start, 0)
           after  == BeginAtEnd(Place, 0)
<1>1. ASSUME NEW code, Fails(code) PROVE SegmentsInOrder'
  BY <1>1, FailsMeans, RefusalInOrder
<1>2. ASSUME NEW parts, NEW left, NEW right, parts = <<left, right>>, NewDoc(parts),
             Place.length # 0 => Cut(left, right)
      PROVE  SegmentsInOrder'
  <2>1. Answers(parts, NoPart)
    BY <1>2 DEF NewDoc
  <2>2. Frames(parts, 2, left, right)
    BY <1>2 DEF Frames
  <2> QED
    BY <1>2, <2>1, <2>2, LaidOut
<1>3. ASSUME Place.length # 0
      PROVE  Cut(before, after) /\ Cut(StripLast(before), after) /\ Cut(before, StripFirst(after))
  <2>1. start.at \in Nat /\ start.at <= Place.at + Place.length
    <3>1. Placed /\ SearchTypes
      BY DEF Handling
    <3>2. /\ Place.at \in Nat /\ Place.length \in Nat
      BY <1>3, PlaceFacts
    <3>3. CASE m.loc_key.length # 0
      <4>1. m.loc_key # NoLoc
        BY <3>3 DEF NoLoc
      <4>2. Within(m.loc_key) /\ m.loc_key.at + m.loc_key.length < Place.at
        BY <3>1, <4>1 DEF Placed, Place
      <4>3. m.loc_key.at \in Int /\ m.loc_key.length \in Int
        BY <3>1, SearchFacts DEF Loc, Null
      <4> QED
        BY <3>2, <3>3, <4>2, <4>3 DEF Within
    <3>4. CASE m.loc_key.length = 0
      BY <3>2, <3>4
    <3> QED
      BY <3>3, <3>4
  <2>2. PICK s \in Nat, e \in Nat, all \in Nat :
          /\ s = start.at /\ e = Place.at + Place.length /\ all = Len(op.doc)
          /\ s <= e /\ e <= all
    BY <1>3, <2>1, PlaceFacts
  <2>3. s <= e /\ e <= all /\ all - e \in Nat /\ e + (all - e) <= all
    <3>1. s <= e /\ e <= all
      BY <2>2
    <3> QED
      BY <3>1
  <2>4. before = DocPart(0, s) /\ after = DocPart(e, all - e)
    <3>1. after = DocPart(e, all - e)
      <4>1. PICK at \in Nat, length \in Nat : at = Place.at /\ length = Place.length
        BY <1>3, PlaceFacts
      <4>2. e = at + length /\ all = Len(op.doc)
        BY <2>2, <4>1
      <4>3. after = DocPart(at + length - 0, all - (at + length) + 0)
        BY <4>1, <4>2 DEF BeginAtEnd
      <4>4. at + length - 0 = e /\ all - (at + length) + 0 = all - e
        BY <4>2
      <4> QED
        BY <4>3, <4>4
    <3>2. before = DocPart(0, s + 0)
      BY <2>2 DEF EndAtBegin
    <3> QED
      BY <3>1, <3>2
  <2> HIDE DEF before, after, start
  <2>5. all = Len(op.doc)
    BY <2>2
  <2>6. Cut(before, after)
    BY <2>3, <2>4, <2>5 DEF Cut
  <2>7. Cut(StripLast(before), after)
    <3>1. PICK x \in Nat : x <= s /\ StripLast(before) = DocPart(0, x)
      BY <2>4, StripFacts
    <3>2. x <= e
      BY <2>3, <3>1
    <3> QED
      BY <2>3, <2>4, <2>5, <3>1, <3>2 DEF Cut
  <2>8. Cut(before, StripFirst(after))
    <3>1. PICK y \in Nat, z \in Nat :
            e <= y /\ y + z = e + (all - e) /\ StripFirst(after) = DocPart(y, z)
      BY <2>3, <2>4, StripFacts
    <3>2. s <= y /\ y + z <= all
      BY <2>3, <3>1
    <3> QED
      BY <2>4, <2>5, <3>1, <3>2 DEF Cut
  <2> QED
    BY <2>6, <2>7, <2>8
<1>4. \/ \E code : Fails(code)
      \/ NewDoc(<<before, after>>) \/ NewDoc(<<StripLast(before), after>>)
      \/ NewDoc(<<before, StripFirst(after)>>)
  BY DEF DoRemove
<1> HIDE DEF before, after
<1>5. CASE NewDoc(<<before, after>>)
  BY <1>2, <1>3, <1>5
<1>6. CASE NewDoc(<<StripLast(before), after>>)
  BY <1>2, <1>3, <1>6
<1>7. CASE NewDoc(<<before, StripFirst(after)>>)
  BY <1>2, <1>3, <1>7
<1> QED
  BY <1>1, <1>4, <1>5, <1>6, <1>7

\* The last byte that is no white space, from the one before the first.
LEMMA SignificantFacts ==
  ASSUME NEW last \in Int
  PROVE  Significant(last) = 0 \/ Significant(last) \in 0 .. last
<1> DEFINE ends == {0} \cup {i \in 0 .. last : op.doc[i + 1] \notin Whitespace}
<1>1. PICK n \in Nat : last <= n
  <2>1. last <= 0 \/ last \in Nat
    OBVIOUS
  <2> QED
    BY <2>1
<1>2. ends \in SUBSET (0 .. n) /\ ends # {}
  BY <1>1
<1>3. \A i \in ends : i = 0 \/ i \in 0 .. last
  OBVIOUS
<1>4. Significant(last) = Max(ends)
  BY DEF Significant
<1> HIDE DEF ends
<1>5. Max(ends) \in ends
  BY <1>2, MaxIsIn
<1> QED
  BY <1>3, <1>4, <1>5

\* ARRAY_APPEND to the root: the value comes before the last bracket.
LEMMA EmptyAppendInOrder ==
  ASSUME op' = op, Len(op.doc) \in Nat, DoEmptyAppend
  PROVE  SegmentsInOrder'
<1> DEFINE a_end   == Significant(Len(op.doc) - 1)
           e_comma == Significant(a_end - 1)
           before  == DocPart(0, e_comma + 1)
           after   == DocPart(a_end, 1)
<1>1. \/ \E code : Fails(code)
      \/ a_end # 0 /\ NewDoc(<<before, UserValue, after>>)
      \/ a_end # 0 /\ NewDoc(<<before, COMMA, UserValue, after>>)
  BY DEF DoEmptyAppend
<1>2. a_end \in Nat /\ (a_end # 0 => a_end < Len(op.doc))
  BY SignificantFacts
<1>3. e_comma \in Nat /\ (a_end # 0 => e_comma < a_end)
  <2> HIDE DEF a_end
  <2> QED
    BY <1>2, SignificantFacts
<1>4. a_end # 0 => Cut(before, after)
  <2> HIDE DEF a_end, e_comma
  <2>1. a_end # 0 => /\ e_comma + 1 \in Nat /\ e_comma + 1 <= a_end
                     /\ 1 \in Nat /\ a_end + 1 <= Len(op.doc)
    BY <1>2, <1>3
  <2> QED
    BY <1>2, <2>1 DEF Cut
<1> HIDE DEF a_end, before, after
<1>5. ASSUME NEW code, Fails(code) PROVE SegmentsInOrder'
  BY <1>5, FailsMeans, RefusalInOrder
<1>6. CASE a_end # 0 /\ NewDoc(<<before, UserValue, after>>)
  <2>1. result'.newdoc = <<before, UserValue, after>>
    BY <1>6, AnswersMeans DEF NewDoc
  <2>2. Frames(<<before, UserValue, after>>, 3, before, after)
    BY NewBytesAreNew DEF Frames, UserValue
  <2> QED
    BY <1>4, <1>6, <2>1, <2>2, CutInOrder
<1>7. CASE a_end # 0 /\ NewDoc(<<before, COMMA, UserValue, after>>)
  <2>1. result'.newdoc = <<before, COMMA, UserValue, after>>
    BY <1>7, AnswersMeans DEF NewDoc
  <2>2. COMMA.at = Null /\ UserValue.at = Null
    BY NewBytesAreNew DEF UserValue, COMMA
  <2>3. Frames(<<before, COMMA, UserValue, after>>, 4, before, after)
    BY <2>2 DEF Frames
  <2> QED
    BY <1>4, <1>7, <2>1, <2>3, CutInOrder
<1> QED
  BY <1>1, <1>5, <1>6, <1>7

-----------------------------------------------------------------------------
(* The validator's turn at the lexer. *)

\* The Match stays while a value is validated.
LEMMA MatchWaits ==
  ASSUME SearchTypes, Placed, UNCHANGED matchVars
  PROVE  SearchTypes' /\ Placed'
  BY DEF matchVars, SearchTypes, Placed, Within

\* The texts that are fed, and how deep the callbacks reach.
LEMMA FedTypes ==
  ASSUME OpTypes
  PROVE  /\ CallbackDepth \in Nat
         /\ Pre(mode.parent) \in Seq(STRING) /\ Post(mode.parent) \in Seq(STRING)
<1>1. v.maxdepth = Unlimited \/ v.maxdepth \in Nat
  BY DEF OpTypes, ValidRecord
<1>2. mode.parent \in ParentMode
  BY DEF OpTypes, Mode
<1> QED
  BY <1>1, <1>2, WrapperAssumption DEF CallbackDepth

(* One of the three feeds is called, *)
LEMMA PartKeeps ==
  ASSUME OpTypes, LexerLent, UNCHANGED matchVars, NEW from, NEW to \in {"VALUE", "POST", "END"},
         NEW bytes \in Seq(STRING), FeedPart(from, to, bytes)
  PROVE  /\ value' \in Seq(STRING) /\ mode' \in Mode /\ v' \in ValidRecord
         /\ vpc' \in {"VALUE", "POST", "END"} /\ LexerLent'
<1>1. CallFeed(bytes, CallbackDepth, FALSE) /\ vpc' = to /\ UNCHANGED <<value, mode, v>>
  BY DEF FeedPart
<1>2. PICK keys \in BOOLEAN : ~keys /\ CallFeed(bytes, CallbackDepth, keys)
  BY <1>1, Zenon
<1>3. LexerInv'
  BY <1>2, FedTypes, LexerCallKeeps DEF LexerLent
<1>4. mres' = NoResults
  BY DEF LexerLent, matchVars
<1> QED
  BY <1>1, <1>3, <1>4, MatchWaits DEF OpTypes, LexerLent

(* the lexer reads on, *)
LEMMA ValidateLexKeeps ==
  ASSUME OpTypes, LexerLent, UNCHANGED matchVars, ValidateLex
  PROVE  value' \in Seq(STRING) /\ mode' \in Mode /\ v' \in ValidRecord /\ vpc' = vpc /\ LexerLent'
<1>1. Feed /\ UNCHANGED <<value, mode, vpc>>
      /\ v' = IF err' # "SUCCESS" THEN [v EXCEPT !.err = err'] ELSE v
  BY DEF ValidateLex
<1>2. LexerInv'
  BY <1>1, LexerFeedKeeps DEF LexerLent
<1>3. err' \in Error \cup {"SUCCESS"}
  BY <1>2 DEF LexerInv, JsonslInv, JsonslTypeOK
<1>4. v' \in ValidRecord
  BY <1>1, <1>3 DEF OpTypes, ValidRecord, Status
<1>5. mres' = NoResults
  BY DEF LexerLent, matchVars
<1> QED
  BY <1>1, <1>2, <1>4, <1>5, MatchWaits DEF OpTypes, LexerLent

(* the callback answers, *)
LEMMA ValidateCallbackKeeps ==
  ASSUME OpTypes, LexerLent, UNCHANGED matchVars, cb # NoCallback, ValidateCallback
  PROVE  value' \in Seq(STRING) /\ mode' \in Mode /\ v' \in ValidRecord /\ vpc' = vpc /\ LexerLent'
<1>1. /\ v' = IF Objection # "SUCCESS" THEN [v EXCEPT !.err = Objection]
              ELSE IF cb.level = 1 THEN [v EXCEPT !.rootcount = @ + 1] ELSE v
      /\ UNCHANGED <<value, mode, vpc>>
  BY DEF ValidateCallback
<1>2. PICK stop \in BOOLEAN : Answer(stop, Seen.ignore_callback, max_callback_level)
  <2>1. (Objection # "SUCCESS") \in BOOLEAN
    OBVIOUS
  <2> QED
    BY <2>1, Zenon DEF ValidateCallback
<1>3. Seen.ignore_callback \in BOOLEAN /\ max_callback_level \in Nat
  <2>1. LexerInv /\ JsonslInv /\ JsonslTypeOK
    BY DEF LexerLent, LexerInv, JsonslInv
  <2>2. cb.level \in Level
    BY <2>1, ReachFacts
  <2> QED
    BY <2>1, <2>2, StackFacts DEF Seen, JsonslTypeOK
<1>4. LexerInv'
  BY <1>2, <1>3, LexerAnswerKeeps DEF LexerLent
<1>5. Objection \in Status
  BY DEF Objection, Status, ETOODEEP, Error
<1>6. v' \in ValidRecord
  <2>1. v \in [err : Status, rootcount : Nat, maxdepth : Nat \cup {Unlimited}]
    BY DEF OpTypes, ValidRecord
  <2>2. CASE Objection # "SUCCESS"
    BY <1>1, <1>5, <2>1, <2>2 DEF ValidRecord
  <2>3. CASE Objection = "SUCCESS" /\ cb.level = 1
    BY <1>1, <2>1, <2>3 DEF ValidRecord
  <2>4. CASE Objection = "SUCCESS" /\ cb.level # 1
    BY <1>1, <2>1, <2>4 DEF ValidRecord
  <2> QED
    BY <2>2, <2>3, <2>4
<1>7. mres' = NoResults
  BY DEF LexerLent, matchVars
<1> QED
  BY <1>1, <1>4, <1>6, <1>7, MatchWaits DEF OpTypes, LexerLent

(* and the verdict gives the lexer back. *)
LEMMA EndValidateKeeps ==
  ASSUME OpTypes, LexerLent, pc = "IDLE", UNCHANGED matchVars, EndValidate
  PROVE  value' \in Seq(STRING) /\ mode' \in Mode /\ v' \in ValidRecord /\ vpc' = "IDLE" /\ SearchInv'
<1>1. v' = [v EXCEPT !.err = Verdict] /\ vpc' = "IDLE" /\ Reset /\ UNCHANGED <<value, mode>>
  BY DEF EndValidate
<1>2. LexerInv'
  BY <1>1, LexerResetKeeps DEF LexerLent
<1>3. mres' = NoResults /\ pc' = "IDLE"
  BY DEF LexerLent, matchVars
<1>4. Resting'
  BY <1>1, <1>3, LevelsAssumption DEF Reset, Resting, Level
<1>5. Verdict \in Status
  BY DEF Verdict, Status, OpTypes, ValidRecord
<1>6. v' \in ValidRecord
  BY <1>1, <1>5 DEF OpTypes, ValidRecord
<1> QED
  BY <1>1, <1>2, <1>3, <1>4, <1>6, MatchWaits DEF OpTypes, LexerLent, SearchInv

-----------------------------------------------------------------------------
(* The steps of op_exec(). *)

\* The Path is what it was, or has taken a step of its own.
LEMMA PathIsKept ==
  ASSUME PathInv, UNCHANGED parseVars
  PROVE  PathInv'
  BY PathInvStep

LEMMA PathMoves ==
  ASSUME PathInv, PathStep
  PROVE  PathInv'
  BY PathInvStep

\* A command returns: only the segments have to be looked at.
LEMMA FinishKeeps ==
  ASSUME OpInv, vpc = "IDLE", Finish, SegmentsInOrder'
  PROVE  OpInv'
<1>1. /\ oppc' = "DONE" /\ UNCHANGED <<jsnVars, matchVars, validatorVars, parseVars, op>>
  BY DEF Finish
<1>2. PathInv'
  BY <1>1, PathIsKept DEF OpInv
<1>3. SearchInv'
  BY <1>1, SearchStutters DEF OpInv, searchVars
<1>4. OpTypes' /\ Turns' /\ vpc' = "IDLE"
  BY <1>1 DEF OpInv, OpTypes, Turns, validatorVars
<1> QED
  BY <1>2, <1>3, <1>4 DEF OpInv

\* So does a refusal.
LEMMA RefusalKeeps ==
  ASSUME OpInv, vpc = "IDLE", Finish, NEW code, Fails(code)
  PROVE  OpInv'
  BY FailsMeans, RefusalInOrder, FinishKeeps

\* op_exec() is called,
LEMMA CallExecKeeps ==
  ASSUME OpInv, CallExec
  PROVE  OpInv'
<1>1. PICK pth \in Seq(STRING), bytes \in Seq(STRING), command \in Command : OpExec(pth, command, bytes)
  BY DEF CallExec
<1>2. /\ oppc = "IDLE" /\ op' = [op EXCEPT !.optype = command, !.userval = bytes]
      /\ Parse(pth) /\ oppc' = "BEGIN" /\ UNCHANGED <<jsnVars, matchVars, validatorVars, result>>
  BY <1>1 DEF OpExec
<1>3. vpc = "IDLE" /\ SearchInv /\ OpTypes /\ pc = "IDLE"
  BY <1>2 DEF OpInv, Turns
<1>4. PathInv'
  <2>1. ParseText
    BY <1>2 DEF ParseText
  <2> QED
    BY <2>1, PathMoves DEF OpInv, PathStep
<1>5. SearchInv'
  BY <1>2, <1>3, SearchStutters DEF searchVars
<1>6. OpTypes'
  BY <1>2, <1>3 DEF OpTypes, validatorVars
<1>7. Turns' /\ vpc' = "IDLE"
  BY <1>2, <1>3 DEF Turns, validatorVars, matchVars
<1>8. SegmentsInOrder'
  BY <1>2, RefusalInOrder
<1> QED
  BY <1>4, <1>5, <1>6, <1>7, <1>8 DEF OpInv

\* parses the path,
LEMMA RunParseKeeps ==
  ASSUME OpInv, RunParse
  PROVE  OpInv'
<1>1. /\ oppc = "BEGIN" /\ ParseStep /\ UNCHANGED <<jsnVars, matchVars, validatorVars>>
      /\ UNCHANGED <<op, result, oppc>>
  BY DEF RunParse, operationVars
<1>2. vpc = "IDLE" /\ SearchInv /\ OpTypes /\ pc = "IDLE"
  BY <1>1 DEF OpInv, Turns
<1>3. PathInv'
  BY <1>1, PathMoves DEF OpInv, PathStep
<1>4. SearchInv'
  BY <1>1, <1>2, SearchStutters DEF searchVars
<1>5. OpTypes' /\ Turns' /\ vpc' = "IDLE"
  BY <1>1, <1>2 DEF OpTypes, Turns, validatorVars, matchVars
<1>6. SegmentsInOrder'
  BY <1>1, RefusalInOrder
<1> QED
  BY <1>3, <1>4, <1>5, <1>6 DEF OpInv

\* lends the lexer to the validator,
LEMMA BeginValidateKeeps ==
  ASSUME OpInv, BeginValidate
  PROVE  OpInv'
<1>1. /\ oppc = "BEGIN" /\ ppc = "DONE" /\ oppc' = "VALIDATE"
      /\ Validate(op.userval, MaxDepth, ValueMode) /\ UNCHANGED <<matchVars, parseVars, op, result>>
  BY DEF BeginValidate, Begun
<1>2. /\ SearchInv /\ OpTypes /\ PathInv /\ pc = "IDLE" /\ vpc = "IDLE"
  BY <1>1 DEF OpInv, Turns
<1>3. /\ value' = op.userval /\ mode' = ValueMode /\ vpc' = "PRE" /\ UNCHANGED jsnVars
      /\ v' = [BlankValid EXCEPT !.maxdepth = Adjusted(MaxDepth, ValueMode.parent)]
  BY <1>1 DEF Validate
<1>4. MaxDepth \in Nat
  <2>1. Len(OpPath) \in 1 .. MaxComponents
    BY <1>1, <1>2, ParsedIsPath DEF OpPath
  <2>2. MaxComponents - Len(OpPath) \in Nat
    BY <2>1, MaxComponentsAssumption
  <2>3. PICK room \in Nat : room = MaxComponents - Len(OpPath)
    BY <2>2
  <2>4. MaxDepth = room + (IF IsDict \/ op.optype.base = "ARRAY_INSERT" THEN 1 ELSE 0)
    BY <2>3 DEF MaxDepth
  <2> QED
    BY <2>4
<1>5. v' \in ValidRecord
  <2>1. PICK depth \in Nat : depth = MaxDepth
    BY <1>4
  <2>2. Adjusted(depth, ValueMode.parent) \in Nat
    BY DEF Adjusted, Unlimited
  <2> QED
    BY <1>3, <2>1, <2>2 DEF BlankValid, ValidRecord, Status
<1>6. ValueMode \in Mode /\ op.userval \in Seq(STRING)
  BY <1>2 DEF ValueMode, Mode, ParentMode, ValueFlag, OpTypes
<1>7. OpTypes'
  BY <1>1, <1>2, <1>3, <1>5, <1>6 DEF OpTypes
<1>8. LexerLent'
  <2>1. LexerInv /\ SearchTypes /\ Placed /\ mres = NoResults
    BY <1>2 DEF SearchInv, Resting
  <2>2. mres' = NoResults
    BY <1>1, <2>1 DEF matchVars
  <2> QED
    BY <1>1, <1>3, <2>1, <2>2, LexerStutters, MatchWaits DEF LexerLent
<1>9. Turns'
  BY <1>1, <1>2, <1>3 DEF Turns, matchVars, parseVars
<1>10. PathInv' /\ SegmentsInOrder'
  BY <1>1, <1>2, PathIsKept, RefusalInOrder
<1> QED
  BY <1>3, <1>7, <1>8, <1>9, <1>10 DEF OpInv

\* and lets it work,
LEMMA RunValidateKeeps ==
  ASSUME OpInv, RunValidate
  PROVE  OpInv'
<1>1. /\ oppc = "VALIDATE" /\ ExecValidate /\ vpc # "IDLE" /\ UNCHANGED <<matchVars, parseVars>>
      /\ UNCHANGED <<op, result, oppc>>
  BY DEF RunValidate, ExecValidate, operationVars
<1>2. /\ OpTypes /\ LexerLent /\ PathInv /\ Turns /\ pc = "IDLE" /\ ppc = "DONE"
  BY <1>1 DEF OpInv, Turns
<1>3. Pre(mode.parent) \in Seq(STRING) /\ Post(mode.parent) \in Seq(STRING) /\ value \in Seq(STRING)
  BY <1>2, FedTypes DEF OpTypes
<1>4. /\ value' \in Seq(STRING) /\ mode' \in Mode /\ v' \in ValidRecord
      /\ \/ vpc' \in {"PRE", "VALUE", "POST", "END"} /\ LexerLent'
         \/ vpc' = "IDLE" /\ SearchInv'
  <2>1. CASE FeedPre \/ FeedValue \/ FeedPost
    BY <1>1, <1>2, <1>3, <2>1, PartKeeps DEF FeedPre, FeedValue, FeedPost
  <2>2. CASE ValidateLex
    BY <1>1, <1>2, <2>2, ValidateLexKeeps DEF OpTypes
  <2>3. CASE cb # NoCallback /\ ValidateCallback
    BY <1>1, <1>2, <2>3, ValidateCallbackKeeps DEF OpTypes
  <2>4. CASE EndValidate
    BY <1>1, <1>2, <2>4, EndValidateKeeps
  <2> QED
    BY <1>1, <2>1, <2>2, <2>3, <2>4 DEF ExecValidate
<1>5. OpTypes'
  BY <1>1, <1>2, <1>4 DEF OpTypes
<1>6. Turns'
  BY <1>1, <1>2 DEF Turns, matchVars, parseVars
<1>7. PathInv' /\ SegmentsInOrder'
  BY <1>1, <1>2, PathIsKept, RefusalInOrder
<1> QED
  BY <1>4, <1>5, <1>6, <1>7 DEF OpInv

\* What is searched for, and how.
LEMMA SearchAsks ==
  ASSUME PathInv, ppc = "DONE", OpTypes
  PROVE  /\ SearchPath \in Seq(Component) /\ Len(SearchPath) > 0
         /\ ~SearchPath[1].is_neg
         /\ Fresh(SearchMatch) /\ ~SearchMatch.get_last /\ op.doc \in Seq(STRING)
<1>1. OpPath \in Seq(Component) /\ Len(OpPath) \in Nat /\ Len(OpPath) > 0 /\ ~OpPath[1].is_neg
  BY ParsedIsPath DEF OpPath
<1>2. Index(0) \in Component
  <2>1. <<>> \in Seq(STRING)
    OBVIOUS
  <2> QED
    BY <2>1 DEF Index, Component
<1>3. SearchPath \in Seq(Component) /\ Len(SearchPath) > 0 /\ ~SearchPath[1].is_neg
  <2>1. CASE op.optype.base = "ARRAY_PREPEND"
    <3>1. SearchPath = Append(OpPath, Index(0))
      BY <2>1 DEF SearchPath
    <3> QED
      BY <1>1, <1>2, <3>1
  <2>2. CASE op.optype.base # "ARRAY_PREPEND"
    BY <1>1, <2>2 DEF SearchPath
  <2> QED
    BY <2>1, <2>2
<1>4. op.doc \in Seq(STRING) /\ op.userval \in Seq(STRING)
  BY DEF OpTypes
<1>5. PICK unique \in Seq(STRING) : unique = IF IsUnique THEN op.userval ELSE <<>>
  <2>1. <<>> \in Seq(STRING)
    OBVIOUS
  <2> QED
    BY <1>4, <2>1
<1>6. PICK extra \in {"GET_MATCH_ONLY", "GET_FOLLOWING_SIBLINGS"} :
        extra = IF \/ op.optype.base = "REMOVE"
                   \/ op.optype.base = "COUNTER" /\ op.optype.is_mkdir_p
                THEN "GET_FOLLOWING_SIBLINGS" ELSE "GET_MATCH_ONLY"
  OBVIOUS
<1>7. SearchMatch = [BlankMatch EXCEPT !.extra_options = extra, !.ensure_unique = unique]
  BY <1>5, <1>6, ZenonT(40) DEF SearchMatch, BlankMatch
<1> QED
  BY <1>3, <1>4, <1>7, PreparedIsFresh

\* begins the search,
LEMMA BeginMatchKeeps ==
  ASSUME OpInv, BeginMatch
  PROVE  OpInv'
<1>1. /\ Ready /\ Search(op.doc, SearchPath, SearchMatch) /\ oppc' = "MATCH"
      /\ UNCHANGED <<validatorVars, parseVars, op, result>>
  BY DEF BeginMatch
<1>2. ppc = "DONE" /\ vpc = "IDLE" /\ ~EmptyAppends
  <2>1. CASE HasValue
    BY <1>1, <2>1 DEF Ready, Validated, OpInv, Turns
  <2>2. CASE ~HasValue
    BY <1>1, <2>2 DEF Ready, Begun, HasValue, IsArray, EmptyAppends, OpInv, Turns
  <2> QED
    BY <2>1, <2>2
<1>3. SearchInv /\ OpTypes /\ PathInv
  BY <1>2 DEF OpInv
<1>4. SearchInv'
  BY <1>1, <1>2, <1>3, SearchAsks, SearchKeeps
<1>5. pc' # "IDLE" /\ doc' = op.doc
  BY <1>1 DEF Search, StartFeed
<1>6. OpTypes' /\ vpc' = "IDLE"
  BY <1>1, <1>2, <1>3 DEF OpTypes, validatorVars
<1>7. Turns'
  <2>1. ppc' = "DONE" /\ ~EmptyAppends'
    BY <1>1, <1>2, PathIsSame DEF parseVars
  <2> QED
    BY <1>1, <1>5, <1>6, <2>1 DEF Turns
<1>8. PathInv' /\ SegmentsInOrder'
  BY <1>1, <1>3, PathIsKept, RefusalInOrder
<1> QED
  BY <1>4, <1>6, <1>7, <1>8 DEF OpInv

\* Within a search its document stays.
LEMMA ExecReads ==
  ASSUME ExecMatch
  PROVE  pc' # "IDLE" /\ doc' = doc
<1>1. CASE BeginRound
  BY <1>1 DEF BeginRound, StartFeed
<1>2. CASE Lex
  BY <1>2 DEF Lex
<1>3. CASE Callback
  BY <1>3 DEF Callback, Keep, KeyBegins, PushElsewhere, PushComplete, PushNoMatch, PushPossible,
              PushMismatch, KeyEnds, PopComplete, PopElsewhere, PopParent, UniqueBegins,
              UniqueArrayEnds, UniqueElementEnds, NextSibling
<1>4. CASE EndSimple
  BY <1>4 DEF EndSimple
<1>5. CASE EndRound
  BY <1>5 DEF EndRound
<1> QED
  BY <1>1, <1>2, <1>3, <1>4, <1>5 DEF ExecMatch

\* searches,
LEMMA RunMatchKeeps ==
  ASSUME OpInv, RunMatch
  PROVE  OpInv'
<1>1. /\ oppc = "MATCH" /\ ExecMatch /\ UNCHANGED <<validatorVars, parseVars>>
      /\ UNCHANGED <<op, result, oppc>>
  BY DEF RunMatch, operationVars
<1>2. /\ OpTypes /\ PathInv /\ Turns /\ vpc = "IDLE" /\ SearchInv
  BY <1>1 DEF OpInv, Turns
<1>3. SearchInv'
  BY <1>1, <1>2, ExecKeeps
<1>4. OpTypes' /\ vpc' = "IDLE"
  BY <1>1, <1>2 DEF OpTypes, validatorVars
<1>5. Turns'
  <2>1. ppc' = ppc /\ ~EmptyAppends'
    BY <1>1, <1>2, PathIsSame DEF parseVars, Turns
  <2> QED
    BY <1>1, <1>2, <1>4, <2>1, ExecReads DEF Turns
<1>6. PathInv' /\ SegmentsInOrder'
  BY <1>1, <1>2, PathIsKept, RefusalInOrder
<1> QED
  BY <1>3, <1>4, <1>5, <1>6 DEF OpInv

\* and answers.
LEMMA HandlerBegins ==
  ASSUME OpInv, oppc = "MATCH", MatchError = "SUCCESS", Finish
  PROVE  Handling /\ vpc = "IDLE"
<1>1. vpc = "IDLE" /\ SearchInv /\ doc = op.doc /\ ~EmptyAppends
  BY DEF OpInv, Turns
<1>2. UNCHANGED <<matchVars, parseVars, op>>
  BY DEF Finish
<1> QED
  BY <1>1, <1>2 DEF Handling, SearchInv, matchVars

LEMMA HandleKeeps ==
  ASSUME OpInv, oppc = "MATCH", MatchError = "SUCCESS", Finish, Handling => SegmentsInOrder'
  PROVE  OpInv'
  BY HandlerBegins, FinishKeeps

\* Clearing the Operation, or making a new one, begins anew.
LEMMA ResetKeepsParts ==
  ASSUME OpInv, NEW document \in Seq(STRING), OpReset(document), PathClear \/ PathNew
  PROVE  OpInv'
<1>1. /\ oppc \in {"IDLE", "DONE"} /\ Clear
      /\ value' = <<>> /\ mode' = BlankMode /\ v' = BlankValid /\ vpc' = vpc
      /\ op' = [BlankOp EXCEPT !.doc = document] /\ oppc' = "IDLE"
  BY DEF OpReset
<1>2. vpc = "IDLE" /\ SearchInv /\ PathInv
  BY <1>1 DEF OpInv, Turns
<1>3. SearchInv' /\ pc' = "IDLE"
  BY <1>1, <1>2, ClearKeeps DEF Clear
<1>4. PathInv'
  BY <1>2, PathMoves DEF PathStep
<1>5. OpTypes'
  <2>1. BlankMode \in Mode /\ BlankValid \in ValidRecord
    BY DEF BlankMode, Mode, ParentMode, ValueFlag, BlankValid, ValidRecord, Status
  <2>2. op' \in [doc : Seq(STRING), optype : Command, userval : Seq(STRING)]
    <3>1. Get \in Command /\ <<>> \in Seq(STRING)
      BY DEF Get, Command, Base
    <3>2. op' = [doc |-> document, optype |-> Get, userval |-> <<>>]
      BY <1>1 DEF BlankOp
    <3> QED
      BY <3>1, <3>2
  <2> QED
    BY <1>1, <1>2, <2>1, <2>2 DEF OpTypes
<1>6. Turns' /\ SegmentsInOrder'
  BY <1>1, <1>2, <1>3, RefusalInOrder DEF Turns
<1> QED
  BY <1>1, <1>2, <1>3, <1>4, <1>5, <1>6 DEF OpInv

LEMMA OpInvInit == OperationInit => OpInv
<1> SUFFICES ASSUME OperationInit PROVE OpInv
  OBVIOUS
<1>1. /\ MatchInit /\ ValidatorInit /\ PathInit
      /\ op = BlankOp /\ result = BlankResult /\ oppc = "IDLE"
  BY DEF OperationInit
<1>2. SearchInv /\ PathInv /\ pc = "IDLE"
  BY <1>1, InitSearches, PathInvInit DEF MatchInit
<1>3. OpTypes /\ vpc = "IDLE"
  <2>1. BlankMode \in Mode /\ BlankValid \in ValidRecord
    BY DEF BlankMode, Mode, ParentMode, ValueFlag, BlankValid, ValidRecord, Status
  <2>2. Get \in Command /\ <<>> \in Seq(STRING)
    BY DEF Get, Command, Base
  <2>3. BlankOp \in [doc : Seq(STRING), optype : Command, userval : Seq(STRING)]
    BY <2>2 DEF BlankOp
  <2> QED
    BY <1>1, <2>1, <2>2, <2>3 DEF ValidatorInit, OpTypes
<1>4. Turns /\ SegmentsInOrder
  BY <1>1, <1>2, <1>3 DEF Turns, SegmentsInOrder, Changed, Answered
<1> QED
  BY <1>2, <1>3, <1>4 DEF OpInv

\* Every step of op_exec() keeps the invariant,
LEMMA ExecOpKeeps ==
  ASSUME OpInv, ExecOp
  PROVE  OpInv'
<1>1. /\ oppc \in {"BEGIN", "MATCH"} => vpc = "IDLE"
      /\ Validated => vpc = "IDLE"
  BY DEF OpInv, Turns, Validated
<1>2. CASE RunParse \/ BeginValidate \/ RunValidate \/ BeginMatch \/ RunMatch
  BY <1>2, RunParseKeeps, BeginValidateKeeps, RunValidateKeeps, BeginMatchKeeps, RunMatchKeeps
<1>3. CASE RefuseUnread \/ RefuseRoot \/ RefuseEmpty \/ RefuseDelta
  <2>1. vpc = "IDLE" /\ Finish
    BY <1>1, <1>3 DEF RefuseUnread, RefuseRoot, RefuseEmpty, RefuseDelta, Begun
  <2>2. PICK code : Fails(code)
    BY <1>3 DEF RefuseUnread, RefuseRoot, RefuseEmpty, RefuseDelta
  <2> QED
    BY <2>1, <2>2, RefusalKeeps
<1>4. CASE RefuseValue \/ RefusePath \/ RefuseMatch
  <2>1. vpc = "IDLE" /\ Finish
    BY <1>1, <1>4 DEF RefuseValue, RefusePath, RefuseMatch, Matched
  <2>2. PICK code : Fails(code)
    BY <1>4 DEF RefuseValue, RefusePath, RefuseMatch
  <2> QED
    BY <2>1, <2>2, RefusalKeeps
<1>5. CASE AppendUnparsed
  <2>1. vpc = "IDLE" /\ Finish /\ DoEmptyAppend /\ op' = op
    BY <1>1, <1>5 DEF AppendUnparsed, Finish
  <2>2. Len(op.doc) \in Nat
    BY DEF OpInv, OpTypes
  <2> QED
    BY <2>1, <2>2, EmptyAppendInOrder, FinishKeeps
<1>6. CASE Handle({"GET", "EXISTS"}, DoGet)
  BY <1>6, HandleKeeps, GetInOrder DEF Handle, Matched
<1>7. CASE Handle({"GET_COUNT"}, DoContainerSize)
  BY <1>7, HandleKeeps, ContainerSizeInOrder DEF Handle, Matched
<1>8. CASE Handle({"REMOVE"}, DoRemove)
  BY <1>8, HandleKeeps, RemoveInOrder DEF Handle, Matched
<1>9. CASE Handle({"DICT_ADD", "DICT_UPSERT", "REPLACE"}, DoStoreDict(op.optype, UserValue, NoPart))
  <2>1. oppc = "MATCH" /\ MatchError = "SUCCESS" /\ Finish /\ DoStoreDict(op.optype, UserValue, NoPart)
    BY <1>9 DEF Handle, Matched
  <2>2. UserValue.at = Null
    BY NewBytesAreNew DEF UserValue
  <2>3. Handling => SegmentsInOrder'
    BY <2>1, <2>2, StoreDictInOrder
  <2> QED
    BY <2>1, <2>3, HandleKeeps
<1>10. CASE Handle({"ARRAY_PREPEND"}, DoListPrepend)
  BY <1>10, HandleKeeps, ListPrependInOrder DEF Handle, Matched
<1>11. CASE Handle({"ARRAY_APPEND", "ARRAY_ADD_UNIQUE"}, DoListAppend)
  BY <1>11, HandleKeeps, ListAppendInOrder DEF Handle, Matched
<1>12. CASE Handle({"ARRAY_INSERT"}, DoInsert)
  BY <1>12, HandleKeeps, InsertInOrder DEF Handle, Matched
<1>13. CASE Handle({"COUNTER"}, DoArithOp)
  BY <1>13, HandleKeeps, ArithOpInOrder DEF Handle, Matched
<1> QED
  BY <1>2, <1>3, <1>4, <1>5, <1>6, <1>7, <1>8, <1>9, <1>10, <1>11, <1>12, <1>13 DEF ExecOp

\* and so does every step of a caller.
LEMMA OpInvStep == OpInv /\ [OpNext]_subdocVars => OpInv'
<1> SUFFICES ASSUME OpInv, [OpNext]_subdocVars PROVE OpInv'
  OBVIOUS
<1>1. CASE SetDocument
  BY <1>1, ResetKeepsParts DEF SetDocument, OpClear
<1>2. CASE CallExec
  BY <1>2, CallExecKeeps
<1>3. CASE ExecOp
  BY <1>3, ExecOpKeeps
<1>4. CASE OpNew
  <2>1. <<>> \in Seq(STRING)
    OBVIOUS
  <2> QED
    BY <1>4, <2>1, ResetKeepsParts DEF OpNew
<1>5. CASE UNCHANGED subdocVars
  <2>1. UNCHANGED <<jsnVars, matchVars, validatorVars, parseVars>> /\ UNCHANGED <<op, result, oppc>>
    BY <1>5 DEF subdocVars, operationVars
  <2>2. PathInv' /\ (SearchInv => SearchInv')
    BY <2>1, PathIsKept, SearchStutters DEF OpInv, searchVars
  <2>3. LexerLent => LexerLent'
    BY <2>1, LexerStutters, MatchWaits DEF LexerLent, matchVars
  <2>4. (EmptyAppends' <=> EmptyAppends) /\ vpc' = vpc
    BY <2>1, PathIsSame DEF validatorVars
  <2>5. OpTypes' /\ Turns'
    BY <2>1, <2>4 DEF OpInv, OpTypes, Turns, validatorVars, matchVars, parseVars
  <2>6. SegmentsInOrder'
    <3>1. BreaksOff' = BreaksOff /\ OldParts' = OldParts
      BY <2>1, <2>4 DEF BreaksOff, OldParts, matchVars
    <3>2. \A i, j : InOrder(i, j)' = InOrder(i, j)
      BY <2>1 DEF InOrder
    <3> QED
      BY <2>1, <3>1, <3>2 DEF OpInv, SegmentsInOrder, Changed, Answered
  <2> QED
    BY <2>2, <2>3, <2>4, <2>5, <2>6 DEF OpInv
<1> QED
  BY <1>1, <1>2, <1>3, <1>4, <1>5 DEF OpNext

-----------------------------------------------------------------------------
(* What holds of op_exec(), for every document, path, value and command.   *)

\* The invariants of the path parser, of the search and of the lexer hold in
\* the Operation, where the validator and the matcher share the one lexer.
THEOREM OperationInvariant == OpSpec => []OpInv
<1>1. OperationInit => OpInv
  BY OpInvInit
<1>2. OpInv /\ [OpNext]_subdocVars => OpInv'
  BY OpInvStep
<1> QED
  BY <1>1, <1>2, PTL DEF OpSpec

\* The segments of the old document that make the new one are bytes of it,
\* in order and without overlap, from its first one: no handler of op_exec()
\* writes a byte twice, and no length wraps.
THEOREM SegmentsAreInOrder == OpSpec => []SegmentsInOrder
<1>1. OpInv => SegmentsInOrder
  BY DEF OpInv
<1> QED
  BY <1>1, OperationInvariant, PTL

\* While a value is validated there is no match to name, and other steps than
\* those of the search do not touch it.
LEMMA NamingWaits ==
  ASSUME OpInv, NamingInv, UNCHANGED matchVars, vpc = "IDLE" => pc = "IDLE" \/ UNCHANGED jsnVars
  PROVE  NamingInv'
<1>1. CASE pc = "IDLE"
  BY <1>1 DEF NamingInv, matchVars
<1>2. CASE pc # "IDLE"
  <2>1. vpc = "IDLE" /\ UNCHANGED jsnVars
    BY <1>2 DEF OpInv, Turns
  <2> QED
    BY <2>1, NamingStutters DEF OpInv, searchVars
<1> QED
  BY <1>1, <1>2

\* What the search finds for a command is named by the path the command asks
\* for.
LEMMA OpNames == OpInv /\ NamingInv /\ [OpNext]_subdocVars => NamingInv'
<1> SUFFICES ASSUME OpInv, NamingInv, [OpNext]_subdocVars PROVE NamingInv'
  OBVIOUS
<1>1. CASE SetDocument \/ OpNew
  BY <1>1 DEF SetDocument, OpNew, OpClear, OpReset, Clear, NamingInv
<1>2. CASE CallExec \/ UNCHANGED subdocVars
  BY <1>2, NamingWaits DEF CallExec, OpExec, subdocVars
<1>3. CASE RunParse \/ Finish
  BY <1>3, NamingWaits DEF RunParse, Finish
<1>4. CASE BeginValidate \/ RunValidate
  <2>1. UNCHANGED matchVars /\ pc = "IDLE"
    BY <1>4 DEF BeginValidate, Begun, RunValidate, OpInv, Turns
  <2> QED
    BY <2>1, NamingWaits
<1>5. CASE BeginMatch
  <2>1. Ready /\ Search(op.doc, SearchPath, SearchMatch)
    BY <1>5 DEF BeginMatch
  <2>2. ppc = "DONE" /\ vpc = "IDLE"
    BY <2>1 DEF Ready, Validated, Begun, OpInv, Turns
  <2>3. SearchInv /\ PathInv /\ OpTypes
    BY <2>2 DEF OpInv
  <2> QED
    BY <2>1, <2>2, <2>3, SearchAsks, SearchNames
<1>6. CASE RunMatch
  <2>1. ExecMatch /\ SearchInv
    BY <1>6 DEF RunMatch, OpInv, Turns
  <2> QED
    BY <2>1, ExecNames
<1>7. CASE ExecOp
  <2>1. RunParse \/ BeginValidate \/ RunValidate \/ BeginMatch \/ RunMatch \/ Finish
    BY <1>7 DEF ExecOp, RefuseUnread, RefuseRoot, RefuseEmpty, RefuseDelta, RefuseValue, RefusePath,
                RefuseMatch, AppendUnparsed, Handle
  <2> QED
    BY <1>3, <1>4, <1>5, <1>6, <2>1
<1> QED
  BY <1>1, <1>2, <1>7 DEF OpNext

\* The promises of the parts hold in the Operation: the Path is well formed
\* and its pointers inside what they point into, the callbacks' assertions
\* hold, what a search has found is inside the document and is what the
\* command's path names.
THEOREM PartsKeepTheirWord ==
  OpSpec => [](ShapeIsRight /\ StringsAreApart /\ KeysFit
                 /\ ExpectsHold /\ LocationsInDocument /\ MatchIsNamed)
<1>1. OpInv => ShapeIsRight /\ StringsAreApart /\ KeysFit
  BY DEF OpInv, PathInv
<1>2. OpInv /\ NamingInv => ExpectsHold /\ LocationsInDocument /\ MatchIsNamed
  <2> SUFFICES ASSUME OpInv, NamingInv PROVE ExpectsHold /\ LocationsInDocument /\ MatchIsNamed
    OBVIOUS
  <2>1. CASE vpc = "IDLE"
    <3>1. SearchInv
      BY <2>1 DEF OpInv
    <3> QED
      BY <3>1, SearchExpects, NamingShows DEF SearchInv, Placed, LocationsInDocument
  <2>2. CASE vpc # "IDLE"
    <3>1. pc = "IDLE"
      BY <2>2 DEF OpInv, Turns
    <3> QED
      BY <3>1 DEF ExpectsHold, LocationsInDocument, MatchIsNamed
  <2> QED
    BY <2>1, <2>2
<1>3. OperationInit => OpInv /\ NamingInv
  BY OpInvInit DEF OperationInit, MatchInit, NamingInv
<1>4. OpInv /\ NamingInv /\ [OpNext]_subdocVars => OpInv' /\ NamingInv'
  BY OpInvStep, OpNames
<1> QED
  BY <1>1, <1>2, <1>3, <1>4, PTL DEF OpSpec

-----------------------------------------------------------------------------
(* The reply. *)

(* What a command answers with is bytes of the document, where it is not   *)
(* bytes of the Operation's own.                                           *)
InDocument(part) ==
  part.at >= 0 /\ part.length >= 0 /\ part.at + part.length <= Len(op.doc)

ReplyFits == Answered /\ result.match.at # Null => InDocument(result.match)

\* A refusal and a new document come with no reply.
LEMMA NoReply ==
  /\ \A code : Fails(code) => result'.match.at = Null
  /\ \A parts : NewDoc(parts) => result'.match.at = Null
  /\ \A parts, reply : Answers(parts, reply) => result'.match = reply
<1>1. NoPart.at = Null /\ BlankResult.match = NoPart
  BY NewBytesAreNew DEF NoPart, BlankResult
<1> QED
  BY <1>1 DEF Fails, NewDoc, Answers, BlankResult

LEMMA MkdirPReplies ==
  ASSUME NEW part, NEW opening, NEW closing, NEW reply, reply.at = Null,
         DoMkdirP(part, opening, closing, reply)
  PROVE  result'.match.at = Null
  BY NoReply DEF DoMkdirP

LEMMA StoreDictReplies ==
  ASSUME NEW optype, NEW part, NEW reply, reply.at = Null, DoStoreDict(optype, part, reply)
  PROVE  result'.match.at = Null
  BY NoReply, MkdirPReplies DEF DoStoreDict

\* Every handler but that of GET answers with bytes of the Operation's own.
LEMMA OthersReply ==
  ASSUME \/ DoContainerSize \/ DoRemove \/ DoStoreDict(op.optype, UserValue, NoPart)
         \/ DoListPrepend \/ DoListAppend \/ DoInsert \/ DoArithOp \/ DoEmptyAppend
  PROVE  result'.match.at = Null
<1>1. NoPart.at = Null
  BY NewBytesAreNew DEF NoPart
<1>2. MkdirPArray => result'.match.at = Null
  BY <1>1, MkdirPReplies DEF MkdirPArray
<1>3. InsertSingleton \/ AppendToList => result'.match.at = Null
  BY NoReply DEF InsertSingleton, AppendToList
<1>4. CASE DoContainerSize
  BY <1>4, NoReply, NewBytesAreNew DEF DoContainerSize
<1>5. CASE DoRemove
  BY <1>5, NoReply DEF DoRemove
<1>6. CASE DoStoreDict(op.optype, UserValue, NoPart)
  BY <1>1, <1>6, StoreDictReplies
<1>7. CASE DoListPrepend \/ DoListAppend \/ DoInsert
  BY <1>2, <1>3, <1>7, NoReply DEF DoListPrepend, DoListAppend, DoInsert
<1>8. CASE DoArithOp
  <2>1. ChangeNumber => result'.match.at = Null
    BY NoReply, NewBytesAreNew DEF ChangeNumber
  <2>2. CreateNumber => result'.match.at = Null
    BY StoreDictReplies, NewBytesAreNew DEF CreateNumber
  <2> QED
    BY <1>8, <2>1, <2>2, NoReply DEF DoArithOp
<1>9. CASE DoEmptyAppend
  BY <1>9, NoReply DEF DoEmptyAppend
<1> QED
  BY <1>4, <1>5, <1>6, <1>7, <1>8, <1>9

\* What GET has found is in the document.
LEMMA GetReplies ==
  ASSUME OpInv, Handle({"GET", "EXISTS"}, DoGet)
  PROVE  ReplyFits'
<1>1. Handling /\ DoGet
  BY HandlerBegins DEF Handle, Matched
<1>2. CASE Complete
  <2>1. Within(Place) /\ doc = op.doc /\ op' = op
    BY <1>1, <1>2 DEF Handling, Placed, Complete, Place
  <2>2. result'.match = DocPart(Place.at, Place.length)
    BY <1>1, <1>2, NoReply DEF DoGet
  <2> QED
    BY <2>1, <2>2 DEF ReplyFits, InDocument, Within, DocPart
<1>3. CASE ~Complete
  BY <1>1, <1>3, NoReply DEF DoGet, ReplyFits
<1> QED
  BY <1>2, <1>3

\* What GET answers with is bytes of the document, whatever the document:
\* also where it breaks off within the match.
THEOREM ReplyIsInDocument == OpSpec => []ReplyFits
<1>1. OperationInit => ReplyFits
  BY DEF OperationInit, ReplyFits, Answered
<1>2. OpInv /\ ReplyFits /\ [OpNext]_subdocVars => ReplyFits'
  <2> SUFFICES ASSUME OpInv, ReplyFits, [OpNext]_subdocVars PROVE ReplyFits'
    OBVIOUS
  <2>1. CASE oppc' # "DONE"
    BY <2>1 DEF ReplyFits, Answered
  <2>2. CASE result'.match.at = Null
    BY <2>2 DEF ReplyFits
  <2>3. CASE Handle({"GET", "EXISTS"}, DoGet)
    BY <2>3, GetReplies
  <2>4. CASE UNCHANGED subdocVars
    BY <2>4 DEF subdocVars, operationVars, ReplyFits, Answered, InDocument
  <2>5. CASE SetDocument \/ CallExec \/ OpNew
    BY <2>1, <2>5 DEF SetDocument, CallExec, OpNew, OpClear, OpReset, OpExec
  <2>6. CASE ExecOp
    <3>1. CASE RunParse \/ BeginValidate \/ RunValidate \/ BeginMatch \/ RunMatch
      BY <2>1, <3>1 DEF RunParse, BeginValidate, RunValidate, BeginMatch, RunMatch, operationVars
    <3>2. CASE RefuseUnread \/ RefuseRoot \/ RefuseEmpty \/ RefuseDelta \/ RefuseValue \/ RefusePath \/ RefuseMatch
      BY <2>2, <3>2, NoReply
         DEF RefuseUnread, RefuseRoot, RefuseEmpty, RefuseDelta, RefuseValue, RefusePath, RefuseMatch
    <3> QED
      BY <2>2, <2>3, <2>6, <3>1, <3>2, OthersReply DEF ExecOp, Handle, AppendUnparsed
  <2> QED
    BY <2>4, <2>5, <2>6 DEF OpNext
<1> QED
  BY <1>1, <1>2, OperationInvariant, PTL DEF OpSpec
=============================================================================
