----------------------------- MODULE Operations -----------------------------
(***************************************************************************)
(* Operation::op_exec(): what a command does with the validator and the    *)
(* matcher, which share the one lexer of the Operation, and how it lays    *)
(* out the new document in segments of the old one, of the value and of    *)
(* its own buffers.                                                        *)
(*                                                                         *)
(* The path is read through the pointers of the Path wherever a handler    *)
(* looks at it.                                                            *)
(***************************************************************************)
EXTENDS Match, Validator, PathParse

(* Limits: PARSER_DEPTH, and what jsn_alloc() gives the lexer. *)
ASSUME LimitsAssumption == LevelsMax = MaxComponents + 1

VARIABLES
  op,       \* m_doc, m_optype and m_userval
  result,   \* the Error returned and the Result filled in
  oppc      \* "IDLE", "BEGIN", "VALIDATE", "MATCH", "DONE"

operationVars == <<op, result, oppc>>
subdocVars    == <<jsnVars, matchVars, validatorVars, parseVars, operationVars>>

-----------------------------------------------------------------------------
(* m_path *)
OpPath == ParsedPath

Base == {"GET", "EXISTS", "REPLACE", "REMOVE", "DICT_UPSERT", "DICT_ADD", "ARRAY_PREPEND",
         "ARRAY_APPEND", "ARRAY_ADD_UNIQUE", "ARRAY_INSERT", "COUNTER", "GET_COUNT"}
WithMkdirP == {"DICT_UPSERT", "DICT_ADD", "ARRAY_PREPEND", "ARRAY_APPEND",
               "ARRAY_ADD_UNIQUE", "COUNTER"}
Command == {cmd \in [base : Base, is_mkdir_p : BOOLEAN] :
              cmd.is_mkdir_p => cmd.base \in WithMkdirP}

Get == [base |-> "GET", is_mkdir_p |-> FALSE]

Code == {"SUCCESS", "PATH_ENOENT", "PATH_MISMATCH", "PATH_EINVAL", "DOC_NOTJSON",
         "DOC_EEXISTS", "PATH_E2BIG", "NUM_E2BIG", "DELTA_OVERFLOW", "DELTA_EINVAL",
         "VALUE_CANTINSERT", "DOC_ETOODEEP", "VALUE_EMPTY", "VALUE_ETOODEEP"}

(* A segment is a Loc: into the document, whose length wraps in the code   *)
(* where it is negative here, or into a buffer, whose bytes it then holds. *)
DocPart(at, length) == [at |-> at, length |-> length, bytes |-> <<>>]
Bytes(bytes)        == [at |-> Null, length |-> Len(bytes), bytes |-> bytes]
NoPart              == Bytes(<<>>)

BlankOp     == [doc |-> <<>>, optype |-> Get, userval |-> <<>>]
BlankResult == [code |-> "SUCCESS", newdoc |-> <<>>, match |-> NoPart]

(* Loc: overlap is 0 (NO_OVERLAP) or 1 (OVERLAP). *)
EndAtBegin(until, overlap) == DocPart(0, until.at + overlap)
EndAtEnd(until, overlap)   == DocPart(0, until.at + until.length - 1 + overlap)
BeginAtBegin(from)         == DocPart(from.at, Len(op.doc) - from.at)
BeginPastEnd(from, overlap) ==   \* mutant: the overlap on the wrong side
  DocPart(from.at + from.length + overlap,
          Len(op.doc) - (from.at + from.length) - overlap)
BeginAtEnd(from, overlap)  ==
  DocPart(from.at + from.length - overlap,
          Len(op.doc) - (from.at + from.length) + overlap)

UserValue == Bytes(op.userval)
COMMA     == Bytes(<<",">>)

-----------------------------------------------------------------------------
(* The value, and what may precede it. *)

IsDict   == op.optype.base \in {"DICT_ADD", "DICT_UPSERT", "REPLACE"}
IsUnique == op.optype.base = "ARRAY_ADD_UNIQUE"
IsArray  == op.optype.base \in {"ARRAY_PREPEND", "ARRAY_APPEND", "ARRAY_ADD_UNIQUE",
                                "ARRAY_INSERT"}

MaxDepthNewKey == MaxComponents - Len(OpPath) + 1   \* mutant

(* get_maxdepth() *)
MaxDepth == MaxComponents - Len(OpPath)
              + (IF IsDict \/ op.optype.base = "ARRAY_INSERT" THEN 1 ELSE 0)

ValueMode ==
  [parent |-> IF IsDict THEN "PARENT_DICT" ELSE "PARENT_ARRAY",
   flags  |-> IF IsUnique THEN {"VALUE_PRIMITIVE", "VALUE_SINGLE"} ELSE {}]

(* parse_int64() *)
DeltaError ==
  IF op.userval = <<>> THEN "VALUE_EMPTY"
  ELSE IF \/ ~IsInteger(op.userval)
          \/ Digits(op.userval)[1] = "0"
          \/ ~InRange(IntOf(op.userval))
  THEN "DELTA_EINVAL" ELSE "SUCCESS"

(* What op_exec() and do_insert() return before anything is searched.      *)
RootError ==
  IF Len(OpPath) = 1 /\ (IsDict \/ op.optype.base = "REMOVE")
  THEN "VALUE_CANTINSERT" ELSE "SUCCESS"

IsInsertable(comp) == comp.ptype = "NUMERIC" /\ ~comp.is_neg

PathError ==
  CASE op.optype.base = "ARRAY_INSERT" /\ ~IsInsertable(LastComponent(OpPath)) -> "PATH_EINVAL"
    [] op.optype.base = "ARRAY_PREPEND" /\ Len(OpPath) = MaxComponents -> "PATH_E2BIG"
    [] OTHER -> "SUCCESS"

EmptyAppends == op.optype.base = "ARRAY_APPEND" /\ Len(OpPath) = 1

(* The search: do_list_prepend() looks for the first element. *)
SearchPath  == IF op.optype.base = "ARRAY_PREPEND" THEN Append(OpPath, Index(0)) ELSE OpPath

SearchMatch ==
  [BlankMatch EXCEPT
     !.ensure_unique = IF IsUnique THEN op.userval ELSE @,
     !.extra_options =
        IF \/ op.optype.base = "REMOVE"
           \/ op.optype.base = "COUNTER" /\ op.optype.is_mkdir_p
        THEN "GET_FOLLOWING_SIBLINGS" ELSE @]

-----------------------------------------------------------------------------
(* do_match_common() *)
MatchError ==
  IF m.matchres = "TYPE_MISMATCH" THEN "PATH_MISMATCH"
  ELSE CASE m.status = "SUCCESS"         -> "SUCCESS"
         [] m.status = "LEVELS_EXCEEDED" -> "DOC_ETOODEEP"
         [] OTHER                        -> "DOC_NOTJSON"

(* The handlers, once exec_match() has returned without an error: each is  *)
(* a relation between the Match and the Result.                            *)
Complete == m.matchres = "COMPLETE"
Place    == m.loc_deepest

Fails(code)   == result' = [BlankResult EXCEPT !.code = code]
Answers(parts, reply) == result' = [BlankResult EXCEPT !.newdoc = parts, !.match = reply]
NewDoc(parts) == Answers(parts, NoPart)

DoGet ==
  \/ ~Complete /\ Fails("PATH_ENOENT")
  \/ Complete /\ Answers(<<>>, DocPart(Place.at, Place.length))

DoContainerSize ==
  \/ ~Complete /\ Fails("PATH_ENOENT")
  \/ Complete /\ m.type \notin Container /\ Fails("PATH_MISMATCH")
  \/ /\ Complete /\ m.type \in Container
     /\ Answers(<<NoPart>>, Bytes(TextOf(IF m.type = "OBJECT" THEN m.num_children \div 2
                                                             ELSE m.num_children)))

(* strip_comma(), from the front or from the back *)
CommasIn(part) == {i \in part.at .. part.at + part.length - 1 : op.doc[i + 1] = ","}
StripFirst(part) ==
  IF CommasIn(part) = {} THEN part
  ELSE LET past == Min(CommasIn(part)) + 1
       IN  DocPart(past, part.at + part.length - past)
StripLast(part) ==
  IF CommasIn(part) = {} THEN part ELSE DocPart(part.at, Max(CommasIn(part)) - part.at)

(* do_remove(): from the key, if there is one, to the end of the value,    *)
(* and one of the commas around them.                                      *)
IsLast == m.position = m.num_siblings

DoRemove ==
  LET start  == IF m.loc_key.length # 0 THEN m.loc_key ELSE Place
      before == EndAtBegin(start, 0)
      after  == BeginAtEnd(Place, 0)
  IN \/ ~Complete /\ Fails("PATH_ENOENT")
     \/ Complete /\ m.num_siblings = 0 /\ NewDoc(<<before, after>>)
     \/ Complete /\ m.num_siblings # 0 /\ IsLast /\ NewDoc(<<StripLast(before), after>>)
     \/ Complete /\ m.num_siblings # 0 /\ ~IsLast /\ NewDoc(<<before, StripFirst(after)>>)

(* do_mkdir_p(): every missing component a key, every one but the first in *)
(* an object of its own; opening and closing are what MKDIR_P_ARRAY puts   *)
(* around the value.                                                       *)
Missing      == SubSeq(OpPath, m.match_level + 1, Len(OpPath))
KeyText(key) == <<Quote>> \o key \o <<Quote, ":">>
CommaNever   == <<>>   \* mutant
CommaIfAny   == IF m.num_siblings # 0 THEN <<",">> ELSE <<>>

DoMkdirP(part, opening, closing, reply) ==
  LET keys   == [i \in 1 .. Len(Missing) |->
                   (IF i = 1 THEN <<>> ELSE <<"{">>) \o KeyText(Missing[i].pstr)]
      braces == [i \in 1 .. Len(Missing) - 1 |-> "}"]
      nested == /\ Missing[1].ptype # "NUMERIC"
                /\ \A i \in 2 .. Len(Missing) : Missing[i].ptype = "STRING"
  IN \/ ~nested /\ Fails("PATH_ENOENT")
     \/ /\ nested
        /\ Answers(<<EndAtEnd(Place, 0),
                     Bytes(CommaIfAny \o FlattenSeq(keys) \o opening),
                     part, Bytes(closing \o braces), BeginAtEnd(Place, 1)>>, reply)

(* do_store_dict(), with the opcode and the value do_arith_op() may have   *)
(* put in place of the caller's; reply is what the Result's match becomes. *)
DoStoreDict(optype, part, reply) ==
  LET numeric == LastComponent(OpPath).ptype = "NUMERIC"
      replace == optype.base = "REPLACE"
      add     == optype.base = "DICT_ADD"
      parent  == m.immediate_parent_found
  IN
  \/ ~replace /\ numeric /\ Fails("PATH_EINVAL")
  \/ /\ replace \/ ~numeric
     /\ \/ Complete /\ add /\ Fails("DOC_EEXISTS")
        \/ /\ Complete /\ ~add
           /\ Answers(<<EndAtBegin(Place, 0), part, BeginAtEnd(Place, 0)>>, reply)
        \/ ~Complete /\ replace /\ Fails("PATH_ENOENT")
        \/ /\ ~Complete /\ ~replace /\ parent
           /\ Answers(<<EndAtEnd(Place, 0), Bytes(CommaIfAny \o <<Quote>>),
                        Bytes(LastComponent(OpPath).pstr), Bytes(<<Quote, ":">>),
                        part, BeginAtEnd(Place, 1)>>, reply)
        \/ /\ ~Complete /\ ~replace /\ ~parent /\ optype.is_mkdir_p
           /\ DoMkdirP(part, <<>>, <<>>, reply)
        \/ ~Complete /\ ~replace /\ ~parent /\ ~optype.is_mkdir_p /\ Fails("PATH_ENOENT")

MkdirPArray == DoMkdirP(UserValue, <<"[">>, <<"]">>, NoPart)

InsertSingleton == NewDoc(<<EndAtBegin(Place, 1), UserValue, BeginAtEnd(Place, 1)>>)

DoListPrepend ==
  \/ Complete /\ NewDoc(<<EndAtBegin(Place, 0), UserValue, COMMA, BeginAtBegin(Place)>>)
  \/ ~Complete /\ m.immediate_parent_found /\ InsertSingleton
  \/ ~Complete /\ ~m.immediate_parent_found /\ op.optype.is_mkdir_p /\ MkdirPArray
  \/ /\ ~Complete /\ ~m.immediate_parent_found /\ ~op.optype.is_mkdir_p
     /\ Fails("PATH_ENOENT")

AppendToList == NewDoc(<<EndAtEnd(Place, 0), COMMA, UserValue, BeginAtEnd(Place, 1)>>)

DoListAppend ==
  \/ ~Complete /\ op.optype.is_mkdir_p /\ MkdirPArray
  \/ ~Complete /\ ~op.optype.is_mkdir_p /\ Fails("PATH_ENOENT")
  \/ Complete /\ m.type # "LIST" /\ Fails("PATH_MISMATCH")
  \/ Complete /\ m.type = "LIST" /\ IsUnique /\ m.unique_item_found /\ Fails("DOC_EEXISTS")
  \/ /\ Complete /\ m.type = "LIST" /\ ~(IsUnique /\ m.unique_item_found)
     /\ IF m.num_children = 0 THEN InsertSingleton ELSE AppendToList

DoInsert ==
  LET idx == LastComponent(OpPath).idx
  IN \/ Complete /\ NewDoc(<<EndAtBegin(Place, 0), UserValue, COMMA, BeginAtBegin(Place)>>)
     \/ /\ ~Complete /\ m.immediate_parent_found /\ idx = m.num_siblings
        /\ IF idx = 0 THEN InsertSingleton ELSE AppendToList
     \/ /\ ~Complete /\ (m.immediate_parent_found => idx # m.num_siblings)
        /\ Fails("PATH_ENOENT")

-----------------------------------------------------------------------------
(* do_arith_op(); strtoll() saturates with ERANGE. *)
Number  == IntOf(DocSlice(Place))
Delta   == IntOf(op.userval)
Overflows ==
  \/ Delta >= 0 /\ Number >= 0 /\ IntMax - Delta < Number
  \/ Delta < 0 /\ Number < 0 /\ Delta < IntMin - Number

ChangeNumber ==
  LET sum == Bytes(TextOf(Number + Delta))
  IN  Answers(<<EndAtBegin(Place, 0), sum, BeginAtEnd(Place, 0)>>, sum)

CreateNumber ==
  LET delta == Bytes(TextOf(Delta))
  IN  DoStoreDict([base |-> "DICT_ADD", is_mkdir_p |-> TRUE], delta, delta)

DoArithOp ==
  LET integer == m.type = "SPECIAL" /\ m.sflags \subseteq NUMERIC
      parent  == op.optype.is_mkdir_p \/ m.immediate_parent_found
  IN \/ Complete /\ ~integer /\ Fails("PATH_MISMATCH")
     \/ Complete /\ integer /\ ~InRange(Number) /\ Fails("NUM_E2BIG")
     \/ Complete /\ integer /\ InRange(Number) /\ Overflows /\ Fails("DELTA_OVERFLOW")
     \/ Complete /\ integer /\ InRange(Number) /\ ~Overflows /\ ChangeNumber
     \/ ~Complete /\ ~(parent /\ m.type = "OBJECT") /\ Fails("PATH_ENOENT")
     \/ ~Complete /\ parent /\ m.type = "OBJECT" /\ CreateNumber

-----------------------------------------------------------------------------
(* do_empty_append(): the path is the root, and nothing is parsed.         *)
Significant(last) ==
  Max({0} \cup {i \in 0 .. last : op.doc[i + 1] \notin Whitespace})

DoEmptyAppend ==
  LET a_end   == Significant(Len(op.doc) - 1)
      e_comma == Significant(a_end - 1)
      isList  == a_end # 0 /\ op.doc[a_end + 1] = "]"
      before  == DocPart(0, e_comma + 1)
      after   == DocPart(a_end, 1)
      end     == op.doc[a_end + 1]
      lastOne == op.doc[e_comma + 1]
  IN \/ ~isList /\ end \in {"]", "}"} /\ Fails("PATH_MISMATCH")
     \/ ~isList /\ end \notin {"]", "}"} /\ Fails("DOC_NOTJSON")
     \/ /\ isList /\ lastOne \in {"[", ","}
        /\ NewDoc(<<before, UserValue, after>>)
     \/ /\ isList /\ lastOne \notin {"[", ","} \cup Whitespace
        /\ NewDoc(<<before, COMMA, UserValue, after>>)
     \/ isList /\ lastOne \in Whitespace /\ Fails("DOC_NOTJSON")

-----------------------------------------------------------------------------
(* op_exec() *)

HasValue == IsDict \/ IsArray

(* set_doc(), set_code() and set_value() have been called before.          *)
OpExec(pth, command, bytes) ==
  /\ oppc = "IDLE"
  /\ op' = [op EXCEPT !.optype = command, !.userval = bytes]
  /\ Parse(pth)
  /\ oppc' = "BEGIN"
  /\ UNCHANGED <<jsnVars, matchVars, validatorVars, result>>

Finish == /\ oppc' = "DONE"
          /\ UNCHANGED <<jsnVars, matchVars, validatorVars, parseVars, op>>

RunParse == /\ oppc = "BEGIN" /\ ParseStep
            /\ UNCHANGED <<jsnVars, matchVars, validatorVars, operationVars>>

RefuseUnread ==
  /\ oppc = "BEGIN" /\ ppc = "DONE" /\ perr # "SUCCESS"
  /\ Fails(IF perr = "LEVELS_EXCEEDED" THEN "PATH_E2BIG" ELSE "PATH_EINVAL")
  /\ Finish

Begun == oppc = "BEGIN" /\ ppc = "DONE" /\ perr = "SUCCESS"

RefuseRoot == /\ Begun /\ RootError # "SUCCESS"
              /\ Fails(RootError) /\ Finish

RefuseEmpty == /\ Begun /\ RootError = "SUCCESS"
               /\ HasValue /\ op.userval = <<>>
               /\ Fails("VALUE_EMPTY") /\ Finish

RefuseDelta == /\ Begun
               /\ op.optype.base = "COUNTER" /\ DeltaError # "SUCCESS"
               /\ Fails(DeltaError) /\ Finish

BeginValidate ==
  /\ Begun /\ RootError = "SUCCESS"
  /\ HasValue /\ op.userval # <<>>
  /\ Validate(op.userval, MaxDepth, ValueMode)
  /\ oppc' = "VALIDATE"
  /\ UNCHANGED <<matchVars, parseVars, op, result>>

RunValidate == /\ oppc = "VALIDATE" /\ ExecValidate
               /\ UNCHANGED <<matchVars, parseVars, operationVars>>

(* Operation::validate(): its three answers. *)
Validated == oppc = "VALIDATE" /\ vpc = "IDLE"

RefuseValue ==
  /\ Validated /\ v.err # "SUCCESS"
  /\ Fails(IF v.err = ETOODEEP THEN "VALUE_ETOODEEP" ELSE "VALUE_CANTINSERT")
  /\ Finish

RefusePath == /\ Validated /\ v.err = "SUCCESS" /\ PathError # "SUCCESS"
              /\ Fails(PathError) /\ Finish

AppendUnparsed == /\ Validated /\ v.err = "SUCCESS" /\ EmptyAppends
                  /\ DoEmptyAppend /\ Finish

Ready == IF HasValue
         THEN Validated /\ v.err = "SUCCESS" /\ PathError = "SUCCESS" /\ ~EmptyAppends
         ELSE /\ Begun /\ RootError = "SUCCESS"
              /\ op.optype.base = "COUNTER" => DeltaError = "SUCCESS"

BeginMatch ==
  /\ Ready
  /\ Search(op.doc, SearchPath, SearchMatch)
  /\ oppc' = "MATCH"
  /\ UNCHANGED <<validatorVars, parseVars, op, result>>

RunMatch == /\ oppc = "MATCH" /\ ExecMatch
            /\ UNCHANGED <<validatorVars, parseVars, operationVars>>

Matched(bases) == oppc = "MATCH" /\ pc = "DONE" /\ op.optype.base \in bases

RefuseMatch == /\ Matched(Base) /\ MatchError # "SUCCESS"
               /\ Fails(MatchError) /\ Finish

Handle(bases, handler) == Matched(bases) /\ MatchError = "SUCCESS" /\ handler /\ Finish

ExecOp ==
  \/ RunParse \/ RefuseUnread \/ RefuseRoot \/ RefuseEmpty \/ RefuseDelta
  \/ BeginValidate \/ RunValidate \/ RefuseValue \/ RefusePath \/ AppendUnparsed
  \/ BeginMatch \/ RunMatch \/ RefuseMatch
  \/ Handle({"GET", "EXISTS"}, DoGet)
  \/ Handle({"GET_COUNT"}, DoContainerSize)
  \/ Handle({"REMOVE"}, DoRemove)
  \/ Handle({"DICT_ADD", "DICT_UPSERT", "REPLACE"},
            DoStoreDict(op.optype, UserValue, NoPart))
  \/ Handle({"ARRAY_PREPEND"}, DoListPrepend)
  \/ Handle({"ARRAY_APPEND", "ARRAY_ADD_UNIQUE"}, DoListAppend)
  \/ Handle({"ARRAY_INSERT"}, DoInsert)
  \/ Handle({"COUNTER"}, DoArithOp)

(* Operation::clear(): everything but the document; the caller may set     *)
(* another.                                                                *)
OpReset(document) ==
  /\ oppc \in {"IDLE", "DONE"}
  /\ Clear
  /\ value' = <<>> /\ mode' = BlankMode /\ v' = BlankValid /\ UNCHANGED vpc
  /\ op' = [BlankOp EXCEPT !.doc = document]
  /\ result' = BlankResult /\ oppc' = "IDLE"

OpClear(document) == OpReset(document) /\ PathClear

(* The Operation is deleted, and a new one made. *)
OpNew == OpReset(<<>>) /\ PathNew

OperationInit ==
  /\ MatchInit /\ ValidatorInit /\ PathInit
  /\ op = BlankOp /\ result = BlankResult /\ oppc = "IDLE"

(* The bytes of a segment and of the new document. *)
BytesOf(part) == IF part.at = Null THEN part.bytes
                 ELSE SubSeq(op.doc, part.at + 1, part.at + part.length)
NewBytes == FlattenSeq([i \in 1 .. Len(result.newdoc) |-> BytesOf(result.newdoc[i])])
=============================================================================
