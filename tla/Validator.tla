----------------------------- MODULE Validator -----------------------------
(***************************************************************************)
(* Validator::validate(): the lexer's client that decides whether a value  *)
(* may be put into a document.  The value is fed between the two halves of *)
(* a wrapper, in up to three feeds without a reset between them.           *)
(***************************************************************************)
EXTENDS Jsonsl

VARIABLES
  value,    \* the s, n arguments
  mode,     \* the mode argument: the parent and the set of value flags
  v,        \* validate_ctx; maxdepth as validate() has adjusted it
  vpc       \* which feed is next: "IDLE", "PRE", "VALUE", "POST", "END"

validatorVars == <<value, mode, v, vpc>>
validateVars  == <<jsnVars, validatorVars>>

-----------------------------------------------------------------------------
Unlimited == -1

ParentMode == {"PARENT_NONE", "PARENT_ARRAY", "PARENT_DICT"}
ValueFlag  == {"VALUE_SINGLE", "VALUE_PRIMITIVE"}
Mode       == [parent : ParentMode, flags : SUBSET ValueFlag]

(* The Status codes; ETOODEEP is the lexer's LEVELS_EXCEEDED. *)
ETOODEEP == "LEVELS_EXCEEDED"
Status   == Error \cup {"SUCCESS", "ENOTPRIMITIVE", "EMULTIELEM", "EPARTIAL"}

BlankMode  == [parent |-> "PARENT_NONE", flags |-> {}]
BlankValid == [err |-> "SUCCESS", rootcount |-> 0, maxdepth |-> Unlimited]

(* l_pre and l_post *)
Pre(parent)  == CASE parent = "PARENT_NONE"  -> <<>>
                  [] parent = "PARENT_ARRAY" -> <<"[">>
                  [] parent = "PARENT_DICT"  -> <<"{", Quote, "k", Quote, ":">>
Post(parent) == CASE parent = "PARENT_NONE"  -> <<>>
                  [] parent = "PARENT_ARRAY" -> <<"]">>
                  [] parent = "PARENT_DICT"  -> <<"}">>

(* Its halves are texts as the value is: a fact of TLA+ the provers lack.  *)
ASSUME WrapperAssumption ==
  \A parent \in ParentMode : Pre(parent) \in Seq(STRING) /\ Post(parent) \in Seq(STRING)

AdjustedDown(maxdepth, parent)  == maxdepth - 1   \* mutant
AdjustedTwice(maxdepth, parent) ==                \* mutant
  IF maxdepth = Unlimited THEN maxdepth ELSE maxdepth + 2

(* The wrapper is not counted in the depth. *)
Adjusted(maxdepth, parent) ==
  IF maxdepth = Unlimited \/ parent = "PARENT_NONE" THEN maxdepth ELSE maxdepth + 1

(* How deep validate_callback() must hear of: one level more than allowed. *)
CallbackDepth == CASE v.maxdepth # Unlimited -> v.maxdepth + 2
                   [] v.maxdepth = Unlimited /\ mode.flags # {} -> 3
                   [] OTHER -> 2

-----------------------------------------------------------------------------
(* validate_callback(); later checks overwrite earlier ones. *)

Seen        == stack[cb.level]
Around      == stack[cb.level - 1]
HasMultipleLate == \/ Around.type = "LIST" /\ Around.nelem > 2     \* mutant
                   \/ Around.type = "OBJECT" /\ Around.nelem > 4
HasMultipleEarly == Around.nelem > 0                              \* mutant
HasMultiple == \/ Around.type = "LIST" /\ Around.nelem > 1
               \/ Around.type = "OBJECT" /\ Around.nelem > 2

Objection ==
  IF v.maxdepth # Unlimited /\ cb.level - 1 = v.maxdepth THEN ETOODEEP
    ELSE IF cb.level # 2 \/ cb.action # "PUSH" THEN "SUCCESS"
    ELSE IF "VALUE_SINGLE" \in mode.flags /\ HasMultiple THEN "EMULTIELEM"
    ELSE IF "VALUE_PRIMITIVE" \in mode.flags /\ Seen.type \in Container THEN "ENOTPRIMITIVE"
    ELSE "SUCCESS"

ValidateCallback ==
  /\ v' = IF Objection # "SUCCESS" THEN [v EXCEPT !.err = Objection]
          ELSE IF cb.level = 1 THEN [v EXCEPT !.rootcount = @ + 1] ELSE v
  /\ Answer(Objection # "SUCCESS", Seen.ignore_callback, max_callback_level)
  /\ UNCHANGED <<value, mode, vpc>>

(* validate_err_callback() *)
ValidateLex ==
  /\ Feed
  /\ v' = IF err' # "SUCCESS" THEN [v EXCEPT !.err = err'] ELSE v
  /\ UNCHANGED <<value, mode, vpc>>

(* The call: what is set once for the three feeds. *)
Validate(bytes, maxdepth, how) ==
  /\ vpc = "IDLE"
  /\ value' = bytes /\ mode' = how
  /\ v' = [BlankValid EXCEPT !.maxdepth = Adjusted(maxdepth, how.parent)]
  /\ vpc' = "PRE"
  /\ UNCHANGED jsnVars

FeedReturned == cb = NoCallback /\ (err # "SUCCESS" \/ stopfl \/ pos = Len(text))

FeedPart(from, to, bytes) ==
  /\ vpc = from /\ FeedReturned
  /\ CallFeed(bytes, CallbackDepth, FALSE)
  /\ vpc' = to
  /\ UNCHANGED <<value, mode, v>>

FeedPre   == FeedPart("PRE", "VALUE", Pre(mode.parent))
FeedValue == FeedPart("VALUE", "POST", value)
FeedPost  == FeedPart("POST", "END", Post(mode.parent)) /\ v.err = "SUCCESS"

(* The verdict, and jsonsl_reset(): one push and one pop at the root. *)
VerdictUncounted ==   \* mutant: what follows the value is not seen
  IF v.err = "SUCCESS" /\ v.rootcount < 2 THEN "EPARTIAL" ELSE v.err

Verdict ==
  IF v.err # "SUCCESS" THEN v.err
    ELSE IF v.rootcount < 2 THEN "EPARTIAL"
    ELSE IF v.rootcount > 2 THEN "EMULTIELEM"
    ELSE "SUCCESS"

EndValidate ==
  /\ FeedReturned
  /\ vpc \in {"POST", "END"}
  /\ vpc = "POST" => v.err # "SUCCESS"
  /\ v' = [v EXCEPT !.err = Verdict]
  /\ vpc' = "IDLE"
  /\ Reset
  /\ UNCHANGED <<value, mode>>

ExecValidate ==
  /\ vpc # "IDLE"
  /\ \/ FeedPre \/ FeedValue \/ FeedPost \/ EndValidate
     \/ ValidateLex
     \/ cb # NoCallback /\ ValidateCallback

ValidatorInit ==
  /\ value = <<>> /\ mode = BlankMode /\ v = BlankValid /\ vpc = "IDLE"
=============================================================================
