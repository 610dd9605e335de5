-------------------------- MODULE ValidatorClient --------------------------
(***************************************************************************)
(* A caller of Validator::validate(), and the verdict beside the grammar:  *)
(* the value is read again, between its wrapper's halves, by the two       *)
(* recognisers of JsonGrammar.                                             *)
(***************************************************************************)
EXTENDS Validator, JsonslReaders, FiniteSetsExt

CONSTANTS
  Values,      \* texts
  Depths,      \* the maxdepth arguments
  Modes        \* the mode arguments

ASSUME ValuesAssumption == Values \subseteq Seq(STRING)
ASSUME DepthsAssumption == Depths \subseteq Nat \cup {Unlimited}
ASSUME ModesAssumption  == Modes \subseteq Mode

VARIABLE
  asked        \* the maxdepth argument of the last call; NotAsked without one

NotAsked == -2

clientValidateVars == <<validateVars, asked, readers>>

ClientInit == JsonslInit /\ ValidatorInit /\ ReadersInit /\ asked = NotAsked

Ask ==
  /\ vpc = "IDLE" /\ asked = NotAsked
  /\ \E bytes \in Values, maxdepth \in Depths, how \in Modes :
       Validate(bytes, maxdepth, how) /\ asked' = maxdepth
  /\ UNCHANGED readers

(* The caller drops the verdict it has seen. *)
Forget ==
  /\ vpc = "IDLE" /\ asked # NotAsked
  /\ asked' = NotAsked /\ value' = <<>> /\ mode' = BlankMode /\ v' = BlankValid
  /\ UNCHANGED <<jsnVars, readers, vpc>>

Run ==
  /\ ExecValidate
  /\ IF vpc' = "IDLE" THEN ReadersReset ELSE ReadOn
  /\ UNCHANGED asked

ClientNext == Ask \/ Forget \/ Run

ValidatorSpec == /\ ClientInit /\ [][ClientNext]_clientValidateVars
                 /\ WF_clientValidateVars(Run)

-----------------------------------------------------------------------------
(* The wrapped value and what a recogniser makes of each of its prefixes.  *)
Wrapped == Pre(mode.parent) \o value \o Post(mode.parent)

Reading(rigid, bytes) ==
  LET read[i \in 0 .. Len(bytes)] ==
        IF i = 0 THEN Start ELSE Step(rigid, read[i - 1], bytes[i])
  IN  read

Wraps == IF mode.parent = "PARENT_NONE" THEN 0 ELSE 1

(* How many levels are open where a recogniser stands: the containers and  *)
(* the primitive it is in.                                                 *)
InPrimitive(g) == g.at \in {"in_string", "string_escape", "in_number", "in_word"}
LevelsOpen(g) == Len(g.ctx) + (IF InPrimitive(g) THEN 1 ELSE 0)

(* Where a container or a primitive begins; the elements of the outermost  *)
(* container; and how deep the value goes.                                 *)
BeginsWith(before, ch, after) ==
  \/ Len(after.ctx) > Len(before.ctx)
  \/ /\ InPrimitive(after)
     /\ \/ ~InPrimitive(before)
        \/ before.at \in {"in_number", "in_word"} /\ ch \in SpecialEnd

Begins(read, i) == BeginsWith(read[i - 1], Wrapped[i], read[i])

AtDepth(read, depth) ==
  {i \in 1 .. Len(Wrapped) : Begins(read, i) /\ LevelsOpen(read[i]) = depth}
Elements(read)   == AtDepth(read, 2)
ValueDepth(read) == Max({LevelsOpen(read[i]) : i \in 0 .. Len(Wrapped)}) - Wraps

(* One value is at the top, and nothing is left open. *)
OneRoot(read) ==
  /\ Viable(read[Len(Wrapped)])
  /\ LevelsOpen(read[Len(Wrapped)]) = 0
  /\ Cardinality(AtDepth(read, 1)) = 1

Decided == vpc = "IDLE" /\ asked # NotAsked
Valid   == Decided /\ v.err = "SUCCESS"

-----------------------------------------------------------------------------
ValidatorTypeOK ==
  /\ value \in Seq(STRING) /\ mode \in Mode
  /\ v \in [err : Status, rootcount : Nat, maxdepth : Nat \cup {Unlimited}]
  /\ vpc \in {"IDLE", "PRE", "VALUE", "POST", "END"}

(* A value that is valid cannot have closed its wrapper and opened another,*)
(* nor left anything open: what is inserted for it stays where it is put,  *)
(* and the document around it stays as it was.                             *)
ValueStaysInside == Valid => OneRoot(Reading(FALSE, Wrapped))

(* A value that is valid is as deep as it may be and no deeper, counting   *)
(* containers and primitives but not the wrapper.                          *)
ValidIsShallow ==
  Valid /\ asked # Unlimited => ValueDepth(Reading(FALSE, Wrapped)) <= asked

(* A value with the flags it was asked for is one value, or a primitive    *)
(* one: white space, which jsonsl cannot see, passes for none at all.      *)
FlagsHold ==
  Valid =>
    LET read == Reading(FALSE, Wrapped)
    IN /\ "VALUE_SINGLE" \in mode.flags => Cardinality(Elements(read)) <= 1
       /\ "VALUE_PRIMITIVE" \in mode.flags =>
            \A i \in Elements(read) : InPrimitive(read[i])

(* Every JSON value, in its wrapper if it has one, that respects the flags *)
(* and the depth is valid.                                                 *)
JsonIsValid ==
  Decided =>
    LET read == Reading(TRUE, Wrapped)
    IN /\ OneRoot(read)
       /\ asked # Unlimited => ValueDepth(read) <= asked
       /\ ValueDepth(read) + Wraps <= LevelsMax - 1
       /\ "VALUE_SINGLE" \in mode.flags => Cardinality(Elements(read)) = 1
       /\ "VALUE_PRIMITIVE" \in mode.flags =>
            \A i \in Elements(read) : InPrimitive(read[i])
       => v.err = "SUCCESS"

(* validate() answers, whatever it is given. *)
ValidateReturns == []<>(vpc = "IDLE")
=============================================================================
