----------------------------- MODULE PathParse -----------------------------
(***************************************************************************)
(* Path::parse() and Path::clear(): a path as text becomes components.     *)
(*                                                                         *)
(* A component does not hold its key, it points to it: into the text of    *)
(* the caller or, when backticks had to be removed, into a string of the   *)
(* Path.  The Path keeps these strings and uses them again: m_used holds   *)
(* those the components may point into, m_cached those that are free.      *)
(* Positions in the text are from 1.                                       *)
(***************************************************************************)
EXTENDS PathInfo, Numbers, SequencesExt

CONSTANT MaxComponents   \* Limits::MAX_COMPONENTS

ASSUME MaxComponentsAssumption == MaxComponents \in Nat \ {0}

VARIABLES
  ptext,                  \* the path argument
  ii,                     \* parse(): where the next component begins
  scan,                   \* locals of the functions parse() calls
  components, has_negix,  \* components_s up to ncomponents, and the flag
  strings,                \* every string the Path has made
  m_used, m_cached,       \* numbers of strings
  ppc,                    \* "IDLE", "NEXT", "STRING", "NUMBER", "CONVERT", "DONE"
  perr                    \* what parse() returns

heapVars  == <<strings, m_used, m_cached>>
parseVars == <<ptext, ii, scan, components, has_negix, heapVars, ppc, perr>>

-----------------------------------------------------------------------------
Tick == "tick"

(* What parse_string() refuses unescaped: characters below 0x1F. *)
Control == {"tab"}

(* isAllowedJsonEscapes(), without the u it refuses separately. *)
PathEscape == AllowedEscape \ {"u"}

(* size_t and long have the width of IntMax. *)
Modulus == 2 * (IntMax + 1)

BlankScan == [at |-> 0, in_n1ql_escape |-> FALSE, in_json_escape |-> FALSE,
              n_backticks |-> 0, numval |-> 0, past |-> 0, next |-> 0]

Scan == [at : Nat, in_n1ql_escape : BOOLEAN, in_json_escape : BOOLEAN, n_backticks : Nat,
         numval : 0 .. Modulus - 1, past : Nat, next : Nat]

(* A pointer into the text (owner 0) or to the first of the bytes of one   *)
(* of the Path's strings.                                                  *)
NullKey == [owner |-> 0, at |-> 1, len |-> 0]
SliceOver(at, len) == [owner |-> 0, at |-> at, len |-> len + 1]   \* mutant
Slice(at, len)  == [owner |-> 0, at |-> at, len |-> len]
Owned(id, len)  == [owner |-> id, at |-> 1, len |-> len]

RootHere    == [ptype |-> "ROOT", key |-> NullKey, idx |-> 0, is_neg |-> FALSE]
StringHere(key)   == [ptype |-> "STRING", key |-> key, idx |-> 0, is_neg |-> FALSE]
NumericHere(ixnum) == [ptype |-> "NUMERIC", key |-> NullKey, idx |-> ixnum,
                       is_neg |-> ixnum = -1]

(* The path as it is read through the pointers. *)
KeyOf(key) == SubSeq(IF key.owner = 0 THEN ptext ELSE strings[key.owner],
                     key.at, key.at + key.len - 1)
ParsedPath == [i \in 1 .. Len(components) |->
                 [ptype |-> components[i].ptype, pstr |-> KeyOf(components[i].key),
                  idx |-> components[i].idx, is_neg |-> components[i].is_neg]]

-----------------------------------------------------------------------------
Return(code) == ppc' = "DONE" /\ perr' = code

Refused(code) == /\ Return(code)
                 /\ UNCHANGED <<ptext, ii, scan, components, has_negix, heapVars>>

RoomForOneMore == Len(components) <= MaxComponents   \* mutant
Room == Len(components) # MaxComponents

(* add_array_index(): next is where parse() goes on, 0 where it cannot. *)
AddArrayIndex(ixnum, next) ==
  \/ ~Room /\ Refused("LEVELS_EXCEEDED")
  \/ /\ Room
     /\ components' = Append(components, NumericHere(ixnum))
     /\ has_negix' = (has_negix \/ ixnum = -1)
     /\ \/ next = 0 /\ Return("JPR_BADPATH") /\ UNCHANGED ii
        \/ next # 0 /\ ii' = next /\ ppc' = "NEXT" /\ UNCHANGED perr
     /\ UNCHANGED <<ptext, scan, heapVars>>

(* A component's idx is unsigned again; -1 stands for its largest value.   *)
AsLong(n) == IF n = Modulus - 1 THEN -1 ELSE n

(* What parse() does behind the bracket that closes. *)
AfterBracket(close) ==
  IF close = Len(ptext) \/ ptext[close + 1] = "[" THEN close + 1
  ELSE IF ptext[close + 1] = "." THEN close + 2 ELSE 0

(* parse_bracket(): a bracket must close somewhere, the digits are read up *)
(* to the first that does.                                                 *)
Closes == \E i \in ii + 1 .. Len(ptext) : ptext[i] = "]"

BeginBracket ==
  /\ ppc = "NEXT" /\ ii <= Len(ptext) /\ ptext[ii] = "["
  /\ \/ ~Closes /\ Refused("JPR_BADPATH")
     \/ /\ Closes
        /\ scan' = [BlankScan EXCEPT !.at = ii + 1] /\ ppc' = "NUMBER"
        /\ UNCHANGED <<ptext, ii, components, has_negix, heapVars, perr>>

(* add_num_component(): a minus only as -1, else digits, if any. *)
HasMinus == ptext[ii + 1] = "-"
MinusOne == ptext[ii + 2] = "1" /\ ptext[ii + 3] = "]"

NegativeIndex ==
  /\ ppc = "NUMBER" /\ HasMinus
  /\ \/ ~MinusOne /\ Refused("INVALID_NUMBER")
     \/ MinusOne /\ AddArrayIndex(-1, AfterBracket(ii + 3))

NextValueWide == scan.numval * 10 + DigitOf(ptext[scan.at])   \* mutant
NextValue == (scan.numval * 10 + DigitOf(ptext[scan.at])) % Modulus

IndexDigit ==
  /\ ppc = "NUMBER" /\ ~HasMinus /\ ptext[scan.at] # "]"
  /\ \/ ptext[scan.at] \notin Digit /\ Refused("INVALID_NUMBER")
     \/ /\ ptext[scan.at] \in Digit /\ NextValue < scan.numval
        /\ Refused("INVALID_NUMBER")
     \/ /\ ptext[scan.at] \in Digit /\ NextValue >= scan.numval
        /\ scan' = [scan EXCEPT !.at = @ + 1, !.numval = NextValue]
        /\ UNCHANGED <<ptext, ii, components, has_negix, heapVars, ppc, perr>>

IndexEnd == /\ ppc = "NUMBER" /\ ~HasMinus /\ ptext[scan.at] = "]"
            /\ AddArrayIndex(AsLong(scan.numval), AfterBracket(scan.at))

-----------------------------------------------------------------------------
(* add_str_component(), of the len characters from ii on: backticks at     *)
(* both ends are no part of the key.                                       *)
BeginsTicked(len) == len > 1 /\ ptext[ii] = Tick   \* mutant
IsTicked(len) == len > 1 /\ ptext[ii] = Tick /\ ptext[ii + len - 1] = Tick

(* convert_escaped() takes a string from the end of m_cached, or makes one.*)
Taken == IF m_cached = <<>> THEN Len(strings) + 1 ELSE Last(m_cached)

CachedStays == m_cached   \* mutant: no pop_back()
CachedLeft  == IF m_cached = <<>> THEN <<>> ELSE Front(m_cached)

BeginConvert(first, past, next) ==
  /\ strings' = IF m_cached = <<>> THEN Append(strings, <<>>) ELSE strings
  /\ m_cached' = CachedLeft
  /\ m_used' = Append(m_used, Taken)
  /\ scan' = [scan EXCEPT !.at = first, !.past = past, !.next = next]
  /\ ppc' = "CONVERT"
  /\ UNCHANGED <<ptext, ii, components, has_negix, perr>>

(* mutant: the last component for a new one *)
AddStringOver(key, next) ==
  /\ components' = [components EXCEPT ![Len(components)] = StringHere(key)]
  /\ ii' = next /\ ppc' = "NEXT"
  /\ UNCHANGED <<ptext, scan, has_negix, heapVars, perr>>

AddString(key, next) ==
  /\ components' = Append(components, StringHere(key))
  /\ ii' = next /\ ppc' = "NEXT"
  /\ UNCHANGED <<ptext, scan, has_negix, heapVars, perr>>

AddStrComponent(len, n_backticks, next) ==
  LET first  == IF IsTicked(len) THEN ii + 1 ELSE ii
      length == IF IsTicked(len) THEN len - 2 ELSE len
      ticks  == IF IsTicked(len) THEN n_backticks - 2 ELSE n_backticks
  IN
  \/ ~Room /\ Refused("LEVELS_EXCEEDED")
  \/ Room /\ length = 0 /\ Refused("JPR_BADPATH")
  \/ Room /\ length # 0 /\ ticks = 0 /\ AddString(Slice(first, length), next)
  \/ Room /\ length # 0 /\ ticks # 0 /\ BeginConvert(first, first + length, next)

(* convert_escaped(): two backticks become one, a single one goes. *)
Converted == strings[Last(m_used)]

AtTick  == ptext[scan.at] = Tick
Doubled == scan.at + 1 < scan.past /\ ptext[scan.at + 1] = Tick

StayAtTick == IF AtTick THEN IF Doubled THEN 2 ELSE 0 ELSE 1   \* mutant
Width      == IF AtTick /\ Doubled THEN 2 ELSE 1

ConvertChar ==
  /\ ppc = "CONVERT" /\ scan.at < scan.past
  /\ strings' = IF AtTick /\ ~Doubled THEN strings
                ELSE [strings EXCEPT ![Last(m_used)] = Append(@, ptext[scan.at])]
  /\ scan' = [scan EXCEPT !.at = @ + Width]
  /\ UNCHANGED <<ptext, ii, components, has_negix, m_used, m_cached, ppc, perr>>

ConvertEnd ==
  /\ ppc = "CONVERT" /\ scan.at >= scan.past
  /\ AddString(Owned(Last(m_used), Len(Converted)), scan.next)

BeginString ==
  /\ ppc = "NEXT" /\ ii <= Len(ptext) /\ ptext[ii] # "["
  /\ scan' = [BlankScan EXCEPT !.at = ii] /\ ppc' = "STRING"
  /\ UNCHANGED <<ptext, ii, components, has_negix, heapVars, perr>>

(* parse_string(): one character. *)
NeedsEscape(ch) ==
  IF scan.in_json_escape THEN ch \notin PathEscape ELSE ch \in {Quote} \cup Control

Scanned(ch) ==
  [scan EXCEPT !.at = @ + 1,
     !.in_json_escape = ~@ /\ ch = Bslash,
     !.in_n1ql_escape = IF ch = Tick THEN ~@ ELSE @,
     !.n_backticks = IF ch = Tick THEN @ + 1 ELSE @]

PathChar ==
  /\ ppc = "STRING" /\ scan.at <= Len(ptext)
  /\ LET ch     == ptext[scan.at]
         quoted == Scanned(ch).in_n1ql_escape
         ends   == ~quoted /\ ch \in {"[", "]", "."}
     IN \/ NeedsEscape(ch) /\ Refused("JPR_BADPATH")
        \/ /\ ~NeedsEscape(ch) /\ ends /\ ch = "]"
           /\ Refused("JPR_BADPATH")
        \/ /\ ~NeedsEscape(ch) /\ ends /\ ch # "]"
           /\ AddStrComponent(scan.at - ii, scan.n_backticks,
                              IF ch = "." THEN scan.at + 1 ELSE scan.at)
        \/ /\ ~NeedsEscape(ch) /\ ~ends
           /\ scan' = Scanned(ch)
           /\ UNCHANGED <<ptext, ii, components, has_negix, heapVars, ppc, perr>>

PathStringEnd ==
  /\ ppc = "STRING" /\ scan.at > Len(ptext)
  /\ \/ /\ scan.in_n1ql_escape \/ scan.in_json_escape
        /\ Refused("JPR_BADPATH")
     \/ /\ ~scan.in_n1ql_escape /\ ~scan.in_json_escape
        /\ AddStrComponent(Len(ptext) + 1 - ii, scan.n_backticks, Len(ptext) + 1)

-----------------------------------------------------------------------------
(* parse(), from a Path that may have been used before. *)
Parse(bytes) ==
  /\ ppc \in {"IDLE", "DONE"}
  /\ ptext' = bytes /\ ii' = 1 /\ scan' = BlankScan
  /\ components' = <<RootHere>> /\ has_negix' = FALSE
  /\ ppc' = "NEXT" /\ perr' = "SUCCESS"
  /\ UNCHANGED heapVars

ParseEnd == ppc = "NEXT" /\ ii > Len(ptext) /\ Refused("SUCCESS")

ParseStep == \/ BeginBracket \/ NegativeIndex \/ IndexDigit \/ IndexEnd
             \/ BeginString \/ PathChar \/ PathStringEnd
             \/ ConvertChar \/ ConvertEnd \/ ParseEnd

(* clear(): neither the number of components nor has_negix is reset; what  *)
(* it leaves in the idx and len of a component nobody reads.               *)
EmptyHere == [ptype |-> "NONE", key |-> NullKey, idx |-> 0, is_neg |-> FALSE]

PathClear ==
  /\ ppc \in {"IDLE", "DONE"}
  /\ components' = [i \in 1 .. Len(components) |->
                      IF i = 1 THEN components[1] ELSE EmptyHere]
  /\ strings' = [id \in 1 .. Len(strings) |->
                   IF id \in ToSet(m_used) THEN <<>> ELSE strings[id]]
  /\ m_cached' = m_used \o m_cached /\ m_used' = <<>>
  /\ ppc' = "IDLE" /\ perr' = "SUCCESS" /\ ptext' = <<>> /\ ii' = 1 /\ scan' = BlankScan
  /\ UNCHANGED has_negix

(* ~Path() and Path(): another one. *)
PathNew ==
  /\ ppc \in {"IDLE", "DONE"}
  /\ ptext' = <<>> /\ ii' = 1 /\ scan' = BlankScan /\ components' = <<>> /\ has_negix' = FALSE
  /\ strings' = <<>> /\ m_used' = <<>> /\ m_cached' = <<>>
  /\ ppc' = "IDLE" /\ perr' = "SUCCESS"

PathInit ==
  /\ ptext = <<>> /\ ii = 1 /\ scan = BlankScan /\ components = <<>> /\ has_negix = FALSE
  /\ strings = <<>> /\ m_used = <<>> /\ m_cached = <<>>
  /\ ppc = "IDLE" /\ perr = "SUCCESS"
=============================================================================
