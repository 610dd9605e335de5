------------------------------ MODULE HashKey ------------------------------
(***************************************************************************)
(* How a key of the document becomes the text a path component is compared *)
(* with: hkesc.h and the converter of uescape.h.                           *)
(*                                                                         *)
(* A key is a sequence of symbols.  Four hexadecimal digits are one symbol *)
(* (a quad), so that \u0041 is <<"bslash", "u", "0041">>; any other symbol *)
(* after \u stands for something that is not four hexadecimal digits.      *)
(***************************************************************************)
EXTENDS Chars, FiniteSets

(* The 16-bit code units of the model, and the characters they encode. *)
BasicUnit   == {"0041", "0061", "0022", "005c"}
NulUnit     == "0000"
HighUnit    == "d834"
LowUnit     == "dd1e"
Quad        == BasicUnit \cup {NulUnit, HighUnit, LowUnit}

BasicChar(unit) == CASE unit = "0041" -> "A"
                     [] unit = "0061" -> "a"
                     [] unit = "0022" -> Quote
                     [] unit = "005c" -> Bslash
ClefChar == "clef"       \* U+1D11E, from the two surrogates

(* UescapeConverter: m_out, last_codepoint, the status of convert() and    *)
(* how many more symbols of the escape in hand are to be skipped.          *)
Converting == [out |-> <<>>, last |-> "none", status |-> "SUCCESS", skip |-> 0]

IsAnyEscape(buf, i) == buf[i] = Bslash   \* mutant
IsUescape(buf, i) == buf[i] = Bslash /\ i # Len(buf) /\ buf[i + 1] = "u"

(* handle_uescape() *)
HandleUescape(c, unit) ==
  IF unit \notin Quad THEN [c EXCEPT !.status = "INVALID_HEXCHARS"]
    ELSE IF unit = NulUnit THEN [c EXCEPT !.status = "EMBEDDED_NUL"]
    ELSE IF c.last # "none" /\ unit # LowUnit THEN [c EXCEPT !.status = "INVALID_SURROGATE"]
    ELSE IF c.last # "none" THEN [c EXCEPT !.out = Append(@, ClefChar), !.last = "none", !.skip = 2]
    ELSE IF unit = HighUnit THEN [c EXCEPT !.last = unit, !.skip = 2]
    ELSE IF unit = LowUnit THEN [c EXCEPT !.status = "INVALID_CODEPOINT"]
    ELSE [c EXCEPT !.out = Append(@, BasicChar(unit)), !.skip = 2]

(* One turn of the loop of convert(), at symbol i. *)
ConvertStep(c, buf, i) ==
  IF c.status # "SUCCESS" THEN c
    ELSE IF c.skip > 0 THEN [c EXCEPT !.skip = @ - 1]
    ELSE IF IsUescape(buf, i) THEN
         HandleUescape(c, IF i + 2 <= Len(buf) THEN buf[i + 2] ELSE "none")
    ELSE [c EXCEPT !.out = Append(@, buf[i])]

Convert(buf) ==
  LET after[i \in 0 .. Len(buf)] ==
        IF i = 0 THEN Converting ELSE ConvertStep(after[i - 1], buf, i)
      done == after[Len(buf)]
  IN  IF done.status = "SUCCESS" /\ done.last # "none"
      THEN [done EXCEPT !.status = "INCOMPLETE_SURROGATE"] ELSE done

(* get_hk(): a key without escapes as it is; with escapes, what the        *)
(* converter wrote, whatever status it returned.                           *)
HasEscapeBefore(buf) == \E i \in 1 .. Len(buf) - 3 : buf[i] = Bslash   \* mutant
HasEscape(buf) == \E i \in 1 .. Len(buf) : buf[i] = Bslash
GetHk(buf) == IF HasEscape(buf) THEN Convert(buf).out ELSE buf
=============================================================================
