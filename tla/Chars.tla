------------------------------- MODULE Chars -------------------------------
(***************************************************************************)
(* The alphabet of the lexer: the character tables of jsonsl.c and the     *)
(* bits of jsonsl_special_t.                                               *)
(*                                                                         *)
(* A text is a sequence of symbols.  A symbol is one character, named by a *)
(* one-character string where it has a readable one ("{", "7", "a"), and   *)
(* by a word otherwise ("quote", "bslash", "sp", "tab").  The three bare   *)
(* words true, false and null are one symbol each: the letter-by-letter    *)
(* comparison of VERIFY_SPECIAL is abstracted.                             *)
(***************************************************************************)
EXTENDS Integers, Sequences

Quote  == "quote"
Bslash == "bslash"
Digit  == {"0", "1", "2", "3", "4", "5", "6", "7", "8", "9"}
Sign   == {"-", "+"}

(* Allowed_Whitespace[]: a space is also an ordinary string character, a   *)
(* tab is not (String_No_Passthrough[]).                                   *)
Whitespace == {"sp", "tab"}

(* Special_Endings[]: what terminates a bare word or a number. *)
SpecialEnd == Whitespace \cup {Quote, Bslash, ",", ":", "[", "]", "{", "}"}

(* Allowed_Escapes[]: what may follow a backslash inside a string. *)
AllowedEscape == {Quote, Bslash, "/", "b", "f", "n", "r", "t", "u"}

(* is_simple_char(): the characters a string runs over without a decision. *)
IsSimpleChar(ch) == ch \notin {Quote, Bslash, "tab"}

-----------------------------------------------------------------------------
(* jsonsl_special_t: a set of bits.  ZERO is a private bit that carries    *)
(* UNSIGNED with it, DASH is a private bit of its own.                     *)
Flag    == {"SIGNED", "UNSIGNED", "TRUE", "FALSE", "NULL", "FLOAT",
            "EXPONENT", "ZERO", "DASH"}
NUMERIC == {"SIGNED", "UNSIGNED"}
ZERO    == {"ZERO", "UNSIGNED"}

(* Special_Table[]: the flags a bare word or number starts with, {} for a  *)
(* character none of them starts with.                                     *)
ExtractSpecial(ch) ==
  CASE ch = "-"            -> {"DASH"}
    [] ch = "0"            -> ZERO
    [] ch \in Digit \ {"0"} -> {"UNSIGNED"}
    [] ch = "true"         -> {"TRUE"}
    [] ch = "false"        -> {"FALSE"}
    [] ch = "null"         -> {"NULL"}
    [] OTHER               -> {}

(* IS_NORMAL_NUMBER: an integer whose digits the fast path runs over. *)
IsNormalNumber(flags) == flags \in {{"UNSIGNED"}, {"SIGNED"}}
IsNumeric(flags) == flags \cap NUMERIC # {}
=============================================================================
