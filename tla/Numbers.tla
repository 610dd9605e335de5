------------------------------ MODULE Numbers ------------------------------
(***************************************************************************)
(* Integers and their texts, with the range of int64_t as a parameter.     *)
(***************************************************************************)
EXTENDS Chars

CONSTANT IntMax   \* std::numeric_limits<int64_t>::max()

ASSUME IntMaxAssumption == IntMax \in Nat

IntMin   == -IntMax - 1
InRange(n) == n \in IntMin .. IntMax

DigitText   == <<"0", "1", "2", "3", "4", "5", "6", "7", "8", "9">>
DigitOf(ch) == CHOOSE d \in 0 .. 9 : DigitText[d + 1] = ch

IsNegative(bytes) == bytes # <<>> /\ bytes[1] = "-"
Digits(bytes)     == IF IsNegative(bytes) THEN Tail(bytes) ELSE bytes
IsInteger(bytes)  == /\ Digits(bytes) # <<>>
                     /\ \A i \in 1 .. Len(Digits(bytes)) : Digits(bytes)[i] \in Digit

IntOf(bytes) ==
  LET upTo[i \in 0 .. Len(Digits(bytes))] ==
        IF i = 0 THEN 0 ELSE 10 * upTo[i - 1] + DigitOf(Digits(bytes)[i])
      size == upTo[Len(Digits(bytes))]
  IN  IF IsNegative(bytes) THEN -size ELSE size

(* std::to_string() *)
TextOf(n) ==
  LET digits[k \in Nat] ==
        IF k < 10 THEN <<DigitText[k + 1]>>
        ELSE Append(digits[k \div 10], DigitText[(k % 10) + 1])
  IN  IF n < 0 THEN <<"-">> \o digits[-n] ELSE digits[n]
=============================================================================
