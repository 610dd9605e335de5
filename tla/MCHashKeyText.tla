--------------------------- MODULE MCHashKeyText ---------------------------
(* Keys of letters, escapes of every kind and surrogates in any order. *)
EXTENDS HashKeyText

MCSymbols == {"a", "n", Quote, Bslash, "u", "0041", "005c", NulUnit, HighUnit, LowUnit}
=============================================================================
