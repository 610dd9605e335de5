--------------------------- MODULE JsonslReaders ---------------------------
(***************************************************************************)
(* Two recognisers beside the lexer: whatever client feeds it, they read   *)
(* every symbol the lexer consumes.  They are history variables, functions *)
(* of the text and of the position in it, and decide nothing.              *)
(***************************************************************************)
EXTENDS Jsonsl, JsonGrammar

VARIABLES
  strict,   \* the recogniser of JSON, after the symbols consumed so far
  loose     \* the recogniser of the language jsonsl really checks

readers == <<strict, loose>>

ReadersInit  == strict = Start /\ loose = Start
ReadersReset == strict' = Start /\ loose' = Start

ReadOn ==
  IF pos' = pos THEN UNCHANGED readers
  ELSE strict' = Step(TRUE, strict, Char) /\ loose' = Step(FALSE, loose, Char)

FeedRead == Feed /\ ReadOn

-----------------------------------------------------------------------------
Nesting == {l \in 1 .. level : stack[l].type \in Container}

(* jsonsl_feed() reports an error only where no JSON text goes on this     *)
(* way, or where the text nests deeper than the stack jsonsl_new() gave it *)
(* (PARSER_DEPTH): no text that is, or can still become, JSON is refused.  *)
AcceptsJson ==
  err # "SUCCESS" =>
    \/ ~Viable(Step(TRUE, strict, Char))
    \/ err = "LEVELS_EXCEEDED" /\ Len(strict.ctx) = LevelsMax - 1

(* What jsonsl_feed() reads without an error is in the loose language: in  *)
(* an object keys, colons, values and commas alternate, every bracket      *)
(* closes the container it should, every number ends in a digit.           *)
AcceptsOnlyLoose == Viable(loose)

(* The stack of states is the nesting of the containers opened and not yet *)
(* closed: the levels the clients compare paths with are the depths of the *)
(* document.                                                               *)
StackIsNesting ==
  /\ Nesting = 1 .. Len(loose.ctx)
  /\ \A l \in Nesting :
       loose.ctx[l] = IF stack[l].type = "OBJECT" THEN "obj" ELSE "list"

(* While JSON is read, an object's element count, which the matcher halves *)
(* to number the members, is odd exactly where the grammar has read a key  *)
(* and not yet the first symbol of its value.                              *)
CountsAgree ==
  level > 0 /\ Top.type = "OBJECT" /\ Viable(strict) =>
    (Top.nelem % 2 = 1) = (strict.at \in {"colon", "value"})
=============================================================================
