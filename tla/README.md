# A verification development of subjson

`subjson` looks up and edits parts of a JSON document without building a tree
of it. A command (GET, REMOVE, DICT_UPSERT, ARRAY_APPEND, COUNTER, ...), a path
and a value go in; an error code, a location in the old document, or a list of
segments that spell the new document come out. Everything is done on the bytes,
in the callbacks of a streaming lexer. This directory models the library in
TLA+, checks the models with TLC and proves the invariants of the lexer, of the
search, of the validator, of the path parser and of `op_exec` with TLAPS.

Paths below are relative to the repository.

## 1. The system

| Component | Source | State | Operations |
|---|---|---|---|
| Lexer, `jsonsl_st` | `contrib/jsonsl/jsonsl.c`, `.h`, `subdoc/jsonsl_header.h` | position, level, a fixed stack of states, the registers `expecting`, `tok_last`, `can_insert`, `in_escape`, the callbacks and their limits | `jsonsl_new`, `jsonsl_reset`, `jsonsl_feed`; in a callback `jsonsl_stop`, `ignore_callback`, `max_callback_level` |
| Match | `subdoc/match.cc`, `match.h`, `loc.h` | the Match (verdict, location, key, level, position, siblings, children), the parse context, a verdict per lexer state, the callbacks in force | `exec_match`, `clear` |
| Validator | `subdoc/match.cc`, `validate.h` | error, roots seen, depth left | `validate` |
| Hash keys | `subdoc/hkesc.h`, `uescape.h` | the raw key, the converter's pending surrogate | `get_hk`, `hk_rawloc`, `convert` |
| Path | `subdoc/path.cc`, `path.h` | the parsed components, the negative-index flag, the strings of keys that had backticks removed: those in use and those that are free | `parse`, `clear`, construction and destruction |
| Operation, Result | `subdoc/operations.cc`, `operations.h`, `subdoc-api.h` | the document, opcode, path, value, Match, Result | `op_exec`, `clear` |
| Diagnostics | `subdoc/util.cc` | none | print; `get_root_type` |

How they interact: `Operation::op_exec` parses the path, lets `Validator`
judge the value, runs `Match::exec_match`, and makes segments of what the Match
says. Validator and Match both feed the one lexer the Operation owns and are
called back by it, in the middle of `jsonsl_feed`. Match exchanges its own
callbacks while the feed runs: first those that look for the path, then those
that compare elements for uniqueness or count siblings. A path with a negative
index is searched in rounds: each round feeds the lexer the bytes the round
before it found.

What is hard here. There are no threads and nothing is stored, so the
difficulty is in long sequences of steps: the grammar is spread over four
registers that every token changes; stack slots are used again with stale
fields; a callback changes which callback comes next; the end of a match, of a
key and of a sibling are seen in different callbacks and only together make a
correct edit; the rounds of a negative search share one Match; lengths and
levels are adjusted by one in several places; a path is read by three functions
that hand one another a position, and its keys point into strings that are used
again; and a document or value may break or end anywhere in between.

What makes each part correct:

- Lexer: it refuses no JSON it has the levels for; what it accepts has the
  nesting its stack says; a key and its value alternate; a callback sees the
  state it is about; the feed returns.
- Match: on a well-formed document, verdict, location, key, position, siblings
  and children are those of the value the path names, or of the deepest parent
  there is. On any bytes, the locations lie in the document and the search
  returns.
- Validator: an accepted value stays inside the place it is put in, is no
  deeper than asked and respects the flags; JSON is accepted.
- Hash keys: a key is compared as what it means.
- Path: the components are what the text says; the root is first, there are no
  more than fit, and `has_negix` is true exactly if an index is negative; no two
  keys share a string, and no key changes once its component is made.
- Operation: the new document is what the command does to the tree the old one
  means, and otherwise the answer is the right error.

## 2. The modules

| Module | What it is |
|---|---|
| `Chars` | The character classes of jsonsl's tables, over symbols. |
| `Jsonsl` | The lexer: one action per branch of the loop of `jsonsl_feed`, and the four invariants the proofs are about. |
| `JsonslClient` | The lexer under any client of its API. |
| `JsonGrammar` | The reference: a recogniser of JSON (RFC 4627), and of the larger language jsonsl checks. Knows nothing of the lexer. |
| `JsonslReaders` | The two recognisers beside the lexer, as history variables: they read what it consumes and decide nothing. What the lexer accepts, in their terms. |
| `JsonslLanguage` | A client of the lexer whose texts the recognisers read too, with callbacks or without. |
| `JsonslSteps` | Lemmas about one step of the lexer: what each handler does to the stack and the callback, and the invariants every client relies on. |
| `LanguageSteps` | Lemmas about one step of lexer and recognisers together. |
| `JsonslProofs` | The lexer's theorems, and those about the keys it delivers. |
| `HashKey`, `HashKeyText` | Key decoding; every key a lexer can deliver, against the decoding JSON defines. |
| `PathInfo` | Parsed path components, as the matcher reads them. |
| `PathParse` | `Path`: `parse` character by character, `clear`, construction; components that point into the text or into the Path's strings. |
| `PathGrammar` | The reference: what a path says, from its text, and the text of given components. Knows nothing of the parser. |
| `PathClient`, `PathLanguage` | Any caller of `Path`; callers whose texts are held against the grammar. |
| `PathSteps` | Lemmas about one step of the Path, under any caller: the invariant every user of a Path relies on. |
| `PathProofs` | The path parser's theorems. |
| `Match` | `exec_match` with all its callbacks, on top of `Jsonsl`. |
| `MatchClient`, `MatchTree` | Searches on arbitrary texts; searches on documents written from trees, against a walk over the tree. |
| `MatchProofs` | The theorems of the search. |
| `JsonTree` | The reference: trees, how they are written and read, what a path names. Independent of the lexer. |
| `Validator`, `ValidatorClient` | `validate` on top of `Jsonsl`; a caller of it, the value beside the recognisers. |
| `ValidatorProofs` | The theorems of the validator. |
| `Numbers` | What strtoll, from_chars and to_string do, with the width as a constant. |
| `Operations` | `op_exec`: parsing the path, validation, search and every command's handler. Composes `PathParse`, `Match`, `Validator` and, through them, the one lexer. |
| `OperationsClient` | Any caller of `Operation`, with any document, path, value and command; what the new document is made of. |
| `OperationsProofs` | The theorems of `op_exec`. |
| `Subdoc` | The abstract specification: commands on a tree. |
| `OperationsTree` | Callers with a tree beside the document; `Operations` implements `Subdoc`. |
| `MC...` | The instances for TLC. |

**State and steps.** A step of the lexer is one branch taken for one character
(`SkipWhitespace`, `StringBegin`, `CloseContainer`, ...). Where the code calls
back, the step leaves `cb` set and no branch is enabled until the client's
`Answer`: so a callback is an action of the client, with the lexer's state as
it is at that point, and the changes the code makes after it. `label` keeps the
place of a `goto` that looks at the same character again. The fast paths
consume their run of characters one at a time, with the same result. The
registers, the level and the stack are the code's. Characters are symbols:
`quote`, `bslash`, `sp`, one per digit, and a bare word (`true`) or the four hex
digits of an escape (`0041`) as one symbol. The count of elements in `nelem` of
a number, where the code stores its value, is left out, since nothing reads it.

`Match` has one action per outcome of a callback: `PushComplete`, `PopMatched`
and so on, each the whole callback with every field it sets. Pointers are
offsets into the document; `round.at` is where the round's bytes begin. `mres`
is the user field of the lexer's states. `BeginRound`/`EndRound` are the loop
of `exec_match_negix`, `EndSimple` the return of `exec_match_simple`.

`Validator` feeds the opening half of its wrapper, the value and the closing
half as three calls. `Operations` has the phases of `op_exec` as actions
(`RunParse`, `RefuseUnread`, `RefuseRoot` ... `BeginValidate`, `RunValidate`, `BeginMatch`, `RunMatch`,
`Handle`), and each handler (`DoGet`, `DoRemove`, `DoMkdirP`, ...) as a relation
between Match and Result whose disjuncts are its return statements. A segment
is a location in the document or bytes of the library's own.

`PathParse` has one action per character read or written and one per way a
component is begun or ends. `ppc` is the function `parse` is in: `NEXT` is its
own loop, `STRING` `parse_string`, `NUMBER` `add_num_component`, `CONVERT`
`convert_escaped`. A key is an owner (0 is the text, else the number of a
string), an offset and a length; `ParsedPath` reads the components through these
pointers at every moment, as `Match` and `Operation` do, so a string changed too
early would be seen. `m_used` and `m_cached` are the two lists of the code, with
`splice` as a concatenation in the order of the code.

Operators marked `\* mutant` are wrong variants of the operator next to them;
PROJECT.json pairs each with the property that notices it. Nothing else uses
them.

## 3. The runs

Every run ends by itself; the bounds are in the `.cfg` files and the MC modules.

| Run | Question | Bounds |
|---|---|---|
| `lexer` | What does the lexer accept, what do stack and counts say about it, do the invariants of the stack hold under any client, does the feed return? | without callbacks, texts of 10 structural tokens, 6 symbols of numbers, 6 of strings; with a client that stops, ignores, limits and resets at any callback, texts of 6 symbols made of 8 tokens and 5 pieces of strings, words and numbers, fed in any pieces; 4 stack entries |
| `keys` | Is a key decoded to what it means, and is the status right? | keys of 6 symbols: letters, every kind of escape, four kinds of code units |
| `match_texts` | Do the locations stay in the document on any text, does nothing move them once found, is what is found what the path names, does the search return? | texts of 5 tokens, each prefix of which reads, plus one wrong token, and two texts of some 30 symbols with one key at several levels; 9 paths of up to four components; 3 options; 5 stack entries |
| `match_trees` | Is every field of the Match the right one? | some 90 documents of up to four levels, with and without blanks; every path of two components and some of three; all options |
| `validator_values` | Is a value accepted exactly when it should be? | values of 3 tokens, every mode, three depth limits; 5 stack entries |
| `paths` | Is a path read as the grammar says, and is the Path well formed, used once or again and again? | every text of 6 characters out of six (name, dot, brackets, backtick, digit), of 8 out of name, dot and backtick, of 4 with escapes; indexes of 3 characters, alone or before a name; up to 6 components where 4 fit; four texts in any order on one Path, cleared or not, with 3 strings in use |
| `operations` | Does every command do what it promises, also when each gets what the last one left, does it return? | 11 documents, 3 of them also with blanks; 15 paths, a text that is too long and 3 that are no path; good values, bad values and series; 9 requests in any order on one document of up to 22 symbols; 10 requests on every text of 3 tokens, JSON or not; every command on 4 paths that begin with a blank, on both new documents and two that have such keys |

Why these bounds are enough to be interesting. Ten symbols are an object with
two members, so that a second key and every wrong token after it occur; four
and five stack entries make the overflow happen in most runs. The lexer's
decisions depend on its registers, the top of the stack and one character, all
of whose combinations occur within these lengths. The stack has one entry
more than `MAX_COMPONENTS`, as in the code (`path.h:94`), so that *too deep* is
reached with a path of a few components. Integers are 8 bits
wide (`IntMax = 127`), so that both overflows, the numbers just inside the range
and those out of it (`999`) are in the documents, and indexes of three digits
wrap in every way they can. Six characters of a path are a name between
backticks that holds a dot, followed by another component; eight are a doubled
backtick inside one.

**What is claimed.**

- `AcceptsJson`: an error is reported only where no JSON text goes on, or where
  the stack is full. `AcceptsOnlyLoose`: what is read without an error is in the
  larger language: objects alternate as they should, lists may lack commas, and
  a number is a run of number characters that ends in a digit, like `-01` or
  `1.e5`. `StackIsNesting`, `CountsAgree`: level
  and element counts, which Match relies on, are those of the text.
- `VerdictIsRight`, `MatchIsExact`, `SiblingsAreCounted`,
  `DeepestParentIsExact`, `UniqueIsDecided`: the fields of the Match, each
  against the tree. `ExpectsHold` is the code's own assertions;
  `LocationsInDocument` and `LocationStands` hold for malformed documents too,
  and so does `MatchIsNamed`: what is found has the number that the path's last
  component asks for, or follows, after only a colon and white space, the key it
  asks for, which is the key the Match records; or it is the last of its siblings.
- `ValueStaysInside`, `ValidIsShallow`, `FlagsHold`, `JsonIsValid`: soundness
  and completeness of `validate`.
- `ImplementsSubdoc`: with `tree` as the meaning of the document, every step of
  `op_exec` is a step of `Subdoc` or changes nothing there. `SegmentsInOrder`:
  the segments of the old document do not overlap or run past it.
  `StaysInReach`: no value becomes deeper than a path can name. `NewRootFits`:
  with the root that `get_root_type` gives for a path, a command on that path
  meets a value of the wrong type exactly where the path begins with a blank
  and the first thing after the blanks is an index, or there is nothing after
  them. Everywhere else the look at one character and the parser agree; there
  they do not, see section 4. Errors of the path and of the value, which come
  whatever the root is, are left out of the claim.
- Where ARRAY_ADD_UNIQUE is given a container, or finds its value in an array
  that also holds one, `Subdoc` says only that there is an error and that the
  document stays (`RefuseSomehow`): header and code name different errors there.
- `ParseIsRight`: a path is read as the grammar says, and refused only if it says
  nothing or has too many components; the grammar itself never gives two
  readings. Where backticks stand elsewhere than at both ends or in pairs,
  nothing documents the key, and only the shape is compared. `ShapeIsRight`,
  `StringsAreApart`, `KeysFit` and `KeysStand` are the invariants of section 5.

**Fairness.** Only the next step of a running call is assumed to be taken
(`WF` of `FeedStep`, `ParseOn`, `ExecMatch`, `Run`, `ExecOp`): the code is
sequential and within a call waits for nothing. In `lexer` a callback returns,
too (`WF` of `AnswerCallback`). The caller is not fair. With it `FeedReturns`,
`ParseReturns`, `SearchReturns`, `ValidateReturns` and `ExecReturns`, each that
there is again and again no call under way, say that no branch of
`jsonsl_feed` or of `parse` stands still and no phase is left without a way on.

**Deadlock** is checked in every run.

## 4. Where the code and its documentation differ

Each has a run in which TLC finds the documented claim violated.

- `finding_remove_negative`: REMOVE of `[-1].a` in `[{"a":1,"b":1}]` gives
  `[{,"b":1}]`. `exec_match_negix` clears the Match for each round
  (`match.cc:448`), and with it the request to count siblings.
- `finding_blank_value`: ARRAY_APPEND of a blank to `[1]` gives `[1, ]`.
- `finding_other_exists`: ARRAY_ADD_UNIQUE of `212` to `["1"]` answers
  DOC_EEXISTS: quotes are stripped from both sides without asking whether the
  value has any (`match.cc:98`).
- `finding_backslash_u`: a key with an escaped backslash before `u` is taken to
  have a `\u` escape and cut short (`uescape.h:108`, `hkesc.h:55`).

- `finding_index_wraps`: the check for overflow at `path.cc:61` compares the
  product with the value before it, and a product that has wrapped may still be
  larger: `[29223372036854775808]` is read as index 10776627963145224192. In the
  model, at 8 bits, `[292]` is 36. `[18446744073709551615]` does not wrap, but
  becomes the `long` -1, and so the last element.

Also seen while modelling, and left outside what the passing runs claim:

- The same clear at `match.cc:448` forgets `ensure_unique`: ARRAY_ADD_UNIQUE
  with a negative index adds a value that is there. `operations` leaves out
  REMOVE below a negative index and ARRAY_ADD_UNIQUE with one.
- The round after a negative index that names a primitive ends in a lexer error
  and reports DOC_NOTJSON (`match.cc:474`): `PassesBeginAtContainers`.
- A surrogate pair with other text between its halves is converted
  (`uescape.h:90`): `Apart`.
- A document that ends inside the match is answered with COMPLETE and an empty
  location (`match.cc:155`), from which a segment's length wraps (`loc.h:134`);
  and on a blank document a command that creates its path answers SUCCESS with
  segments of a location nobody has set. `OperationsClient` calls both `BreaksOff`:
  `SegmentsInOrder` is about all other documents, well-formed or not, and the
  caller of the model does nothing with the segments such a command leaves.
- `validate` accepts `[1 2]`, `-01`, a primitive with a blank after it in its own
  context, and `1,"b":2` as a dictionary value.
- A counter larger than the largest int64_t is refused though it fits the
  unsigned integer of `subdoc-api.h:164`.
- ARRAY_ADD_UNIQUE takes primitives only, and only an array of primitives, else
  the error is PATH_MISMATCH (`subdoc-api.h:151-154`). The code differs twice. A
  container as the value is VALUE_CANTINSERT, as `tests/t_ops.cc:416` expects.
  And the array is read no further than the first element that decides
  (`match.cc:116-127`): 1 added to `[1,"x",[]]` is DOC_EEXISTS, to `["x",[],1]`
  PATH_MISMATCH. `operations` has both cases; `Subdoc` leaves the error open.
- `path.cc:185` lets the control character 0x1F through; `[]` is index 0.
- A single backtick in a key goes and two become one, except that the two at
  both ends of a name go first: the key of a name between two doubled backticks
  has none, while ``trailing`` followed by two keeps one, as a test says
  (`tests/t_path.cc:102`).
- `get_root_type` skips leading blanks (`util.cc:74`); `parse` makes them part of
  the first name. A caller that makes a new document `[]` for the path ` [0]`, or
  for a path of blanks and an array command, is then answered PATH_MISMATCH,
  though `util.h:36` says that the type is the one the parent must have.
- `operations.cc:420` looks before the first byte of an empty document.
- `operations.cc:684` leaves the opcode changed when COUNTER creates its
  number; a caller that executes again without `clear` would run another
  command. The model's caller clears, as the class asks it to.

## 5. What is proved

Every theorem is about all values of the constants: all stack sizes above one,
all texts, documents, paths and values of whatever length, all sets of buffers.
The assumptions are those on the constants, each justified below or at its
place.

| Module | Theorems | Properties of runs they state |
|---|---|---|
| `JsonslProofs` | `JsonslInvariant`, `LanguageInvariant`, ... | `JsonslTypeOK`, `StackMirrorsText`, `KeysPairWithValues`, `CallbackSeesItsState`; `AcceptsJson`, `AcceptsOnlyLoose`, `StackIsNesting`, `CountsAgree`; of keys, `KeyIsDecoded`, `StatusIsRight` |
| `MatchProofs` | `SearchInvariant`, ... | `MatchTypeOK`, `ExpectsHold`, `LocationsInDocument`, `LocationStands`, `MatchIsNamed` |
| `ValidatorProofs` | `ValidatorInvariant`, ... | `ValidatorTypeOK`, `ValueStaysInside`, `ValidIsShallow`, `FlagsHold`, `JsonIsValid` |
| `PathProofs` | `PathInvariant`, `ParsingIsRight`, ... | `PathTypeOK`, `ShapeIsRight`, `StringsAreApart`, `KeysFit`, `KeysStand`; `ParseIsRight` |
| `OperationsProofs` | `OperationInvariant`, `PartsKeepTheirWord`, `ReplyIsInDocument`, ... | `SegmentsInOrder`; again, inside the Operation, `ShapeIsRight`, `StringsAreApart`, `KeysFit`, `ExpectsHold`, `LocationsInDocument`, `MatchIsNamed` |

### The lexer and its stack

    JsonslSpec => []JsonslInv
    JsonslInv == JsonslTypeOK /\ StackMirrorsText
                   /\ KeysPairWithValues /\ CallbackSeesItsState

under every client of `JsonslClient`. No conjunct is inductive alone. That a pop
leaves a level above the root needs to know that a string or a word is only ever
on top (`StackMirrorsText`); that a quote inside an object opens a key on an even
count needs `KeysPairWithValues`, which survives a pop only because the state
popped was a key or a value as the parent's count says; and the callback's state
is still in its slot after a pop because `CallbackSeesItsState` knows its level.

The handlers change the stack in five ways only: not at all and failing, not at
all and consuming, in the flags of its top, by a push, by a pop. One lemma for
each says that it keeps `JsonslInv` (`FailKeeps`, `ConsumeKeeps`, `FlagsKeep`,
`PushKeeps`, `PopKeeps`), two more treat the client's answers and calls, and
`FeedKeeps` goes through the handlers one by one and names the way each takes.

The clients rely on more, `LexerInv` (`JsonslSteps`): an object that waits for a
value takes none until its colon has been read (`ObjectTurns`); the last child
of a list stays in its slot when it is popped, where `get_last` looks for it,
and has been read to its closing quote or bracket (`LastChildStays`); whatever is inside an ignored state is ignored
(`IgnoreInherits`); a callback is one the client asked for, and about brackets that have been
read (`CallbackWanted`).

### The lexer and the grammars

    LanguageSpec => []LanguageInv
    LanguageInv == JsonslInv /\ Coupled /\ StrictCoupled /\ Refused

`Coupled` relates the lexer to the recogniser of the larger language: the
containers on the stack are the reader's context, and for each kind of state on
top `expecting`, `tok_last`, `can_insert` and the parity of `nelem` say between
which two symbols the reader is. Where the lexer looks at a symbol twice (a word
or a number ends at a comma or a bracket) the reader has not seen it yet
(`Pending`). `StrictCoupled`: as long as the text is JSON the two recognisers
agree, and inside a number the flags of its state are the reader's place in it.
`Refused` is carried along because an error is final: the step that reports it
must find the grammar at an end too. The invariant gives `AcceptsJson`,
`AcceptsOnlyLoose`, `StackIsNesting` and `CountsAgree`. `LanguageIsClient` shows
that the client of the run `lexer` is one of those of `JsonslClient`.

### Keys

    KeySpec => []KeyIsDecoded
    KeySpec => []StatusIsRight

for keys of every length and any set of symbols. The theorems are at the end of
`JsonslProofs`; the lexer delivers the keys. Both properties compare two
functions that are recursive along the key, `convert` and the decoder, so that
the proofs are inductions along it. `ConvertedTo(i)`: of a well-formed key, what
`convert` has written behind symbol i is what the decoder has made of it, except
inside of a surrogate pair, where the decoder is one character ahead and
`last_codepoint` is the first half; and what is still to be skipped is the rest
of the escape in hand. That at the end no half is left (`NoPairLeft`) is what
makes the two agree. `TakenTo(i)` is the other direction: as long as there has
been no error the escapes up to i are well formed, except perhaps for the last
one, a first half in hand; the second half that completes it is its neighbour
because `Apart` is excluded. Both rest on escapes with four digits not
overlapping (`EscapesApart`) and on `convert` seeing an escape exactly where
there is one (`EscapeIsSeen`). The latter is what `LooksEscaped` is excluded for:
`convert` does not ask whether the backslash is itself escaped (the finding
`backslash_u`).

### The search

    MatchSpec => []SearchInv
    SearchInv == LexerInv /\ SearchTypes /\ Placed
                   /\ IF pc = "FEED" THEN Searching ELSE Resting
                   /\ pc = "ROUND" => RoundStands

for every document, JSON or not, every path and every pair of options. `Searching`
says what each set of callbacks waits for. While the path is looked for
(`Descending`) levels 1 to `match_level` of the stack are on the path, POSSIBLE
below the last component and COMPLETE at it, none of them ignored (`OnPath`), and
what is `Beyond` is a state that has just begun, is ignored, or is a key; the key
in hand is then the last one of the object the search is in, quoted and before
the cursor, which is what makes `loc_key` right. `Comparing` is the same one
level further. `Counting` begins where the match has ended: the parent is on top,
is not ignored, and has counted the match. `Placed` is what the Match says of the
document at any time, and that a match or a parent of one byte is no container:
what has been found of a container includes both its brackets. Between passes the lexer is as good as new (`Resting`),
which is what lets rounds share it.

From it: the counts that are stored, differences of unsigned numbers in the code,
do not wrap (`MatchHasTypes`), the `Expects` of the callbacks hold
(`ExpectationsHold`), what the caller cuts out lies in the document
(`LocationsFit`), and no callback moves a location that is complete
(`LocationStays`). On the way two branches of the code turn out not to be taken:
the early return of `push_callback` for a parent that is not POSSIBLE, and the
return of `pop_callback` for a container with another verdict. `ignore_callback`
has cut those off before.

    MatchSpec => []MatchIsNamed
    NamingInv == /\ pc = "ROUND" => round.cur_start < Len(path)
                 /\ pc = "FEED" => Aimed /\ Chosen /\ Approaching
                 /\ pc = "DONE" => Aimed /\ Chosen /\ LastRound

`SearchInv` says where the search is, not how it came there; `NamingInv`, on top
of it, does. `Nearing`, what `Approaching` claims of the level reached: every container on the path
is of the kind the next component asks for (`KindsFit`), and between the key in
hand and the cursor there is white space, or white space and one colon once the
lexer awaits no colon any more. This is the part that needs the lexer: a colon
is awaited just after a key and never elsewhere (`ColonAwaited`), and an object
that has had its key begins a value only after the colon (`ValueAfterColon`).
So a value that is compared is the one its key is written before
(`CompleteIsChosen`), whatever was read and ignored on the way. `Chosen` keeps
that until the search returns, through the count of siblings and the
comparisons. `Aimed` says that the components of a pass are the path, or its last
ones, or stop before a `-1`; `LastRound`, that a search ends with a match only
when the path does. The name is what `get_hk` makes of the key's bytes: where
that is what JSON says is `KeyIsDecoded`.

`OptionsAssumption` is what the callers do: `op_exec` clears the Match and sets
`ensure_unique` and `extra_options` and nothing else (`operations.cc:44`, `:475`).
`PathsAssumption` is that of a parsed path: it has its root, which is no index.

### The validator

    ValidatorSpec => []ValidatorInv
    ValidatorInv == LexerInv /\ LanguageInv /\ ValidatorTypeOK
                      /\ IF vpc = "IDLE" THEN Resting ELSE Validating
                      /\ ValueStaysInside /\ ValidIsShallow /\ FlagsHold

The properties speak of the grammar's reading of the wrapped value, `Read`; the
code only counts. `Validating` joins the two over the three feeds: what has been
fed is a prefix of the wrapped value, and the reader beside the lexer is where
`Read` is. As long as nothing has been objected to (`Watching`), each value at
the top has been counted twice, once when it began and once when it ended, the
callback under way and the level still open included (`RootsCounted`); the
elements of the only one are those its state counts, keys and values together
halved (`ElementsCounted`); and what the flags and the depth forbid has not been
read, or the callback under way is about to object (`SingleSoFar`,
`PrimitiveSoFar`, `ShallowSoFar`). The last is why one level more than is
allowed has to be heard of, and why `CallbackDepth` suffices. That a state is
pushed exactly where a value of the text begins is taken from `LanguageInv`.

A value may also end in the middle of anything: that the wrapper's closing half
then does not fit, or closes too much, follows from `RootsCounted` at the end.

    ValidatorSpec => []JsonInv
    JsonInv == ValidatorInv /\ JsonIsValid
                 /\ strict = IF vpc = "IDLE" THEN Start ELSE JsonRead[pos]
                 /\ (vpc # "IDLE" /\ v.err = "SUCCESS" => Told)
                 /\ (vpc # "IDLE" /\ Proper => v.err = "SUCCESS")

is the other direction: a value that is `Proper` (one JSON value with its
wrapper, no deeper than allowed, that respects the flags and fits the stack)
meets no objection at any step. `JsonRead` is JSON's reading of the wrapped
value, and where it is viable at the end it is the loose reading throughout
(`JsonIsReading`), so that the counts of `ValidatorInv` apply to it. Three things
could refuse such a value. The lexer, but by `LanguageInv` only where no JSON
goes on or the stack is full. A full stack is no deeper than the value, except
at the quote of a key, which takes a level of its own: there the argument must
look ahead, to the value that every key of a complete text has, one level
further in (`KeyOpensLevel`). The callback, but `Told` says that each level and
element it is told of has been read, and no more are read than are allowed
(`ProperIsLiked`). And the verdict, where the two callbacks at level 1 have been
counted when one root has been read (`ProperIsValid`).

`WrapperAssumption` (the symbols of the wrapper are strings) is a fact of TLA+
which the provers cannot see; TLC evaluates it.

### The path parser

    PathSpec => []PathInv
    PathInv == TypeInv /\ ShapeIsRight /\ StringsAreApart /\ KeysFit
    TypeInv == PathTypeOK /\ ScanIsInside
    PathSpec => KeysStand

for every set of texts, every limit on components above zero and every width of
an index. `ScanIsInside` is the strengthening: while a name is read the scan is
between its beginning and the end of the text, so its length is not negative;
while a key is converted there is a string in use and still room for the
component, which was checked before the conversion began. `TypeInv` needs
`ShapeIsRight` for that room, and `StringsAreApart` needs it for the root, which
`clear` leaves alone and which owns no string. That a converted string is
written to is harmless (`KeysStand`) because it is the last one in use and
`StringsAreApart` says that no component points there yet. The lemmas follow the
ways a step may change the components (not at all, one appended from the text,
one appended from a string) and the strings (one taken, one written to, all given
back). `KeysFit` needs
`ScanIsInside` when a component is appended, and `StringsAreApart` when a string
is written or given back. `LanguageIsClient` proves that the callers of `paths`
are such callers.

### The path parser and the grammar

    PathSpec => []ParseIsRight
    PathInv /\ GrammarInv /\ [PathNext]_parseVars => GrammarInv'
    GrammarInv == /\ Parsing => ReadSoFar
                  /\ ppc = "STRING" => NameSoFar    /\ ppc = "NUMBER" => IndexSoFar
                  /\ ppc = "CONVERT" => KeySoFar    /\ ppc = "DONE" => AnswerIsRight

for every text, every limit and every width. `Readings(text)` is what the
grammar makes of a text; `parse` never sees it. `ReadSoFar`: every reading of the
text that fits is the components there are, followed by something that may begin
where the parser stands, and if anything may begin there the text has a reading.
So a text that cannot go on has none that fits, and the parser may refuse it; and
a text that has none is never read to its end. The other parts say what is known
of the item in hand. While a name is read, the quotes and escapes
`parse_string` counts are those of `Inside` and `IsEscaped`, and it has met
nothing that no name contains (`NameSoFar`); the number is the value of the digits
up to here, for every index that may still come of them and fits (`IndexSoFar`);
the string holds the key with its backticks made single up to here, and the
parser will go on where the grammar does (`KeySoFar`).

The proof has three parts. *Texts*: what the recursive functions of the grammar
return, each by the set of the places where they return it, which contains 0 and
with a place the next (`AllAlong`); that an item that begins at a place ends at
one place only (`ItemEndsOnce`), since a name goes on until a dot or a bracket
outside its backticks and an index to its bracket, and so at most one rest begins
at each place (`OneRest`). *Components*: what one more component, or a refusal,
makes of `ReadSoFar`. *Steps*: one lemma for each step of `parse`.

`Fits` is the only restriction. The code compares neighbouring values to notice
that an index wraps, which misses some (the finding `index_wraps`); for one that
fits it makes no difference, because the value of the first digits is never above
that of all. A name whose backticks do not pair is `Unsaid`, and of its component
the theorem says only that it is a name.

### `op_exec`

    OpSpec => []OpInv
    OpInv == PathInv /\ OpTypes /\ Turns
               /\ IF vpc = "IDLE" THEN SearchInv ELSE LexerLent
               /\ SegmentsInOrder

for any caller: it sets any document, asks for any command with any path and any
value, never mind what the last answer was. Path, validator and matcher work on
one lexer and one Match that every command uses again, and their invariants were
proved of each alone. `Turns` is why they still hold together: while a value is
validated no search is under way, a search begins only when the validator is
done, and neither begins before the path is parsed. While the validator feeds the
lexer the search has none of the facts about its stack; what it gets back is an
invariant lexer, the Match it left and no verdicts (`LexerLent`), and
`PreparedIsFresh` shows that `exec_match` begins as if nothing had been there.
`ParsedIsPath` gives the search what it asks of a path. `PartsKeepTheirWord`
states the properties of the parts again, of the whole; for `MatchIsNamed` it
carries `NamingInv` along, which no step but those of the search disturbs
(`NamingWaits`).

`SegmentsAreInOrder` is about each handler's arithmetic. Every document is laid
out as a piece of the old one from its first byte, new bytes or none, and another
piece of the old one (`Frames`); it is in order if the two pieces are a `Cut`,
that is, if the first ends where the second begins or before. `PlaceCuts` says
which cuts there are around what the search has found, inside its brackets and
before the closing one; `StripFacts` is about a comma stripped from either side,
`SignificantFacts` about the walk over white space. Three insertions write behind
an opening bracket what ends before the closing one (`InsertSingleton`), and
those two are the same byte if a container could be found with a length of one:
that it cannot is the second clause of `Placed`, which needs `LastChildStays`
and the search's whole invariant. `BreaksOff` is where a location has no end, and
nothing is claimed of the segments then. `ReplyIsInDocument` is claimed without
it: what GET returns is inside the document even then.

### Only model-checked

- Liveness (`FeedReturns`, `SearchReturns`, ...): fairness and ENABLED are out of
  the prover's reach.
- Everything that compares with a tree: `MatchTree`, `ImplementsSubdoc`,
  `StaysInReach`, `NewRootFits`. `JsonTree` and `Subdoc` are recursive operators.

Recursion over a text is within reach where it is a recursive function: that
`Reading` satisfies its equation at every length (`ReadingFacts` in
`ValidatorProofs`), like `Single`, `IntOf` and `Rests` in `PathProofs` and
`Convert` in `JsonslProofs`, is an induction over the naturals by their
well-foundedness, a least counterexample with no room below it. The library's
induction theorems, which take an operator as parameter, are not used.

## 6. What is not modelled

- The four bytes of a code point: `HashKey` has one unit of each kind.
- Invalid UTF-8, and the hexadecimal digits of an escape: the lexer does not
  look at either.
- A primitive at the root in `operations` is no document: nothing ends it for
  jsonsl, and the library promises nothing.
- Empty documents: what `operations.cc:420` reads then is outside the buffer.
- What `clear` leaves in the length and the index of a component nobody reads.
- `util.cc` but for `get_root_type`: it formats matches and errors for people
  and changes nothing.
- The JPR string API (`jsonsl_jpr_new`, `jsonsl_match`), the unescaping utility
  and the metrics of jsonsl: vendored code that nothing in `subdoc` calls. It has
  its own parser of paths and its own decoder of escapes, for which `path.cc` and
  `uescape.h` stand here.

A value that cannot be read may be refused as unreadable or as too deep,
whichever the lexer meets first; `Subdoc` allows both.

## 7. Plan

1. Done: the lexer, its client, its language, its proof; hash keys; Match;
   Validator; Operations and the refinement of `Subdoc`.
2. Done: the path parser with its grammar and its proof, requests that carry
   text, malformed documents, the root of a new document.
3. Done: the theorems of the search and of the validator, in both directions,
   and the lexer against the grammars.
4. Done: the invariant of `op_exec`, which joins those of its parts, and the
   order of the segments.
5. Done: the path parser against its grammar, and the decoding of keys.
6. Left. The lexer's state in `Match` against the tree stays with TLC.
