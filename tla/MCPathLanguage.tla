--------------------------- MODULE MCPathLanguage ---------------------------
(* Texts of structure, of escapes and of numbers, and long ones.           *)
EXTENDS PathLanguage

TextsOf(chars, longest) == UNION {[1 .. n -> chars] : n \in 0 .. longest}

Structure == TextsOf({"a", ".", "[", "]", "tick", "0"}, 6)
Ticked    == TextsOf({"a", ".", "tick"}, 8)
Escapes   == TextsOf({"a", Bslash, "u", "n", Quote, "tab", "tick", "."}, 4)
Indexes   == {<<"[">> \o n \o <<"]">> \o rest :
                n \in TextsOf({"1", "2", "5", "9", "-", "a"}, 3), rest \in {<<>>, <<".", "a">>}}
Long      == {FlattenSeq(items) : items \in
                UNION {[1 .. n -> {<<"a", ".">>, <<"[", "0", "]">>, <<"]">>}] : n \in 3 .. 6}}

Again == {<<"a", "tick", "tick">>, <<"tick", "a", "tick", "tick", "b", "tick", ".", "tick", ".", "tick">>,
          <<"[", "-", "1", "]">>, <<"a", "tick", "tick", ".", "b", "tick", "tick", "[", "0", "]", "]">>}

New(texts) == [texts |-> texts, reuse |-> FALSE]

MCFamilies == [structure |-> New(Structure), ticks |-> New(Ticked), escapes |-> New(Escapes),
               indexes |-> New(Indexes), long |-> New(Long),
               again |-> [texts |-> Again, reuse |-> TRUE]]

(* Nothing but indexes, for the finding. *)
MCNumbers == [indexes |-> New(Indexes)]

MCTexts == UNION {MCFamilies[f].texts : f \in DOMAIN MCFamilies}
=============================================================================
