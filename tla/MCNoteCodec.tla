---------------------------- MODULE MCNoteCodec ----------------------------
(* Small instances of NoteCodec. *)
EXTENDS NoteCodec

\* Contents: short and long texts, with and without characters that are escaped,
\* an id, and names of fields.
SomeTexts ==
    {<<"newline">>, <<Escape, "n">>, <<"e", "e", "newline">>, <<"e", "e", "e">>, <<"wide">>,
     <<"h1">>, <<"id">>, <<"kind">>}

\* Texts of tags: the same, an empty one, and an id in both cases.
SomeTagTexts ==
    {<<>>, <<"e">>, <<"e", "e", "newline">>, <<"e", "e", "e">>, <<"h1">>,
     <<"H1">>, <<"id">>, <<"content">>}

OneUpper == [u \in {"H1"} |-> "h1"]

\* The usual order, the alphabetical one, and one that begins with the tags.
SomeOrders ==
    {<<"id", "pubkey", "created_at", "kind", "tags", "content", "sig">>,
     <<"tags", "sig", "pubkey", "kind", "id", "created_at", "content">>,
     <<"content", "created_at", "id", "kind", "pubkey", "sig", "tags">>}
=============================================================================
