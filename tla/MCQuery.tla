------------------------------ MODULE MCQuery ------------------------------
EXTENDS Query

Note(id, pubkey, kind, created_at, tags, relays) ==
    [id |-> id, pubkey |-> pubkey, kind |-> kind, created_at |-> created_at,
     tags |-> tags, relays |-> relays]

(* Three authors, three kinds, notes created at once, and tags of both types.  *)
MCDatabases == {
    << Note(12, 11, 1, 2, <<<<1, 11>>, <<2, 3>>>>, {1}),
       Note(11, 10, 1, 4, <<<<1, 11>>>>, {1, 2}),
       Note(14, 11, 2, 3, <<<<2, 3>>, <<1, 10>>>>, {2}),
       Note(10, 10, 0, 1, <<>>, {}),
       Note(13, 10, 2, 3, <<<<1, 11>>, <<1, 10>>>>, {1}),
       Note(15, 12, 1, 4, <<<<2, 4>>>>, {2}) >> }

MCValues == [ids |-> {<<"id", 15>>, <<"id", 11>>, <<"id", 13>>},
             authors |-> {<<"id", 11>>, <<"id", 10>>},
             kinds |-> {<<"int", 2>>, <<"int", 1>>, <<"int", 0>>},
             tags |-> {<<"id", 11>>, <<"string", 3>>, <<"string", 4>>, <<"string", 6>>},
             relays |-> {<<"string", 2>>, <<"string", 1>>},
             search |-> {<<"string", 1>>, <<"string", 4>>},
             custom |-> {<<"custom", {11, 12, 13}>>},
             since |-> {<<"int", 3>>},
             until |-> {<<"int", 4>>, <<"int", 20>>},
             limit |-> {<<"int", 1>>, <<"int", 2>>}]

MCOthers == {FilterEnd(EndField(AddElement(StartField(FilterInit, "kinds", 0), "int", 1)))}
MCTextHits == [t \in {1, 4} |-> <<6, 1, 4>>]
MCProfileHits == [t \in {1, 4} |-> <<10, 11>>]

(* 6 is the 64 hex digits of id 11. 4 is those of id 13 with a character    *)
(* behind them that json escapes, which makes it 5.                          *)
MCEscaped == [s \in 0..9 |-> IF s = 4 THEN 5 ELSE s]
MCSpells == [s \in {4, 5, 6} |-> IF s = 6 THEN 11 ELSE 13]
=============================================================================
