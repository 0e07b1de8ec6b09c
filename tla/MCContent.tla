----------------------------- MODULE MCContent -----------------------------
(* Small instances of Content. *)
EXTENDS Content

\* What the contents are put together from.
Phrases ==
    {<<"a">>, <<" ">>, <<".">>, <<"(">>, <<")">>, <<"#">>, <<"@">>, <<"?">>, <<"utf8">>,
     <<"npub">>, <<"nbad">>, <<"nevent">>, <<"note">>, <<"nostr", ":">>,
     <<"lightning", ":">>, <<"lnbc">>, <<"lnbad">>, <<"#", "[", "1", "]">>,
     <<"http", ":", "/", "/", "a">>, <<"http", ":", "/", "/", "damus", ".", "io", "/">>}

\* Up to three phrases, and sometimes a fourth.
SomeContents ==
    {<<>>} \cup Phrases \cup {x \o y : x, y \in Phrases}
           \cup {x \o y \o z \o w : x, y, z \in Phrases,
                                    w \in {<<>>, <<" ">>, <<")">>, <<"npub">>}}
=============================================================================
