---------------------------- MODULE MCEnvelopes ----------------------------
(* Small instances of Envelopes. *)
EXTENDS Envelopes

Ann == <<"key", "ann">>
Bob == <<"key", "bob">>
Eve == <<"key", "eve">>
Once == <<"key", "once">>
Team == <<"team", "team">>

Json(kind, text, at, author, sig, lock, inside) ==
    [kind |-> kind, text |-> text, at |-> at, author |-> author, sig |-> sig,
     lock |-> lock, inside |-> inside]

Plaintext(text, at, author, sig) == Json("note", text, at, author, sig, <<"none", {}>>, Garbage)

SealFor(k, author, sig, inside) == Json("seal", "", 1, author, sig, Ecdh(author, k), inside)

Wrap(at, k, inside) == Json("giftwrap", "", at, Once, Once, Ecdh(Once, k), inside)

\* A rumor that claims another author than the seal's.
Dm == Wrap(5, Ann, SealFor(Ann, Bob, Bob, Plaintext("dm", 2, Eve, Nobody)))

\* A seal that its author did not sign.
Forged == Wrap(6, Ann, SealFor(Ann, Bob, Eve, Plaintext("forged", 2, Bob, Nobody)))

\* A note sealed for the team, and the same note in the open.
Open == Plaintext("open", 3, Bob, Bob)

Shared ==
    Json("sns", "", 7, Team, Team, Symmetric(Team),
         SealFor(Team, Bob, Bob, Plaintext("open", 3, Bob, Nobody)))

\* The gift wrap kept in private storage.
Kept == Json("pns", "", 8, PnsKey(Ann), PnsKey(Ann), Symmetric(PnsKey(Ann)), Dm)

\* A repost, sealed, of a note its author did not sign; and a rejected kind.
Reposted ==
    Wrap(9, Ann, SealFor(Ann, Bob, Bob,
         Json("repost", "", 4, Bob, Nobody, <<"none", {}>>, Plaintext("fake", 1, Ann, Eve))))

Spam ==
    Wrap(10, Ann, SealFor(Ann, Bob, Bob,
         Json("spam", "", 4, Bob, Nobody, <<"none", {}>>, Garbage)))

AllEvents == {Dm, Forged, Open, Shared, Kept, Reposted, Spam}

\* Every json that is somewhere inside one of them.
AllJsons ==
    LET upto[n \in 0..Depth] ==
            IF n = 0 THEN AllEvents
            ELSE upto[n - 1] \cup {j.inside : j \in {k \in upto[n - 1] : k.inside # Garbage}}
    IN  upto[Depth]

AllNesting ==
    LET inside[j \in AllJsons] == IF j.inside = Garbage THEN 0 ELSE inside[j.inside] + 1
    IN  inside

OnlyAnn == {Ann}

OnlyTeam == {Team}
=============================================================================
