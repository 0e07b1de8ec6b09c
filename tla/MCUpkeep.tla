------------------------------ MODULE MCUpkeep ------------------------------
EXTENDS Upkeep

Note(id, pubkey, kind, created_at, content, tags) ==
    [id |-> id, pubkey |-> pubkey, kind |-> kind, created_at |-> created_at, content |-> content,
     tags |-> tags, link |-> (id = 1), parses |-> (kind = 0 /\ content # 33)]
Tag(name, id, marker) == [name |-> name, id |-> id, marker |-> marker]

Post == Note(1, 21, 1, 5, 0, <<>>)
Reply == Note(2, 22, 1, 6, 0, <<Tag("e", 1, "")>>)
Deep == Note(3, 21, 1, 7, 0, <<Tag("q", 1, ""), Tag("e", 1, "root"), Tag("e", 9, "mention"), Tag("e", 2, "reply")>>)
Old == Note(4, 22, 1, 7, 0, <<Tag("e", 1, ""), Tag("e", 2, ""), Tag("e", 9, "")>>)
Like == Note(5, 21, 7, 8, 2, <<Tag("e", 2, ""), Tag("e", 1, "")>>)
Love == Note(6, 22, 7, 4, 9, <<Tag("e", 1, "")>>)
Repost == Note(7, 22, 6, 9, 0, <<Tag("e", 1, "")>>)
Zap == Note(8, 21, 9735, 9, 3, <<Tag("e", 1, "")>>)
Name == Note(10, 21, 0, 3, 31, <<>>)
Renamed == Note(11, 21, 0, 6, 32, <<>>)
(* Its content is no profile. *)
Broken == Note(12, 22, 0, 2, 33, <<>>)

MCArriving == {Post, Reply, Deep, Old, Like, Love, Repost, Zap, Name, Renamed, Broken}
MCPruneFilters == { {}, {{Renamed, Broken}, {Post, Reply, Like}} }
=============================================================================
