------------------------------ MODULE NoteMeta ------------------------------
(* Note metadata (src/src/metadata.c and its users in src/src/nostrdb.c):    *)
(* the record of counts that the writer keeps for a note id, the increments  *)
(* it makes for replies, quotes, reposts, reactions and zaps, and the count  *)
(* from scratch that a migration makes. Operators only; Upkeep drives them.  *)
(*                                                                           *)
(* A note is a record; its tags are [name, id, marker], in order, and only   *)
(* tags whose value is an id are kept. A record is NoMeta or its flags and   *)
(* its entries; the payload of an entry is a reaction, a sum of millisats or *)
(* the four counts.                                                          *)
EXTENDS Integers, Sequences, SequencesExt, FiniteSets

CONSTANTS
    Room,       \* entries with room in the scratch buffer
    ShortRange, \* 2^16: the values of the uint16_t counts
    TooLong     \* reactions that are neither an emoji nor a short string

ASSUME MetaAssumption == {Room, ShortRange} \subseteq Nat \ {0}

COUNTS == 100
REACTION == 200
ZAP_UNVERIFIED == 302

NoId == 0
NoMeta == [flags |-> 0, entries |-> <<>>]
NoCounts == [quotes |-> 0, direct |-> 0, thread |-> 0, reposts |-> 0]
Entry(type, payload, n, counts) == [type |-> type, payload |-> payload, n |-> n, counts |-> counts]

Short(x) == x % ShortRange

-----------------------------------------------------------------------------
(* What a note refers to.                                                    *)

Tagged(note, name) == SelectSeq(note.tags, LAMBDA t : t.name = name)
FirstId(note, name) == IF Tagged(note, name) = <<>> THEN NoId ELSE Head(Tagged(note, name)).id
LastId(note, name) == IF Tagged(note, name) = <<>> THEN NoId ELSE Last(Tagged(note, name)).id

(* ndb_parse_reply. Markers win; without one so far the first e tag is the   *)
(* root and the next the reply.                                              *)
ParseReply(note) ==
    LET es == Tagged(note, "e")
        start == [root |-> NoId, reply |-> NoId, mention |-> NoId, any |-> FALSE, first |-> TRUE]
        full(r) == r.root # NoId /\ r.reply # NoId /\ r.mention # NoId
        read(r, t) ==
            CASE t.marker = "root" -> [r EXCEPT !.root = t.id, !.any = TRUE]
              [] t.marker = "reply" -> [r EXCEPT !.reply = t.id, !.any = TRUE]
              [] t.marker = "mention" -> [r EXCEPT !.mention = t.id, !.any = TRUE]
              [] t.marker = "other" -> [r EXCEPT !.any = TRUE]
              [] OTHER -> IF r.any THEN r
                          ELSE IF r.first THEN [r EXCEPT !.root = t.id, !.first = FALSE]
                          ELSE IF r.reply = NoId THEN [r EXCEPT !.reply = t.id] ELSE r
        upto[i \in 0..Len(es)] ==
            IF i = 0 THEN start ELSE IF full(upto[i - 1]) THEN upto[i - 1] ELSE read(upto[i - 1], es[i])
    IN  upto[Len(es)]

IsReplyToRoot(r) == r.root # NoId /\ (r.reply = NoId \/ r.reply = r.root)
DirectParent(note) == LET r == ParseReply(note) IN IF IsReplyToRoot(r) THEN r.root ELSE r.reply
ThreadRoot(note) == ParseReply(note).root

(* ndb_reaction_set, and the + that stands for a string that is too long. *)
Reaction(content) == IF content \in TooLong THEN 1 ELSE content

-----------------------------------------------------------------------------
(* Records.                                                                  *)

EntryLess(a, b) == a.type < b.type \/ (a.type = b.type /\ a.type = REACTION /\ a.payload < b.payload)

(* The elements of S in the order in which they come before one another. *)
Ranked(S, before(_, _)) ==
    [i \in 1..Cardinality(S) |-> CHOOSE x \in S : Cardinality({y \in S : before(y, x)}) = i - 1]

(* Mutant: the entries stay as they were added. *)
BuildUnsorted(entries) == entries

(* ndb_note_meta_build sorts the entries, no two of which are alike. *)
Build(entries) ==
    LET order == Ranked(DOMAIN entries, LAMBDA i, k : EntryLess(entries[i], entries[k]))
    IN  [i \in 1..Len(entries) |-> entries[order[i]]]

(* The place of an entry; a payload is compared for reactions only. *)
FindEntry(meta, type, payload) ==
    {i \in 1..Len(meta.entries) :
        /\ meta.entries[i].type = type
        /\ type = REACTION => meta.entries[i].payload = payload}

(* ndb_note_meta_clone_with_entry: the record with such an entry, a new one  *)
(* if there was none and there is room for it.                               *)
CloneWithEntry(meta, type, payload) ==
    IF FindEntry(meta, type, payload) # {} \/ Len(meta.entries) >= Room THEN meta
    ELSE [meta EXCEPT !.entries = Build(Append(@, Entry(type, payload, 0, NoCounts)))]

(* One more in the entry, if it is there, and its payload added to. *)
Increment(meta, type, payload, sum) ==
    [meta EXCEPT !.entries =
        [i \in DOMAIN meta.entries |->
            IF i \in FindEntry(meta, type, payload)
            THEN [meta.entries[i] EXCEPT !.n = @ + 1, !.payload = @ + sum]
            ELSE meta.entries[i]]]

Counted(meta, field) ==
    LET new == CloneWithEntry(meta, COUNTS, 0)
        one(c) == IF field = "thread" THEN c + 1 ELSE Short(c + 1)
    IN  [new EXCEPT !.entries =
            [i \in DOMAIN new.entries |->
                IF i \in FindEntry(new, COUNTS, 0)
                THEN [new.entries[i] EXCEPT !.counts[field] = one(@)]
                ELSE new.entries[i]]]

(* ndb_write_reaction_stats: the total follows only a reaction that counted. *)
Reacted(meta, content) ==
    LET r   == Reaction(content)
        new == CloneWithEntry(meta, REACTION, r)
    IN  IF FindEntry(new, REACTION, r) = {} THEN meta
        ELSE Increment(CloneWithEntry(Increment(new, REACTION, r, 0), COUNTS, 0), COUNTS, 0, 0)

Zapped(meta, msats) ==
    Increment(CloneWithEntry(meta, ZAP_UNVERIFIED, 0), ZAP_UNVERIFIED, 0, msats)

CountedAt(metas, id, field) == IF id = NoId THEN metas ELSE [metas EXCEPT ![id] = Counted(@, field)]

(* Mutant: a reply to the root is not a direct reply. *)
NoteStatsReply(metas, note) ==
    LET quoted == CountedAt(metas, FirstId(note, "q"), "quotes")
        replied == CountedAt(quoted, ParseReply(note).reply, "direct")
    IN  CountedAt(replied, ThreadRoot(note), "thread")

(* ndb_process_note_stats *)
NoteStats(metas, note) ==
    LET quoted == CountedAt(metas, FirstId(note, "q"), "quotes")
        replied == CountedAt(quoted, DirectParent(note), "direct")
    IN  CountedAt(replied, ThreadRoot(note), "thread")

(* The statistics that ndb_write_note keeps, by kind. A zap receipt without  *)
(* an invoice that decodes has negative msats.                               *)
Stats(metas, note) ==
    CASE note.kind = 1 -> NoteStats(metas, note)
      [] note.kind = 7 /\ LastId(note, "e") # NoId ->
            [metas EXCEPT ![LastId(note, "e")] = Reacted(@, note.content)]
      [] note.kind \in {6, 16} -> CountedAt(metas, FirstId(note, "e"), "reposts")
      [] note.kind = 9735 /\ note.content >= 0 /\ LastId(note, "e") # NoId ->
            [metas EXCEPT ![LastId(note, "e")] = Zapped(@, note.content)]
      [] OTHER -> metas

-----------------------------------------------------------------------------
(* Counting from scratch, over the tag index of the stored notes.            *)

Keys(notes, p(_)) == {k \in DOMAIN notes : p(notes[k])}
Mentions(note, name, id) == \E t \in Range(Tagged(note, name)) : t.id = id
ReactsTo(note, id) == note.kind = 7 /\ LastId(note, "e") = id

CountReactions(notes, id) == Cardinality(Keys(notes, LAMBDA n : ReactsTo(n, id)))
CountQuotes(notes, id) == Short(Cardinality(Keys(notes, LAMBDA n : Mentions(n, "q", id))))
CountDirect(notes, id) == Short(Cardinality(Keys(notes, LAMBDA n : n.kind = 1 /\ DirectParent(n) = id)))
CountThread(notes, id) == Cardinality(Keys(notes, LAMBDA n : n.kind = 1 /\ ThreadRoot(n) = id))
CountReposts(notes, id) == Short(Cardinality(Keys(notes, LAMBDA n : n.kind \in {6, 16} /\ Mentions(n, "e", id))))

(* ndb_rebuild_reaction_metadata: reactions in the order of the index, and   *)
(* no further kinds of them once the builder is full.                        *)
ReactionEntries(notes, id) ==
    LET keys == Ranked(Keys(notes, LAMBDA n : ReactsTo(n, id)),
                    LAMBDA a, b : notes[a].created_at < notes[b].created_at
                                  \/ (notes[a].created_at = notes[b].created_at /\ a < b))
        add(m, k) == LET r == Reaction(notes[k].content)
                     IN  Increment(CloneWithEntry(m, REACTION, r), REACTION, r, 0)
        upto[i \in 0..Len(keys)] == IF i = 0 THEN NoMeta ELSE add(upto[i - 1], keys[i])
    IN  upto[Len(keys)].entries

(* ndb_note_meta_builder_counts: no record where there is nothing but        *)
(* reactions, and none without room for the counts.                          *)
Recount(notes, id) ==
    LET reactions == ReactionEntries(notes, id)
        counts == [quotes |-> CountQuotes(notes, id), direct |-> CountDirect(notes, id),
                   thread |-> CountThread(notes, id), reposts |-> CountReposts(notes, id)]
    IN  IF counts = NoCounts \/ Len(reactions) >= Room THEN NoMeta
        ELSE [flags |-> 0, entries |-> Build(Append(reactions, Entry(COUNTS, 0, CountReactions(notes, id), counts)))]
=============================================================================
