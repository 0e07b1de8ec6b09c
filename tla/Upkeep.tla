------------------------------- MODULE Upkeep -------------------------------
(* The life of a database file around its notes (src/src/nostrdb.c): an old  *)
(* version of the program fills it, a new one migrates it in one transaction *)
(* that may fail or be cut off, notes, profiles and metadata are written,    *)
(* clients replace metadata they read earlier, and ndb_prune copies what     *)
(* filters keep to a new database.                                           *)
EXTENDS NoteMeta

CONSTANTS
    Arriving,     \* the notes that may be written
    MaxNotes,     \* bound on the notes stored
    OldVersions,  \* versions of the file when it is first opened
    PruneFilters, \* what prunes keep: a set of sets of notes, one for each filter
    ReadIds,      \* the notes whose metadata clients read
    MaxSets       \* bound on client writes

Latest == 7  \* the number of MIGRATIONS

ASSUME UpkeepAssumption ==
    /\ OldVersions \subseteq 0..Latest
    /\ {MaxNotes, MaxSets} \subseteq Nat
    /\ \A n \in Arriving :
          /\ n.created_at \in Nat
          /\ n.kind \in {7, 9735} => n.content \in Int
          /\ NoId \notin {t.id : t \in Range(n.tags)} \cup {n.id}

Ids == UNION {{t.id : t \in Range(n.tags)} \cup {n.id} : n \in Arriving}
Pubkeys == {n.pubkey : n \in Arriving}

VARIABLES
    db,       \* the committed database
    txn,      \* the writer's transaction while it migrates
    at,       \* the version the migrations have come to; 0 and not open before
    phase,    \* "old", "migrating", "open" or "pruned"
    read,     \* metadata a client has read and not written back
    stale,    \* ids whose counts a client's write has undone
    restarted,  \* ids whose counts a migration began anew
    pruned,   \* the databases that prunes have made, with what they kept
    sets      \* client writes so far

vars == <<db, txn, at, phase, read, stale, restarted, pruned, sets>>

EmptyDb(version) ==
    [notes |-> <<>>, meta |-> [i \in Ids |-> NoMeta], kinds |-> {}, pubkeys |-> {}, pubkeyKinds |-> {},
     profiles |-> <<>>, pk |-> {}, names |-> {}, fetched |-> [p \in Pubkeys |-> 0],
     blocks |-> {}, bad |-> {}, version |-> version]

NoDb == EmptyDb(0)

-----------------------------------------------------------------------------
(* Writing.                                                                  *)

Stored(d) == {d.notes[k].id : k \in DOMAIN d.notes}

(* The newest entry for a pubkey and, of one time, the greatest value. *)
ProfileOf(d, pubkey) ==
    LET mine == {e \in d.pk : e[1] = pubkey}
    IN  IF mine = {} THEN 0
        ELSE (CHOOSE e \in mine : \A o \in mine : o[2] < e[2] \/ (o[2] = e[2] /\ o[3] <= e[3]))[3]

NoteOf(d, profile) == d.profiles[profile].note

(* ndb_maybe_write_last_profile_fetch. *)
Fetched(d, note) ==
    LET p == ProfileOf(d, note.pubkey)
    IN  IF p = 0 THEN [d.fetched EXCEPT ![note.pubkey] = @ + 1]
        ELSE IF NoteOf(d, p) = 0 THEN d.fetched
        ELSE IF note.created_at > d.notes[NoteOf(d, p)].created_at
             THEN [d.fetched EXCEPT ![note.pubkey] = @ + 1] ELSE d.fetched

NameEntry(note, profile) == <<note.content, note.pubkey, note.created_at>>

WriteProfile(d, note, key) ==
    [d EXCEPT !.profiles = Append(@, [note |-> key]),
              !.fetched = Fetched(d, note),
              !.pk = @ \cup {<<note.pubkey, note.created_at, Len(d.profiles) + 1>>},
              !.names = @ \cup {NameEntry(note, Len(d.profiles) + 1)}]

(* ndb_write_note, by a program of some version: the pubkey indexes came     *)
(* with version 4, these metadata records with 5, and before 7 the blocks of *)
(* some notes were wrong.                                                    *)
WriteNote(d, note) ==
    LET key == Len(d.notes) + 1
        v == d.version
    IN  IF note.id \in Stored(d) THEN d
        ELSE [d EXCEPT !.notes = Append(@, note),
                       !.kinds = @ \cup {key},
                       !.pubkeys = IF v >= 4 THEN @ \cup {key} ELSE @,
                       !.pubkeyKinds = IF v >= 4 THEN @ \cup {key} ELSE @,
                       !.meta = IF v >= 5 THEN Stats(@, note) ELSE @,
                       !.blocks = IF note.kind = 1 THEN @ \cup {key} ELSE @,
                       !.bad = IF note.kind = 1 /\ note.link /\ v < 7 THEN @ \cup {key} ELSE @]

(* ndb_write_note_and_profile: a profile that could not be parsed is not      *)
(* written, its note is.                                                     *)
WriteNoteAndProfile(d, note) ==
    LET key == IF note.id \in Stored(d) THEN 0 ELSE Len(d.notes) + 1
    IN  IF note.parses THEN WriteProfile(WriteNote(d, note), note, key) ELSE WriteNote(d, note)

Written(d, note) == IF note.kind = 0 THEN WriteNoteAndProfile(d, note) ELSE WriteNote(d, note)

Write(n) ==
    /\ phase \in {"old", "open"}
    /\ n.id \notin Stored(db) /\ Len(db.notes) < MaxNotes
    /\ db' = Written(db, n)
    /\ UNCHANGED <<txn, at, phase, read, stale, restarted, pruned, sets>>

-----------------------------------------------------------------------------
(* Migrations.                                                               *)

LinkedProfiles(d) == {p \in DOMAIN d.profiles : NoteOf(d, p) # 0}
AllNames(d) == {NameEntry(d.notes[NoteOf(d, p)], p) : p \in LinkedProfiles(d)}

UserSearchIndices(d) == [d EXCEPT !.names = @ \cup AllNames(d)]
LowerUserSearchIndices(d) == UserSearchIndices([d EXCEPT !.names = {}])

Parsed(d, p) == NoteOf(d, p) # 0 /\ d.notes[NoteOf(d, p)].parses

(* Every profile that parses is written again; its note is stored, so the    *)
(* new record has note key 0.                                                *)
RewriteProfile(to, d, p) ==
    IF Parsed(d, p) THEN WriteNoteAndProfile(to, d.notes[NoteOf(d, p)]) ELSE to

Utf8ProfileNames(d) ==
    LET upto[p \in 0..Len(d.profiles)] ==
            IF p = 0 THEN d ELSE RewriteProfile(upto[p - 1], d, p)
    IN  upto[Len(d.profiles)]

(* ndb_rebuild_note_indices empties the databases whose handle is the number *)
(* of the index. Handles are given in the order of ndb_init_lmdb from 2 on,  *)
(* so those of NDB_DB_NOTE_PUBKEY and NDB_DB_NOTE_PUBKEY_KIND are note_kind  *)
(* and note_pubkey.                                                          *)
ProfileIndices(d) ==
    [d EXCEPT !.kinds = {}, !.pubkeys = DOMAIN d.notes, !.pubkeyKinds = @ \cup DOMAIN d.notes]

Metadata(d) ==
    [d EXCEPT !.meta = [i \in Ids |-> IF i \in Stored(d) THEN Recount(d.notes, i) ELSE NoMeta]]

SearchKeyCmpFix(d) == LowerUserSearchIndices(d)

BadNoteBlocks(d) == [d EXCEPT !.blocks = @ \ d.bad, !.bad = {}]

Migration(i, d) ==
    CASE i = 0 -> UserSearchIndices(d)
      [] i = 1 -> LowerUserSearchIndices(d)
      [] i = 2 -> Utf8ProfileNames(d)
      [] i = 3 -> ProfileIndices(d)
      [] i = 4 -> Metadata(d)
      [] i = 5 -> SearchKeyCmpFix(d)
      [] i = 6 -> BadNoteBlocks(d)

(* The program is started; NDB_WRITER_MIGRATE is its writer's first message. *)
Open ==
    /\ phase = "old"
    /\ txn' = db /\ at' = db.version /\ phase' = "migrating"
    /\ UNCHANGED <<db, read, stale, restarted, pruned, sets>>

Migrate ==
    /\ phase = "migrating" /\ at < Latest
    /\ txn' = [Migration(at, txn) EXCEPT !.version = at + 1]
    /\ at' = at + 1
    /\ UNCHANGED <<db, phase, read, stale, restarted, pruned, sets>>

Commit ==
    /\ phase = "migrating" /\ at = Latest
    /\ db' = txn /\ phase' = "open" /\ txn' = NoDb
    /\ restarted' = (IF db.version < 5 THEN Ids ELSE {})
    /\ UNCHANGED <<at, read, stale, pruned, sets>>

(* Mutant: what the migrations have done so far stays when they are cut off. *)
CrashKeeps ==
    /\ phase = "migrating"
    /\ db' = [txn EXCEPT !.version = Latest]
    /\ phase' = "old" /\ txn' = NoDb /\ at' = 0
    /\ UNCHANGED <<read, stale, restarted, pruned, sets>>

(* A migration fails or the process dies: the transaction is gone. *)
Crash ==
    /\ phase = "migrating"
    /\ phase' = "old" /\ txn' = NoDb /\ at' = 0
    /\ UNCHANGED <<db, read, stale, restarted, pruned, sets>>

-----------------------------------------------------------------------------
(* A client reads a record, changes its flags and has it written back.       *)

ReadMeta(i) ==
    /\ phase = "open" /\ read = <<>> /\ sets < MaxSets
    /\ read' = <<i, db.meta[i]>>
    /\ UNCHANGED <<db, txn, at, phase, stale, restarted, pruned, sets>>

(* ndb_set_note_meta: the record replaces whatever is there by then. *)
SetMeta ==
    /\ phase = "open" /\ read # <<>>
    /\ db' = [db EXCEPT !.meta[read[1]] = [read[2] EXCEPT !.flags = 1]]
    /\ stale' = (IF db.meta[read[1]].entries # read[2].entries THEN stale \cup {read[1]} ELSE stale)
    /\ read' = <<>> /\ sets' = sets + 1
    /\ UNCHANGED <<txn, at, phase, restarted, pruned>>

-----------------------------------------------------------------------------
(* Pruning.                                                                  *)

Keeps(filters, note) == filters = {} \/ \E f \in filters : note \in f

(* The loop over the profiles: those whose note is kept and parses, with     *)
(* their notes.                                                              *)
CopyProfile(to, d, filters, p) ==
    IF Parsed(d, p) /\ Keeps(filters, d.notes[NoteOf(d, p)])
    THEN WriteNoteAndProfile(to, d.notes[NoteOf(d, p)]) ELSE to

PrunedProfiles(d, filters) ==
    LET upto[p \in 0..Len(d.profiles)] ==
            IF p = 0 THEN EmptyDb(Latest) ELSE CopyProfile(upto[p - 1], d, filters, p)
    IN  upto[Len(d.profiles)]

(* The loop over the notes. *)
CopyNote(to, d, filters, k) ==
    IF Keeps(filters, d.notes[k]) THEN WriteNote(to, d.notes[k]) ELSE to

PrunedNotes(d, filters) ==
    LET upto[k \in 0..Len(d.notes)] ==
            IF k = 0 THEN PrunedProfiles(d, filters) ELSE CopyNote(upto[k - 1], d, filters, k)
    IN  upto[Len(d.notes)]

(* Mutant: fetch times of dropped profiles come along. *)
PruneAllFetches(d, filters) == [PrunedNotes(d, filters) EXCEPT !.fetched = d.fetched]

(* ndb_prune: kept profiles with their notes, then every kept note, then the *)
(* fetch times of the profiles kept. The copy is a database of its own, so a *)
(* behaviour may end with it.                                                *)
PrunedDb(d, filters) ==
    LET out == PrunedNotes(d, filters)
    IN  [out EXCEPT !.fetched = [p \in Pubkeys |-> IF ProfileOf(out, p) # 0 THEN d.fetched[p] ELSE @[p]]]

Prune(filters) ==
    /\ phase = "open" /\ phase' = "pruned"
    /\ pruned' = Append(pruned, [from |-> db, filters |-> filters, out |-> PrunedDb(db, filters)])
    /\ UNCHANGED <<db, txn, at, read, stale, restarted, sets>>

-----------------------------------------------------------------------------
Init ==
    /\ db \in {EmptyDb(v) : v \in OldVersions}
    /\ txn = NoDb /\ at = 0 /\ phase = "old"
    /\ read = <<>> /\ stale = {} /\ restarted = {} /\ pruned = <<>>
    /\ sets = 0

Next ==
    \/ \E n \in Arriving : Write(n)
    \/ Open \/ Migrate \/ Commit \/ Crash
    \/ \E i \in ReadIds : ReadMeta(i)
    \/ SetMeta
    \/ \E f \in PruneFilters : Prune(f)

Spec == Init /\ [][Next]_vars

-----------------------------------------------------------------------------
(* Properties.                                                               *)

Databases == {db} \cup {pruned[i].out : i \in 1..Len(pruned)}

TypeOK ==
    /\ phase \in {"old", "migrating", "open", "pruned"} /\ at \in 0..Latest
    /\ phase = "open" => db.version = Latest
    /\ \A d \in Databases :
          /\ d.kinds \cup d.pubkeys \cup d.pubkeyKinds \cup d.blocks \subseteq DOMAIN d.notes
          /\ \A i \in Ids : Len(d.meta[i].entries) <= Room
          /\ \A e \in d.pk : e[3] \in DOMAIN d.profiles

CountsEntry(d, i) ==
    LET found == FindEntry(d.meta[i], COUNTS, 0)
    IN  IF found = {} THEN Entry(COUNTS, 0, 0, NoCounts) ELSE d.meta[i].entries[CHOOSE k \in found : TRUE]

RefCount(d, p(_)) == Cardinality({k \in DOMAIN d.notes : p(d.notes[k])})
Reacts(n, i) == n.kind = 7 /\ Tagged(n, "e") # <<>> /\ Last(Tagged(n, "e")).id = i

(* A migrated database has the reply counts that its notes give, for every   *)
(* note with fewer kinds of reactions than entries have room; with more, the *)
(* builder has no room for the counts, and the note gets no record.          *)
ReactionKinds(d, i) == {Reaction(d.notes[k].content) : k \in {k \in DOMAIN d.notes : Reacts(d.notes[k], i)}}

RepliesRecounted ==
    (phase = "migrating" /\ at >= 5 /\ db.version < 5) =>
        \A i \in Stored(txn) :
            LET c == CountsEntry(txn, i).counts
            IN  Cardinality(ReactionKinds(txn, i)) < Room =>
                    /\ c.direct = Short(RefCount(txn, LAMBDA n : n.kind = 1 /\ DirectParent(n) = i))
                    /\ c.thread = RefCount(txn, LAMBDA n : n.kind = 1 /\ ThreadRoot(n) = i)

(* The counts of a note are those of the notes that refer to it, however     *)
(* they arrived: replies to it and in its thread, quotes, reposts and        *)
(* reactions, unless a client put an older record back (ndb_set_note_meta),  *)
(* a migration began anew, or the record was full. A migration recounts the  *)
(* replies first (RepliesRecounted).                                         *)
CountsExact ==
    /\ RepliesRecounted
    /\ \A i \in Ids \ (stale \cup restarted) :
           (db.version >= 5 /\ Len(db.meta[i].entries) < Room) =>
               LET c == CountsEntry(db, i)
               IN  /\ c.counts.direct = Short(RefCount(db, LAMBDA n : n.kind = 1 /\ DirectParent(n) = i))
                   /\ c.counts.thread = RefCount(db, LAMBDA n : n.kind = 1 /\ ThreadRoot(n) = i)
                   /\ c.counts.quotes = Short(RefCount(db, LAMBDA n : n.kind = 1 /\ FirstId(n, "q") = i))
                   /\ c.counts.reposts = Short(RefCount(db, LAMBDA n : n.kind \in {6, 16} /\ FirstId(n, "e") = i))
                   /\ c.n = RefCount(db, LAMBDA n : Reacts(n, i))

SumOfReactions(entries) ==
    LET upto[k \in 0..Len(entries)] ==
            IF k = 0 THEN 0 ELSE upto[k - 1] + (IF entries[k].type = REACTION THEN entries[k].n ELSE 0)
    IN  upto[Len(entries)]

(* The total of a record is the sum over its reactions, after increments,    *)
(* recounts and client writes, except in a full record: there a reaction may *)
(* have had room and the total none. Entries are sorted, as                  *)
(* ndb_note_meta_build promises, with one for each reaction.                 *)
TotalIsSum ==
    /\ TypeOK
    /\ \A d \in Databases : \A i \in Ids :
          LET es == d.meta[i].entries
          IN  /\ \A k \in 1..Len(es) - 1 : EntryLess(es[k], es[k + 1])
              /\ Len(es) < Room => CountsEntry(d, i).n = SumOfReactions(es)

(* A database that says it is of the latest version has what the migrations  *)
(* bring: every note in the pubkey indexes, every name of a linked profile,  *)
(* no wrong blocks; whatever version it came from and however often the      *)
(* migrations were cut off.                                                  *)
VersionTrue ==
    \A d \in Databases :
        d.version = Latest =>
            /\ d.pubkeys = DOMAIN d.notes /\ d.pubkeyKinds = DOMAIN d.notes
            /\ AllNames(d) \subseteq d.names
            /\ d.bad = {}

(* A prune keeps the notes that some filter matches and no others, with      *)
(* profiles that lead to their notes, one for the author of every profile    *)
(* note that parses, and no fetch time for a profile that it dropped ("so it *)
(* would never refetch it").                                                 *)
PruneExact ==
    \A i \in 1..Len(pruned) :
        LET d == pruned[i].from
            out == pruned[i].out
        IN  /\ Range(out.notes) = {n \in Range(d.notes) : Keeps(pruned[i].filters, n)}
            /\ \A p \in DOMAIN out.profiles : NoteOf(out, p) # 0
            /\ \A p \in Pubkeys : ProfileOf(out, p) = 0 => out.fetched[p] = 0
            /\ \A n \in Range(out.notes) : n.kind = 0 /\ n.parses => ProfileOf(out, n.pubkey) # 0
            /\ out.kinds = DOMAIN out.notes

(* "empty the index dbs before we rebuild": a migration of the pubkey        *)
(* indexes leaves every note in the kind index.                              *)
KindsIndexed == db.kinds = DOMAIN db.notes
=============================================================================
