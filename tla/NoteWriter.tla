----------------------------- MODULE NoteWriter -----------------------------
(***************************************************************************)
(* The writer thread and the note store (ndb_writer_thread, ndb_write_note *)
(* and what they call), fed by ingester threads that look at the committed *)
(* database first and push later.                                          *)
(*                                                                         *)
(* LMDB is the committed store db and the writer's transaction txn; a      *)
(* commit replaces the one by the other, a failed commit forgets txn.      *)
(* Readers only ever see db.  A note is its id: what the properties need   *)
(* of its contents (is it a profile, which rumor does a gift wrap hold,    *)
(* which counters does it bump) is given by constants.                     *)
(***************************************************************************)
EXTENDS Integers, Sequences, FiniteSets

CONSTANTS Ids,              \* note ids
          Profiles,         \* the kind 0 notes among them whose content parses
          Wraps,            \* the gift wraps (kind 1059)
          RumorOf,          \* RumorOf[w]: the id of the rumor inside wrap w
          Counters,         \* per-note counters: replies, quotes, reposts...
          Bumps,            \* Bumps[id]: the counters that storing id bumps
          CounterRange,     \* a counter wraps at this value (2^16, 2^32)
          Relays,           \* relay urls
          None,             \* no relay, no wrap
          Ingesters,        \* ingester threads
          InboxSize,        \* DEFAULT_QUEUE_SIZE of the writer's inbox
          BatchSize,        \* THREAD_QUEUE_BATCH
          MaxEvents,        \* bound: events handed to the ingesters
          MaxScans,         \* bound: ndb_process_giftwraps calls
          MaxFailures,      \* bound: failing LMDB commits and migrations
          MaxBeginFailures, \* bound: failing LMDB begins
          MaxRestarts       \* bound: process deaths followed by ndb_init

ASSUME WriterAssumption ==
    /\ Profiles \subseteq Ids
    /\ Wraps \subseteq Ids
    /\ RumorOf \in [Wraps -> Ids]
    /\ Bumps \in [Ids -> SUBSET Counters]
    /\ {CounterRange, InboxSize, BatchSize} \subseteq Nat \ {0}
    /\ {MaxEvents, MaxScans, MaxFailures, MaxBeginFailures, MaxRestarts} \subseteq Nat
    /\ None \notin Relays \cup Ids

VARIABLES db,           \* the committed database
          txn,          \* the writer's transaction
          inbox,        \* the writer's inbox
          batch,        \* popped messages not yet written
          stage,        \* where the writer's loop is
          done,         \* the writer has seen its quit message
          written,      \* written_notes of the batch: the keys to announce
          announced,    \* every <<key, id>> handed to ndb_notify_subscriptions
          hand,         \* hand[i]: messages ingester i is about to push
          keyed,        \* ingesters that know the key the wraps are for
          dispatched,   \* wraps queued for reprocessing, by note key
          owner,        \* ndb_destroy's progress past the writer
          used          \* the bounded environment steps taken so far

vars == <<db, txn, inbox, batch, stage, done, written, announced, hand, keyed,
          dispatched, owner, used>>

writerVars == <<db, txn, batch, stage, done, written, announced>>

ingestVars == <<hand, keyed, dispatched, owner>>

-----------------------------------------------------------------------------
(* The store *)

\* notes: key -> record; ids: the id index; relays: the relay index;
\* profiles: the profile records in key order; counts: the note metadata.
EmptyStore ==
    [notes |-> <<>>, ids |-> {}, relays |-> {}, profiles |-> <<>>,
     counts |-> [c \in Counters |-> 0], migrated |-> FALSE]

\* ndb_get_last_key
LastKey(s) ==
    IF DOMAIN s.notes = {} THEN 0
    ELSE CHOOSE k \in DOMAIN s.notes : \A j \in DOMAIN s.notes : j <= k

\* ndb_get_notekey_by_id
KeyOf(s, id) ==
    IF \E e \in s.ids : e[1] = id
    THEN CHOOSE k \in {e[2] : e \in s.ids} : <<id, k>> \in s.ids
    ELSE 0

NoteMsg(id, rumor, wrap, unwrapped, relay, over) ==
    [type |-> "note", id |-> id, rumor |-> rumor, wrap |-> wrap,
     unwrapped |-> unwrapped, relay |-> relay, over |-> over]

ProfileMsg(id, relay) == [NoteMsg(id, FALSE, None, FALSE, relay, 0) EXCEPT !.type = "profile"]

RelayMsg(key, relay) == [type |-> "relay", key |-> key, relay |-> relay]

QuitMsg == [type |-> "quit"]

MigrateMsg == [type |-> "migrate"]

\* ndb_write_note_relay_indexes, for a note with a relay.
WithRelay(s, key, relay) ==
    IF relay = None THEN s ELSE [s EXCEPT !.relays = @ \cup {<<key, relay>>}]

\* Mutant: the id index is not written.
PutNoIndex(s, key, m) ==
    WithRelay([s EXCEPT !.notes = [k \in DOMAIN s.notes \cup {key} |->
                                      IF k = key
                                      THEN [id |-> m.id, rumor |-> m.rumor,
                                            unwrapped |-> m.unwrapped]
                                      ELSE s.notes[k]]],
              key, m.relay)

\* The write path of ndb_write_note: the record, the id index (the other indexes
\* are functions of the same note and key), the relay, then the statistics.
Put(s, key, m) ==
    WithRelay([s EXCEPT !.notes = [k \in DOMAIN s.notes \cup {key} |->
                                      IF k = key
                                      THEN [id |-> m.id, rumor |-> m.rumor,
                                            unwrapped |-> m.unwrapped]
                                      ELSE s.notes[k]],
                        !.ids = @ \cup {<<m.id, key>>},
                        !.counts = [c \in Counters |->
                                       IF c \in Bumps[m.id]
                                       THEN (s.counts[c] + 1) % CounterRange
                                       ELSE s.counts[c]]],
              key, m.relay)

\* ndb_init: an empty or reopened database, a migration queued, nothing known.
VolatileInit ==
    /\ txn = EmptyStore
    /\ inbox = <<MigrateMsg>>
    /\ batch = <<>>
    /\ stage = "pop"
    /\ done = FALSE
    /\ written = <<>>
    /\ hand = [i \in Ingesters |-> <<>>]
    /\ keyed = {}
    /\ dispatched = {}
    /\ owner = "running"

Init ==
    /\ db = EmptyStore
    /\ announced = <<>>
    /\ used = [events |-> 0, scans |-> 0, failures |-> 0, begins |-> 0, restarts |-> 0]
    /\ VolatileInit

Spend(what, max) ==
    /\ used[what] < max
    /\ used' = [used EXCEPT ![what] = @ + 1]

-----------------------------------------------------------------------------
(* Ingester threads *)

\* What ndb_ingester_process_event pushes for an event with this id, given the
\* committed database: nothing or a relay for a stored note; else the profile,
\* the rumor and the marked wrap, or the note.
Pushes(i, id, relay) ==
    LET key == KeyOf(db, id)
    IN  IF key # 0
        THEN IF relay = None \/ <<key, relay>> \in db.relays
             THEN <<>> ELSE <<RelayMsg(key, relay)>>
        ELSE IF id \in Profiles THEN <<ProfileMsg(id, relay)>>
        ELSE IF id \in Wraps /\ i \in keyed
        THEN <<NoteMsg(RumorOf[id], TRUE, id, FALSE, relay, 0),
               NoteMsg(id, FALSE, None, TRUE, relay, 0)>>
        ELSE <<NoteMsg(id, FALSE, None, FALSE, relay, 0)>>

\* An event that is not rejected reaches ingester i.  The look at the database
\* and the pushes that follow from it are separate steps, and all events of a
\* batch look at the snapshot of the batch's read transaction.
IngestEvent(i, id, relay) ==
    /\ owner = "running"
    /\ Spend("events", MaxEvents)
    /\ hand' = [hand EXCEPT ![i] = @ \o Pushes(i, id, relay)]
    /\ UNCHANGED <<writerVars, inbox, keyed, dispatched, owner>>

\* prot_queue_push onto the writer's inbox; its result is ignored, so a full
\* inbox loses the message.
PushToWriter(i) ==
    /\ hand[i] # <<>>
    /\ inbox' = IF Len(inbox) < InboxSize THEN Append(inbox, Head(hand[i])) ELSE inbox
    /\ hand' = [hand EXCEPT ![i] = Tail(@)]
    /\ UNCHANGED <<writerVars, keyed, dispatched, owner, used>>

\* NDB_INGEST_ADD_KEY on thread i.
AddKey(i) ==
    /\ owner = "running"
    /\ i \notin keyed
    /\ keyed' = keyed \cup {i}
    /\ UNCHANGED <<writerVars, inbox, hand, dispatched, owner, used>>

\* ndb_process_giftwraps: dispatch the stored wraps that are not marked, up to
\* the first that does not fit in an ingester's inbox.
ProcessGiftwraps ==
    /\ owner = "running"
    /\ Spend("scans", MaxScans)
    /\ \E some \in SUBSET {k \in DOMAIN db.notes :
                              db.notes[k].id \in Wraps /\ ~db.notes[k].unwrapped} :
          dispatched' = dispatched \cup some
    /\ UNCHANGED <<writerVars, inbox, hand, keyed, owner>>

\* NDB_INGEST_PROCESS_GIFTWRAP on thread i: only the rumor is pushed.
ReprocessGiftwrap(i, k) ==
    /\ k \in dispatched
    /\ dispatched' = dispatched \ {k}
    /\ LET w == db.notes[k].id
       IN  hand' = IF i \in keyed
                   THEN [hand EXCEPT ![i] =
                            Append(@, NoteMsg(RumorOf[w], TRUE, w, FALSE, None, 0))]
                   ELSE hand
    /\ UNCHANGED <<writerVars, inbox, keyed, owner, used>>

-----------------------------------------------------------------------------
(* ndb_writer_thread *)

\* prot_queue_pop_all: one or more of the oldest messages.
Pop ==
    /\ stage = "pop"
    /\ \E n \in 1..Len(inbox) :
          /\ n <= BatchSize
          /\ batch' = SubSeq(inbox, 1, n)
          /\ inbox' = SubSeq(inbox, n + 1, Len(inbox))
    /\ stage' = "begin"
    /\ written' = <<>>
    /\ UNCHANGED <<db, txn, done, announced, ingestVars, used>>

NeedsCommit == \E i \in 1..Len(batch) : batch[i] # QuitMsg

\* mdb_txn_begin: the transaction starts from the committed database.
TxnBegin ==
    /\ stage = "begin"
    /\ txn' = db
    /\ stage' = "write"
    /\ UNCHANGED <<db, inbox, batch, done, written, announced, ingestVars, used>>

\* mdb_txn_begin fails: the whole batch is dropped, a quit message with it.
TxnBeginFails ==
    /\ stage = "begin"
    /\ NeedsCommit
    /\ Spend("begins", MaxBeginFailures)
    /\ batch' = <<>>
    /\ stage' = "pop"
    /\ UNCHANGED <<db, txn, inbox, done, written, announced, ingestVars>>

\* The next message of the batch.
Next1(type) == stage = "write" /\ batch # <<>> /\ Head(batch).type = type

Stored(m) == m.over = 0 /\ KeyOf(txn, m.id) # 0

\* Mutant: any stored note is written over in place.
PromotesAll(m) == Stored(m)

\* A rumor whose plaintext is stored takes over that note's key.
Promotes(m) ==
    /\ Stored(m)
    /\ m.rumor
    /\ ~txn.notes[KeyOf(txn, m.id)].rumor

\* Mutant: an id that is already stored is written again under a new key.
NewKeyNoDedup(m) ==
    IF Promotes(m) THEN KeyOf(txn, m.id)
    ELSE IF m.over # 0 THEN m.over
    ELSE LastKey(txn) + 1

\* The key ndb_write_note writes to, 0 when it only records the relay.
NewKey(m) ==
    IF Promotes(m) THEN KeyOf(txn, m.id)
    ELSE IF Stored(m) THEN 0
    ELSE IF m.over # 0 THEN m.over
    ELSE LastKey(txn) + 1

\* handle_reprocessed_giftwrap: the wrap of a rumor, when stored and not marked,
\* is queued again with the mark and its key; a full inbox loses that.
Requeue(m) ==
    LET k == KeyOf(txn, m.wrap)
    IN  IF NewKey(m) # 0 /\ m.rumor /\ k # 0 /\ ~txn.notes[k].unwrapped
           /\ Len(inbox) < InboxSize
        THEN Append(inbox, NoteMsg(m.wrap, txn.notes[k].rumor, None, TRUE, m.relay, k))
        ELSE inbox

\* Mutant: a promotion returns its key.
AnnouncesAll(m) == NewKey(m) # 0

\* ndb_write_note's result: a promotion and a duplicate return 0.
Announces(m) == NewKey(m) # 0 /\ ~Promotes(m)

\* Mutant: the statistics of a stored note are gathered again.
AfterNoteRestat(m) == Put(txn, IF NewKey(m) # 0 THEN NewKey(m) ELSE KeyOf(txn, m.id), m)

\* The store after ndb_write_note.
AfterNote(m) ==
    IF NewKey(m) # 0 THEN Put(txn, NewKey(m), m)
    ELSE WithRelay(txn, KeyOf(txn, m.id), m.relay)

\* Mutant: the record names the last note written.
AfterProfileLast(m) ==
    [AfterNote(m) EXCEPT !.profiles =
        Append(@, [id |-> m.id, note |-> LastKey(AfterNote(m))])]

\* The store after ndb_write_profile, which records the key that was returned.
AfterProfile(m) ==
    [AfterNote(m) EXCEPT !.profiles =
        Append(@, [id |-> m.id, note |-> IF Announces(m) THEN NewKey(m) ELSE 0])]

\* NDB_WRITER_NOTE and NDB_WRITER_PROFILE
WriteNote(type) ==
    /\ Next1(type)
    /\ LET m == Head(batch)
       IN  /\ txn' = IF type = "profile" THEN AfterProfile(m) ELSE AfterNote(m)
           /\ inbox' = Requeue(m)
           /\ written' = IF Announces(m)
                         THEN Append(written, <<NewKey(m), m.id>>) ELSE written
    /\ batch' = Tail(batch)
    /\ UNCHANGED <<db, stage, done, announced, ingestVars, used>>

\* NDB_WRITER_NOTE_RELAY
WriteRelay ==
    /\ Next1("relay")
    /\ txn' = WithRelay(txn, Head(batch).key, Head(batch).relay)
    /\ batch' = Tail(batch)
    /\ UNCHANGED <<db, inbox, stage, done, written, announced, ingestVars, used>>

\* NDB_WRITER_MIGRATE, all migrations in the batch's transaction.
Migrate ==
    /\ Next1("migrate")
    /\ txn' = [txn EXCEPT !.migrated = TRUE]
    /\ batch' = Tail(batch)
    /\ UNCHANGED <<db, inbox, stage, done, written, announced, ingestVars, used>>

\* A failed migration aborts the transaction and ends the writer thread.
MigrateFails ==
    /\ Next1("migrate")
    /\ Spend("failures", MaxFailures)
    /\ stage' = "exit"
    /\ batch' = <<>>
    /\ UNCHANGED <<db, txn, inbox, done, written, announced, ingestVars>>

\* Mutant: the quit is not remembered.
TakeQuitLost ==
    /\ Next1("quit")
    /\ batch' = Tail(batch)
    /\ UNCHANGED <<db, txn, inbox, stage, done, written, announced, ingestVars, used>>

\* NDB_WRITER_QUIT: the rest of the batch is still written.
TakeQuit ==
    /\ Next1("quit")
    /\ done' = TRUE
    /\ batch' = Tail(batch)
    /\ UNCHANGED <<db, txn, inbox, stage, written, announced, ingestVars, used>>

Loop == stage' = IF done THEN "exit" ELSE "pop"

\* Mutant: subscriptions hear of the batch whether or not it was committed.
CommitFailsLoud ==
    /\ stage = "write"
    /\ batch = <<>>
    /\ Spend("failures", MaxFailures)
    /\ announced' = announced \o written
    /\ Loop
    /\ UNCHANGED <<db, txn, inbox, batch, done, written, ingestVars>>

\* The commit fails (a full map poisons the transaction, a full disk fails the
\* commit itself): everything in the batch is lost and nobody hears of it.
CommitFails ==
    /\ stage = "write"
    /\ batch = <<>>
    /\ Spend("failures", MaxFailures)
    /\ Loop
    /\ UNCHANGED <<db, txn, inbox, batch, done, written, announced, ingestVars>>

\* The commit publishes the transaction, then ndb_notify_subscriptions runs.
Commit ==
    /\ stage = "write"
    /\ batch = <<>>
    /\ db' = txn
    /\ announced' = announced \o written
    /\ Loop
    /\ UNCHANGED <<txn, inbox, batch, done, written, ingestVars, used>>

-----------------------------------------------------------------------------
(* The owner of the database *)

\* ndb_writer_destroy, after the ingesters have stopped: push the quit message
\* and join.  With no room for it THREAD_TERMINATE ends the thread that runs
\* ndb_destroy (pthread_exit on POSIX), not the writer.
PushQuit ==
    /\ owner = "running"
    /\ \A i \in Ingesters : hand[i] = <<>>
    /\ dispatched = {}
    /\ IF Len(inbox) < InboxSize
       THEN inbox' = Append(inbox, QuitMsg) /\ owner' = "joining"
       ELSE UNCHANGED inbox /\ owner' = "gone"
    /\ UNCHANGED <<writerVars, hand, keyed, dispatched, used>>

\* THREAD_FINISH returned.
Join ==
    /\ owner = "joining"
    /\ stage = "exit"
    /\ owner' = "joined"
    /\ UNCHANGED <<writerVars, inbox, hand, keyed, dispatched, used>>

\* The process dies at any point, or has quit, and the database is opened again:
\* only what was committed is left.
Restart ==
    /\ Spend("restarts", MaxRestarts)
    /\ txn' = EmptyStore
    /\ inbox' = <<MigrateMsg>>
    /\ batch' = <<>>
    /\ stage' = "pop"
    /\ done' = FALSE
    /\ written' = <<>>
    /\ hand' = [i \in Ingesters |-> <<>>]
    /\ keyed' = {}
    /\ dispatched' = {}
    /\ owner' = "running"
    /\ UNCHANGED <<db, announced>>

WriterStep ==
    \/ Pop
    \/ TxnBegin
    \/ WriteNote("note")
    \/ WriteNote("profile")
    \/ WriteRelay
    \/ Migrate
    \/ TakeQuit
    \/ Commit

Failure == TxnBeginFails \/ MigrateFails \/ CommitFails

IngesterStep(i) ==
    \/ \E id \in Ids : \E relay \in Relays \cup {None} : IngestEvent(i, id, relay)
    \/ PushToWriter(i)
    \/ AddKey(i)
    \/ \E k \in dispatched : ReprocessGiftwrap(i, k)

Next ==
    \/ WriterStep
    \/ Failure
    \/ \E i \in Ingesters : IngesterStep(i)
    \/ ProcessGiftwraps
    \/ PushQuit
    \/ Join
    \/ Restart

\* The writer thread runs whenever it has something to do, and a join notices
\* that it ended.
Spec == Init /\ [][Next]_vars /\ WF_vars(WriterStep) /\ WF_vars(Join)

-----------------------------------------------------------------------------
(* Properties *)

StoreType(s) ==
    /\ \A k \in DOMAIN s.notes :
          /\ k \in Nat \ {0}
          /\ s.notes[k] \in [id : Ids, rumor : BOOLEAN, unwrapped : BOOLEAN]
    /\ s.ids \subseteq Ids \X Nat
    /\ s.relays \subseteq Nat \X Relays
    /\ s.counts \in [Counters -> 0..(CounterRange - 1)]

TypeOK ==
    /\ StoreType(db)
    /\ StoreType(txn)
    /\ Len(inbox) <= InboxSize
    /\ Len(batch) <= BatchSize
    /\ stage \in {"pop", "begin", "write", "exit"}
    /\ done \in BOOLEAN
    /\ keyed \subseteq Ingesters
    /\ owner \in {"running", "joining", "joined", "gone"}

\* The id index of a store and its note records describe the same notes: every
\* stored note is found by its id, under exactly one key, and no index entry
\* points at another note.
IndexMatches(s) ==
    /\ s.ids = {<<s.notes[k].id, k>> : k \in DOMAIN s.notes}
    /\ \A k, j \in DOMAIN s.notes : s.notes[k].id = s.notes[j].id => k = j
    /\ \A e \in s.relays : e[1] \in DOMAIN s.notes

\* However many ingesters hand over the same note, from snapshots however stale,
\* with restarts at any point, the store keeps one copy of it; counters keep their
\* 16 bits, and queues and batches their bounds.
StoreConsistent == TypeOK /\ IndexMatches(db) /\ IndexMatches(txn)

\* A committed note keeps its key for ever, and marks are only ever set: a rumor
\* stays sealed, an unwrapped gift wrap stays unwrapped.
NotesKept ==
    [][\A k \in DOMAIN db.notes :
          /\ k \in DOMAIN db'.notes
          /\ db'.notes[k].id = db.notes[k].id
          /\ db.notes[k].rumor => db'.notes[k].rumor
          /\ db.notes[k].unwrapped => db'.notes[k].unwrapped]_vars

\* Subscriptions only hear of notes a reader finds in the database, under the
\* announced key.
AnnouncedCommitted ==
    \A i \in 1..Len(announced) :
        /\ announced[i][1] \in DOMAIN db.notes
        /\ db.notes[announced[i][1]].id = announced[i][2]

\* A note is announced once, however often it is received, promoted or
\* reprocessed.  (A gift wrap is announced again when its mark is written.)
AnnouncedOnce ==
    \A i, j \in 1..Len(announced) :
        (announced[i][2] = announced[j][2] /\ announced[i][2] \notin Wraps) => i = j

\* A counter holds the number of stored notes that bump it.
CountsMatch ==
    \A c \in Counters :
        db.counts[c] =
            Cardinality({k \in DOMAIN db.notes : c \in Bumps[db.notes[k].id]}) % CounterRange

\* Everything handed over has been written.
Quiescent ==
    /\ stage = "pop"
    /\ inbox = <<>>
    /\ dispatched = {}
    /\ \A i \in Ingesters : hand[i] = <<>>

\* Once everything is written, the wrap of every stored rumor carries the
\* UNWRAPPED mark, so that ndb_process_giftwraps does not dispatch it again.
WrapsMarked ==
    Quiescent =>
        \A k, j \in DOMAIN db.notes :
            (/\ db.notes[k].id \in Wraps
             /\ db.notes[j].rumor
             /\ db.notes[j].id = RumorOf[db.notes[k].id]) => db.notes[k].unwrapped

\* The note_key of a profile record is the key of its profile note, or 0: the
\* record of a duplicate names no note, and never another one.
ProfilesLinked ==
    \A i \in 1..Len(db.profiles) :
        LET p == db.profiles[i]
        IN  p.note # 0 => (p.note \in DOMAIN db.notes /\ db.notes[p.note].id = p.id)

\* The writer's quit message was in a batch that a failed mdb_txn_begin dropped.
QuitDropped ==
    /\ used.begins > 0
    /\ stage # "exit"
    /\ ~done
    /\ \A i \in 1..Len(inbox) : inbox[i] # QuitMsg
    /\ \A i \in 1..Len(batch) : batch[i] # QuitMsg

\* ndb_writer_destroy's join returns, unless the process dies first, or a failed
\* mdb_txn_begin drops the quit with the batch it is in.
JoinReturns == owner = "joining" ~> (owner # "joining" \/ QuitDropped)

\* The join returns whatever LMDB does ("should definitely not happen unless DB is
\* full" is all the writer says of a failed mdb_txn_begin).
JoinAlwaysReturns == owner = "joining" ~> owner # "joining"
=============================================================================
