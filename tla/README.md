# A TLA+ model of nostrdb

nostrdb is an embedded database for nostr notes: clients hand it event texts,
ingester threads parse and verify them, one writer thread stores them in LMDB,
and subscriptions hear of what was stored. This directory models that pipeline
and what is built on it (queries, text search, metadata, migrations, pruning,
encrypted envelopes, note and content encodings), checks it with TLC on small
instances, and proves the safety of the write path, of envelopes and of text
search with TLAPS for all instances. Paths below are relative to the repository;
`nostrdb.c` is `src/nostrdb.c`.

- [1. The system](#1-the-system)
- [2. The modules and the code](#2-the-modules-and-the-code)
- [3. The runs](#3-the-runs)
- [4. Where the code does not do what it says](#4-where-the-code-does-not-do-what-it-says)
- [5. The proofs](#5-the-proofs)
- [6. What is not modelled](#6-what-is-not-modelled)
- [7. Plan](#7-plan)
- [8. Running it](#8-running-it)

## 1. The system

```
 clients ──ndb_process_event──▶ ingester inboxes ──▶ ingester threads (N)
    │                              ▲      ▲                │ notes, profiles,
    │ ndb_add_key ─────────────────┘      └── reposts ─────┤ relays, rumors
    │ ndb_process_giftwraps                                ▼
    │                                    writer inbox ──▶ writer thread
    │                                          ▲           │  LMDB transaction,
    │                                          └─ requeue ─┤  commit
    │ ndb_query, readers ◀──── committed LMDB ◀────────────┤
    │ ndb_subscribe/poll/wait ◀── subscription inboxes ◀───┘ ndb_notify_subscriptions
```

| Component | State | Operations | Talks to |
|---|---|---|---|
| protected queue (`protected_queue.h`) | ring buffer, head, tail, count, mutex, condition variable | push, push_all, try_pop_all, pop_all | every thread below |
| thread pool and ingesters (`threadpool.h`, `nostrdb.c` 3558-3927, 8141-8668) | one inbox and one thread per slot, `next_thread`; per thread the keys it can unwrap with, its batch and its read transaction | init, dispatch, dispatch to all, destroy; event, key, quit and reprocess messages | writer inbox, its own pool (reposts), LMDB snapshots |
| writer and note store (`nostrdb.c` 7047-7196, 7923-8139, 8639-8662) | inbox, transaction, `written_notes`; note records, id and relay indexes, profiles, note metadata, version | note, profile, relay, metadata, blocks, last-fetch, migrate and quit messages; commit | LMDB, monitor, its own inbox (requeued gift wraps) |
| subscription monitor (`nostrdb.c` 7820-7873, 8835-8880, 11600-11771) | table of subscriptions with an inbox each, id counter, mutex, condition variable | subscribe, unsubscribe, poll, wait, notify, destroy | writer thread, client callback |
| gift wraps, PNS and SNS (`nostrdb.c` 3730-3790, 7347-7402, 8173-8430; `nip44.c`) | the UNWRAPPED mark of a wrap, the sealed flag of a rumor | unwrap on arrival, scan and reprocess | ingesters, writer |
| filters (`nostrdb.c` 704-1676, 10466-10880) | builder with an open element, sorted elements | start, add, end, match, clone | queries, monitor |
| queries (`nostrdb.c` 4533-6060) | plan, index cursors, result buffer | plan, scan, merge | LMDB snapshots |
| text search (`nostrdb.c` 6154-6745) | word index, cursors per search word | index a note, search | writer, queries |
| note metadata (`metadata.c`) | header, entries sorted by type | builder, lookup, clone with room | writer |
| migrations (`nostrdb.c` 2086-2836, 3062-3146) | stored version | one function per version | writer |
| pruning (`nostrdb.c` 8926-9182) | source and destination database | copy what a filter keeps | offline |
| notes, json, content blocks, invoices, bech32 | a buffer and a cursor | parse, build, serialise | ingesters, clients |
| cryptography | none | nip44, hkdf, hmac, base64 | ingesters |
| LMDB | external | transactions, cursors | everything that stores |

**What is hard here.** Every hand-over between threads is a bounded queue whose
push may fail, and most callers ignore the result. Ingesters decide what is new
from a snapshot that is stale by the time the writer sees their message. A
repost makes an ingester a producer for its own pool, also during shutdown. A
rumor can arrive before, after or without its wrap and as plaintext, on threads
that know the key and threads that do not. Transactions can fail to begin or to
commit with messages and requeued work outstanding. The callback of a
subscription runs inside the writer with a lock held. The full list, with the
lines where it bites and the property aimed at each, is `hazards` in
`PROJECT.json`.

**What correctness means**, per component:

- queue: a bounded FIFO queue; nobody sleeps beside an element;
- pool: no queue is freed under a running thread; whatever was accepted is
  processed or released once; a key registered before an event is there when
  the event is processed; destroy returns;
- store: one record per note id, under one key, found by every index, whatever
  the order of duplicates, rumors, failures and restarts; subscribers only hear
  of committed notes, once; metadata counts what is stored;
- monitor: a client that subscribes and then queries misses nothing, hears
  nothing twice or out of order; waiters are served;
- envelopes: what is stored as decrypted is attributed to whoever sealed it and
  was opened with a registered key; a marked envelope has its note in the store;
  nothing a key opens is left behind by a scan;
- filters and queries: a filter matches what the client put into it; whatever
  index is used, answers match the whole filter, newest first, none missing;
- text search: results hold all the words, and no newer note is left out;
- metadata, migrations, prune: counts are those of the stored notes, a version
  number is never ahead of the indexes, a pruned copy is closed under its links;
- encodings: a note says what was pushed or sent, an accepted note is the one
  that was signed; blocks read back as they were parsed and lose no text.

## 2. The modules and the code

The `map` of `PROJECT.json` names the lines behind each definition. The
correspondence in the large:

**`BoundedFifo`** is the abstract queue: a push appends all of its batch or
nothing, a pop takes a non-empty prefix. **`ProtQueue`** is
`protected_queue.h`: `buf`, `head`, `tail`, `count` are the fields of
`struct prot_queue`; each operation holds the mutex throughout and is one
action; `pop_all` on an empty queue sleeps (`call[c] = "waiting"`), a signal
picks any sleeper, and a wakeup may be spurious. The two-part copy of
`prot_queue_push_all` around the end of the ring is modelled slot by slot.
Elements carry no identity beyond their value; the ring keeps old elements in
freed slots as the code does.

**`IngesterPool`** is `threadpool.h` with `ndb_ingester_thread`. An inbox is a
sequence with a capacity, which is what `ProtQueue` implements. The loop of a
thread is the stages pop, begin (of the read transaction), process, exit. A
batch is any non-empty prefix within `THREAD_QUEUE_BATCH`, since a wrapped ring
delivers less than it holds. `next_thread` is a data race between clients and
ingesters, so a dispatch picks any thread. Processing an event either rejects it
or hands it on, a repost first dispatching the embedded event to the pool;
`live` counts json copies, and `lost` those that `ndb_ingester_process_event`
leaves behind when there is no memory for the note (`nostrdb.c:3825`).
`ndb_add_key` and the three loops of `threadpool_destroy` take one step per
thread. Two fields of an event message (`from`, `after`) are there for the
properties only: no guard reads them.

**`NoteWriter`** is `ndb_writer_thread` with `ndb_write_note`,
`ndb_write_profile`, `handle_reprocessed_giftwrap` and the ingester side of the
hand-over. LMDB is two stores: `db`, the committed one that readers see, and
`txn`, the writer's. An ingester looks at `db` in one step (`IngestEvent`,
`ReprocessGiftwrap`) and pushes the resulting messages later, one per step
(`PushToWriter`), losing what does not fit. A note is its id; constants say
whether it is a profile, which rumor a wrap contains, and which counters
storing it bumps. Of the indexes the id and relay indexes are kept: the others
are written from the same note and key at the same place. `Restart` is a
process death, or a clean end, followed by `ndb_init`: `db` survives, and the
migration message is queued again. A begin that fails (`TxnBeginFails`) drops the
batch with everything in it; commits and migrations fail separately.

**`Monitor`** is `struct ndb_monitor`. A client call holds the mutex for its
whole length and is one action guarded by `~held`; the writer holds it from
`NotifyBegin` to `NotifyDone`, through the callbacks, and takes one step per
subscription and note in between (`NotifyNote`, `NotifySub`, the two nested
loops of `ndb_notify_subscriptions`). `asked`, `got`, `seen`
and `dropped` record what clients were told, for the properties. `Query` is the
client's read of the database after subscribing.

**`Filter`** is the filter as the code keeps it: fields with offsets into a data
buffer, the open field, `finalized`; the builder's calls with every way they
fail, `ndb_filter_matches_with` with its bisections, groups, `ndb_filter_eq` and
`ndb_filter_is_subset_of`, and json in both directions as tokens. A token's text
is what the code writes and reads: an id as its hex digits, a string with its
escapes (`Escaped`), which the parser takes as they stand, a number that must
fit 32 bits (`UintRange`), and a tag's text that spells an id as that id
(`Spells`, `Longer`). **`Query`** builds a filter by client calls on a fixed
database and then answers it: `ndb_filter_plan`, every
`ndb_query_plan_execute_*` as steps of a cursor over a set of index keys in the
order of the index's comparison function, the merger with its heap (`MergerAdd`,
`MergerNext`), limits, result capacity, visitors that stop, and several filters
one after the other. The constant `Careful` keeps clients from building the
filters that fail an assertion (section 4).

**`TextSearch`** is the word index (`WriteNote`) with keys compared as
`ndb_text_search_key_compare` does, and `ndb_text_search_with`: its two nested
loops are the actions `NextRoot`, `RootWord` and `FurtherWord`, which share one
cursor (`saved`, `last`). Words are sequences of letters. A key keeps a time in
an `int`: `IntRange`, `LongRange` and `Int32Max` are the ranges of the code's
integer types, and a time outside is cut as the conversion does it. `fresh` in
`NextWord` says whether the cursor is placed anew for a word or goes on from the
entry it was at. A search is started with a filter's limit, a config's, both or
neither, none of them compared with the size of the result array; `Overrun` is
the store behind its end that follows when the limit is larger
(`nostrdb.c:6688`). The second half is the index of profile names and
`ndb_search_profile`.

**`NoteMeta`** has the operators of `metadata.c` and of the statistics in
`nostrdb.c` (increments, and the recounts of the migration). **`Upkeep`** is a
database with its indexes, profiles, names, blocks and metadata that is opened
at an older version, migrated in one transaction that may be cut off at every
step, written to, given metadata by clients that read it earlier, and pruned
into a new database. The loop over profiles of one migration and the two copying
loops of `ndb_prune` are recursive functions over the turns of the loop, one
operator per turn (`RewriteProfile`, `CopyProfile`, `CopyNote`). A profile note
whose content does not parse (`parses`) is stored without a profile, and both
loops skip it.

**`Envelopes`** models gift wraps, private storage (PNS) and team envelopes
(SNS), one inside another. A lock is the pair of parties that share a secret;
`Peeled` is what one layer yields with a thread's three key tables, with the
authors the code assigns. Which texts exist and how deep each nests are
constants (`Jsons`, `Nesting`), so the proofs hold for any nesting. Events, keys
and reprocess messages travel through each thread's inbox; `ScanBegin` and
`ScanDispatch` are `ndb_process_giftwraps` and its two siblings, one step for
each envelope they dispatch.

**`NoteCodec`** has the note builder (string table, sharing of strings, packed
ids and compact strings), the json a client or relay sends as tokens, the note
parser (`ndb_parse_json_note_custom`) token by token, the early stop at a known
id, and verification against the commitment of what was parsed.

**`Content`** is `ndb_parse_content` over symbols (a symbol is a character or a
whole mention, invoice or scheme), packing into a buffer of bounded room,
`ndb_blocks_iterate_next`, and the life of a block record between the client
that makes it lazily, the writer and the database.

The **`MC`** modules give the constants their values (which event a repost
carries, what bumps what, the notes of a database, the contents that are
parsed). The theorems are in **`ProtQueueProofs`**, **`IngesterPoolProofs`**,
**`NoteWriterProofs`**, **`MonitorProofs`**, **`EnvelopesProofs`**,
**`TextSearchProofs`**, **`ContentProofs`** and **`UpkeepProofs`**, each of
which extends the module it is named after. Operators marked *Mutant* are
plausible bugs of one definition each; they are used by nothing but `mutants` in
`PROJECT.json`, which says which property rejects which.

## 3. The runs

| Run | Instance | States | Shows |
|---|---|---|---|
| `queue` | capacity 3, pushes of 1-3 elements, one consumer (each queue of the program has one) | 3 thousand | the ring implements `BoundedFifo`, wrapping included; no lost wakeup; everything is delivered |
| `pool` | 2 threads, inbox and batch 2, a note, a repost of it, one key, one failing `mdb_txn_begin`, one failing `malloc` | 202 thousand | teardown order, drain, ownership of json copies, keys before events, and that destroy returns |
| `store_plain` | 2 ingesters, two replies and a profile, a relay, counters that wrap at 2, one failing begin, one failing commit or migration, one restart | 2.4 million | one record per id, announcements only after commit, counters, profile links |
| `store_wraps` | 2 ingesters, a wrap and its rumor, 3 events, one scan, one failing begin, one restart | 766 thousand | promotion, reprocessing and requeued marks: announced once, keys kept; the writer's join returns unless the begin drops its quit |
| `monitor` | 3 notes, 2 filters, 3 subscribe calls, table of 3, inbox 2, batches up to 2 | 3.5 million | table compaction, streams in order, no missed note |
| `monitor_wait` | 1 note, 2 waiters, 2 subscribe calls, 2 empty commits | 54 thousand | waiters and orphans return |
| `query` | 6 notes, filters of up to 3 fields, limits 1 and 2, result capacity 2 and 8 | 1.5 million | a filter matches what was put into it, comes back from json if and only if it is one that json carries; every plan answers with matching notes, newest first, none missing, and the merger keeps its heap |
| `search` | up to 3 of 4 contents, 5 queries up and down, 4 filters (one of them none) with and without a config, 2 profiles | 910 thousand | results hold all words, pass the filter and are no more than asked for; no newer note is left out; people are found by name |
| `upkeep` | up to 4 of 11 notes, one a profile that does not parse, versions 0 and 7, crashes anywhere, one late metadata write, two prunes | 1.2 million | counts against a recount, no version ahead of its indexes, the pruned copy |
| `envelopes` | 7 envelopes (nested, forged, rejected, reposting), 2 threads, one key slot per table, one scan, one restart | 1.6 million | attribution, which key opened what, marks have their rumor, nothing a key opens is missed |
| `codec` | notes of up to 2 tags, 3 orders of fields, string table of 6, parsed with other notes stored | 670 thousand | strings as pushed; an accepted note is the one sent; what is dropped as known is stored |
| `content` | contents of up to 4 of 20 phrases, buffers of 12 and 40, inbox 1, two lazy gets | 2.2 million | blocks read back as parsed, no text lost but where section 4 says, every record has one owner |

Each property has a mutant, a plausible bug of one definition, that makes the
same run fail. `StoreConsistent`, `StreamsInOrder`, `ResultsMatch`,
`ResultsSound`, `TotalIsSum`, `RumorsVouched`, `StringsIntact` and `ReadsBack`
contain the type invariant of their module; `ProtQueue`'s and
`IngesterPool`'s are proved instead (section 5). `FilterFaithful`, `ResultsSound`,
`CountsExact`, `RumorsVouched`, `ReadAsSent` and `ContentKept` are conjunctions
whose parts are defined and explained one by one in their modules.

*Bounds.* Two of anything that races (threads, ingesters, waiters) gives every
pairwise interleaving; what section 5 proves holds for any number and any size.
Inboxes are as small as a batch plus what is needed to fill them, so the full
case happens everywhere. Three slots with pushes of up to three elements reach
every wrap position. A counter range of 2 makes a counter wrap with two
replies; in the code it takes 65536. One failure and one restart can fall
between any two steps; a second failure adds no new kind of state, since each
leaves a store as after an earlier commit. `MaxLost` and `MaxBeginFailures` bound
the failing allocations of the pool and the failing begins of the writer in the
same way.

Filters have up to three fields of up to two elements over databases of a few
notes that differ in one property each, which makes every plan and every bound
of a scan occur; three scanners give the heap two levels. Search words come in
forms that are prefixes of each other, and an `int` has eight values, so that
times above the range are cut. The result array has two places, and limits are 1
and 3 from a config, and 1, 11 and 5 from a filter, of which an `int` keeps 1, 3
and -3: below the array's size, above it and negative. In filters, `UintRange`
is 20 with a bound of 20 among the values, and three strings start with the hex
digits of an id, two with more behind them, of which one is the escaped form of
the other. The metadata record has room for three entries and counters a range
of two, so that both run over. Migrations start at versions 0 and 7 (nothing and
everything done). Envelopes nest up to four deep with one key slot per table.
The string table, the item list and the buffers of the encodings have sizes at
which the last element just fits or just does not.

*Fairness.* Threads that can run do run: weak fairness of each ingester's loop,
of the writer's loop and of the loops of `threadpool_destroy`, of a
notification once begun and of a woken waiter. A consumer in `Delivered` keeps
asking, as the loops of ingester and writer do. No client call, no commit, no
failure and no spurious wakeup is assumed to happen. Client calls, commits and
failures are bounded, so a waiter cannot be overtaken for ever in `Monitor`; a
mutex without a fairness guarantee could delay it longer.

*Deadlock* is checked for `queue`, `query`, `search` and `codec`: a query or
search that is under way always has a next step. The other systems do stop:
after destroy, or when clients have no more bounded calls to make.

`DestroyReturns` and `QuitHonoredHealthy` are stated for executions in which
every read transaction begins, and `JoinReturns` for those in which the writer's
quit was not in a batch that a failed begin dropped (`QuitDropped`); a begin that
fails at another time is covered. Section 4 has the cases they leave out.
`CopiesOwned` leaves out the copies of events that found no memory, and
`ResultsSound` says of a search that runs past its array only that it was asked
for more than fits there.
`AnnouncedOnce` exempts gift wraps: writing the mark announces the wrap again,
which the code does on purpose by queueing an ordinary note message.

## 4. Where the code does not do what it says

Each of these configurations checks one property that a comment, a test or a
declaration of the repository states, and ends with a counterexample that
follows the code. They are kept beside the runs and started by hand
(section 8).

| Configuration | Module | Property | What happens |
|---|---|---|---|
| `IngesterPoolQuit` | `MCIngesterPool` | `QuitHonored` | a quit message that shares its batch with an event whose read transaction cannot begin is remembered, but the `continue` skips the only place where it is acted on; the join never returns (`nostrdb.c:8493`, against the comment at 8480) |
| `IngesterPoolStranded` | `MCIngesterPool` | `NothingStranded` | a thread leaves when its own inbox is empty, but another thread that is still draining can dispatch the event of a repost to it (`nostrdb.c:8564`, against 8560); `OwnWorkDrained` is what holds and is proved |
| `IngesterPoolMemory` | `MCIngesterPool` | `CopiesFreed` | when there is no memory for the note, `ndb_ingester_process_event` returns before the place where it frees the json and the relay (`nostrdb.c:3825`, against "the ingester thread owns these once queued" at 3630 and the free at 3916) |
| `NoteWriterQuit` | `MCNoteWriter` | `JoinAlwaysReturns` | a failed `mdb_txn_begin` drops the batch and with it a quit message in it; the writer waits for another one and `ndb_destroy` for the writer (`nostrdb.c:8016`, after a comment at 8014 that takes it to happen only when the database is full) |
| `NoteWriterMarked` | `MCNoteWriter` | `WrapsMarked` | a wrap met by a thread without the key and, before the commit is visible, by one with it stays unmarked although its rumor is stored (`nostrdb.c:7127`, against 7133) |
| `NoteWriterCounts` | `MCNoteWriter` | `CountsMatch` | the promotion of a plaintext reply to a rumor counts the reply twice (`nostrdb.c:7183`, against 7116) |
| `NoteWriterCommit` | `MCNoteWriter` | `StoreConsistent` | a requeued mark names a key of a transaction whose commit may fail; another note may own that key when the message is written (`nostrdb.c:7084`) |
| `MonitorCallback` | `MCMonitor` | `NotifyReturns` | a callback that polls, as the comment at `nostrdb.c:7862` asks, locks a mutex its own thread holds (7864) |
| `QueryAssert` | `MCQuery` | `NoAssertionFails` | a filter with an empty list of ids or authors fails an assertion when it is queried (`nostrdb.c:1531`) |
| `QueryTags` | `MCQuery` | `ResultsMatchAllTags` | a query by tags takes the first tag field and then counts every tag field as matched (`nostrdb.c:5501-5503`) |
| `TextSearchOverrun` | `MCTextSearch` | `NeverOverrun` | a limit above `MAX_TEXT_SEARCH_RESULTS`, of a filter searched with without a config or of both, makes the search store its candidate behind the end of `results[MAX_TEXT_SEARCH_RESULTS]` (`nostrdb.c:6555` and 6569, against `nostrdb.h:420`) |
| `UpkeepKinds` | `MCUpkeep` | `KindsIndexed` | the migration that rebuilds the pubkey index passes `mdb_drop` the number of the index and not its handle, and so empties the kind index instead (`nostrdb.c:2109`) |
| `EnvelopesFull` | `MCEnvelopes` | `MarkedHasRumor` | with a full writer inbox the rumor is dropped while its wrap is marked as done (`nostrdb.h:19`) |
| `NoteCodec2038` | `MCNoteCodec` | `AcceptedUntil2106` | `created_at` is printed with `%d` for the commitment (`nostrdb.c:9692`, against "update in 2106" at 9691) although it is parsed and kept as 32 bits without sign (10818), so a note dated after 2038 never verifies |

Smaller ones, visible in the models or met while reading, without a
configuration of their own.

*Threads and subscriptions.* With a full inbox at shutdown `THREAD_TERMINATE`
is `pthread_exit` (`thread.h:59`), which ends the caller of `ndb_destroy` and
not the thread named in the macro's argument. A duplicate of a profile note
writes a second profile record with note key 0 (`nostrdb.c:7892`).
`ndb_subscribe` refuses the last slot of the table (11740), and its id counter
is shared by all databases of a process (11732). `ndb_unsubscribe` does not wake
threads that wait for the id (`OrphansLeave`).

*Filters and queries.* A failed `ndb_filter_start_field` leaves `current` set.
`ndb_filter_eq` and `ndb_filter_is_subset_of` ignore the letter of a tag field.
Filter json has "relays" when written but not when parsed, and an unknown key
with an array value puts the token loop out of step. Json does not carry every
filter (`JsonCarries`): strings are escaped when written (9787, 9851) and taken
as they stand when parsed (10579), so one with a quote, a backslash or a control
character comes back as another; integers are written with 64 bits (9731) and
refused above `UINT_MAX` when parsed (10308); a tag field whose first string is
64 hex digits comes back as ids (10571), and further elements of such a field
are ids by their first 64 characters (10583). `ndb_query` with several filters,
and the relay plan with several relays, can return a note twice; the ids plan
applies the limit in the order of ids. The tag index keeps the low eight bits of
a value's length (6102).

*Text search.* Words found several times in a note give it several results for
a search of one word. Timestamps and note ids in keys are cut to `int`. A
descending search sees only the adjacent one of the longer words that begin with
the search word. Old names of a profile stay searchable.

*Metadata and upkeep.* `ndb_note_meta_builder_counts` tests `quotes == 0` twice
and `total_reactions` never, so the migration drops notes that only have
reactions. The result of parsing a profile is ignored (3692): its note is stored
without a profile record, and a prune skips it among the profiles (9087). A note
with as many kinds of reactions as the builder has room for gets no record from
the migration, and so no count of its replies either. A full record can count a
reaction and miss the total. Promotion applies a note's statistics again. Prune
keeps neither the client's flags nor the relays of a note.

*Envelopes.* A key registered twice takes two of the 128 slots. A wrap that is
still in the writer's inbox during a scan waits for the next scan; a second wrap
of a stored rumor is never marked by one. A private storage note's author is
taken as written, a rumor's from its seal.

*Notes and json.* A value or tag equal to a field name is read as that field.
Strings of up to two characters are not unescaped. Upper-case ids in tags come
back in lower case, so the note no longer matches its id. An empty tag makes the
parser leave out the tags after it, and the result of the tag loop is ignored.
The early stop takes the first string of 64 characters after any string "id".

*Content.* The writer does not free the block records it stores, and neither
does a client whose push was refused. A mention or invoice that fails to parse
drops the prefix before it. Only an invoice at the very end of the content is
recognised. A mention whose checksum is right but whose payload is unusable
hides the blocks after it. `num_blocks` counts a block twice when its encoding
falls back to text.

## 5. The proofs

TLAPS proves the theorems below for every value of the constants that satisfies
the assumption named in the module (`QueueAssumption`, `PoolAssumption`,
`WriterAssumption`, `MonitorAssumption`, `EnvelopesAssumption`,
`SearchAssumption`, `ContentAssumption`, `MetaAssumption`, `UpkeepAssumption`:
sizes are positive, messages and notes are well-formed, an envelope nests
finitely). The assumptions are evaluated by the runs. Where a theorem has a
further hypothesis, the paragraphs below the table say what goes wrong without
it.

| Theorem | Says | Argument |
|---|---|---|
| `ProtQueueProofs!TypeCorrect` | types and capacity | inductive as it stands |
| `ProtQueueProofs!RingConsistent` | `RingOK`: head, tail, count agree and counted slots hold elements | inductive with `TypeOK`; lemmas about indices modulo the capacity |
| `ProtQueueProofs!WakeupsSafe` | `NoLostWakeup` for any number of consumers, single pushes | `NoLostWakeup` is not inductive; `WakeupsCoverCount` (as many woken consumers as elements while somebody sleeps) is |
| `ProtQueueProofs!QueueImplementsFifo` | refinement of `BoundedFifo` by `Contents` | one lemma per operation: a push maps to an append of its batch, a pop to a prefix, everything else to a stutter |
| `IngesterPoolProofs!PoolTypeCorrect` | types, inbox and batch bounds | inductive as it stands |
| `IngesterPoolProofs!TeardownSafe` | `NoFreeUnderThreads` | `TeardownInv`: the join loop has passed exited threads only, exit is final, memory is freed after that loop only |
| `IngesterPoolProofs!QuitReached` | `QuitHonoredHealthy` | inductive with `TypeOK`: the loop test is the only way back to the pop, and others only ever add to an inbox |
| `IngesterPoolProofs!PoolDrains` | `OwnWorkDrained` | `DrainInv`: no quit message exists while clients call; a thread exits after its quit and with an empty inbox; after that neither it nor a client can push there |
| `IngesterPoolProofs!KeysReachEvents` | `KeysKnown` | `KeysInv` on `Pending(t)`, the batch followed by the inbox: every registered key is in the thread's table or in `Pending(t)`, and each event there comes after the keys registered before it |
| `IngesterPoolProofs!PoolCopiesOwned` | `CopiesOwned`: no json copy is freed twice, and none leaks but those whose note found no memory | `CopiesInv`: the live copies are the lost ones and as many as the places in inboxes and batches that hold an event; a move between two queues keeps the sum |
| `NoteWriterProofs!WriterStoreConsistent` | `StoreConsistent`, under `Sound` | `WInv`, see below |
| `NoteWriterProofs!WriterAnnouncedCommitted` | `AnnouncedCommitted`, under `Sound` | `WInv`: what will be announced is in the transaction, what was is in the committed store |
| `NoteWriterProofs!WriterAnnouncedOnce` | `AnnouncedOnce`, under `Sound` | `WInv`: a note that is written new is in no earlier announcement, since those are stored |
| `NoteWriterProofs!WriterProfilesLinked` | `ProfilesLinked`, under `Sound` | `WInv` |
| `NoteWriterProofs!WriterNotesKept` | the action property `NotesKept`, under `Sound` and `Flat` | a commit replaces the store by a transaction that extends it (`Grows`) |
| `NoteWriterProofs!WriterCountsMatch` | `CountsMatch`, under `Sound` and `SealedUncounted` | each write adds one note and its bumps, modulo the range of a counter |
| `MonitorProofs!MonitorStreamsInOrder` | `StreamsInOrder` | `MInv`: what its client polled followed by its inbox holds matching notes of the log up to where the writer is with it (`Through`), in their order |
| `MonitorProofs!MonitorNoNoteMissed` | `NoNoteMissed` | `MInv`: of the log up to `Through`, every matching note was found by the query, is in the stream or was dropped |
| `EnvelopesProofs!EnvelopesVouched` | `RumorsVouched` | `EInv`: every note in the store, in the writer's inbox and on a stack has an author who stands for it and was opened for a registered secret; every key in a table or an inbox is a registered one; a stack is no deeper than what is left to open |
| `EnvelopesProofs!EnvelopesNothingMissed` | `NothingMissed` | `DueInv`: as long as nothing was refused, all threads have, in their tables and inboxes together, the same secrets, and each envelope a scan found and a secret opens is on its way (in an inbox with its keys before it, on a stack or in the writer's inbox) or has its note stored |
| `EnvelopesProofs!EnvelopesMarked` | `MarkedHasRumor`, under `[]NothingRefused` | `MarkedInv`: a mark, in the store or in the writer's inbox, comes after the note it speaks of, in the store or before it in the inbox |
| `TextSearchProofs!ResultsAreSound` | `ResultsSound` | `SearchInv`: the index holds the words of the notes and nothing else, the candidate has every word looked for so far, and an overrun has a full array behind it and a limit above its size |
| `TextSearchProofs!NewestAreFound` | `NewestFound`, under `UntilFits` | `AheadInv`: a note that is due has its entry of the root word ahead of the cursor, or is the candidate |
| `TextSearchProofs!EveryoneFound` | `PeopleFound` | `PeopleInv`: whoever's name begins with the query is ahead of the cursor or has been returned |
| `ContentProofs!ContentBounds` | `TypeOK`: no write behind the buffer's end, no step out of the content | `CInv`; each recogniser returns a position in the content, behind where it began |
| `ContentProofs!ContentNothingDropped` | `NothingDropped`, half of `ContentKept` | `CInv`: the blocks made so far join on to one another but for markers and links to damus.io, up to `start` |
| `ContentProofs!ContentOwnersFree` | `OwnersFree` | `CInv`: what lies in the inbox is on the heap, what lies in the database is not |
| `UpkeepProofs!UpkeepVersionTrue` | `VersionTrue` | `UInv`: the committed database and the transaction of a migration are consistent for the version they say (`Good`), whatever was written in between |
| `UpkeepProofs!UpkeepPruneExact` | `PruneExact` for any filters | `UInv`: no id is stored twice and every kind 0 note that parses has a profile that names it (`Linked`); the first loop of the prune copies what is kept of the profiles, the second the rest |
| `UpkeepProofs!UpkeepTotalIsSum` | `TotalIsSum`, in it the type invariant | `CountsInv` with `UInv`: every record of the file, of the transaction, of a pruned copy and in a client's hands is in order (`RecordOK`) |
| `UpkeepProofs!UpkeepCountsExact` | `CountsExact` | `CountsInv`: records count the stored notes (`ExactFor`) but where a client's write or a migration is on record; the transaction has the notes of the file, and its records or, once migrated, recounted ones |

**The pool.** `ThreadFrame` carries the proofs: whatever step is taken, a
thread's batch, stage, quit flag and keys change by its own step only, and its
inbox by its own pop or by one message somebody was entitled to send (`Sent`).

**The writer.** `WInv` (`WriterInvariant`) has four parts. `StoreInv`: both
stores have keys 1..n, one record per id, indexes that agree with the records,
and while a batch is written the transaction extends the committed store.
`QueueInv`: every message under way is one the writer can be sent, in
particular a requeued mark names the key under which its wrap is stored.
`HearInv` is about announcements, `RestInv` gives types. The hypotheses:

- `Sound`: there are no gift wraps, or no commit or migration fails. The key in a
  requeued mark is read from a transaction; if that is not committed, another
  note can take the key (`NoteWriterCommit`). A begin that fails needs no
  hypothesis: nothing has been written by then. The run `store_plain` has failing
  commits and no wraps, `store_wraps` has wraps and no failing commits.
- `Flat`: no rumor is itself a gift wrap. A marked wrap that is then
  promoted to a rumor is written without its mark.
- `SealedUncounted`: what comes in gift wraps, and the wraps, bump no counter.
  Promotions and marks count a note again (`NoteWriterCounts`).

**The monitor.** A subscription is identified by its id, while
`ndb_unsubscribe` moves entries of the table. The writer's position in the table
is a number, so `MInv` says for each *place* how much of the batch its entry has
been offered. No client can move an entry meanwhile because the writer holds the
mutex, which `WriterInv` says.

**Envelopes.** What a thread peels depends on the *sequences* of keys in its
tables, which differ from thread to thread. The lemmas `InnerIs` and `PeeledIs`
say that only the *set* matters (a lock is shared by one pair of parties, so at
most one key of a table opens it), and `InnerMore` that more keys never open
less. Both invariants rest on that: a note peeled with one thread's tables is the
note that the secrets given so far lead to. `EnvelopesMarked` has the hypothesis
that nothing is ever refused, because the thread pushes the note and the mark
one after the other and looks at neither result: with a full inbox the mark can
get through alone (`EnvelopesFull`). `NothingMissed` has the same condition
within it.

**Text search.** The word index is ordered by `ndb_text_search_key_compare`, and
`TextSearchProofs` proves that this is a total order before it says what is ahead
of a cursor. `NewestAreFound` has the hypothesis `UntilFits`: a filter's `until`
fits the `int` that a key's time is compared with. A descending search starts at
that bound, and a bound that is cut starts it too low.

**The loops.** What `Utf8ProfileNames`, `PrunedProfiles` and `PrunedNotes`
compute is defined by recursive functions, and the induction theorems of the
library take an operator as a parameter, which the provers cannot instantiate.
The proofs take the least turn at which the loop would break its invariant
(`LeastNat`, from the well-foundedness of the natural numbers): it is not the
first, and the turn before it was right. The parser's searches for
the end of a word or a link are minima of sets of positions, and `ContentProofs`
uses the same lemma for them.

**The counts.** A record is a sorted sequence of entries, one of each kind, and
`ndb_note_meta_build` sorts the whole of it after each addition. `NoteMeta`
gives the sorted order by rank (`Ranked`), and `BuildInserts` shows that sorting
a sorted record with one more entry is inserting that entry: so nothing else
moves or is lost, and the sum over the reactions changes by what the entry is
worth (`SumInserted`, `SumChanged`). `CountedOK`, `ReactedOK` and `ZappedOK` say
what one increment does, `StatsIs` what one note does to the records of all ids,
`ReactionsTallied` and `RecountOK` what the migration's count from scratch
gives. Counters of 16 bits wrap (`WrapsAround`), so exact means exact modulo
their range. The proof attempt corrected `RepliesRecounted`: its guard was a
record with room left, which holds of a note whose reactions filled the builder
and that has no record at all; the guard is now the number of kinds of reactions.

**Only model-checked:**

- liveness (`Delivered`, `DestroyReturns`, `JoinReturns`, `OrphansLeave`,
  `WaitersServed`): the prover does not reason about fairness;
- `ReadsBack` and the other half of `ContentKept` (mentions are found if the
  buffer has room): they compare two recursive definitions, what was packed
  with what is iterated;
- `Query` and `NoteCodec`: whole loops over sequences (sorting and bisection in
  filters, the merger's heap, tokens), for which every operator would need lemmas
  of the kind `UpkeepProofs` has.

## 6. What is not modelled

- LMDB itself: snapshots, ordered keys, one writer, commits that may fail are
  assumed. Files, maps and `ndb_compact`, which copies an environment.
- Cryptography: who can open or sign what is modelled, the computation is not;
  out of TLC's reach.
- The bytes below the encodings: jsmn's character loop, bech32 and bolt11
  arithmetic, varint bytes, the widths of string offsets (24 bits) and of tag
  counts (16 bits), which a small instance cannot reach.
- A client's `PROFILE_LAST_FETCH` and `DBMETA` messages, single puts without a
  reader in the pipeline; `ndb_verify_zap`, which counts a verified zap on the
  client's thread.
- Relay messages other than events, profile flatbuffers, the `ndb` tool and the
  bindings.
- `ndb_destroy` racing with client calls: the interface forbids it, and the
  models let no client call begin once destruction has.
- The 32 bits of a note key that `ndb_get_indexkey_by_id` reads
  (`nostrdb.c:3393`) and the process-wide counter of subscription ids
  (`nostrdb.c:11732`): they need 2^32 notes or two databases.

## 7. Plan

Modelled: every component of section 1 but cryptography, at the level described.
Proved: the write path from the queues to the subscriptions, envelopes, text
search, upkeep with its counts, and the bounds and completeness of content
blocks. Left, in order of worth:

1. *Queries*: the heap order of the merger and, from it, that results are newest
   first; the part of `ResultsMatch` that says each result passes the filter.
2. *`Nostrdb`*: pool, writer and monitor composed, with an abstract
   specification (a set of notes that grows, each announced once after it is
   visible) that the composition implements. `WriterAnnouncedOnce`,
   `WriterAnnouncedCommitted`, `WriterNotesKept` and `MonitorStreamsInOrder` are
   its step-by-step obligations.

## 8. Running it

```
tlc -workers 2 -config IngesterPool.cfg MCIngesterPool
tlapm IngesterPoolProofs.tla
```

`PROJECT.json` lists the module and configuration of each run, the expected
result, the properties, and for each property a mutant of the code that
violates it.

The configurations named in section 4 are run the same way and end with a
counterexample:

```
tlc -workers 2 -config MonitorCallback.cfg MCMonitor
```
