-------------------------- MODULE NoteWriterProofs --------------------------
(***************************************************************************)
(* Proofs about NoteWriter, for any notes, counters, relays, ingesters,    *)
(* queue sizes and number of restarts.                                     *)
(*                                                                         *)
(* A message queued to mark a gift wrap names the wrap's key.  The key is  *)
(* good as long as the transaction it was read from is committed, so what  *)
(* rests on it is proved for databases whose commits and migrations do not *)
(* fail, and for databases without gift wraps whatever fails (Sound); a    *)
(* transaction that cannot even begin does no harm.                        *)
(***************************************************************************)
EXTENDS NoteWriter, FiniteSetTheorems, SequenceTheorems, TLAPS

Sound == MaxFailures = 0 \/ Wraps = {}

-----------------------------------------------------------------------------
(* Stores *)

Records == [id : Ids, rumor : BOOLEAN, unwrapped : BOOLEAN]

\* The keys of a store are 1..n.
Tables == UNION {[1..n -> Records] : n \in Nat}

Stores ==
    [notes : Tables, ids : SUBSET (Ids \X Nat), relays : SUBSET (Nat \X Relays),
     profiles : Seq([id : Ids, note : Nat]),
     counts : [Counters -> 0..(CounterRange - 1)], migrated : BOOLEAN]

Linked(s) ==
    \A i \in 1..Len(s.profiles) :
        s.profiles[i].note # 0 =>
            /\ s.profiles[i].note \in DOMAIN s.notes
            /\ s.notes[s.profiles[i].note].id = s.profiles[i].id

\* No rumor is itself a gift wrap.
Flat == \A w \in Wraps : RumorOf[w] \notin Wraps

\* Only gift wraps are marked as unwrapped, and they are no rumors.
MarkOK(r) ==
    /\ r.unwrapped => r.id \in Wraps
    /\ (Flat /\ r.rumor) => r.id \notin Wraps

Marks(s) == \A k \in DOMAIN s.notes : MarkOK(s.notes[k])

StoreOK(s) == s \in Stores /\ IndexMatches(s) /\ Linked(s) /\ Marks(s)

\* r's marks are set in n as well.
Keeps(r, n) == (r.rumor => n.rumor) /\ (r.unwrapped => n.unwrapped)

\* Every note of s is in t under its key, with its marks.
Grows(s, t) ==
    \A k \in DOMAIN s.notes :
        /\ k \in DOMAIN t.notes
        /\ t.notes[k].id = s.notes[k].id
        /\ Flat => Keeps(s.notes[k], t.notes[k])

\* The note table of a store has the keys 1 to n for some n.
LEMMA TableKeys ==
    ASSUME NEW s \in Stores
    PROVE  \E n \in Nat : DOMAIN s.notes = 1..n /\ s.notes \in [1..n -> Records]
  BY DEF Stores, Tables

\* The empty store is consistent.
LEMMA EmptyOK == StoreOK(EmptyStore)
  <1>1. <<>> \in [1..0 -> Records]
    OBVIOUS
  <1>2. <<>> \in Tables
    BY <1>1 DEF Tables
  <1>3. EmptyStore \in Stores
    BY <1>2, WriterAssumption DEF EmptyStore, Stores
  <1>4. EmptyStore.notes = <<>> /\ EmptyStore.ids = {} /\ EmptyStore.relays = {} /\ EmptyStore.profiles = <<>>
    BY DEF EmptyStore
  <1>5. DOMAIN EmptyStore.notes = {}
    BY <1>4
  <1> QED BY <1>3, <1>4, <1>5 DEF StoreOK, IndexMatches, Linked, Marks

\* ndb_get_last_key gives the number of notes.
LEMMA LastKeyIs ==
    ASSUME NEW s \in Stores
    PROVE  LastKey(s) \in Nat /\ DOMAIN s.notes = 1..LastKey(s)
  <1>1. PICK n \in Nat : DOMAIN s.notes = 1..n
    BY TableKeys
  <1>2. CASE n = 0
    BY <1>1, <1>2 DEF LastKey
  <1>3. CASE n # 0
    <2>1. n \in DOMAIN s.notes /\ \A j \in DOMAIN s.notes : j <= n
      BY <1>1, <1>3
    <2>2. \A k \in DOMAIN s.notes : (\A j \in DOMAIN s.notes : j <= k) => k = n
      BY <1>1, <2>1
    <2> QED BY <1>1, <2>1, <2>2 DEF LastKey
  <1> QED BY <1>2, <1>3

\* ndb_get_notekey_by_id finds the note's key, or 0 when there is none.
LEMMA KeyOfIs ==
    ASSUME NEW s, StoreOK(s), NEW id
    PROVE  /\ KeyOf(s, id) \in Nat
           /\ KeyOf(s, id) # 0 =>
                 KeyOf(s, id) \in DOMAIN s.notes /\ s.notes[KeyOf(s, id)].id = id
           /\ KeyOf(s, id) = 0 => \A k \in DOMAIN s.notes : s.notes[k].id # id
  <1>1. DOMAIN s.notes \subseteq Nat \ {0}
    BY TableKeys DEF StoreOK
  <1>2. s.ids = {<<s.notes[k].id, k>> : k \in DOMAIN s.notes}
    BY DEF StoreOK, IndexMatches
  <1>3. CASE \E k \in DOMAIN s.notes : s.notes[k].id = id
    <2>1. PICK k \in DOMAIN s.notes : s.notes[k].id = id
      BY <1>3
    <2>2. <<id, k>> \in s.ids
      BY <1>2, <2>1
    <2>3. \E e \in s.ids : e[1] = id
      BY <2>2
    <2>4. k \in {e[2] : e \in s.ids}
      BY <2>2
    <2>5. <<id, KeyOf(s, id)>> \in s.ids
      BY <2>2, <2>3, <2>4 DEF KeyOf
    <2> QED BY <1>1, <1>2, <2>5
  <1>4. CASE \A k \in DOMAIN s.notes : s.notes[k].id # id
    <2>1. ~\E e \in s.ids : e[1] = id
      BY <1>2, <1>4
    <2> QED BY <1>4, <2>1 DEF KeyOf
  <1> QED BY <1>3, <1>4

-----------------------------------------------------------------------------
(* Writing *)

\* A relay of a stored note.
LEMMA WithRelayOK ==
    ASSUME NEW s, StoreOK(s), NEW k \in DOMAIN s.notes, NEW r \in Relays \cup {None}
    PROVE  /\ StoreOK(WithRelay(s, k, r))
           /\ WithRelay(s, k, r).notes = s.notes
           /\ WithRelay(s, k, r).counts = s.counts
           /\ WithRelay(s, k, r).profiles = s.profiles
  <1>1. CASE r = None
    BY <1>1 DEF WithRelay
  <1>2. CASE r # None
    <2> DEFINE t == [s EXCEPT !.relays = @ \cup {<<k, r>>}]
    <2>0. s \in Stores /\ k \in Nat
      BY TableKeys DEF StoreOK
    <2>1. <<k, r>> \in Nat \X Relays
      BY <1>2, <2>0
    <2>2. t \in Stores
      BY <2>0, <2>1 DEF Stores
    <2>3. /\ t.notes = s.notes /\ t.ids = s.ids /\ t.relays = s.relays \cup {<<k, r>>}
          /\ t.profiles = s.profiles /\ t.counts = s.counts
      BY <2>0 DEF Stores
    <2>4. IndexMatches(t)
      BY <2>3 DEF StoreOK, IndexMatches
    <2>5. Linked(t)
      BY <2>3 DEF StoreOK, Linked
    <2>6. Marks(t)
      BY <2>3 DEF StoreOK, Marks
    <2>7. WithRelay(s, k, r) = t
      BY <1>2 DEF WithRelay
    <2> QED BY <2>2, <2>3, <2>4, <2>5, <2>6, <2>7 DEF StoreOK
  <1> QED BY <1>1, <1>2

\* Where ndb_write_note may put a note: over its own record, or behind the last.
Place(s, key, m) ==
    \/ /\ key \in DOMAIN s.notes
       /\ s.notes[key].id = m.id
       /\ Flat => Keeps(s.notes[key], m)
    \/ key = LastKey(s) + 1 /\ \A k \in DOMAIN s.notes : s.notes[k].id # m.id

NoteLike(m) ==
    /\ m.id \in Ids
    /\ m.rumor \in BOOLEAN
    /\ m.unwrapped \in BOOLEAN
    /\ m.relay \in Relays \cup {None}
    /\ MarkOK(m)

\* The counters after a note with this id.
Bumped(s, id) ==
    [c \in Counters |-> IF c \in Bumps[id] THEN (s.counts[c] + 1) % CounterRange ELSE s.counts[c]]

\* The table after m is put at key.
TableWith(s, key, m) ==
    [k \in DOMAIN s.notes \cup {key} |->
        IF k = key THEN [id |-> m.id, rumor |-> m.rumor, unwrapped |-> m.unwrapped] ELSE s.notes[k]]

\* Bumping keeps every counter within its range.
LEMMA BumpedType ==
    ASSUME NEW s \in Stores, NEW id \in Ids
    PROVE  Bumped(s, id) \in [Counters -> 0..(CounterRange - 1)]
  <1>1. CounterRange \in Nat \ {0}
    BY WriterAssumption
  <1>2. s.counts \in [Counters -> 0..(CounterRange - 1)]
    BY DEF Stores
  <1>3. \A x \in 0..(CounterRange - 1) : (x + 1) % CounterRange \in 0..(CounterRange - 1)
    BY <1>1
  <1> QED BY <1>2, <1>3 DEF Bumped

\* What is known of that table.
Shelved(s, key, m) ==
    /\ TableWith(s, key, m) \in Tables
    /\ DOMAIN TableWith(s, key, m) = DOMAIN s.notes \cup {key}
    /\ key \in Nat \ {0}
    /\ TableWith(s, key, m)[key] = [id |-> m.id, rumor |-> m.rumor, unwrapped |-> m.unwrapped]
    /\ \A k \in DOMAIN s.notes \ {key} : TableWith(s, key, m)[k] = s.notes[k]

\* Writing a note at its place keeps the record and index tables of their types.
LEMMA TableWithType ==
    ASSUME NEW s \in Stores, NEW m, NoteLike(m), NEW key, Place(s, key, m)
    PROVE  Shelved(s, key, m)
  <1>1. PICK n \in Nat : DOMAIN s.notes = 1..n /\ s.notes \in [1..n -> Records]
    BY TableKeys
  <1>2. [id |-> m.id, rumor |-> m.rumor, unwrapped |-> m.unwrapped] \in Records
    BY DEF NoteLike, Records
  <1>3. \E i \in Nat : DOMAIN s.notes \cup {key} = 1..i
    <2>1. CASE key \in DOMAIN s.notes
      BY <1>1, <2>1
    <2>2. CASE key = LastKey(s) + 1
      <3>1. DOMAIN s.notes \cup {key} = 1..(LastKey(s) + 1) /\ LastKey(s) + 1 \in Nat
        BY <2>2, LastKeyIs
      <3> QED BY <3>1
    <2> QED BY <2>1, <2>2 DEF Place
  <1>4. PICK i \in Nat : DOMAIN s.notes \cup {key} = 1..i
    BY <1>3
  <1>5. TableWith(s, key, m) \in [1..i -> Records]
    BY <1>1, <1>2, <1>4 DEF TableWith
  <1> QED BY <1>4, <1>5 DEF Tables, TableWith, Shelved

\* The write path keeps the indexes in step with the records.
LEMMA PutOK ==
    ASSUME NEW s, StoreOK(s), NEW m, NoteLike(m), NEW key, Place(s, key, m)
    PROVE  /\ StoreOK(Put(s, key, m))
           /\ Put(s, key, m).notes = TableWith(s, key, m)
           /\ Put(s, key, m).counts = Bumped(s, m.id)
           /\ Put(s, key, m).profiles = s.profiles
           /\ Grows(s, Put(s, key, m))
  <1>0. s \in Stores /\ m.id \in Ids /\ m.relay \in Relays \cup {None}
    BY DEF StoreOK, NoteLike
  <1>2. /\ TableWith(s, key, m) \in Tables
        /\ DOMAIN TableWith(s, key, m) = DOMAIN s.notes \cup {key}
        /\ key \in Nat \ {0}
        /\ TableWith(s, key, m)[key] = [id |-> m.id, rumor |-> m.rumor, unwrapped |-> m.unwrapped]
        /\ \A k \in DOMAIN s.notes \ {key} : TableWith(s, key, m)[k] = s.notes[k]
    <2>1. Shelved(s, key, m)
      BY <1>0, TableWithType
    <2> QED BY <2>1 DEF Shelved
  <1>3. TableWith(s, key, m)[key].id = m.id
    BY <1>2
  <1> DEFINE t == [s EXCEPT !.notes = TableWith(s, key, m),
                            !.ids = @ \cup {<<m.id, key>>},
                            !.counts = Bumped(s, m.id)]
  <1>1. Put(s, key, m) = WithRelay(t, key, m.relay)
    BY DEF Put, TableWith, Bumped
  <1>4. /\ t.notes = TableWith(s, key, m)
        /\ t.ids = s.ids \cup {<<m.id, key>>}
        /\ t.relays = s.relays
        /\ t.profiles = s.profiles
        /\ t.counts = Bumped(s, m.id)
        /\ t \in Stores
    <2>1. Bumped(s, m.id) \in [Counters -> 0..(CounterRange - 1)]
      BY <1>0, BumpedType
    <2>2. s.ids \cup {<<m.id, key>>} \in SUBSET (Ids \X Nat)
      BY <1>0, <1>2 DEF Stores
    <2> QED BY <1>0, <1>2, <2>1, <2>2 DEF Stores
  <1> HIDE DEF t
  <1>5. Grows(s, t)
    <2>1. key \in DOMAIN s.notes => s.notes[key].id = m.id /\ (Flat => Keeps(s.notes[key], m))
      BY <1>0, LastKeyIs DEF Place
    <2> SUFFICES ASSUME NEW k \in DOMAIN s.notes
                 PROVE  /\ k \in DOMAIN t.notes
                        /\ t.notes[k].id = s.notes[k].id
                        /\ Flat => Keeps(s.notes[k], t.notes[k])
      BY DEF Grows
    <2>2. CASE k = key
      BY <1>2, <1>3, <1>4, <2>1, <2>2 DEF Keeps
    <2>3. CASE k # key
      BY <1>2, <1>4, <2>3 DEF Keeps
    <2> QED BY <2>2, <2>3
  <1>6. IndexMatches(t)
    <2>1. s.ids = {<<s.notes[k].id, k>> : k \in DOMAIN s.notes}
      BY DEF StoreOK, IndexMatches
    <2>2. t.ids = {<<t.notes[k].id, k>> : k \in DOMAIN t.notes}
      BY <1>2, <1>3, <1>4, <1>5, <2>1 DEF Grows
    <2>3. \A k, j \in DOMAIN t.notes : t.notes[k].id = t.notes[j].id => k = j
      <3>1. \A k \in DOMAIN t.notes : k # key => t.notes[k].id # m.id
        <4>1. CASE key \in DOMAIN s.notes /\ s.notes[key].id = m.id
          BY <4>1, <1>2, <1>4 DEF StoreOK, IndexMatches
        <4>2. CASE \A k \in DOMAIN s.notes : s.notes[k].id # m.id
          BY <4>2, <1>2, <1>4
        <4> QED BY <4>1, <4>2 DEF Place
      <3> QED BY <3>1, <1>2, <1>3, <1>4 DEF StoreOK, IndexMatches
    <2>4. \A e \in t.relays : e[1] \in DOMAIN t.notes
      BY <1>2, <1>4 DEF StoreOK, IndexMatches
    <2> QED BY <2>2, <2>3, <2>4 DEF IndexMatches
  <1>7. Linked(t)
    BY <1>4, <1>5 DEF StoreOK, Linked, Grows
  <1>9. Marks(t)
    <2>1. MarkOK(TableWith(s, key, m)[key])
      BY <1>2 DEF NoteLike, MarkOK
    <2> QED BY <1>2, <1>4, <2>1 DEF StoreOK, Marks
  <1>8. StoreOK(t) /\ key \in DOMAIN t.notes
    BY <1>2, <1>4, <1>6, <1>7, <1>9 DEF StoreOK
  <1> QED BY <1>0, <1>1, <1>4, <1>5, <1>8, WithRelayOK DEF Grows

-----------------------------------------------------------------------------
(* Messages *)

NoteMsgs ==
    [type : {"note", "profile"}, id : Ids, rumor : BOOLEAN, wrap : Ids \cup {None},
     unwrapped : BOOLEAN, relay : Relays \cup {None}, over : Nat]

RelayMsgs == [type : {"relay"}, key : Nat, relay : Relays]

\* A message that names a key is the mark of a gift wrap; a rumor that does not
\* comes with its wrap.
NoteOK(m) ==
    /\ m.over # 0 => m.id \in Wraps /\ m.type = "note" /\ m.wrap = None /\ m.unwrapped
    /\ (m.over # 0 /\ Flat) => ~m.rumor
    /\ m.over = 0 /\ m.rumor => m.wrap \in Wraps /\ m.id = RumorOf[m.wrap] /\ ~m.unwrapped
    /\ m.unwrapped => m.id \in Wraps

\* The messages whose keys are right, for readers of d and a writer that works
\* on c.
Sendable(d, c) ==
    {m \in NoteMsgs : /\ NoteOK(m)
                      /\ m.over # 0 => m.over \in DOMAIN c.notes /\ c.notes[m.over].id = m.id}
    \cup {m \in RelayMsgs : m.key \in DOMAIN d.notes}
    \cup {QuitMsg, MigrateMsg}

\* What ingesters have in hand names no key of a note.
Fresh(d) ==
    {m \in NoteMsgs : NoteOK(m) /\ m.over = 0} \cup {m \in RelayMsgs : m.key \in DOMAIN d.notes}

\* A message that may be sent has the fields of its type.
LEMMA SendableByType ==
    ASSUME NEW d, NEW c, NEW m \in Sendable(d, c)
    PROVE  /\ m.type \in {"note", "profile"} => m \in NoteMsgs
           /\ m.type = "relay" => m \in RelayMsgs
  BY DEF Sendable, NoteMsgs, RelayMsgs, QuitMsg, MigrateMsg

\* A message that may be sent may still be when more is stored.
LEMMA SendableGrows ==
    ASSUME NEW d, NEW c, NEW e, NEW f, Grows(d, e), Grows(c, f)
    PROVE  Sendable(d, c) \subseteq Sendable(e, f) /\ Fresh(d) \subseteq Fresh(e)
  BY DEF Sendable, Fresh, Grows

\* What an ingester decides to send may be sent.
LEMMA FreshSendable == \A d, c : Fresh(d) \subseteq Sendable(d, c)
  BY DEF Fresh, Sendable

\* Without gift wraps it does not matter what the writer works on.
LEMMA SendableNoWraps ==
    ASSUME NEW d, NEW c, NEW e, Wraps = {}
    PROVE  Sendable(d, c) \subseteq Sendable(d, e)
  BY DEF Sendable, NoteOK

\* Growth is reflexive.
LEMMA GrowsSelf == \A s : Grows(s, s)
  BY DEF Grows, Keeps

\* Growth is transitive.
LEMMA GrowsTrans ==
    ASSUME NEW s, NEW t, NEW u, Grows(s, t), Grows(t, u)
    PROVE  Grows(s, u)
  BY DEF Grows, Keeps

\* Sequences of one and of two elements are sequences.
LEMMA ShortSeqs ==
    ASSUME NEW S, NEW x \in S, NEW y \in S
    PROVE  <<x>> \in Seq(S) /\ <<x, y>> \in Seq(S)
  OBVIOUS

\* What ndb_ingester_process_event pushes.
LEMMA PushesFresh ==
    ASSUME StoreOK(db), NEW i, NEW id \in Ids, NEW relay \in Relays \cup {None}
    PROVE  Pushes(i, id, relay) \in Seq(Fresh(db))
  <1> DEFINE key == KeyOf(db, id)
  <1>1. CASE key # 0
    <2>1. key \in DOMAIN db.notes /\ key \in Nat
      BY <1>1, KeyOfIs
    <2>2. relay # None => RelayMsg(key, relay) \in Fresh(db)
      BY <2>1 DEF RelayMsg, Fresh, RelayMsgs
    <2> QED BY <1>1, <2>2 DEF Pushes
  <1>2. CASE key = 0
    <2>1. ProfileMsg(id, relay) \in Fresh(db)
      BY WriterAssumption DEF ProfileMsg, NoteMsg, Fresh, NoteMsgs, NoteOK
    <2>2. NoteMsg(id, FALSE, None, FALSE, relay, 0) \in Fresh(db)
      BY DEF NoteMsg, Fresh, NoteMsgs, NoteOK
    <2>3. id \in Wraps => /\ NoteMsg(RumorOf[id], TRUE, id, FALSE, relay, 0) \in Fresh(db)
                          /\ NoteMsg(id, FALSE, None, TRUE, relay, 0) \in Fresh(db)
      BY WriterAssumption DEF NoteMsg, Fresh, NoteMsgs, NoteOK
    <2> DEFINE p == ProfileMsg(id, relay)
               n == NoteMsg(id, FALSE, None, FALSE, relay, 0)
               r == NoteMsg(RumorOf[id], TRUE, id, FALSE, relay, 0)
               w == NoteMsg(id, FALSE, None, TRUE, relay, 0)
    <2>4. \/ Pushes(i, id, relay) = <<p>>
          \/ Pushes(i, id, relay) = <<n>>
          \/ Pushes(i, id, relay) = <<r, w>> /\ id \in Wraps
      BY <1>2 DEF Pushes
    <2>5. /\ p \in Fresh(db)
          /\ n \in Fresh(db)
          /\ id \in Wraps => r \in Fresh(db) /\ w \in Fresh(db)
      BY <2>1, <2>2, <2>3
    <2> HIDE DEF p, n, r, w
    <2>6. /\ <<p>> \in Seq(Fresh(db))
          /\ <<n>> \in Seq(Fresh(db))
          /\ id \in Wraps => <<r, w>> \in Seq(Fresh(db))
      BY <2>5, ShortSeqs
    <2> QED BY <2>4, <2>6
  <1> QED BY <1>1, <1>2

-----------------------------------------------------------------------------
(* ndb_write_note *)

Entries(s) == {<<k, s.notes[k].id>> : k \in DOMAIN s.notes}

\* A store that grows keeps its entries.
LEMMA EntriesGrow ==
    ASSUME NEW s, NEW t, Grows(s, t)
    PROVE  Entries(s) \subseteq Entries(t)
  BY DEF Grows, Entries

\* The cases of ndb_write_note.
LEMMA NewKeyIs ==
    ASSUME StoreOK(txn), NEW d, NEW m \in Sendable(d, txn), m \in NoteMsgs
    PROVE  /\ NewKey(m) # 0 => Place(txn, NewKey(m), m)
           /\ NewKey(m) = 0 => KeyOf(txn, m.id) \in DOMAIN txn.notes
           /\ NewKey(m) \in Nat
  <1>0. /\ NoteOK(m)
        /\ m.over # 0 => m.over \in DOMAIN txn.notes /\ txn.notes[m.over].id = m.id
        /\ m.over \in Nat
    BY DEF Sendable, NoteMsgs, RelayMsgs, QuitMsg, MigrateMsg
  <1>1. CASE Promotes(m)
    <2> DEFINE k == KeyOf(txn, m.id)
    <2>1. m.over = 0 /\ m.rumor /\ k # 0 /\ ~txn.notes[k].rumor /\ NewKey(m) = k
      BY <1>1 DEF NewKey, Promotes, Stored
    <2>2. k \in DOMAIN txn.notes /\ txn.notes[k].id = m.id /\ k \in Nat
      BY <2>1, KeyOfIs
    <2>3. Flat => m.id \notin Wraps
      BY <1>0, <2>1 DEF NoteOK, Flat
    <2>4. MarkOK(txn.notes[k])
      BY <2>2 DEF StoreOK, Marks
    <2> QED BY <2>1, <2>2, <2>3, <2>4 DEF Place, Keeps, MarkOK
  <1>2. CASE ~Promotes(m) /\ Stored(m)
    BY <1>2, KeyOfIs DEF NewKey, Stored
  <1>3. CASE ~Promotes(m) /\ ~Stored(m) /\ m.over # 0
    <2>1. MarkOK(txn.notes[m.over]) /\ m.id \in Wraps /\ m.unwrapped
      BY <1>0, <1>3 DEF StoreOK, Marks, NoteOK
    <2>2. Flat => Keeps(txn.notes[m.over], m)
      BY <1>0, <1>3, <2>1 DEF MarkOK, Keeps
    <2> QED BY <1>0, <1>3, <2>2 DEF NewKey, Place
  <1>4. CASE ~Promotes(m) /\ ~Stored(m) /\ m.over = 0
    <2>1. \A k \in DOMAIN txn.notes : txn.notes[k].id # m.id
      BY <1>4, KeyOfIs DEF Stored
    <2>2. LastKey(txn) \in Nat
      BY LastKeyIs DEF StoreOK
    <2> QED BY <1>4, <2>1, <2>2 DEF NewKey, Place
  <1> QED BY <1>1, <1>2, <1>3, <1>4

NoteWritten(m) ==
    /\ StoreOK(AfterNote(m))
    /\ Grows(txn, AfterNote(m))
    /\ AfterNote(m).profiles = txn.profiles
    /\ NewKey(m) # 0 => /\ AfterNote(m).notes = TableWith(txn, NewKey(m), m)
                        /\ AfterNote(m).counts = Bumped(txn, m.id)
                        /\ <<NewKey(m), m.id>> \in Entries(AfterNote(m))
    /\ NewKey(m) = 0 => AfterNote(m).notes = txn.notes /\ AfterNote(m).counts = txn.counts

\* Writing a note, new, known, promoted or requeued as a mark, keeps the store
\* consistent.
LEMMA AfterNoteOK ==
    ASSUME StoreOK(txn), NEW d, NEW m \in Sendable(d, txn), m \in NoteMsgs
    PROVE  NoteWritten(m)
  <1>0. NoteLike(m)
    <2>1. NoteOK(m) /\ m.over \in Nat
      BY DEF Sendable, NoteMsgs, RelayMsgs, QuitMsg, MigrateMsg
    <2>2. MarkOK(m)
      BY <2>1 DEF NoteOK, MarkOK, Flat
    <2> QED BY <2>2 DEF NoteLike, NoteMsgs
  <1>1. CASE NewKey(m) # 0
    <2>1. Place(txn, NewKey(m), m)
      BY <1>1, NewKeyIs
    <2>2. /\ StoreOK(Put(txn, NewKey(m), m))
          /\ Put(txn, NewKey(m), m).notes = TableWith(txn, NewKey(m), m)
          /\ Put(txn, NewKey(m), m).counts = Bumped(txn, m.id)
          /\ Put(txn, NewKey(m), m).profiles = txn.profiles
          /\ Grows(txn, Put(txn, NewKey(m), m))
      BY <1>0, <2>1, PutOK
    <2>3. Shelved(txn, NewKey(m), m)
      BY <1>0, <2>1, TableWithType DEF StoreOK
    <2>4. /\ NewKey(m) \in DOMAIN Put(txn, NewKey(m), m).notes
          /\ Put(txn, NewKey(m), m).notes[NewKey(m)].id = m.id
      BY <2>2, <2>3 DEF Shelved
    <2>5. <<NewKey(m), m.id>> \in Entries(Put(txn, NewKey(m), m))
      BY <2>4 DEF Entries
    <2>6. AfterNote(m) = Put(txn, NewKey(m), m)
      BY <1>1 DEF AfterNote
    <2> QED BY <1>1, <2>2, <2>5, <2>6 DEF NoteWritten
  <1>2. CASE NewKey(m) = 0
    <2>1. KeyOf(txn, m.id) \in DOMAIN txn.notes /\ m.relay \in Relays \cup {None}
      BY <1>0, <1>2, NewKeyIs DEF NoteLike
    <2>2. AfterNote(m) = WithRelay(txn, KeyOf(txn, m.id), m.relay)
      BY <1>2 DEF AfterNote
    <2>3. /\ StoreOK(AfterNote(m))
          /\ AfterNote(m).notes = txn.notes
          /\ AfterNote(m).counts = txn.counts
          /\ AfterNote(m).profiles = txn.profiles
      BY <2>1, <2>2, WithRelayOK
    <2> QED BY <1>2, <2>3 DEF NoteWritten, Grows, Keeps
  <1> QED BY <1>1, <1>2

\* ndb_write_profile adds a record that names the note, or none.
LEMMA AfterProfileOK ==
    ASSUME StoreOK(txn), NEW d, NEW m \in Sendable(d, txn), m \in NoteMsgs
    PROVE  /\ StoreOK(AfterProfile(m))
           /\ AfterProfile(m).notes = AfterNote(m).notes
           /\ AfterProfile(m).counts = AfterNote(m).counts
  <1> DEFINE a == AfterNote(m)
             p == [id |-> m.id, note |-> IF Announces(m) THEN NewKey(m) ELSE 0]
             ps == Append(a.profiles, p)
  <1>1. NoteWritten(m)
    BY AfterNoteOK
  <1>2. NewKey(m) \in Nat /\ m.id \in Ids
    BY NewKeyIs DEF NoteMsgs
  <1>3. p \in [id : Ids, note : Nat]
    BY <1>2
  <1>4. p.note # 0 => p.note \in DOMAIN a.notes /\ a.notes[p.note].id = p.id
    BY <1>1 DEF Announces, NoteWritten, Entries
  <1>5. a \in Stores /\ IndexMatches(a) /\ Linked(a) /\ Marks(a)
    BY <1>1 DEF NoteWritten, StoreOK
  <1> HIDE DEF p, a
  <1>6. a.profiles \in Seq([id : Ids, note : Nat])
    BY <1>5 DEF Stores
  <1>7. /\ ps \in Seq([id : Ids, note : Nat])
        /\ Len(ps) = Len(a.profiles) + 1
        /\ \A i \in 1..Len(a.profiles) : ps[i] = a.profiles[i]
        /\ ps[Len(ps)] = p
    BY <1>3, <1>6
  <1> HIDE DEF ps
  <1> DEFINE t == [a EXCEPT !.profiles = ps]
  <1>8. /\ t \in Stores /\ t.notes = a.notes /\ t.ids = a.ids /\ t.relays = a.relays
        /\ t.counts = a.counts /\ t.profiles = ps
    BY <1>5, <1>7 DEF Stores
  <1>9. AfterProfile(m) = t
    BY DEF AfterProfile, p, a, ps
  <1> HIDE DEF t
  <1>10. IndexMatches(t)
    BY <1>5, <1>8 DEF IndexMatches
  <1>11. Linked(t)
    <2> SUFFICES ASSUME NEW i \in 1..Len(ps), ps[i].note # 0
                 PROVE  ps[i].note \in DOMAIN a.notes /\ a.notes[ps[i].note].id = ps[i].id
      BY <1>8 DEF Linked
    <2>1. CASE i = Len(ps)
      BY <1>4, <1>7, <2>1
    <2>2. CASE i # Len(ps)
      <3>1. i \in 1..Len(a.profiles) /\ ps[i] = a.profiles[i]
        BY <1>6, <1>7, <2>2
      <3> QED BY <1>5, <3>1 DEF Linked
    <2> QED BY <2>1, <2>2
  <1>12. Marks(t)
    BY <1>5, <1>8 DEF Marks
  <1> QED BY <1>8, <1>9, <1>10, <1>11, <1>12 DEF StoreOK, a

-----------------------------------------------------------------------------
(* The invariant *)

\* What the writer's keys refer to.
Cur == IF stage = "write" THEN txn ELSE db

StoreInv ==
    /\ StoreOK(db)
    /\ StoreOK(txn)
    /\ stage = "write" => Grows(db, txn)

QueueInv ==
    /\ inbox \in Seq(Sendable(db, Cur))
    /\ batch \in Seq(Sendable(db, Cur))
    /\ Len(inbox) <= InboxSize
    /\ Len(batch) <= BatchSize
    /\ hand \in [Ingesters -> Seq(Fresh(db))]

\* No note but a gift wrap is announced twice.
Once(s) ==
    \A i, j \in 1..Len(s) : (s[i][2] = s[j][2] /\ s[i][2] \notin Wraps) => i = j

\* What was announced, and what the batch will announce.
HearInv ==
    /\ announced \in Seq(Entries(db))
    /\ Once(announced)
    /\ stage = "begin" => written = <<>>
    /\ stage = "write" => written \in Seq(Entries(txn)) /\ Once(announced \o written)

RestInv ==
    /\ stage \in {"pop", "begin", "write", "exit"}
    /\ done \in BOOLEAN
    /\ keyed \subseteq Ingesters
    /\ owner \in {"running", "joining", "joined", "gone"}
    /\ dispatched \subseteq {k \in DOMAIN db.notes : db.notes[k].id \in Wraps}
    /\ used \in [events : Nat, scans : Nat, failures : Nat, begins : Nat, restarts : Nat]

WInv == StoreInv /\ QueueInv /\ HearInv /\ RestInv

\* The invariant holds in a new database.
LEMMA InitWInv == Init => WInv
  <1> SUFFICES ASSUME Init PROVE WInv
    OBVIOUS
  <1>1. StoreInv
    BY EmptyOK DEF Init, VolatileInit, StoreInv
  <1>2. QueueInv
    <2>1. MigrateMsg \in Sendable(db, Cur)
      BY DEF Sendable
    <2> HIDE DEF MigrateMsg, Sendable
    <2>2. <<MigrateMsg>> \in Seq(Sendable(db, Cur))
      BY <2>1
    <2>3. <<>> \in Seq(Sendable(db, Cur)) /\ <<>> \in Seq(Fresh(db)) /\ Len(<<>>) = 0 /\ Len(<<MigrateMsg>>) = 1
      OBVIOUS
    <2> QED BY <2>2, <2>3, WriterAssumption DEF Init, VolatileInit, QueueInv
  <1>3. HearInv
    BY DEF Init, VolatileInit, HearInv, Once
  <1>4. RestInv
    BY DEF Init, VolatileInit, RestInv
  <1> QED BY <1>1, <1>2, <1>3, <1>4 DEF WInv

-----------------------------------------------------------------------------
(* Ingester threads *)

\* prot_queue_push onto an inbox that has room.
LEMMA RoomFor ==
    ASSUME NEW S, inbox \in Seq(S), NEW m \in S, Len(inbox) <= InboxSize
    PROVE  Len(inbox) < InboxSize => Append(inbox, m) \in Seq(S) /\ Len(Append(inbox, m)) <= InboxSize
  BY AppendProperties, WriterAssumption

\* With the writer at rest, only the queues and the rest need a look.
LEMMA IngestersKeep ==
    ASSUME WInv, UNCHANGED writerVars
    PROVE  StoreInv' /\ HearInv' /\ Cur' = Cur /\ db' = db /\ batch' = batch
  BY DEF WInv, StoreInv, HearInv, writerVars, Cur

\* An ingester decides from the committed store what to send.
LEMMA IngestEventKeeps ==
    ASSUME WInv, NEW i \in Ingesters, NEW id \in Ids, NEW relay \in Relays \cup {None},
           IngestEvent(i, id, relay)
    PROVE  WInv'
  <1> DEFINE h == hand[i] \o Pushes(i, id, relay)
  <1>1. Pushes(i, id, relay) \in Seq(Fresh(db))
    BY PushesFresh DEF WInv, StoreInv
  <1>2. h \in Seq(Fresh(db))
    BY <1>1, ConcatProperties DEF WInv, QueueInv
  <1>3. hand' = [hand EXCEPT ![i] = h]
    BY DEF IngestEvent
  <1> HIDE DEF h
  <1>4. StoreInv' /\ HearInv' /\ Cur' = Cur /\ db' = db /\ batch' = batch
    BY IngestersKeep DEF IngestEvent
  <1>5. QueueInv'
    BY <1>2, <1>3, <1>4 DEF WInv, QueueInv, IngestEvent
  <1>6. RestInv'
    BY <1>4 DEF WInv, RestInv, IngestEvent, Spend, writerVars
  <1> QED BY <1>4, <1>5, <1>6 DEF WInv

\* A push appends one message or loses it.
LEMMA PushToWriterKeeps ==
    ASSUME WInv, NEW i \in Ingesters, PushToWriter(i)
    PROVE  WInv'
  <1>0. hand[i] \in Seq(Fresh(db)) /\ hand[i] # <<>> /\ hand \in [Ingesters -> Seq(Fresh(db))]
    BY DEF WInv, QueueInv, PushToWriter
  <1>1. Head(hand[i]) \in Fresh(db) /\ Tail(hand[i]) \in Seq(Fresh(db))
    BY <1>0, HeadTailProperties
  <1>2. Head(hand[i]) \in Sendable(db, Cur)
    BY <1>1, FreshSendable
  <1>3. inbox' \in Seq(Sendable(db, Cur)) /\ Len(inbox') <= InboxSize
    BY <1>2, RoomFor DEF WInv, QueueInv, PushToWriter
  <1>4. StoreInv' /\ HearInv' /\ Cur' = Cur /\ db' = db /\ batch' = batch
    BY IngestersKeep DEF PushToWriter
  <1>5. QueueInv'
    BY <1>0, <1>1, <1>3, <1>4 DEF WInv, QueueInv, PushToWriter
  <1>6. RestInv'
    BY <1>4 DEF WInv, RestInv, PushToWriter, writerVars
  <1> QED BY <1>4, <1>5, <1>6 DEF WInv

\* A key changes what an ingester can open and nothing else.
LEMMA AddKeyKeeps ==
    ASSUME WInv, NEW i \in Ingesters, AddKey(i)
    PROVE  WInv'
  <1>4. StoreInv' /\ HearInv' /\ Cur' = Cur /\ db' = db /\ batch' = batch
    BY IngestersKeep DEF AddKey
  <1>5. QueueInv'
    BY <1>4 DEF WInv, QueueInv, AddKey
  <1>6. RestInv'
    BY <1>4 DEF WInv, RestInv, AddKey, writerVars
  <1> QED BY <1>4, <1>5, <1>6 DEF WInv

\* A scan dispatches keys of notes that are committed.
LEMMA ProcessGiftwrapsKeeps ==
    ASSUME WInv, ProcessGiftwraps
    PROVE  WInv'
  <1>4. StoreInv' /\ HearInv' /\ Cur' = Cur /\ db' = db /\ batch' = batch
    BY IngestersKeep DEF ProcessGiftwraps
  <1>5. QueueInv'
    BY <1>4 DEF WInv, QueueInv, ProcessGiftwraps
  <1>6. dispatched' \subseteq {k \in DOMAIN db.notes : db.notes[k].id \in Wraps}
    BY DEF WInv, RestInv, ProcessGiftwraps
  <1>7. RestInv'
    BY <1>4, <1>6 DEF WInv, RestInv, ProcessGiftwraps, Spend, writerVars
  <1> QED BY <1>4, <1>5, <1>7 DEF WInv

\* Reprocessing sends the rumor of a committed wrap.
LEMMA ReprocessGiftwrapKeeps ==
    ASSUME WInv, NEW i \in Ingesters, NEW k \in dispatched, ReprocessGiftwrap(i, k)
    PROVE  WInv'
  <1> DEFINE w == db.notes[k].id
             m == NoteMsg(RumorOf[w], TRUE, w, FALSE, None, 0)
             h == Append(hand[i], m)
  <1>1. w \in Wraps
    BY DEF WInv, RestInv
  <1>2. m \in Fresh(db)
    BY <1>1, WriterAssumption DEF NoteMsg, Fresh, NoteMsgs, NoteOK
  <1>3. hand' = IF i \in keyed THEN [hand EXCEPT ![i] = h] ELSE hand
    BY DEF ReprocessGiftwrap
  <1> HIDE DEF m
  <1>4. h \in Seq(Fresh(db))
    BY <1>2 DEF WInv, QueueInv
  <1> HIDE DEF h
  <1>5. StoreInv' /\ HearInv' /\ Cur' = Cur /\ db' = db /\ batch' = batch
    BY IngestersKeep DEF ReprocessGiftwrap
  <1>6. QueueInv'
    BY <1>3, <1>4, <1>5 DEF WInv, QueueInv, ReprocessGiftwrap
  <1>7. RestInv'
    BY <1>5 DEF WInv, RestInv, ReprocessGiftwrap, writerVars
  <1> QED BY <1>5, <1>6, <1>7 DEF WInv

\* The quit message is the last one pushed.
LEMMA PushQuitKeeps ==
    ASSUME WInv, PushQuit
    PROVE  WInv'
  <1>1. QuitMsg \in Sendable(db, Cur)
    BY DEF Sendable
  <1>2. inbox' \in Seq(Sendable(db, Cur)) /\ Len(inbox') <= InboxSize
    BY <1>1, RoomFor DEF WInv, QueueInv, PushQuit
  <1>4. StoreInv' /\ HearInv' /\ Cur' = Cur /\ db' = db /\ batch' = batch
    BY IngestersKeep DEF PushQuit
  <1>5. QueueInv'
    BY <1>2, <1>4 DEF WInv, QueueInv, PushQuit
  <1>6. RestInv'
    BY <1>4 DEF WInv, RestInv, PushQuit, writerVars
  <1> QED BY <1>4, <1>5, <1>6 DEF WInv

\* The join leaves the store alone.
LEMMA JoinKeeps ==
    ASSUME WInv, Join
    PROVE  WInv'
  <1>4. StoreInv' /\ HearInv' /\ Cur' = Cur /\ db' = db /\ batch' = batch
    BY IngestersKeep DEF Join
  <1>5. QueueInv'
    BY <1>4 DEF WInv, QueueInv, Join
  <1>6. RestInv'
    BY <1>4 DEF WInv, RestInv, Join, writerVars
  <1> QED BY <1>4, <1>5, <1>6 DEF WInv

\* What is left of it all is what was committed.
LEMMA RestartKeeps ==
    ASSUME WInv, Restart
    PROVE  WInv'
  <1>1. StoreInv'
    BY EmptyOK DEF WInv, StoreInv, Restart
  <1>2. QueueInv'
    <2>1. MigrateMsg \in Sendable(db, db)
      BY DEF Sendable
    <2>2. Cur' = db
      BY DEF Cur, Restart
    <2>3. /\ <<MigrateMsg>> \in Seq(Sendable(db, db)) /\ Len(<<MigrateMsg>>) = 1
          /\ <<>> \in Seq(Sendable(db, db)) /\ <<>> \in Seq(Fresh(db)) /\ Len(<<>>) = 0
      BY <2>1
    <2> QED BY <2>2, <2>3, WriterAssumption DEF QueueInv, Restart
  <1>3. HearInv'
    BY DEF WInv, HearInv, Restart
  <1>4. RestInv'
    <2>1. used' \in [events : Nat, scans : Nat, failures : Nat, begins : Nat, restarts : Nat]
      BY DEF WInv, RestInv, Restart, Spend
    <2> QED BY <2>1 DEF RestInv, Restart
  <1> QED BY <1>1, <1>2, <1>3, <1>4 DEF WInv

-----------------------------------------------------------------------------
(* The writer thread *)

\* Taking a batch splits the inbox.
LEMMA PopKeeps ==
    ASSUME WInv, Pop
    PROVE  WInv'
  <1>1. StoreInv' /\ Cur' = Cur
    BY DEF WInv, StoreInv, Pop, Cur
  <1>2. QueueInv'
    <2> DEFINE S == Sendable(db, Cur)
    <2>1. PICK n \in 1..Len(inbox) : /\ n <= BatchSize
                                     /\ batch' = SubSeq(inbox, 1, n)
                                     /\ inbox' = SubSeq(inbox, n + 1, Len(inbox))
      BY DEF Pop
    <2>2. inbox \in Seq(S) /\ Len(inbox) \in Nat /\ \A j \in 1..Len(inbox) : inbox[j] \in S
      BY DEF WInv, QueueInv
    <2> HIDE DEF S
    <2>3. batch' \in Seq(S) /\ Len(batch') = n
      BY <2>1, <2>2, SubSeqProperties
    <2>4. inbox' \in Seq(S) /\ Len(inbox') <= Len(inbox)
      BY <2>1, <2>2, SubSeqProperties
    <2> QED BY <1>1, <2>1, <2>2, <2>3, <2>4, WriterAssumption
            DEF WInv, QueueInv, Pop, ingestVars, S
  <1>3. HearInv'
    BY DEF WInv, HearInv, Pop
  <1>4. RestInv'
    BY DEF WInv, RestInv, Pop, ingestVars
  <1> QED BY <1>1, <1>2, <1>3, <1>4 DEF WInv

\* A write transaction begins with the committed store.
LEMMA TxnBeginKeeps ==
    ASSUME WInv, TxnBegin
    PROVE  WInv'
  <1>1. StoreInv'
    BY GrowsSelf DEF WInv, StoreInv, TxnBegin
  <1>2. QueueInv'
    <2>1. Cur' = Cur /\ db' = db
      BY DEF TxnBegin, Cur
    <2> QED BY <2>1 DEF WInv, QueueInv, TxnBegin, ingestVars
  <1>3. HearInv'
    <2>1. announced \o <<>> = announced
      BY ConcatEmptySeq DEF WInv, HearInv
    <2> QED BY <2>1 DEF WInv, HearInv, TxnBegin
  <1>4. RestInv'
    BY DEF WInv, RestInv, TxnBegin, ingestVars
  <1> QED BY <1>1, <1>2, <1>3, <1>4 DEF WInv

\* A note with a key is the mark of a wrap, so Requeue's message is sound.
LEMMA RequeueOK ==
    ASSUME StoreOK(txn), StoreOK(txn'), Grows(txn, txn'), NEW d,
           inbox \in Seq(Sendable(d, txn)), Len(inbox) <= InboxSize,
           NEW m \in Sendable(d, txn), m \in NoteMsgs
    PROVE  Requeue(m) \in Seq(Sendable(d, txn')) /\ Len(Requeue(m)) <= InboxSize
  <1> DEFINE k == KeyOf(txn, m.wrap)
             q == NoteMsg(m.wrap, txn.notes[k].rumor, None, TRUE, m.relay, k)
  <1>1. Sendable(d, txn) \subseteq Sendable(d, txn')
    BY SendableGrows, GrowsSelf
  <1>2. inbox \in Seq(Sendable(d, txn'))
    BY <1>1, SeqMonotonic
  <1>3. ASSUME m.rumor, k # 0
        PROVE  q \in Sendable(d, txn')
    <2>1. NoteOK(m) /\ m.relay \in Relays \cup {None} /\ m.over \in Nat
      BY DEF Sendable, NoteMsgs, RelayMsgs, QuitMsg, MigrateMsg
    <2>2. k \in DOMAIN txn.notes /\ txn.notes[k].id = m.wrap /\ k \in Nat
      BY <1>3, KeyOfIs
    <2>3. txn.notes[k] \in Records
      BY <2>2, TableKeys DEF StoreOK
    <2>4. m.wrap # None
      BY <2>2, <2>3, WriterAssumption DEF Records
    <2>5. m.wrap \in Wraps
      BY <1>3, <2>1, <2>4 DEF NoteOK
    <2>6. k \in DOMAIN txn'.notes /\ txn'.notes[k].id = m.wrap
      BY <2>2 DEF Grows
    <2>7. m.wrap \in Ids /\ txn.notes[k].rumor \in BOOLEAN
      BY <2>3, <2>5, WriterAssumption DEF Records
    <2>8. Flat => ~txn.notes[k].rumor
      BY <2>2, <2>5 DEF StoreOK, Marks, MarkOK
    <2> HIDE DEF k
    <2> QED BY <1>3, <2>1, <2>2, <2>5, <2>6, <2>7, <2>8 DEF NoteMsg, Sendable, NoteMsgs, NoteOK
  <1>4. \/ Requeue(m) = inbox
        \/ Requeue(m) = Append(inbox, q) /\ m.rumor /\ k # 0 /\ Len(inbox) < InboxSize
    BY DEF Requeue
  <1> HIDE DEF k, q
  <1> QED BY <1>2, <1>3, <1>4, RoomFor

\* A note that is announced is one the batch did not know, or a wrap.
LEMMA AnnouncesNew ==
    ASSUME StoreOK(txn), NEW d, NEW m \in Sendable(d, txn), m \in NoteMsgs, Announces(m)
    PROVE  m.id \in Wraps \/ \A k \in DOMAIN txn.notes : txn.notes[k].id # m.id
  <1>0. NoteOK(m)
    BY DEF Sendable, NoteMsgs, RelayMsgs, QuitMsg, MigrateMsg
  <1>1. CASE m.over # 0
    BY <1>0, <1>1 DEF NoteOK
  <1>2. CASE m.over = 0
    <2>1. KeyOf(txn, m.id) = 0
      BY <1>2 DEF Announces, NewKey, Stored
    <2> QED BY <2>1, KeyOfIs
  <1> QED BY <1>1, <1>2

\* Announcing a note not announced before, or a wrap again, repeats nothing.
LEMMA OnceAppend ==
    ASSUME NEW S, NEW s \in Seq(S), Once(s), NEW x \in S,
           x[2] \in Wraps \/ \A i \in 1..Len(s) : s[i][2] # x[2]
    PROVE  Once(Append(s, x))
  <1> DEFINE t == Append(s, x)
  <1>1. /\ Len(t) = Len(s) + 1 /\ Len(s) \in Nat
        /\ \A i \in 1..Len(s) : t[i] = s[i] /\ s[i] \in S
        /\ t[Len(s) + 1] = x
    BY AppendProperties, LenProperties, ElementOfSeq
  <1> HIDE DEF t
  <1> SUFFICES ASSUME NEW i \in 1..Len(t), NEW j \in 1..Len(t), t[i][2] = t[j][2], t[i][2] \notin Wraps
               PROVE  i = j
    BY DEF Once, t
  <1>2. CASE i \in 1..Len(s) /\ j \in 1..Len(s)
    BY <1>1, <1>2 DEF Once
  <1>3. CASE i = Len(s) + 1 \/ j = Len(s) + 1
    BY <1>1, <1>3
  <1> QED BY <1>1, <1>2, <1>3

\* What a step of the writer owes: the store grows, the queues stay sound.
LEMMA WriteNoteStore ==
    ASSUME WInv, NEW type \in {"note", "profile"}, WriteNote(type)
    PROVE  /\ Head(batch) \in Sendable(db, txn)
           /\ Head(batch) \in NoteMsgs
           /\ StoreOK(txn')
           /\ Grows(txn, txn')
           /\ txn'.notes = AfterNote(Head(batch)).notes
           /\ txn'.counts = AfterNote(Head(batch)).counts
  <1> DEFINE m == Head(batch)
  <1>1. stage = "write" /\ batch # <<>> /\ m.type = type
    BY DEF WriteNote, Next1
  <1>2. batch \in Seq(Sendable(db, txn))
    BY <1>1 DEF WInv, QueueInv, Cur
  <1>3. m \in Sendable(db, txn)
    BY <1>1, <1>2, HeadTailProperties
  <1>4. m \in NoteMsgs
    BY <1>1, <1>3, SendableByType
  <1>5. StoreOK(txn)
    BY DEF WInv, StoreInv
  <1>6. NoteWritten(m)
    BY <1>3, <1>4, <1>5, AfterNoteOK
  <1>7. /\ StoreOK(AfterProfile(m))
        /\ AfterProfile(m).notes = AfterNote(m).notes
        /\ AfterProfile(m).counts = AfterNote(m).counts
    BY <1>3, <1>4, <1>5, AfterProfileOK
  <1>8. txn' = AfterProfile(m) \/ txn' = AfterNote(m)
    BY DEF WriteNote
  <1> QED BY <1>3, <1>4, <1>6, <1>7, <1>8 DEF NoteWritten, Grows

\* A written note is queued for announcement only if it was not stored before.
LEMMA WriteNoteHears ==
    ASSUME WInv, NEW type \in {"note", "profile"}, WriteNote(type)
    PROVE  HearInv'
  <1> DEFINE m == Head(batch)
             x == <<NewKey(m), m.id>>
  <1>0. /\ m \in Sendable(db, txn) /\ m \in NoteMsgs
        /\ Grows(txn, txn') /\ StoreOK(txn) /\ Grows(db, txn)
        /\ txn'.notes = AfterNote(m).notes
    BY WriteNoteStore DEF WInv, StoreInv, WriteNote, Next1
  <1>1. /\ db' = db /\ announced' = announced /\ stage' = stage /\ stage = "write"
        /\ written' = IF Announces(m) THEN Append(written, x) ELSE written
    BY DEF WriteNote, Next1
  <1>2. /\ announced \in Seq(Entries(db)) /\ Once(announced)
        /\ written \in Seq(Entries(txn)) /\ Once(announced \o written)
    BY <1>1 DEF WInv, HearInv
  <1>3. announced \in Seq(Entries(txn)) /\ Entries(txn) \subseteq Entries(txn')
    BY <1>0, <1>2, EntriesGrow, SeqMonotonic
  <1>4. /\ written \in Seq(Entries(txn')) /\ announced \in Seq(Entries(txn'))
        /\ announced \o written \in Seq(Entries(txn))
    BY <1>2, <1>3, SeqMonotonic, ConcatProperties
  <1>5. CASE ~Announces(m)
    BY <1>1, <1>2, <1>4, <1>5 DEF HearInv
  <1>6. CASE Announces(m)
    <2>1. NewKey(m) # 0
      BY <1>6 DEF Announces
    <2>2. x \in Entries(txn')
      <3>1. NoteWritten(m)
        BY <1>0, AfterNoteOK
      <3>2. x \in Entries(AfterNote(m))
        BY <2>1, <3>1 DEF NoteWritten
      <3> QED BY <1>0, <3>2 DEF Entries
    <2>3. x[2] \in Wraps \/ \A i \in 1..Len(announced \o written) : (announced \o written)[i][2] # x[2]
      <3>1. m.id \in Wraps \/ \A k \in DOMAIN txn.notes : txn.notes[k].id # m.id
        BY <1>0, <1>6, AnnouncesNew
      <3>2. \A e \in Entries(txn) : \E k \in DOMAIN txn.notes : e[2] = txn.notes[k].id
        BY DEF Entries
      <3>3. \A i \in 1..Len(announced \o written) : (announced \o written)[i] \in Entries(txn)
        BY <1>4, ElementOfSeq
      <3> QED BY <3>1, <3>2, <3>3
    <2> HIDE DEF x
    <2>4. Append(written, x) \in Seq(Entries(txn'))
      BY <1>4, <2>2
    <2>5. announced \o written \in Seq(Entries(txn'))
      BY <1>3, <1>4, SeqMonotonic
    <2>6. Once(Append(announced \o written, x))
      BY <1>2, <2>2, <2>3, <2>5, OnceAppend
    <2>7. Append(announced \o written, x) = announced \o Append(written, x)
      BY <1>4, <2>2
    <2> QED BY <1>1, <1>2, <1>6, <2>4, <2>6, <2>7 DEF HearInv
  <1> QED BY <1>5, <1>6

\* Writing a note keeps the transaction consistent and a growth of the committed store.
LEMMA WriteNoteKeeps ==
    ASSUME WInv, NEW type \in {"note", "profile"}, WriteNote(type)
    PROVE  WInv'
  <1> DEFINE m == Head(batch)
  <1>0. /\ m \in Sendable(db, txn) /\ m \in NoteMsgs
        /\ StoreOK(txn') /\ Grows(txn, txn')
    BY WriteNoteStore
  <1>1. /\ stage = "write" /\ stage' = "write" /\ batch # <<>> /\ batch' = Tail(batch)
        /\ inbox' = Requeue(m) /\ db' = db /\ Cur = txn /\ Cur' = txn'
        /\ StoreOK(txn) /\ StoreOK(db) /\ Grows(db, txn)
    BY DEF WriteNote, Next1, Cur, WInv, StoreInv
  <1>2. StoreInv'
    BY <1>0, <1>1, GrowsTrans DEF StoreInv
  <1>3. QueueInv'
    <2>1. /\ inbox \in Seq(Sendable(db, txn)) /\ Len(inbox) <= InboxSize
          /\ batch \in Seq(Sendable(db, txn)) /\ Len(batch) <= BatchSize
          /\ hand \in [Ingesters -> Seq(Fresh(db))]
      BY <1>1 DEF WInv, QueueInv
    <2>2. inbox' \in Seq(Sendable(db, txn')) /\ Len(inbox') <= InboxSize
      BY <1>0, <1>1, <2>1, RequeueOK
    <2>3. Tail(batch) \in Seq(Sendable(db, txn)) /\ Len(Tail(batch)) <= BatchSize
      BY <1>1, <2>1, HeadTailProperties, LenProperties, WriterAssumption
    <2>4. Sendable(db, txn) \subseteq Sendable(db, txn')
      BY <1>0, SendableGrows, GrowsSelf
    <2>5. batch' \in Seq(Sendable(db, txn'))
      BY <1>1, <2>3, <2>4, SeqMonotonic
    <2>6. hand' = hand
      BY DEF WriteNote, ingestVars
    <2> QED BY <1>1, <2>1, <2>2, <2>3, <2>5, <2>6 DEF QueueInv
  <1>4. HearInv'
    BY WriteNoteHears
  <1>5. RestInv'
    BY DEF WInv, RestInv, WriteNote, Next1, ingestVars
  <1> QED BY <1>2, <1>3, <1>4, <1>5 DEF WInv

\* The steps that only take a message and leave the notes alone.
LEMMA TakeKeeps ==
    ASSUME WInv, stage = "write", batch # <<>>, batch' = Tail(batch),
           StoreOK(txn'), txn'.notes = txn.notes, done' \in BOOLEAN,
           UNCHANGED <<db, inbox, stage, written, announced, ingestVars, used>>
    PROVE  WInv'
  <1>1. Grows(txn, txn') /\ Grows(db, txn') /\ Cur = txn /\ Cur' = txn' /\ Entries(txn') = Entries(txn)
    BY DEF WInv, StoreInv, Grows, Keeps, Cur, Entries
  <1>2. StoreInv'
    BY <1>1 DEF WInv, StoreInv
  <1>3. QueueInv'
    <2>1. /\ inbox \in Seq(Sendable(db, txn)) /\ batch \in Seq(Sendable(db, txn))
          /\ Len(inbox) <= InboxSize /\ Len(batch) <= BatchSize
      BY <1>1 DEF WInv, QueueInv
    <2>2. Tail(batch) \in Seq(Sendable(db, txn)) /\ Len(Tail(batch)) <= BatchSize
      BY <2>1, HeadTailProperties, LenProperties, WriterAssumption
    <2>3. Sendable(db, txn) \subseteq Sendable(db, txn')
      BY <1>1, SendableGrows, GrowsSelf
    <2>4. Tail(batch) \in Seq(Sendable(db, txn')) /\ inbox \in Seq(Sendable(db, txn'))
      BY <2>1, <2>2, <2>3, SeqMonotonic
    <2> QED BY <1>1, <2>1, <2>2, <2>4 DEF WInv, QueueInv, ingestVars
  <1>4. HearInv'
    BY <1>1 DEF WInv, HearInv
  <1>5. RestInv'
    BY DEF WInv, RestInv, ingestVars
  <1> QED BY <1>2, <1>3, <1>4, <1>5 DEF WInv

\* Writing a relay adds an index entry for a stored note.
LEMMA WriteRelayKeeps ==
    ASSUME WInv, WriteRelay
    PROVE  WInv'
  <1> DEFINE m == Head(batch)
  <1>1. stage = "write" /\ batch # <<>> /\ m.type = "relay" /\ Cur = txn
    BY DEF WriteRelay, Next1, Cur
  <1>2. m \in Sendable(db, txn)
    BY <1>1, HeadTailProperties DEF WInv, QueueInv
  <1>3. m.key \in DOMAIN db.notes /\ m.relay \in Relays
    BY <1>1, <1>2 DEF Sendable, NoteMsgs, RelayMsgs, QuitMsg, MigrateMsg
  <1>4. m.key \in DOMAIN txn.notes /\ StoreOK(txn)
    BY <1>1, <1>3 DEF WInv, StoreInv, Grows
  <1>5. txn' = WithRelay(txn, m.key, m.relay)
    BY DEF WriteRelay
  <1>6. StoreOK(txn') /\ txn'.notes = txn.notes
    BY <1>3, <1>4, <1>5, WithRelayOK
  <1> QED BY <1>1, <1>6, TakeKeeps DEF WriteRelay, WInv, RestInv

\* The migration message sets the version and changes no note.
LEMMA MigrateKeeps ==
    ASSUME WInv, Migrate
    PROVE  WInv'
  <1>1. txn \in Stores /\ IndexMatches(txn) /\ Linked(txn) /\ Marks(txn)
    BY DEF WInv, StoreInv, StoreOK
  <1>2. /\ txn' \in Stores /\ txn'.notes = txn.notes /\ txn'.ids = txn.ids
        /\ txn'.relays = txn.relays /\ txn'.profiles = txn.profiles
    BY <1>1 DEF Migrate, Stores
  <1>3. StoreOK(txn')
    BY <1>1, <1>2 DEF StoreOK, IndexMatches, Linked, Marks
  <1> QED BY <1>2, <1>3, TakeKeeps DEF Migrate, Next1, WInv, RestInv

\* The quit is remembered until after the commit.
LEMMA TakeQuitKeeps ==
    ASSUME WInv, TakeQuit
    PROVE  WInv'
  BY TakeKeeps DEF TakeQuit, Next1, WInv, StoreInv

\* A transaction that cannot begin costs its batch, and nothing was queued in it.
LEMMA BeginFailsKeeps ==
    ASSUME WInv, TxnBeginFails
    PROVE  WInv'
  <1>1. /\ UNCHANGED <<db, txn, inbox, done, written, announced, ingestVars>>
        /\ stage = "begin" /\ stage' = "pop" /\ batch' = <<>> /\ Cur = db /\ Cur' = db
    BY DEF TxnBeginFails, Cur
  <1>2. StoreInv'
    BY <1>1 DEF WInv, StoreInv
  <1>3. QueueInv'
    <2>1. <<>> \in Seq(Sendable(db, db)) /\ Len(<<>>) = 0
      OBVIOUS
    <2> QED BY <1>1, <2>1, WriterAssumption DEF WInv, QueueInv, ingestVars
  <1>4. HearInv'
    BY <1>1 DEF WInv, HearInv
  <1>5. used' \in [events : Nat, scans : Nat, failures : Nat, begins : Nat, restarts : Nat]
    BY DEF TxnBeginFails, Spend, WInv, RestInv
  <1>6. RestInv'
    BY <1>1, <1>5 DEF WInv, RestInv, ingestVars
  <1> QED BY <1>2, <1>3, <1>4, <1>6 DEF WInv

\* A transaction that is given up: the keys queued in it are those of wraps, and
\* either there are none or commits and migrations do not fail.
LEMMA FailureKeeps ==
    ASSUME WInv, Sound, MigrateFails \/ CommitFails
    PROVE  WInv'
  <1>1. Wraps = {}
    <2>1. used.failures \in Nat
      BY DEF WInv, RestInv
    <2>2. used["failures"] < MaxFailures
      BY DEF MigrateFails, CommitFails, Spend
    <2>3. MaxFailures # 0
      BY <2>1, <2>2
    <2> QED BY <2>3 DEF Sound
  <1>2. UNCHANGED <<db, txn, inbox, done, written, announced, ingestVars>>
    BY DEF MigrateFails, CommitFails
  <1>3. stage' \in {"pop", "exit"} /\ batch' = <<>>
    BY DEF MigrateFails, CommitFails, Loop
  <1>4. used' \in [events : Nat, scans : Nat, failures : Nat, begins : Nat, restarts : Nat]
    BY DEF MigrateFails, CommitFails, Spend, WInv, RestInv
  <1>5. StoreInv'
    BY <1>2, <1>3 DEF WInv, StoreInv
  <1>6. QueueInv'
    <2>1. Cur' = db
      BY <1>2, <1>3 DEF Cur
    <2>2. inbox \in Seq(Sendable(db, Cur)) /\ Len(inbox) <= InboxSize
      BY DEF WInv, QueueInv
    <2>3. inbox \in Seq(Sendable(db, db))
      BY <1>1, <2>2, SendableNoWraps, SeqMonotonic
    <2>4. <<>> \in Seq(Sendable(db, db)) /\ Len(<<>>) = 0
      OBVIOUS
    <2> QED BY <1>2, <1>3, <2>1, <2>2, <2>3, <2>4, WriterAssumption DEF WInv, QueueInv, ingestVars
  <1>7. HearInv'
    BY <1>2, <1>3 DEF WInv, HearInv
  <1>8. RestInv'
    BY <1>2, <1>3, <1>4 DEF WInv, RestInv, ingestVars
  <1> QED BY <1>5, <1>6, <1>7, <1>8 DEF WInv

\* A commit publishes the transaction and announces what it wrote; a failed one restores
\* the committed store.
LEMMA CommitKeeps ==
    ASSUME WInv, Commit
    PROVE  WInv'
  <1>1. /\ stage = "write" /\ batch = <<>> /\ db' = txn /\ announced' = announced \o written
        /\ stage' \in {"pop", "exit"} /\ Cur = txn /\ Cur' = txn
        /\ UNCHANGED <<txn, inbox, batch, done, written, ingestVars, used>>
    BY DEF Commit, Loop, Cur
  <1>2. StoreOK(txn) /\ Grows(db, txn)
    BY <1>1 DEF WInv, StoreInv
  <1>3. StoreInv'
    BY <1>1, <1>2 DEF StoreInv
  <1>4. QueueInv'
    <2>1. Sendable(db, txn) \subseteq Sendable(txn, txn) /\ Fresh(db) \subseteq Fresh(txn)
      BY <1>2, SendableGrows, GrowsSelf
    <2>2. /\ inbox \in Seq(Sendable(db, txn)) /\ hand \in [Ingesters -> Seq(Fresh(db))]
          /\ Len(inbox) <= InboxSize /\ Len(batch) <= BatchSize /\ batch \in Seq(Sendable(db, txn))
      BY <1>1 DEF WInv, QueueInv
    <2>3. inbox \in Seq(Sendable(txn, txn)) /\ batch \in Seq(Sendable(txn, txn))
      BY <2>1, <2>2, SeqMonotonic
    <2>4. \A i \in Ingesters : hand[i] \in Seq(Fresh(txn))
      BY <2>1, <2>2, SeqMonotonic
    <2>5. hand \in [Ingesters -> Seq(Fresh(txn))]
      BY <2>2, <2>4
    <2> QED BY <1>1, <2>2, <2>3, <2>5 DEF QueueInv, ingestVars
  <1>5. HearInv'
    <2>1. /\ announced \in Seq(Entries(db)) /\ written \in Seq(Entries(txn))
          /\ Once(announced \o written)
      BY <1>1 DEF WInv, HearInv
    <2>2. announced \in Seq(Entries(txn))
      BY <1>2, <2>1, EntriesGrow, SeqMonotonic
    <2>3. announced \o written \in Seq(Entries(txn))
      BY <2>1, <2>2, ConcatProperties
    <2> QED BY <1>1, <2>1, <2>3 DEF HearInv
  <1>6. RestInv'
    <2>1. dispatched \subseteq {k \in DOMAIN txn.notes : txn.notes[k].id \in Wraps}
      BY <1>2 DEF WInv, RestInv, Grows
    <2> QED BY <1>1, <2>1 DEF WInv, RestInv, ingestVars
  <1> QED BY <1>3, <1>4, <1>5, <1>6 DEF WInv

\* Every step keeps the invariant, when no commit or migration fails or no wrap exists.
LEMMA NextWInv ==
    ASSUME WInv, Sound, [Next]_vars
    PROVE  WInv'
  <1>1. CASE WriterStep
    BY <1>1, PopKeeps, TxnBeginKeeps, WriteNoteKeeps, WriteRelayKeeps, MigrateKeeps,
       TakeQuitKeeps, CommitKeeps DEF WriterStep
  <1>2. CASE Failure
    BY <1>2, BeginFailsKeeps, FailureKeeps DEF Failure
  <1>3. CASE \E i \in Ingesters : IngesterStep(i)
    BY <1>3, IngestEventKeeps, PushToWriterKeeps, AddKeyKeeps, ReprocessGiftwrapKeeps DEF IngesterStep
  <1>4. CASE ProcessGiftwraps
    BY <1>4, ProcessGiftwrapsKeeps
  <1>5. CASE PushQuit
    BY <1>5, PushQuitKeeps
  <1>6. CASE Join
    BY <1>6, JoinKeeps
  <1>7. CASE Restart
    BY <1>7, RestartKeeps
  <1>8. CASE UNCHANGED vars
    <2>1. Cur' = Cur
      BY <1>8 DEF vars, Cur
    <2> QED BY <1>8, <2>1 DEF vars, WInv, StoreInv, QueueInv, HearInv, RestInv
  <1> QED BY <1>1, <1>2, <1>3, <1>4, <1>5, <1>6, <1>7, <1>8 DEF Next

\* The inductive invariant: the committed store and the transaction are consistent, every
\* message under way refers to what is stored, and what was announced is committed. It
\* needs Sound: a commit that fails leaves a requeued mark with a key that another note
\* may take.
THEOREM WriterInvariant ==
    ASSUME Sound
    PROVE  Spec => []WInv
  <1>1. Init => WInv
    BY InitWInv
  <1>2. WInv /\ [Next]_vars => WInv'
    BY NextWInv
  <1> QED BY <1>1, <1>2, PTL DEF Spec

-----------------------------------------------------------------------------
(* What follows from the invariant *)

\* A consistent store has its type.
LEMMA StoresTyped ==
    ASSUME NEW s, StoreOK(s)
    PROVE  StoreType(s)
  <1>1. PICK n \in Nat : DOMAIN s.notes = 1..n /\ s.notes \in [1..n -> Records]
    BY TableKeys DEF StoreOK
  <1> QED BY <1>1 DEF StoreOK, Stores, StoreType, Records

\* However many ingesters push the same note from however stale snapshots, with
\* restarts at any point, the store keeps one copy of it, and the id index names
\* that copy.
THEOREM WriterStoreConsistent ==
    ASSUME Sound
    PROVE  Spec => []StoreConsistent
  <1>1. WInv => StoreConsistent
    <2> SUFFICES ASSUME WInv PROVE StoreConsistent
      OBVIOUS
    <2>1. StoreType(db) /\ StoreType(txn)
      BY StoresTyped DEF WInv, StoreInv
    <2>2. TypeOK
      BY <2>1 DEF TypeOK, WInv, QueueInv, RestInv
    <2> QED BY <2>2 DEF StoreConsistent, WInv, StoreInv, StoreOK
  <1> QED BY <1>1, WriterInvariant, PTL

\* ndb_notify_subscriptions is only ever called with keys under which readers
\* find the announced note.
THEOREM WriterAnnouncedCommitted ==
    ASSUME Sound
    PROVE  Spec => []AnnouncedCommitted
  <1>1. WInv => AnnouncedCommitted
    <2> SUFFICES ASSUME WInv, NEW i \in 1..Len(announced)
                 PROVE  /\ announced[i][1] \in DOMAIN db.notes
                        /\ db.notes[announced[i][1]].id = announced[i][2]
      BY DEF AnnouncedCommitted
    <2>1. announced[i] \in Entries(db)
      BY ElementOfSeq DEF WInv, HearInv
    <2> QED BY <2>1 DEF Entries
  <1> QED BY <1>1, WriterInvariant, PTL

\* No note but a gift wrap is announced twice.
THEOREM WriterAnnouncedOnce ==
    ASSUME Sound
    PROVE  Spec => []AnnouncedOnce
  <1>1. WInv => AnnouncedOnce
    BY DEF WInv, HearInv, Once, AnnouncedOnce
  <1> QED BY <1>1, WriterInvariant, PTL

\* The note key in a profile record is the key of its note, or 0.
THEOREM WriterProfilesLinked ==
    ASSUME Sound
    PROVE  Spec => []ProfilesLinked
  <1>1. WInv => ProfilesLinked
    BY DEF WInv, StoreInv, StoreOK, Linked, ProfilesLinked
  <1> QED BY <1>1, WriterInvariant, PTL

\* A committed note keeps its key, and its marks are never taken back.
THEOREM WriterNotesKept ==
    ASSUME Sound, Flat
    PROVE  Spec => NotesKept
  <1> DEFINE Kept == \A k \in DOMAIN db.notes :
                        /\ k \in DOMAIN db'.notes
                        /\ db'.notes[k].id = db.notes[k].id
                        /\ db.notes[k].rumor => db'.notes[k].rumor
                        /\ db.notes[k].unwrapped => db'.notes[k].unwrapped
  <1>1. ASSUME WInv, [Next]_vars
        PROVE  [Kept]_vars
    <2>1. CASE Commit
      <3>1. db' = txn /\ Grows(db, txn)
        BY <1>1, <2>1 DEF Commit, WInv, StoreInv
      <3> QED BY <3>1 DEF Grows, Keeps
    <2>2. CASE ~Commit
      <3>1. db' = db
        BY <1>1, <2>2 DEF Next, vars, WriterStep, Pop, TxnBegin, WriteNote, WriteRelay, Migrate,
           TakeQuit, Failure, TxnBeginFails, MigrateFails, CommitFails, IngesterStep, IngestEvent,
           PushToWriter, AddKey, ReprocessGiftwrap, ProcessGiftwraps, PushQuit, Join, Restart, writerVars
      <3> QED BY <3>1
    <2> QED BY <2>1, <2>2
  <1>2. WInv /\ [Next]_vars => [Kept]_vars
    BY <1>1
  <1>3. Spec => []WInv
    BY WriterInvariant
  <1> QED BY <1>2, <1>3, PTL DEF Spec, NotesKept

-----------------------------------------------------------------------------
(* The counters *)

\* What gift wraps bring is not counted: the writes that put a note over itself
\* gather its statistics again, and only promotions and marks do that.
SealedUncounted == \A w \in Wraps : Bumps[w] = {} /\ Bumps[RumorOf[w]] = {}

Bumpers(s, c) == {k \in DOMAIN s.notes : c \in Bumps[s.notes[k].id]}

Counted(s) == \A c \in Counters : s.counts[c] = Cardinality(Bumpers(s, c)) % CounterRange

\* A counter that wraps around still counts.
LEMMA OneMore ==
    ASSUME NEW R \in Nat \ {0}, NEW n \in Nat
    PROVE  ((n % R) + 1) % R = (n + 1) % R
  <1> DEFINE q == n \div R
             r == n % R
  <1>1. q \in Nat /\ r \in 0..(R - 1) /\ n = R * q + r
    OBVIOUS
  <1> HIDE DEF q, r
  <1>2. \A a \in Nat, p \in Nat, t \in 0..(R - 1) : a = R * p + t => a % R = t
    OBVIOUS
  <1>3. n + 1 \in Nat /\ q + 1 \in Nat /\ 0 \in 0..(R - 1)
    BY <1>1
  <1>4. CASE r + 1 < R
    <2>1. n + 1 = R * q + (r + 1) /\ r + 1 \in 0..(R - 1)
      BY <1>1, <1>4
    <2>2. (n + 1) % R = r + 1
      BY <1>1, <1>2, <1>3, <2>1, Zenon
    <2>3. (r + 1) % R = r + 1
      BY <1>1, <1>4
    <2> QED BY <2>2, <2>3 DEF r
  <1>5. CASE r + 1 = R
    <2>1. R * (q + 1) = R * q + R
      BY <1>1
    <2>2. n + 1 = R * (q + 1) + 0
      BY <1>1, <1>5, <2>1
    <2>3. (n + 1) % R = 0
      BY <1>2, <1>3, <2>2, Zenon
    <2>4. (r + 1) % R = 0
      BY <1>5
    <2> QED BY <2>3, <2>4 DEF r
  <1>6. r + 1 < R \/ r + 1 = R
    BY <1>1
  <1> QED BY <1>4, <1>5, <1>6

\* Finitely many stored notes bump a counter.
LEMMA BumpersFinite ==
    ASSUME NEW s \in Stores, NEW c
    PROVE  IsFiniteSet(Bumpers(s, c)) /\ Cardinality(Bumpers(s, c)) \in Nat
  <1>1. PICK n \in Nat : DOMAIN s.notes = 1..n
    BY TableKeys
  <1>2. IsFiniteSet(1..n)
    BY FS_Interval
  <1>3. Bumpers(s, c) \subseteq 1..n
    BY <1>1 DEF Bumpers
  <1>4. IsFiniteSet(Bumpers(s, c))
    BY <1>2, <1>3, FS_Subset
  <1> QED BY <1>4, FS_CardinalityType

\* The counters of the empty store are right.
LEMMA EmptyCounted == Counted(EmptyStore)
  <1>1. \A c \in Counters : EmptyStore.counts[c] = 0 /\ Bumpers(EmptyStore, c) = {}
    BY DEF EmptyStore, Bumpers
  <1>2. Cardinality({}) = 0
    BY FS_EmptySet
  <1>3. 0 % CounterRange = 0
    BY WriterAssumption
  <1> QED BY <1>1, <1>2, <1>3 DEF Counted

\* Only what a gift wrap brings is written over a stored note.
LEMMA OverIsSealed ==
    ASSUME StoreOK(txn), NEW d, NEW m \in Sendable(d, txn), m \in NoteMsgs,
           SealedUncounted, NewKey(m) \in DOMAIN txn.notes
    PROVE  Bumps[m.id] = {}
  <1>0. NoteOK(m)
    BY DEF Sendable, NoteMsgs, RelayMsgs, QuitMsg, MigrateMsg
  <1>1. CASE Promotes(m)
    BY <1>0, <1>1 DEF Promotes, Stored, NoteOK, SealedUncounted
  <1>2. CASE ~Promotes(m) /\ m.over # 0
    BY <1>0, <1>2 DEF NoteOK, SealedUncounted
  <1>3. CASE ~Promotes(m) /\ m.over = 0
    <2>1. NewKey(m) = 0 \/ NewKey(m) = LastKey(txn) + 1
      BY <1>3 DEF NewKey
    <2>2. DOMAIN txn.notes = 1..LastKey(txn) /\ LastKey(txn) \in Nat
      BY LastKeyIs DEF StoreOK
    <2> QED BY <2>1, <2>2
  <1> QED BY <1>1, <1>2, <1>3

\* Writing a note adds to each counter exactly what the note bumps, and only when it is
\* new.
LEMMA AfterNoteCounted ==
    ASSUME StoreOK(txn), Counted(txn), SealedUncounted,
           NEW d, NEW m \in Sendable(d, txn), m \in NoteMsgs,
           NEW t, t.notes = AfterNote(m).notes, t.counts = AfterNote(m).counts
    PROVE  Counted(t)
  <1>1. NoteWritten(m) /\ txn \in Stores
    BY AfterNoteOK DEF StoreOK
  <1>2. CASE NewKey(m) = 0
    BY <1>1, <1>2 DEF NoteWritten, Counted, Bumpers
  <1>3. CASE NewKey(m) # 0
    <2> SUFFICES ASSUME NEW c \in Counters
                 PROVE  t.counts[c] = Cardinality(Bumpers(t, c)) % CounterRange
      BY DEF Counted
    <2> DEFINE key == NewKey(m)
    <2>1. t.notes = TableWith(txn, key, m) /\ t.counts = Bumped(txn, m.id)
      BY <1>1, <1>3 DEF NoteWritten
    <2>2. DOMAIN t.notes = DOMAIN txn.notes \cup {key}
      BY <2>1 DEF TableWith
    <2>3. t.notes[key].id = m.id /\ \A k \in DOMAIN txn.notes : k # key => t.notes[k] = txn.notes[k]
      BY <2>1 DEF TableWith
    <2>4. t.counts[c] = IF c \in Bumps[m.id] THEN (txn.counts[c] + 1) % CounterRange ELSE txn.counts[c]
      BY <2>1 DEF Bumped
    <2>5. txn.counts[c] = Cardinality(Bumpers(txn, c)) % CounterRange
      BY DEF Counted
    <2> HIDE DEF key
    <2>6. CASE key \in DOMAIN txn.notes
      <3>1. Bumps[m.id] = {}
        BY <2>6, OverIsSealed DEF key
      <3>2. txn.notes[key].id = m.id
        <4>1. Grows(txn, AfterNote(m))
          BY <1>1 DEF NoteWritten
        <4> QED BY <2>3, <2>6, <4>1 DEF Grows
      <3>3. Bumpers(t, c) = Bumpers(txn, c)
        BY <2>2, <2>3, <2>6, <3>2 DEF Bumpers
      <3> QED BY <2>4, <2>5, <3>1, <3>3
    <2>7. CASE key \notin DOMAIN txn.notes
      <3>1. CASE c \in Bumps[m.id]
        <4>1. Bumpers(t, c) = Bumpers(txn, c) \cup {key} /\ key \notin Bumpers(txn, c)
          BY <2>2, <2>3, <2>7, <3>1 DEF Bumpers
        <4>2. IsFiniteSet(Bumpers(txn, c)) /\ Cardinality(Bumpers(txn, c)) \in Nat
          BY <1>1, BumpersFinite
        <4>3. Cardinality(Bumpers(t, c)) = Cardinality(Bumpers(txn, c)) + 1
          BY <4>1, <4>2, FS_AddElement
        <4>4. ((Cardinality(Bumpers(txn, c)) % CounterRange) + 1) % CounterRange
                  = (Cardinality(Bumpers(txn, c)) + 1) % CounterRange
          BY <4>2, OneMore, WriterAssumption
        <4> QED BY <2>4, <2>5, <3>1, <4>3, <4>4
      <3>2. CASE c \notin Bumps[m.id]
        <4>1. Bumpers(t, c) = Bumpers(txn, c)
          BY <2>2, <2>3, <2>7, <3>2 DEF Bumpers
        <4> QED BY <2>4, <2>5, <3>2, <4>1
      <3> QED BY <3>1, <3>2
    <2> QED BY <2>6, <2>7
  <1> QED BY <1>2, <1>3

\* Every step keeps the counters of both stores right.
LEMMA CountedKeeps ==
    ASSUME WInv, SealedUncounted, Counted(db), Counted(txn), [Next]_vars
    PROVE  Counted(db)' /\ Counted(txn)'
  <1>1. CASE \E type \in {"note", "profile"} : WriteNote(type)
    <2>1. PICK type \in {"note", "profile"} : WriteNote(type)
      BY <1>1
    <2>2. /\ Head(batch) \in Sendable(db, txn)
          /\ Head(batch) \in NoteMsgs
          /\ txn'.notes = AfterNote(Head(batch)).notes
          /\ txn'.counts = AfterNote(Head(batch)).counts
      BY <2>1, WriteNoteStore
    <2>3. Counted(txn')
      BY <2>2, AfterNoteCounted DEF WInv, StoreInv
    <2>4. db' = db
      BY <2>1 DEF WriteNote
    <2> QED BY <2>3, <2>4 DEF Counted, Bumpers
  <1>2. CASE WriteRelay
    <2>1. txn' = txn \/ (txn'.notes = txn.notes /\ txn'.counts = txn.counts)
      BY <1>2 DEF WriteRelay, WithRelay, WInv, StoreInv, StoreOK, Stores
    <2> QED BY <1>2, <2>1 DEF WriteRelay, Counted, Bumpers
  <1>3. CASE Migrate
    <2>1. txn'.notes = txn.notes /\ txn'.counts = txn.counts
      BY <1>3 DEF Migrate, WInv, StoreInv, StoreOK, Stores
    <2> QED BY <1>3, <2>1 DEF Migrate, Counted, Bumpers
  <1>4. CASE Restart
    <2>1. Counted(EmptyStore)
      BY EmptyCounted
    <2> QED BY <1>4, <2>1 DEF Restart, Counted, Bumpers
  <1>5. CASE Commit
    BY <1>5 DEF Commit, Counted, Bumpers
  <1>6. CASE TxnBegin
    BY <1>6 DEF TxnBegin, Counted, Bumpers
  <1>7. CASE UNCHANGED <<db, txn>>
    BY <1>7 DEF Counted, Bumpers
  <1>8. \/ \E type \in {"note", "profile"} : WriteNote(type)
        \/ WriteRelay \/ Migrate \/ Restart \/ Commit \/ TxnBegin
        \/ UNCHANGED <<db, txn>>
    BY DEF Next, vars, WriterStep, Pop, TakeQuit, Failure, TxnBeginFails, MigrateFails, CommitFails,
       IngesterStep, IngestEvent, PushToWriter, AddKey, ReprocessGiftwrap, ProcessGiftwraps,
       PushQuit, Join, writerVars
  <1> QED BY <1>1, <1>2, <1>3, <1>4, <1>5, <1>6, <1>7, <1>8

\* A counter holds the number of stored notes that bump it, as long as no note
\* that comes in a gift wrap does.
THEOREM WriterCountsMatch ==
    ASSUME Sound, SealedUncounted
    PROVE  Spec => []CountsMatch
  <1>1. Init => Counted(db) /\ Counted(txn)
    BY EmptyCounted DEF Init, VolatileInit
  <1>2. WInv /\ Counted(db) /\ Counted(txn) /\ [Next]_vars => Counted(db)' /\ Counted(txn)'
    BY CountedKeeps
  <1>3. Counted(db) => CountsMatch
    BY DEF Counted, Bumpers, CountsMatch
  <1>4. Spec => []WInv
    BY WriterInvariant
  <1> QED BY <1>1, <1>2, <1>3, <1>4, PTL DEF Spec
=============================================================================
