---------------------------- MODULE UpkeepProofs ----------------------------
(***************************************************************************)
(* The migrations, the prune and the records of counts, for any notes, any *)
(* number of them and any filters.  Migrations and prune are loops,        *)
(* written as recursive functions; what a loop computes is proved from its *)
(* turns: the least turn at which it would go wrong is not the first, and  *)
(* the turn before it was right.  A record is a sorted sequence of         *)
(* entries: inserting one keeps it sorted (BuildInserts) and adds what the *)
(* entry is worth to the sum (SumInserted).                                *)
(***************************************************************************)
EXTENDS Upkeep, FiniteSetTheorems, SequenceTheorems, NaturalsInduction, WellFoundedInduction, TLAPS

-----------------------------------------------------------------------------
(* Loops *)

\* A set of numbers that is not empty has a least one.
LEMMA LeastNat ==
    ASSUME NEW S \in SUBSET Nat, S # {}
    PROVE  \E x \in S : \A y \in S : x <= y
  <1> DEFINE R == {ss \in Nat \X Nat : ss[1] < ss[2]}
  <1>a. IsWellFoundedOn(R, Nat)
    BY NatLessThanWellFounded DEF OpToRel
  <1>b. \A x, y \in Nat : x < y => <<x, y>> \in R
    OBVIOUS
  <1> HIDE DEF R
  <1>1. PICK x \in S : \A y \in S : ~(<<y, x>> \in R)
    BY <1>a, WFMin
  <1>2. \A y \in S : x <= y
    <2> SUFFICES ASSUME NEW y \in S PROVE x <= y
      OBVIOUS
    <2>1. x \in Nat /\ y \in Nat /\ ~(y < x)
      BY <1>1, <1>b
    <2> QED BY <2>1
  <1> QED BY <1>2

\* A loop whose turns change a value step by step computes one.
LEMMA RewriteExists ==
    ASSUME NEW d, NEW N \in Nat
    PROVE  \E f : f = [p \in 0..N |-> IF p = 0 THEN d ELSE RewriteProfile(f[p - 1], d, p)]
  <1> DEFINE Is(f, n) == f = [p \in 0..n |-> IF p = 0 THEN d ELSE RewriteProfile(f[p - 1], d, p)]
             S == {n \in Nat : ~\E f : Is(f, n)}
  <1> SUFFICES ASSUME S # {} PROVE FALSE
    OBVIOUS
  <1>1. PICK n \in S : \A m \in S : n <= m
    BY LeastNat
  <1>2. CASE n = 0
    <2>1. Is([p \in 0..0 |-> d], 0)
      OBVIOUS
    <2> QED BY <1>2, <2>1
  <1>3. CASE n > 0
    <2>1. n - 1 \in Nat /\ n - 1 \notin S
      BY <1>1, <1>3
    <2>2. PICK f : Is(f, n - 1)
      BY <2>1
    <2> DEFINE g == [p \in 0..n |-> IF p = n THEN RewriteProfile(f[n - 1], d, n) ELSE f[p]]
    <2>3. \A p \in 0..(n - 1) : g[p] = f[p]
      BY <2>1
    <2>4. \A p \in 0..(n - 1) : f[p] = IF p = 0 THEN d ELSE RewriteProfile(f[p - 1], d, p)
      BY <2>2
    <2>5. \A p \in 0..n : g[p] = IF p = 0 THEN d ELSE RewriteProfile(g[p - 1], d, p)
      BY <2>1, <2>3, <2>4, <1>3
    <2>6. Is(g, n)
      BY <2>5, Zenon
    <2> QED BY <2>6
  <1> QED BY <1>1, <1>2, <1>3

\* What the migration leaves is what its last turn does.
LEMMA RewriteIs ==
    ASSUME NEW d, Len(d.profiles) \in Nat
    PROVE  \E f : /\ f[0] = d
                  /\ \A p \in 1..Len(d.profiles) : f[p] = RewriteProfile(f[p - 1], d, p)
                  /\ Utf8ProfileNames(d) = f[Len(d.profiles)]
  <1> DEFINE u == CHOOSE f : f = [p \in 0..Len(d.profiles) |-> IF p = 0 THEN d ELSE RewriteProfile(f[p - 1], d, p)]
  <1>1. u = [p \in 0..Len(d.profiles) |-> IF p = 0 THEN d ELSE RewriteProfile(u[p - 1], d, p)]
    BY RewriteExists
  <1>2. Utf8ProfileNames(d) = u[Len(d.profiles)]
    BY DEF Utf8ProfileNames
  <1> HIDE DEF u
  <1>3. u[0] = d
    BY <1>1
  <1>4. \A p \in 1..Len(d.profiles) : u[p] = RewriteProfile(u[p - 1], d, p)
    BY <1>1
  <1> QED BY <1>2, <1>3, <1>4

-----------------------------------------------------------------------------
(* Writing *)

Fields == {"notes", "meta", "kinds", "pubkeys", "pubkeyKinds", "profiles", "pk", "names",
           "fetched", "blocks", "bad", "version"}

IsDb(d) == d = [f \in Fields |-> d[f]]

\* What ndb_write_note does to each database.
LEMMA WriteNoteFields ==
    ASSUME NEW d, IsDb(d), NEW n, n.id \notin Stored(d)
    PROVE  LET w == WriteNote(d, n)
               key == Len(d.notes) + 1
           IN  /\ IsDb(w)
               /\ w.notes = Append(d.notes, n)
               /\ w.kinds = d.kinds \cup {key}
               /\ w.pubkeys = IF d.version >= 4 THEN d.pubkeys \cup {key} ELSE d.pubkeys
               /\ w.pubkeyKinds = IF d.version >= 4 THEN d.pubkeyKinds \cup {key} ELSE d.pubkeyKinds
               /\ w.bad = IF n.kind = 1 /\ n.link /\ d.version < 7 THEN d.bad \cup {key} ELSE d.bad
               /\ w.profiles = d.profiles /\ w.pk = d.pk /\ w.names = d.names
               /\ w.fetched = d.fetched /\ w.version = d.version
  BY DEF WriteNote, IsDb, Fields

\* What ndb_write_profile does to each database.
LEMMA WriteProfileFields ==
    ASSUME NEW d, IsDb(d), NEW n, NEW key
    PROVE  LET w == WriteProfile(d, n, key)
           IN  /\ IsDb(w)
               /\ w.profiles = Append(d.profiles, [note |-> key])
               /\ w.fetched = Fetched(d, n)
               /\ w.pk = d.pk \cup {<<n.pubkey, n.created_at, Len(d.profiles) + 1>>}
               /\ w.names = d.names \cup {<<n.content, n.pubkey, n.created_at>>}
               /\ w.notes = d.notes /\ w.kinds = d.kinds /\ w.pubkeys = d.pubkeys
               /\ w.pubkeyKinds = d.pubkeyKinds /\ w.bad = d.bad /\ w.version = d.version
  BY DEF WriteProfile, IsDb, Fields, NameEntry

\* The tables of a database have their types, and profiles lead to stored notes.
Keyed(d) ==
    /\ IsDb(d)
    /\ d.version \in 0..Latest
    /\ d.notes \in Seq(Arriving)
    /\ d.profiles \in Seq([note : Nat])
    /\ \A p \in 1..Len(d.profiles) : NoteOf(d, p) <= Len(d.notes)

\* The pubkey indexes name stored notes, all of them from version 4 on; linked
\* profiles are found by their names; and no block of the last version is wrong.
Indexed(d) ==
    /\ d.pubkeys \subseteq 1..Len(d.notes)
    /\ d.pubkeyKinds \subseteq 1..Len(d.notes)
    /\ d.version >= 4 => 1..Len(d.notes) \subseteq d.pubkeys /\ 1..Len(d.notes) \subseteq d.pubkeyKinds
    /\ \A p \in 1..Len(d.profiles) :
          NoteOf(d, p) # 0 => NameEntry(d.notes[NoteOf(d, p)], p) \in d.names
    /\ d.version = Latest => d.bad = {}

Good(d) == Keyed(d) /\ Indexed(d)

\* The note of a profile is a number.
LEMMA NoteOfType ==
    ASSUME NEW d, Keyed(d), NEW p \in 1..Len(d.profiles)
    PROVE  NoteOf(d, p) \in 0..Len(d.notes)
  <1>1. d.profiles[p] \in [note : Nat]
    BY ElementOfSeq DEF Keyed
  <1>2. NoteOf(d, p) \in Nat /\ NoteOf(d, p) <= Len(d.notes) /\ Len(d.notes) \in Nat
    BY <1>1 DEF NoteOf, Keyed
  <1> QED BY <1>2

\* ndb_write_note of a new note writes every index its version has.
LEMMA WriteNoteGood ==
    ASSUME NEW d, Good(d), NEW n \in Arriving, n.id \notin Stored(d)
    PROVE  Good(WriteNote(d, n))
  <1> DEFINE w == WriteNote(d, n)
             key == Len(d.notes) + 1
  <1>1. /\ IsDb(w)
        /\ w.notes = Append(d.notes, n)
        /\ w.pubkeys = IF d.version >= 4 THEN d.pubkeys \cup {key} ELSE d.pubkeys
        /\ w.pubkeyKinds = IF d.version >= 4 THEN d.pubkeyKinds \cup {key} ELSE d.pubkeyKinds
        /\ w.bad = IF n.kind = 1 /\ n.link /\ d.version < 7 THEN d.bad \cup {key} ELSE d.bad
        /\ w.profiles = d.profiles /\ w.names = d.names /\ w.version = d.version
    BY WriteNoteFields DEF Good, Keyed
  <1> HIDE DEF w
  <1>2. /\ d.notes \in Seq(Arriving) /\ Len(d.notes) \in Nat /\ d.version \in 0..7
        /\ d.profiles \in Seq([note : Nat]) /\ Len(d.profiles) \in Nat
    BY DEF Good, Keyed, Latest
  <1>3. /\ w.notes \in Seq(Arriving)
        /\ Len(w.notes) = key
        /\ \A k \in 1..Len(d.notes) : w.notes[k] = d.notes[k]
    BY <1>1, <1>2, AppendProperties
  <1>4. \A p \in 1..Len(d.profiles) :
           /\ NoteOf(w, p) = NoteOf(d, p)
           /\ NoteOf(d, p) \in 0..Len(d.notes)
    BY <1>1, NoteOfType DEF NoteOf, Good
  <1>5. Keyed(w)
    BY <1>1, <1>2, <1>3, <1>4 DEF Keyed, Good
  <1>6. /\ w.pubkeys \subseteq 1..Len(w.notes) /\ w.pubkeyKinds \subseteq 1..Len(w.notes)
        /\ w.version >= 4 => 1..Len(w.notes) \subseteq w.pubkeys /\ 1..Len(w.notes) \subseteq w.pubkeyKinds
    BY <1>1, <1>2, <1>3 DEF Good, Indexed
  <1>7. \A p \in 1..Len(w.profiles) : NoteOf(w, p) # 0 => NameEntry(w.notes[NoteOf(w, p)], p) \in w.names
    BY <1>1, <1>2, <1>3, <1>4 DEF Good, Indexed
  <1>8. w.version = Latest => w.bad = {}
    BY <1>1, <1>2 DEF Good, Indexed, Latest
  <1> QED BY <1>5, <1>6, <1>7, <1>8 DEF Good, Indexed, w

\* ndb_write_profile writes the name of the profile it links.
LEMMA WriteProfileGood ==
    ASSUME NEW d, Good(d), NEW n \in Arriving, NEW key \in 0..Len(d.notes),
           key # 0 => d.notes[key] = n
    PROVE  Good(WriteProfile(d, n, key))
  <1> DEFINE w == WriteProfile(d, n, key)
  <1>1. /\ IsDb(w)
        /\ w.profiles = Append(d.profiles, [note |-> key])
        /\ w.names = d.names \cup {<<n.content, n.pubkey, n.created_at>>}
        /\ w.notes = d.notes /\ w.pubkeys = d.pubkeys
        /\ w.pubkeyKinds = d.pubkeyKinds /\ w.bad = d.bad /\ w.version = d.version
    BY WriteProfileFields DEF Good, Keyed
  <1> HIDE DEF w
  <1>2. /\ d.profiles \in Seq([note : Nat]) /\ Len(d.profiles) \in Nat /\ Len(d.notes) \in Nat
        /\ [note |-> key] \in [note : Nat]
    BY DEF Good, Keyed
  <1>3. /\ w.profiles \in Seq([note : Nat])
        /\ Len(w.profiles) = Len(d.profiles) + 1
        /\ \A p \in 1..Len(d.profiles) : w.profiles[p] = d.profiles[p]
        /\ w.profiles[Len(d.profiles) + 1] = [note |-> key]
    BY <1>1, <1>2, AppendProperties
  <1>4. /\ \A p \in 1..Len(d.profiles) : NoteOf(w, p) = NoteOf(d, p)
        /\ NoteOf(w, Len(d.profiles) + 1) = key
    BY <1>3 DEF NoteOf
  <1>5. Keyed(w)
    <2>1. \A p \in 1..Len(w.profiles) : p \in 1..Len(d.profiles) \/ p = Len(d.profiles) + 1
      BY <1>2, <1>3
    <2>2. \A p \in 1..Len(w.profiles) : NoteOf(w, p) <= Len(w.notes)
      BY <1>1, <1>4, <2>1, NoteOfType, <1>2 DEF Good
    <2> QED BY <1>1, <1>3, <2>2 DEF Keyed, Good
  <1>6. \A p \in 1..Len(w.profiles) : NoteOf(w, p) # 0 => NameEntry(w.notes[NoteOf(w, p)], p) \in w.names
    <2> SUFFICES ASSUME NEW p \in 1..Len(w.profiles), NoteOf(w, p) # 0
                 PROVE  NameEntry(w.notes[NoteOf(w, p)], p) \in w.names
      OBVIOUS
    <2>1. CASE p \in 1..Len(d.profiles)
      BY <1>1, <1>4, <2>1 DEF Good, Indexed
    <2>2. CASE p = Len(d.profiles) + 1
      BY <1>1, <1>4, <2>2 DEF NameEntry
    <2> QED BY <1>2, <1>3, <2>1, <2>2
  <1> QED BY <1>1, <1>5, <1>6 DEF Good, Indexed, w

\* A profile note that is stored already gets a profile record without a note, and
\* one that does not parse gets none.
LEMMA WriteBothGood ==
    ASSUME NEW d, Good(d), NEW n \in Arriving
    PROVE  Good(WriteNoteAndProfile(d, n))
  <1>0. CASE ~n.parses
    <2>1. WriteNoteAndProfile(d, n) = WriteNote(d, n)
      BY <1>0 DEF WriteNoteAndProfile
    <2>2. CASE n.id \in Stored(d)
      BY <2>1, <2>2 DEF WriteNote
    <2>3. CASE n.id \notin Stored(d)
      BY <2>1, <2>3, WriteNoteGood
    <2> QED BY <2>2, <2>3
  <1>1. CASE n.id \in Stored(d) /\ n.parses
    <2>1. WriteNoteAndProfile(d, n) = WriteProfile(d, n, 0)
      BY <1>1 DEF WriteNoteAndProfile, WriteNote
    <2>2. 0 \in 0..Len(d.notes)
      BY DEF Good, Keyed
    <2> QED BY <2>1, <2>2, WriteProfileGood
  <1>2. CASE n.id \notin Stored(d) /\ n.parses
    <2> DEFINE w == WriteNote(d, n)
               key == Len(d.notes) + 1
    <2>1. WriteNoteAndProfile(d, n) = WriteProfile(w, n, key)
      BY <1>2 DEF WriteNoteAndProfile
    <2>2. Good(w) /\ w.notes = Append(d.notes, n)
      BY <1>2, WriteNoteGood, WriteNoteFields DEF Good, Keyed
    <2>3. Len(w.notes) = key /\ w.notes[key] = n /\ key \in 0..Len(w.notes)
      BY <2>2, AppendProperties DEF Good, Keyed
    <2> HIDE DEF w, key
    <2> QED BY <2>1, <2>2, <2>3, WriteProfileGood
  <1> QED BY <1>0, <1>1, <1>2

\* No note is stored twice, no two profiles are of one note, and every note of
\* kind 0 that parses has a profile.
Linked(d) ==
    /\ \A j, k \in 1..Len(d.notes) : d.notes[j].id = d.notes[k].id => j = k
    /\ \A p, q \in 1..Len(d.profiles) :
          NoteOf(d, p) # 0 /\ NoteOf(d, p) = NoteOf(d, q) => p = q
    /\ \A k \in 1..Len(d.notes) :
          d.notes[k].kind = 0 /\ d.notes[k].parses => \E p \in 1..Len(d.profiles) : NoteOf(d, p) = k

\* An id is stored if it is the id of a note in the table.
LEMMA StoredIs ==
    ASSUME NEW d, Keyed(d)
    PROVE  Stored(d) = {d.notes[k].id : k \in 1..Len(d.notes)}
  BY SMTT(30) DEF Stored, Keyed

\* The writer's messages keep the notes and their profiles linked.
LEMMA WrittenLinked ==
    ASSUME NEW d, Good(d), Linked(d), NEW n \in Arriving, n.id \notin Stored(d)
    PROVE  /\ Good(Written(d, n))
           /\ Linked(Written(d, n))
           /\ Written(d, n).version = d.version
  <1> DEFINE w == WriteNote(d, n)
             key == Len(d.notes) + 1
  <1>0. Keyed(d) /\ d.notes \in Seq(Arriving) /\ Len(d.notes) \in Nat
        /\ d.profiles \in Seq([note : Nat]) /\ Len(d.profiles) \in Nat
    BY DEF Good, Keyed
  <1>1. /\ Good(w) /\ w.notes = Append(d.notes, n) /\ w.profiles = d.profiles
        /\ w.version = d.version
    BY WriteNoteGood, WriteNoteFields DEF Good, Keyed
  <1> HIDE DEF w
  <1>2. /\ Len(w.notes) = key /\ w.notes[key] = n
        /\ \A k \in 1..Len(d.notes) : w.notes[k] = d.notes[k]
    BY <1>0, <1>1, AppendProperties
  <1>3. \A k \in 1..key : k \in 1..Len(d.notes) \/ k = key
    BY <1>0
  <1>4. \A j, k \in 1..Len(w.notes) : w.notes[j].id = w.notes[k].id => j = k
    <2>1. \A k \in 1..Len(d.notes) : d.notes[k].id # n.id
      BY <1>0, StoredIs
    <2> QED BY <1>2, <1>3, <2>1 DEF Linked
  <1>5. \A p \in 1..Len(d.profiles) : NoteOf(w, p) = NoteOf(d, p) /\ NoteOf(d, p) \in 0..Len(d.notes)
    BY <1>0, <1>1, NoteOfType DEF NoteOf
  <1>6. CASE n.kind # 0 \/ ~n.parses
    <2>1. Written(d, n) = w
      BY <1>6 DEF Written, WriteNoteAndProfile, w
    <2>2. Linked(w)
      BY <1>0, <1>1, <1>2, <1>3, <1>4, <1>5, <1>6 DEF Linked
    <2> QED BY <1>1, <2>1, <2>2
  <1>7. CASE n.kind = 0 /\ n.parses
    <2> DEFINE x == WriteProfile(w, n, key)
    <2>1. Written(d, n) = x
      BY <1>7 DEF Written, WriteNoteAndProfile, w
    <2>2. /\ x.notes = w.notes /\ x.profiles = Append(d.profiles, [note |-> key])
          /\ x.version = d.version
      <3>1. IsDb(w)
        BY <1>1 DEF Good, Keyed
      <3>2. x.notes = w.notes /\ x.profiles = Append(w.profiles, [note |-> key]) /\ x.version = w.version
        <4> HIDE DEF key
        <4> QED BY <3>1, WriteProfileFields
      <3> QED BY <1>1, <3>2
    <2>3. Good(x)
      BY <1>0, <1>1, <1>2, WriteProfileGood
    <2> HIDE DEF x
    <2>4. /\ Len(x.profiles) = Len(d.profiles) + 1
          /\ \A p \in 1..Len(d.profiles) : NoteOf(x, p) = NoteOf(d, p)
          /\ NoteOf(x, Len(d.profiles) + 1) = key
      <3>1. [note |-> key] \in [note : Nat]
        BY <1>0
      <3>2. /\ Len(x.profiles) = Len(d.profiles) + 1
            /\ \A p \in 1..Len(d.profiles) : x.profiles[p] = d.profiles[p]
            /\ x.profiles[Len(d.profiles) + 1] = [note |-> key]
        BY <1>0, <2>2, <3>1, AppendProperties
      <3> QED BY <3>2 DEF NoteOf
    <2>5. \A p \in 1..Len(x.profiles) : p \in 1..Len(d.profiles) \/ p = Len(d.profiles) + 1
      BY <1>0, <2>4
    <2>6. \A p, q \in 1..Len(x.profiles) : NoteOf(x, p) # 0 /\ NoteOf(x, p) = NoteOf(x, q) => p = q
      <3>1. \A p \in 1..Len(d.profiles) : NoteOf(x, p) # key
        BY <1>0, <1>5, <2>4
      <3> QED BY <2>4, <2>5, <3>1 DEF Linked
    <2>7. \A k \in 1..Len(x.notes) : x.notes[k].kind = 0 /\ x.notes[k].parses => \E p \in 1..Len(x.profiles) : NoteOf(x, p) = k
      <3>1. \A p \in 1..Len(d.profiles) : p \in 1..Len(x.profiles)
        BY <1>0, <2>4
      <3>2. Len(d.profiles) + 1 \in 1..Len(x.profiles)
        BY <1>0, <2>4
      <3> HIDE DEF key
      <3> QED BY <1>2, <1>3, <2>2, <2>4, <3>1, <3>2 DEF Linked
    <2> QED BY <1>4, <2>1, <2>2, <2>3, <2>6, <2>7 DEF Linked
  <1> QED BY <1>6, <1>7

-----------------------------------------------------------------------------
(* Migrations *)

\* A migration changes indexes: the notes and the profiles stay what they are.
Reindexed(d, w) ==
    /\ IsDb(w)
    /\ w.notes = d.notes
    /\ w.profiles = d.profiles

\* Reindexing keeps tables and links.
LEMMA ReindexedKeyed ==
    ASSUME NEW d, Keyed(d), Linked(d), NEW w, Reindexed(d, w), w.version \in 0..Latest
    PROVE  Keyed(w) /\ Linked(w) /\ \A p \in 1..Len(d.profiles) : NoteOf(w, p) = NoteOf(d, p)
  <1>1. \A p \in 1..Len(d.profiles) : NoteOf(w, p) = NoteOf(d, p)
    BY DEF NoteOf, Reindexed
  <1>2. Keyed(w)
    BY <1>1 DEF Keyed, Reindexed
  <1>3. Linked(w)
    BY <1>1 DEF Linked, Reindexed
  <1> QED BY <1>1, <1>2, <1>3

\* The names that the search index must have.
LEMMA AllNamesAre ==
    ASSUME NEW d, Keyed(d)
    PROVE  \A p \in 1..Len(d.profiles) :
              NoteOf(d, p) # 0 => NameEntry(d.notes[NoteOf(d, p)], p) \in AllNames(d)
  <1>1. DOMAIN d.profiles = 1..Len(d.profiles)
    BY DEF Keyed
  <1> QED BY <1>1 DEF AllNames, LinkedProfiles

\* The migrations that build or repair the index of names.
LEMMA NamesMigrated ==
    ASSUME NEW d, Keyed(d), NEW w, w = UserSearchIndices(d) \/ w = LowerUserSearchIndices(d)
    PROVE  /\ Reindexed(d, w)
           /\ AllNames(d) \subseteq w.names
           /\ w.pubkeys = d.pubkeys /\ w.pubkeyKinds = d.pubkeyKinds
           /\ w.bad = d.bad /\ w.version = d.version
  <1>1. IsDb(d)
    BY DEF Keyed
  <1>2. CASE w = UserSearchIndices(d)
    BY <1>1, <1>2 DEF UserSearchIndices, Reindexed, IsDb, Fields
  <1>3. CASE w = LowerUserSearchIndices(d)
    <2> DEFINE e == [d EXCEPT !.names = {}]
    <2>1. /\ IsDb(e) /\ e.names = {} /\ e.notes = d.notes /\ e.profiles = d.profiles
          /\ e.pubkeys = d.pubkeys /\ e.pubkeyKinds = d.pubkeyKinds
          /\ e.bad = d.bad /\ e.version = d.version
      BY <1>1 DEF IsDb, Fields
    <2>2. w = UserSearchIndices(e)
      BY <1>3 DEF LowerUserSearchIndices
    <2> HIDE DEF e
    <2>3. AllNames(e) = AllNames(d)
      BY <2>1 DEF AllNames, LinkedProfiles, NoteOf
    <2> QED BY <2>1, <2>2, <2>3 DEF UserSearchIndices, Reindexed, IsDb, Fields
  <1> QED BY <1>2, <1>3

\* Writing the profiles again leaves the notes alone and links nothing new.
LEMMA RewriteGood ==
    ASSUME NEW d, Good(d), Linked(d), NEW e, Good(e), Linked(e), e.notes = d.notes, e.version = d.version,
           NEW p \in 1..Len(d.profiles)
    PROVE  LET w == RewriteProfile(e, d, p)
           IN  Good(w) /\ Linked(w) /\ w.notes = d.notes /\ w.version = d.version
  <1>1. CASE ~Parsed(d, p)
    BY <1>1 DEF RewriteProfile
  <1>2. CASE Parsed(d, p)
    <2> DEFINE n == d.notes[NoteOf(d, p)]
               w == WriteProfile(e, n, 0)
    <2>0. Keyed(d) /\ Keyed(e)
      BY DEF Good
    <2>1. NoteOf(d, p) \in 1..Len(d.notes) /\ n \in Arriving
      <3>1. NoteOf(d, p) \in 1..Len(d.notes)
        BY <1>2, <2>0, NoteOfType DEF Parsed
      <3> QED BY <2>0, <3>1, ElementOfSeq DEF Keyed
    <2>2. n.id \in Stored(e)
      BY <2>0, <2>1, StoredIs
    <2>3. RewriteProfile(e, d, p) = w
      BY <1>2, <2>2 DEF RewriteProfile, Parsed, WriteNoteAndProfile, WriteNote
    <2>4. /\ w.notes = d.notes /\ w.version = d.version
          /\ w.profiles = Append(e.profiles, [note |-> 0])
      BY <2>0, WriteProfileFields DEF Keyed
    <2>5. Good(w)
      <3>1. 0 \in 0..Len(e.notes)
        BY <2>0 DEF Keyed
      <3> QED BY <2>1, <3>1, WriteProfileGood
    <2> HIDE DEF w
    <2>6. /\ Len(w.profiles) = Len(e.profiles) + 1 /\ Len(e.profiles) \in Nat
          /\ \A q \in 1..Len(e.profiles) : NoteOf(w, q) = NoteOf(e, q)
          /\ NoteOf(w, Len(e.profiles) + 1) = 0
      <3>1. [note |-> 0] \in [note : Nat] /\ e.profiles \in Seq([note : Nat])
        BY <2>0 DEF Keyed
      <3>2. /\ Len(w.profiles) = Len(e.profiles) + 1 /\ Len(e.profiles) \in Nat
            /\ \A q \in 1..Len(e.profiles) : w.profiles[q] = e.profiles[q]
            /\ w.profiles[Len(e.profiles) + 1] = [note |-> 0]
        BY <2>4, <3>1, AppendProperties
      <3> QED BY <3>2 DEF NoteOf
    <2>7. /\ \A q \in 1..Len(w.profiles) : q \in 1..Len(e.profiles) \/ q = Len(e.profiles) + 1
          /\ \A q \in 1..Len(e.profiles) : q \in 1..Len(w.profiles)
      BY <2>6
    <2>8. Linked(w)
      BY <2>4, <2>6, <2>7 DEF Linked
    <2> QED BY <2>3, <2>4, <2>5, <2>8
  <1> QED BY <1>1, <1>2

\* The migration of profile names, from its first turn to its last.
LEMMA Utf8Good ==
    ASSUME NEW d, Good(d), Linked(d)
    PROVE  LET w == Utf8ProfileNames(d)
           IN  Good(w) /\ Linked(w) /\ w.version = d.version
  <1>0. Len(d.profiles) \in Nat
    BY DEF Good, Keyed
  <1>1. PICK f : /\ f[0] = d
                 /\ \A p \in 1..Len(d.profiles) : f[p] = RewriteProfile(f[p - 1], d, p)
                 /\ Utf8ProfileNames(d) = f[Len(d.profiles)]
    BY <1>0, RewriteIs
  <1> DEFINE OK(e) == Good(e) /\ Linked(e) /\ e.notes = d.notes /\ e.version = d.version
             S == {p \in 0..Len(d.profiles) : ~OK(f[p])}
  <1>2. S = {}
    <2> SUFFICES ASSUME S # {} PROVE FALSE
      OBVIOUS
    <2>0. S \in SUBSET Nat /\ \A p \in S : p \in 0..Len(d.profiles) /\ ~OK(f[p])
      BY <1>0
    <2>1. PICK p \in S : \A q \in S : p <= q
      <3> HIDE DEF S
      <3> QED BY <2>0, LeastNat
    <2>2. p # 0
      BY <1>1, <2>1
    <2>3. p \in 1..Len(d.profiles) /\ p - 1 \in 0..Len(d.profiles) /\ p - 1 \notin S
      <3> HIDE DEF S
      <3> QED BY <1>0, <2>0, <2>1, <2>2
    <2>4. OK(f[p - 1])
      BY <2>3
    <2>5. f[p] = RewriteProfile(f[p - 1], d, p)
      BY <1>1, <2>3
    <2>6. OK(f[p])
      BY <2>3, <2>4, <2>5, RewriteGood
    <2> QED BY <2>1, <2>6
  <1>3. OK(f[Len(d.profiles)])
    BY <1>0, <1>2
  <1> QED BY <1>1, <1>3

\* One step of ndb_run_migrations brings what the version it reaches promises.
LEMMA MigrationGood ==
    ASSUME NEW d, Good(d), Linked(d), d.version \in 0..6
    PROVE  LET w == [Migration(d.version, d) EXCEPT !.version = d.version + 1]
           IN  Good(w) /\ Linked(w) /\ w.version = d.version + 1
  <1> DEFINE m == Migration(d.version, d)
             w == [m EXCEPT !.version = d.version + 1]
  <1> SUFFICES Good(w) /\ Linked(w) /\ w.version = d.version + 1
    OBVIOUS
  <1>0. Keyed(d) /\ IsDb(d) /\ DOMAIN d.notes = 1..Len(d.notes) /\ Indexed(d)
    BY DEF Good, Keyed
  <1>a. ASSUME IsDb(m)
        PROVE  /\ IsDb(w) /\ w.version = d.version + 1 /\ w.version \in 0..Latest
               /\ w.notes = m.notes /\ w.profiles = m.profiles /\ w.names = m.names
               /\ w.pubkeys = m.pubkeys /\ w.pubkeyKinds = m.pubkeyKinds /\ w.bad = m.bad
    BY <1>a DEF IsDb, Fields, Latest
  <1>b. ASSUME IsDb(m), NEW e, Good(e), Linked(e), m.notes = e.notes, m.profiles = e.profiles,
               m.pubkeys \subseteq 1..Len(e.notes), m.pubkeyKinds \subseteq 1..Len(e.notes),
               d.version + 1 >= 4 => /\ 1..Len(e.notes) \subseteq m.pubkeys
                                     /\ 1..Len(e.notes) \subseteq m.pubkeyKinds,
               \A p \in 1..Len(e.profiles) :
                  NoteOf(e, p) # 0 => NameEntry(e.notes[NoteOf(e, p)], p) \in m.names,
               d.version + 1 = Latest => m.bad = {}
        PROVE  Good(w) /\ Linked(w) /\ w.version = d.version + 1
    <2> HIDE DEF m
    <2>1. /\ IsDb(w) /\ w.version = d.version + 1 /\ w.version \in 0..Latest
          /\ w.notes = e.notes /\ w.profiles = e.profiles /\ w.names = m.names
          /\ w.pubkeys = m.pubkeys /\ w.pubkeyKinds = m.pubkeyKinds /\ w.bad = m.bad
      BY <1>a, <1>b
    <2> HIDE DEF w
    <2>2. Keyed(w) /\ Linked(w) /\ \A p \in 1..Len(e.profiles) : NoteOf(w, p) = NoteOf(e, p)
      BY <1>b, <2>1, ReindexedKeyed DEF Reindexed, Good
    <2>3. Indexed(w)
      BY <1>b, <2>1, <2>2 DEF Indexed
    <2> QED BY <2>1, <2>2, <2>3 DEF Good
  <1> HIDE DEF m
  <1> HIDE DEF w
  <1>1. CASE d.version \in {0, 1, 5}
    <2>1. m = UserSearchIndices(d) \/ m = LowerUserSearchIndices(d)
      BY <1>1 DEF m, Migration, SearchKeyCmpFix
    <2>2. /\ Reindexed(d, m) /\ AllNames(d) \subseteq m.names
          /\ m.pubkeys = d.pubkeys /\ m.pubkeyKinds = d.pubkeyKinds
      BY <1>0, <2>1, NamesMigrated
    <2>3. /\ d.pubkeys \subseteq 1..Len(d.notes) /\ d.pubkeyKinds \subseteq 1..Len(d.notes)
          /\ d.version + 1 >= 4 => 1..Len(d.notes) \subseteq d.pubkeys /\ 1..Len(d.notes) \subseteq d.pubkeyKinds
          /\ d.version + 1 # Latest
      BY <1>0, <1>1 DEF Indexed, Latest
    <2>4. \A p \in 1..Len(d.profiles) : NoteOf(d, p) # 0 => NameEntry(d.notes[NoteOf(d, p)], p) \in m.names
      BY <1>0, <2>2, AllNamesAre
    <2> QED BY <1>b, <2>2, <2>3, <2>4 DEF Reindexed
  <1>2. CASE d.version = 2
    <2>1. m = Utf8ProfileNames(d)
      BY <1>2 DEF m, Migration
    <2>2. Good(m) /\ Linked(m)
      BY <2>1, Utf8Good
    <2>3. IsDb(m) /\ Indexed(m) /\ ~(d.version + 1 >= 4) /\ d.version + 1 # Latest
      BY <1>2, <2>2 DEF Good, Keyed, Latest
    <2> QED BY <1>b, <2>2, <2>3 DEF Indexed
  <1>3. CASE d.version = 3
    <2>1. m = ProfileIndices(d)
      BY <1>3 DEF m, Migration
    <2>2. /\ IsDb(m) /\ m.notes = d.notes /\ m.profiles = d.profiles /\ m.names = d.names
          /\ m.pubkeys = 1..Len(d.notes) /\ m.pubkeyKinds = d.pubkeyKinds \cup (1..Len(d.notes))
      BY <1>0, <2>1 DEF ProfileIndices, IsDb, Fields
    <2>3. /\ m.pubkeyKinds \subseteq 1..Len(d.notes) /\ d.version + 1 # Latest
          /\ \A p \in 1..Len(d.profiles) : NoteOf(d, p) # 0 => NameEntry(d.notes[NoteOf(d, p)], p) \in m.names
      BY <1>0, <1>3, <2>2 DEF Indexed, Latest
    <2> QED BY <1>b, <2>2, <2>3
  <1>4. CASE d.version \in {4, 6}
    <2>1. /\ IsDb(m) /\ m.notes = d.notes /\ m.profiles = d.profiles /\ m.names = d.names
          /\ m.pubkeys = d.pubkeys /\ m.pubkeyKinds = d.pubkeyKinds
          /\ d.version = 6 => m.bad = {}
      <3>1. CASE d.version = 4
        <4>1. m = Metadata(d)
          BY <3>1 DEF m, Migration
        <4>2. PICK metas : m = [d EXCEPT !.meta = metas]
          BY <4>1, Zenon DEF Metadata
        <4> QED BY <1>0, <3>1, <4>2 DEF IsDb, Fields
      <3>2. CASE d.version = 6
        <4>1. m = BadNoteBlocks(d)
          BY <3>2 DEF m, Migration
        <4> QED BY <1>0, <3>2, <4>1 DEF BadNoteBlocks, IsDb, Fields
      <3> QED BY <1>4, <3>1, <3>2
    <2>2. /\ d.pubkeys \subseteq 1..Len(d.notes) /\ d.pubkeyKinds \subseteq 1..Len(d.notes)
          /\ 1..Len(d.notes) \subseteq d.pubkeys /\ 1..Len(d.notes) \subseteq d.pubkeyKinds
          /\ \A p \in 1..Len(d.profiles) : NoteOf(d, p) # 0 => NameEntry(d.notes[NoteOf(d, p)], p) \in d.names
          /\ d.version + 1 = Latest => m.bad = {}
      BY <1>0, <1>4, <2>1 DEF Indexed, Latest
    <2> QED BY <1>b, <2>1, <2>2
  <1> QED BY <1>1, <1>2, <1>3, <1>4

-----------------------------------------------------------------------------
(* Pruning *)

\* A pubkey has a newest profile entry.
HasNewest(pk, pubkey) ==
    \E e \in pk :
        /\ e[1] = pubkey
        /\ \A o \in pk : o[1] = pubkey => (o[2] < e[2] \/ (o[2] = e[2] /\ o[3] <= e[3]))

\* The profile index leads to profiles, and every pubkey in it has a newest one.
PkOK(pk) ==
    \A e \in pk : e[2] \in Nat /\ e[3] \in Nat \ {0} /\ HasNewest(pk, e[1])

\* The lookup of a profile finds none only where the index has none.
LEMMA ProfileOfIs ==
    ASSUME NEW d, PkOK(d.pk), NEW pubkey
    PROVE  ProfileOf(d, pubkey) = 0 <=> \A e \in d.pk : e[1] # pubkey
  <1> DEFINE mine == {e \in d.pk : e[1] = pubkey}
             best == CHOOSE e \in mine : \A o \in mine : o[2] < e[2] \/ (o[2] = e[2] /\ o[3] <= e[3])
  <1>1. CASE mine = {}
    BY <1>1 DEF ProfileOf
  <1>2. CASE mine # {}
    <2>1. \E e \in mine : \A o \in mine : o[2] < e[2] \/ (o[2] = e[2] /\ o[3] <= e[3])
      BY <1>2 DEF PkOK, HasNewest
    <2>2. best \in mine
      BY <2>1, Zenon
    <2>3. ProfileOf(d, pubkey) = best[3]
      BY <1>2, Zenon DEF ProfileOf
    <2>4. best[3] # 0
      BY <2>2 DEF PkOK
    <2> QED BY <1>2, <2>3, <2>4
  <1> QED BY <1>1, <1>2

\* A further entry is the newest of its pubkey, or the newest stays.
LEMMA PkAdd ==
    ASSUME NEW pk, PkOK(pk), NEW pubkey, NEW t \in Nat, NEW p \in Nat \ {0}
    PROVE  PkOK(pk \cup {<<pubkey, t, p>>})
  <1> DEFINE x == <<pubkey, t, p>>
             new == pk \cup {x}
             Le(o, e) == o[2] < e[2] \/ (o[2] = e[2] /\ o[3] <= e[3])
  <1>0. x[1] = pubkey /\ x[2] = t /\ x[3] = p
    OBVIOUS
  <1> HIDE DEF x
  <1>1. \A e \in new : e[2] \in Nat /\ e[3] \in Nat \ {0}
    BY <1>0 DEF PkOK
  <1>2. ASSUME NEW k, NEW e \in pk, e[1] = k, \A o \in pk : o[1] = k => Le(o, e)
        PROVE  HasNewest(new, k)
    <2>1. CASE pubkey # k \/ Le(x, e)
      BY <1>0, <1>2, <2>1 DEF HasNewest
    <2>2. CASE pubkey = k /\ ~Le(x, e)
      <3>1. Le(e, x) /\ Le(x, x)
        BY <1>0, <1>1, <1>2, <2>2
      <3>2. \A o \in pk : o[1] = k => Le(o, x)
        BY <1>0, <1>1, <1>2, <3>1
      <3> QED BY <1>0, <2>2, <3>1, <3>2 DEF HasNewest
    <2> QED BY <2>1, <2>2
  <1>3. ASSUME NEW k, HasNewest(pk, k) PROVE HasNewest(new, k)
    BY <1>2, <1>3 DEF HasNewest
  <1>4. ASSUME ~\E e \in pk : e[1] = pubkey PROVE HasNewest(new, pubkey)
    BY <1>0, <1>1, <1>4 DEF HasNewest
  <1>5. \A e \in new : HasNewest(new, e[1])
    <2> SUFFICES ASSUME NEW e \in new PROVE HasNewest(new, e[1])
      OBVIOUS
    <2>1. CASE \E o \in pk : o[1] = e[1]
      BY <1>3, <2>1 DEF PkOK
    <2>2. CASE ~\E o \in pk : o[1] = e[1]
      BY <1>0, <1>4, <2>2
    <2> QED BY <2>1, <2>2
  <1> QED BY <1>1, <1>5 DEF PkOK, x

\* The notes of a database.
NotesOf(d) == {d.notes[k] : k \in 1..Len(d.notes)}

\* No pubkey without a profile has a fetch time.
FetchesOK(d) ==
    /\ d.fetched = [p \in Pubkeys |-> d.fetched[p]]
    /\ \A p \in Pubkeys : (\A e \in d.pk : e[1] # p) => d.fetched[p] = 0

\* The copy, at every point of the loops of ndb_prune.
CopyOK(d) ==
    /\ Good(d)
    /\ d.version = Latest
    /\ \A j, k \in 1..Len(d.notes) : d.notes[j].id = d.notes[k].id => j = k
    /\ \A p \in 1..Len(d.profiles) : NoteOf(d, p) # 0
    /\ d.kinds = 1..Len(d.notes)
    /\ PkOK(d.pk)
    /\ FetchesOK(d)

\* The copy is empty at first.
LEMMA EmptyGood ==
    ASSUME NEW v \in 0..Latest
    PROVE  Good(EmptyDb(v)) /\ Linked(EmptyDb(v))
  <1> DEFINE d == EmptyDb(v)
  <1>1. /\ d.notes = <<>> /\ d.profiles = <<>> /\ d.pubkeys = {} /\ d.pubkeyKinds = {}
        /\ d.bad = {} /\ d.version = v
    BY DEF EmptyDb
  <1>2. IsDb(d)
    BY DEF EmptyDb, IsDb, Fields
  <1> HIDE DEF d
  <1>3. Len(d.notes) = 0 /\ Len(d.profiles) = 0 /\ d.notes \in Seq(Arriving) /\ d.profiles \in Seq([note : Nat])
    BY <1>1
  <1>4. \A k \in 1..0 : FALSE
    OBVIOUS
  <1>5. Keyed(d) /\ Indexed(d) /\ Linked(d)
    BY <1>1, <1>2, <1>3, <1>4 DEF Keyed, Indexed, Linked
  <1> QED BY <1>5 DEF Good, d

\* An empty copy is a good one.
LEMMA EmptyCopy == CopyOK(EmptyDb(Latest)) /\ NotesOf(EmptyDb(Latest)) = {}
  <1> DEFINE d == EmptyDb(Latest)
  <1>1. /\ d.notes = <<>> /\ d.profiles = <<>> /\ d.kinds = {} /\ d.pk = {} /\ d.version = Latest
        /\ d.fetched = [p \in Pubkeys |-> 0]
    BY DEF EmptyDb
  <1>2. Good(d)
    BY EmptyGood DEF Latest
  <1> HIDE DEF d
  <1>3. Len(d.notes) = 0 /\ Len(d.profiles) = 0 /\ \A k \in 1..0 : FALSE
    BY <1>1
  <1>4. 1..0 = {}
    OBVIOUS
  <1>5. FetchesOK(d)
    BY <1>1 DEF FetchesOK
  <1> QED BY <1>1, <1>2, <1>3, <1>4, <1>5 DEF CopyOK, PkOK, NotesOf, d

\* Copying a note that is not there yet.
LEMMA CopiedNote ==
    ASSUME NEW d, CopyOK(d), NEW n \in Arriving, n.id \notin Stored(d)
    PROVE  LET w == WriteNote(d, n)
           IN  /\ CopyOK(w)
               /\ NotesOf(w) = NotesOf(d) \cup {n}
               /\ w.pk = d.pk
  <1> DEFINE w == WriteNote(d, n)
             key == Len(d.notes) + 1
  <1>0. Good(d) /\ Keyed(d) /\ d.notes \in Seq(Arriving) /\ Len(d.notes) \in Nat
    BY DEF CopyOK, Good, Keyed
  <1>1. /\ w.notes = Append(d.notes, n) /\ w.kinds = d.kinds \cup {key}
        /\ w.profiles = d.profiles /\ w.pk = d.pk /\ w.fetched = d.fetched /\ w.version = d.version
    BY <1>0, WriteNoteFields DEF Keyed
  <1>2. Good(w)
    BY <1>0, WriteNoteGood
  <1> HIDE DEF w
  <1>3. /\ Len(w.notes) = key /\ w.notes[key] = n
        /\ \A k \in 1..Len(d.notes) : w.notes[k] = d.notes[k]
    BY <1>0, <1>1, AppendProperties
  <1>4. 1..key = (1..Len(d.notes)) \cup {key}
    BY <1>0
  <1>5. \A j, k \in 1..Len(w.notes) : w.notes[j].id = w.notes[k].id => j = k
    <2>1. \A k \in 1..Len(d.notes) : d.notes[k].id # n.id
      BY <1>0, StoredIs
    <2>2. \A j, k \in 1..Len(d.notes) : d.notes[j].id = d.notes[k].id => j = k
      BY DEF CopyOK
    <2>3. \A k \in 1..Len(w.notes) : k \in 1..Len(d.notes) \/ k = key
      BY <1>3, <1>4
    <2> HIDE DEF key
    <2> QED BY <1>3, <2>1, <2>2, <2>3
  <1>6. \A p \in 1..Len(w.profiles) : NoteOf(w, p) # 0
    BY <1>1 DEF NoteOf, CopyOK
  <1>7. w.kinds = 1..Len(w.notes)
    BY <1>1, <1>3, <1>4 DEF CopyOK
  <1>8. FetchesOK(w)
    BY <1>1 DEF FetchesOK, CopyOK
  <1>9. NotesOf(w) = NotesOf(d) \cup {n}
    <2> HIDE DEF key
    <2>1. {w.notes[k] : k \in 1..Len(d.notes)} = NotesOf(d)
      BY <1>3 DEF NotesOf
    <2> QED BY <1>3, <1>4, <2>1 DEF NotesOf
  <1>10. CopyOK(w)
    <2> HIDE DEF key
    <2> QED BY <1>1, <1>2, <1>5, <1>6, <1>7, <1>8 DEF CopyOK
  <1> QED BY <1>1, <1>9, <1>10 DEF w

\* Writing a profile touches the fetch time of its own pubkey only.
LEMMA FetchedElsewhere ==
    ASSUME NEW d, FetchesOK(d), NEW n \in Arriving
    PROVE  /\ Fetched(d, n) = [p \in Pubkeys |-> Fetched(d, n)[p]]
           /\ \A p \in Pubkeys : p # n.pubkey => Fetched(d, n)[p] = d.fetched[p]
  <1>1. \/ Fetched(d, n) = d.fetched
        \/ Fetched(d, n) = [d.fetched EXCEPT ![n.pubkey] = @ + 1]
    BY DEF Fetched
  <1> QED BY <1>1 DEF FetchesOK

\* Copying a profile with its note.
LEMMA CopiedProfile ==
    ASSUME NEW d, CopyOK(d), NEW n \in Arriving, n.id \notin Stored(d), n.parses
    PROVE  LET w == WriteNoteAndProfile(d, n)
           IN  /\ CopyOK(w)
               /\ NotesOf(w) = NotesOf(d) \cup {n}
               /\ d.pk \subseteq w.pk
               /\ \E e \in w.pk : e[1] = n.pubkey
  <1> DEFINE v == WriteNote(d, n)
             key == Len(d.notes) + 1
             w == WriteProfile(v, n, key)
             e == <<n.pubkey, n.created_at, Len(d.profiles) + 1>>
  <1>0. /\ Keyed(d) /\ d.notes \in Seq(Arriving) /\ Len(d.notes) \in Nat
        /\ d.profiles \in Seq([note : Nat]) /\ Len(d.profiles) \in Nat
    BY DEF CopyOK, Good, Keyed
  <1>1. CopyOK(v) /\ NotesOf(v) = NotesOf(d) \cup {n} /\ v.pk = d.pk
    BY CopiedNote
  <1>2. v.notes = Append(d.notes, n) /\ v.profiles = d.profiles
    BY <1>0, WriteNoteFields DEF Keyed
  <1>3. WriteNoteAndProfile(d, n) = w
    BY DEF WriteNoteAndProfile
  <1> SUFFICES CopyOK(w) /\ NotesOf(w) = NotesOf(d) \cup {n} /\ d.pk \subseteq w.pk
               /\ \E x \in w.pk : x[1] = n.pubkey
    BY <1>3
  <1> HIDE DEF v
  <1>4. IsDb(v) /\ Good(v)
    BY <1>1 DEF CopyOK, Good, Keyed
  <1>5. /\ w.profiles = Append(d.profiles, [note |-> key]) /\ w.fetched = Fetched(v, n)
        /\ w.pk = d.pk \cup {e} /\ w.notes = v.notes /\ w.kinds = v.kinds /\ w.version = v.version
    <2> HIDE DEF key
    <2>1. /\ w.profiles = Append(v.profiles, [note |-> key]) /\ w.fetched = Fetched(v, n)
          /\ w.pk = v.pk \cup {<<n.pubkey, n.created_at, Len(v.profiles) + 1>>}
          /\ w.notes = v.notes /\ w.kinds = v.kinds /\ w.version = v.version
      BY <1>4, WriteProfileFields
    <2> HIDE DEF w
    <2> QED BY <1>1, <1>2, <2>1
  <1>6. Len(v.notes) = key /\ v.notes[key] = n /\ key \in 0..Len(v.notes)
    BY <1>0, <1>2, AppendProperties
  <1>7. Good(w)
    BY <1>4, <1>6, WriteProfileGood
  <1> HIDE DEF w
  <1>8. \A p \in 1..Len(w.profiles) : NoteOf(w, p) # 0
    <2>1. [note |-> key] \in [note : Nat]
      BY <1>0
    <2>2. /\ Len(w.profiles) = Len(d.profiles) + 1
          /\ \A p \in 1..Len(d.profiles) : w.profiles[p] = d.profiles[p]
          /\ w.profiles[Len(d.profiles) + 1] = [note |-> key]
      BY <1>0, <1>5, <2>1, AppendProperties
    <2>3. \A p \in 1..Len(w.profiles) : p \in 1..Len(d.profiles) \/ p = Len(d.profiles) + 1
      BY <1>0, <2>2
    <2>4. key # 0
      BY <1>0
    <2>5. \A p \in 1..Len(d.profiles) : d.profiles[p].note # 0
      BY DEF CopyOK, NoteOf
    <2>6. [note |-> key].note = key
      OBVIOUS
    <2> SUFFICES ASSUME NEW p \in 1..Len(w.profiles) PROVE w.profiles[p].note # 0
      BY DEF NoteOf
    <2> HIDE DEF key
    <2>7. CASE p \in 1..Len(d.profiles)
      BY <2>2, <2>5, <2>7
    <2>8. CASE p = Len(d.profiles) + 1
      BY <2>2, <2>4, <2>6, <2>8
    <2> QED BY <2>3, <2>7, <2>8
  <1>9. PkOK(w.pk)
    <2>1. n.created_at \in Nat /\ Len(d.profiles) + 1 \in Nat \ {0}
      BY <1>0, UpkeepAssumption
    <2>2. PkOK(d.pk)
      BY DEF CopyOK
    <2>3. PkOK(d.pk \cup {e})
      BY <2>1, <2>2, PkAdd
    <2> QED BY <1>5, <2>3
  <1>10. FetchesOK(w)
    <2>1. FetchesOK(v)
      BY <1>1 DEF CopyOK
    <2>2. e[1] = n.pubkey
      OBVIOUS
    <2>3. /\ w.fetched = [p \in Pubkeys |-> w.fetched[p]]
          /\ \A p \in Pubkeys : p # n.pubkey => w.fetched[p] = v.fetched[p]
      BY <1>5, <2>1, FetchedElsewhere
    <2> HIDE DEF e
    <2> QED BY <1>1, <1>5, <2>1, <2>2, <2>3 DEF FetchesOK
  <1>11. NotesOf(w) = NotesOf(v) /\ \E x \in w.pk : x[1] = n.pubkey
    <2>1. e[1] = n.pubkey /\ e \in w.pk
      BY <1>5
    <2> HIDE DEF e
    <2>2. NotesOf(w) = NotesOf(v)
      BY <1>5 DEF NotesOf
    <2> QED BY <2>1, <2>2
  <1>12. CopyOK(w)
    BY <1>1, <1>5, <1>7, <1>8, <1>9, <1>10 DEF CopyOK
  <1> QED BY <1>1, <1>5, <1>11, <1>12

\* The loop over the profiles computes a database.
LEMMA CopyProfilesExists ==
    ASSUME NEW d, NEW filters, NEW start, NEW N \in Nat
    PROVE  \E f : f = [p \in 0..N |-> IF p = 0 THEN start ELSE CopyProfile(f[p - 1], d, filters, p)]
  <1> DEFINE Is(f, n) == f = [p \in 0..n |-> IF p = 0 THEN start ELSE CopyProfile(f[p - 1], d, filters, p)]
             S == {n \in Nat : ~\E f : Is(f, n)}
  <1> SUFFICES ASSUME S # {} PROVE FALSE
    OBVIOUS
  <1>1. PICK n \in S : \A m \in S : n <= m
    BY LeastNat
  <1>2. CASE n = 0
    <2>1. Is([p \in 0..0 |-> start], 0)
      OBVIOUS
    <2> QED BY <1>2, <2>1
  <1>3. CASE n > 0
    <2>1. n - 1 \in Nat /\ n - 1 \notin S
      BY <1>1, <1>3
    <2>2. PICK f : Is(f, n - 1)
      BY <2>1
    <2> DEFINE g == [p \in 0..n |-> IF p = n THEN CopyProfile(f[n - 1], d, filters, n) ELSE f[p]]
    <2>3. \A p \in 0..(n - 1) : g[p] = f[p]
      BY <2>1
    <2>4. \A p \in 0..(n - 1) : f[p] = IF p = 0 THEN start ELSE CopyProfile(f[p - 1], d, filters, p)
      BY <2>2
    <2>5. \A p \in 0..n : g[p] = IF p = 0 THEN start ELSE CopyProfile(g[p - 1], d, filters, p)
      BY <2>1, <2>3, <2>4, <1>3
    <2>6. Is(g, n)
      BY <2>5, Zenon
    <2> QED BY <2>6
  <1> QED BY <1>1, <1>2, <1>3

\* What the loop leaves is what its last turn does.
LEMMA CopyProfilesAre ==
    ASSUME NEW d, NEW filters, Len(d.profiles) \in Nat
    PROVE  \E f : /\ f[0] = EmptyDb(Latest)
                  /\ \A p \in 1..Len(d.profiles) : f[p] = CopyProfile(f[p - 1], d, filters, p)
                  /\ PrunedProfiles(d, filters) = f[Len(d.profiles)]
  <1> DEFINE start == EmptyDb(Latest)
             u == CHOOSE f : f = [p \in 0..Len(d.profiles) |->
                                     IF p = 0 THEN start ELSE CopyProfile(f[p - 1], d, filters, p)]
  <1>1. u = [p \in 0..Len(d.profiles) |-> IF p = 0 THEN start ELSE CopyProfile(u[p - 1], d, filters, p)]
    <2> HIDE DEF start
    <2> QED BY CopyProfilesExists
  <1>2. PrunedProfiles(d, filters) = u[Len(d.profiles)]
    BY DEF PrunedProfiles
  <1> HIDE DEF u
  <1>3. u[0] = start
    BY <1>1
  <1>4. \A p \in 1..Len(d.profiles) : u[p] = CopyProfile(u[p - 1], d, filters, p)
    BY <1>1
  <1> QED BY <1>2, <1>3, <1>4

\* The loop over the notes computes a database.
LEMMA CopyNotesExists ==
    ASSUME NEW d, NEW filters, NEW start, NEW N \in Nat
    PROVE  \E f : f = [p \in 0..N |-> IF p = 0 THEN start ELSE CopyNote(f[p - 1], d, filters, p)]
  <1> DEFINE Is(f, n) == f = [p \in 0..n |-> IF p = 0 THEN start ELSE CopyNote(f[p - 1], d, filters, p)]
             S == {n \in Nat : ~\E f : Is(f, n)}
  <1> SUFFICES ASSUME S # {} PROVE FALSE
    OBVIOUS
  <1>1. PICK n \in S : \A m \in S : n <= m
    BY LeastNat
  <1>2. CASE n = 0
    <2>1. Is([p \in 0..0 |-> start], 0)
      OBVIOUS
    <2> QED BY <1>2, <2>1
  <1>3. CASE n > 0
    <2>1. n - 1 \in Nat /\ n - 1 \notin S
      BY <1>1, <1>3
    <2>2. PICK f : Is(f, n - 1)
      BY <2>1
    <2> DEFINE g == [p \in 0..n |-> IF p = n THEN CopyNote(f[n - 1], d, filters, n) ELSE f[p]]
    <2>3. \A p \in 0..(n - 1) : g[p] = f[p]
      BY <2>1
    <2>4. \A p \in 0..(n - 1) : f[p] = IF p = 0 THEN start ELSE CopyNote(f[p - 1], d, filters, p)
      BY <2>2
    <2>5. \A p \in 0..n : g[p] = IF p = 0 THEN start ELSE CopyNote(g[p - 1], d, filters, p)
      BY <2>1, <2>3, <2>4, <1>3
    <2>6. Is(g, n)
      BY <2>5, Zenon
    <2> QED BY <2>6
  <1> QED BY <1>1, <1>2, <1>3

\* What the loop leaves is what its last turn does.
LEMMA CopyNotesAre ==
    ASSUME NEW d, NEW filters, Len(d.notes) \in Nat
    PROVE  \E f : /\ f[0] = PrunedProfiles(d, filters)
                  /\ \A p \in 1..Len(d.notes) : f[p] = CopyNote(f[p - 1], d, filters, p)
                  /\ PrunedNotes(d, filters) = f[Len(d.notes)]
  <1> DEFINE start == PrunedProfiles(d, filters)
             u == CHOOSE f : f = [p \in 0..Len(d.notes) |->
                                     IF p = 0 THEN start ELSE CopyNote(f[p - 1], d, filters, p)]
  <1>1. u = [p \in 0..Len(d.notes) |-> IF p = 0 THEN start ELSE CopyNote(u[p - 1], d, filters, p)]
    <2> HIDE DEF start
    <2> QED BY CopyNotesExists
  <1>2. PrunedNotes(d, filters) = u[Len(d.notes)]
    BY DEF PrunedNotes
  <1> HIDE DEF u
  <1>3. u[0] = start
    BY <1>1
  <1>4. \A p \in 1..Len(d.notes) : u[p] = CopyNote(u[p - 1], d, filters, p)
    BY <1>1
  <1> QED BY <1>2, <1>3, <1>4

\* The notes of the profiles that the first loop has copied before turn p + 1.
KeptPeople(d, filters, p) ==
    {d.notes[NoteOf(d, q)] :
        q \in {q \in 1..p : Parsed(d, q) /\ Keeps(filters, d.notes[NoteOf(d, q)])}}

\* The copy o after turn p of the loop over the profiles: their kept notes and no
\* others, each with a profile.
PeopleCopied(o, d, filters, p) ==
    /\ CopyOK(o)
    /\ NotesOf(o) = KeptPeople(d, filters, p)
    /\ \A n \in NotesOf(o) : \E e \in o.pk : e[1] = n.pubkey

\* One turn of the loop over the profiles.
LEMMA CopyProfileStep ==
    ASSUME NEW d, Good(d), Linked(d), NEW filters, NEW p \in 1..Len(d.profiles),
           NEW o, PeopleCopied(o, d, filters, p - 1)
    PROVE  PeopleCopied(CopyProfile(o, d, filters, p), d, filters, p)
  <1> DEFINE n == d.notes[NoteOf(d, p)]
             Kept(q) == Parsed(d, q) /\ Keeps(filters, d.notes[NoteOf(d, q)])
  <1>0. Keyed(d) /\ Keyed(o) /\ Len(d.profiles) \in Nat
    BY DEF Good, PeopleCopied, CopyOK, Keyed
  <1>1. \A q : q \in 1..p <=> q \in 1..(p - 1) \/ q = p
    BY <1>0
  <1>2. CASE ~Kept(p)
    <2>1. CopyProfile(o, d, filters, p) = o
      BY <1>2 DEF CopyProfile
    <2>2. KeptPeople(d, filters, p) = KeptPeople(d, filters, p - 1)
      BY <1>1, <1>2 DEF KeptPeople
    <2> QED BY <2>1, <2>2 DEF PeopleCopied
  <1>3. CASE Kept(p)
    <2> DEFINE w == WriteNoteAndProfile(o, n)
    <2>1. CopyProfile(o, d, filters, p) = w
      BY <1>3 DEF CopyProfile
    <2>2. KeptPeople(d, filters, p) = KeptPeople(d, filters, p - 1) \cup {n}
      BY <1>1, <1>3 DEF KeptPeople
    <2>3. \A q \in 1..p : NoteOf(d, q) \in 0..Len(d.notes)
      BY <1>0, NoteOfType
    <2>4. n \in Arriving
      <3>1. NoteOf(d, p) \in 1..Len(d.notes)
        BY <1>0, <1>3, <2>3 DEF Parsed
      <3> QED BY <1>0, <3>1, ElementOfSeq DEF Keyed
    <2>5. n.id \notin Stored(o)
      <3> SUFFICES ASSUME NEW j \in 1..Len(o.notes), o.notes[j].id = n.id PROVE FALSE
        BY <1>0, StoredIs
      <3>1. o.notes[j] \in KeptPeople(d, filters, p - 1)
        BY DEF NotesOf, PeopleCopied
      <3>2. PICK q \in 1..(p - 1) : Kept(q) /\ o.notes[j] = d.notes[NoteOf(d, q)]
        BY <3>1 DEF KeptPeople
      <3>3. q \in 1..Len(d.profiles) /\ q # p /\ NoteOf(d, q) \in 1..Len(d.notes) /\ NoteOf(d, p) \in 1..Len(d.notes)
        BY <1>0, <1>3, <2>3, <3>2 DEF Parsed
      <3>4. NoteOf(d, q) = NoteOf(d, p)
        BY <3>2, <3>3 DEF Linked
      <3> QED BY <1>3, <3>3, <3>4 DEF Linked
    <2>6. /\ CopyOK(w) /\ NotesOf(w) = NotesOf(o) \cup {n}
          /\ o.pk \subseteq w.pk /\ \E e \in w.pk : e[1] = n.pubkey
      BY <1>3, <2>4, <2>5, CopiedProfile DEF Parsed, PeopleCopied
    <2> HIDE DEF w, n
    <2> QED BY <2>1, <2>2, <2>6 DEF PeopleCopied
  <1> QED BY <1>2, <1>3

\* What the loop over the profiles leaves.
LEMMA ProfilesCopied ==
    ASSUME NEW d, Good(d), Linked(d), NEW filters
    PROVE  PeopleCopied(PrunedProfiles(d, filters), d, filters, Len(d.profiles))
  <1>0. Len(d.profiles) \in Nat
    BY DEF Good, Keyed
  <1>1. PICK f : /\ f[0] = EmptyDb(Latest)
                 /\ \A p \in 1..Len(d.profiles) : f[p] = CopyProfile(f[p - 1], d, filters, p)
                 /\ PrunedProfiles(d, filters) = f[Len(d.profiles)]
    BY <1>0, CopyProfilesAre
  <1> DEFINE OK(p) == PeopleCopied(f[p], d, filters, p)
             S == {p \in 0..Len(d.profiles) : ~OK(p)}
  <1>2. OK(0)
    <2>1. KeptPeople(d, filters, 0) = {}
      BY DEF KeptPeople
    <2> QED BY <1>1, <2>1, EmptyCopy DEF PeopleCopied
  <1>3. ASSUME NEW p \in 1..Len(d.profiles), OK(p - 1) PROVE OK(p)
    BY <1>1, <1>3, CopyProfileStep
  <1> HIDE DEF OK
  <1>4. S = {}
    <2> SUFFICES ASSUME S # {} PROVE FALSE
      OBVIOUS
    <2>0. S \in SUBSET Nat /\ \A p \in S : p \in 0..Len(d.profiles) /\ ~OK(p)
      BY <1>0
    <2>1. PICK p \in S : \A q \in S : p <= q
      <3> HIDE DEF S
      <3> QED BY <2>0, LeastNat
    <2>2. p \in 1..Len(d.profiles) /\ p - 1 \in 0..Len(d.profiles) /\ p - 1 \notin S
      <3>1. p # 0
        BY <1>2, <2>0
      <3> HIDE DEF S
      <3> QED BY <1>0, <2>0, <2>1, <3>1
    <2>3. OK(p - 1)
      BY <2>2
    <2> QED BY <1>3, <2>0, <2>2, <2>3
  <1>5. OK(Len(d.profiles))
    BY <1>0, <1>4
  <1> QED BY <1>1, <1>5 DEF OK

\* The notes that the second loop has kept before turn k + 1.
KeptNotes(d, filters, k) == {d.notes[j] : j \in {j \in 1..k : Keeps(filters, d.notes[j])}}

\* The copy o after turn k of the loop over the notes: the kept ones besides those
\* of the copy it began with, with the same profiles.
NotesAdded(o, first, d, filters, k) ==
    /\ CopyOK(o)
    /\ NotesOf(o) = NotesOf(first) \cup KeptNotes(d, filters, k)
    /\ o.pk = first.pk

\* One turn of the loop over the notes.
LEMMA CopyNoteStep ==
    ASSUME NEW d, Good(d), Linked(d), NEW filters, NEW k \in 1..Len(d.notes),
           NEW first, NotesOf(first) \subseteq NotesOf(d),
           NEW o, NotesAdded(o, first, d, filters, k - 1)
    PROVE  NotesAdded(CopyNote(o, d, filters, k), first, d, filters, k)
  <1> DEFINE n == d.notes[k]
             w == CopyNote(o, d, filters, k)
  <1> SUFFICES NotesAdded(w, first, d, filters, k)
    OBVIOUS
  <1>0. Keyed(d) /\ Keyed(o) /\ Len(d.notes) \in Nat
    BY DEF Good, NotesAdded, CopyOK, Keyed
  <1>1. \A j : j \in 1..k <=> j \in 1..(k - 1) \/ j = k
    BY <1>0
  <1>2. CASE ~Keeps(filters, n)
    <2>1. w = o
      BY <1>2 DEF CopyNote
    <2>2. KeptNotes(d, filters, k) = KeptNotes(d, filters, k - 1)
      BY <1>1, <1>2 DEF KeptNotes
    <2> QED BY <2>1, <2>2 DEF NotesAdded
  <1>3. CASE Keeps(filters, n)
    <2>1. w = WriteNote(o, n)
      BY <1>3 DEF CopyNote
    <2>2. KeptNotes(d, filters, k) = KeptNotes(d, filters, k - 1) \cup {n}
      BY <1>1, <1>3 DEF KeptNotes
    <2>3. CASE n.id \notin Stored(o)
      <3>1. n \in Arriving
        BY <1>0, ElementOfSeq DEF Keyed
      <3>2. CopyOK(w) /\ NotesOf(w) = NotesOf(o) \cup {n} /\ w.pk = o.pk
        BY <2>1, <2>3, <3>1, CopiedNote DEF NotesAdded
      <3> HIDE DEF w, n
      <3> QED BY <2>2, <3>2 DEF NotesAdded
    <2>4. CASE n.id \in Stored(o)
      <3>1. w = o
        BY <2>1, <2>4 DEF WriteNote
      <3>2. PICK j \in 1..Len(o.notes) : o.notes[j].id = n.id
        BY <1>0, <2>4, StoredIs
      <3>3. o.notes[j] \in NotesOf(d)
        <4>1. o.notes[j] \in NotesOf(first) \cup KeptNotes(d, filters, k - 1)
          BY DEF NotesOf, NotesAdded
        <4>2. KeptNotes(d, filters, k - 1) \subseteq NotesOf(d)
          BY <1>0 DEF KeptNotes, NotesOf
        <4> QED BY <4>1, <4>2
      <3>4. PICK i \in 1..Len(d.notes) : o.notes[j] = d.notes[i]
        BY <3>3 DEF NotesOf
      <3>5. o.notes[j] = n
        BY <3>2, <3>4 DEF Linked
      <3>6. n \in NotesOf(o)
        BY <3>5 DEF NotesOf
      <3> HIDE DEF w, n
      <3> QED BY <2>2, <3>1, <3>6 DEF NotesAdded
    <2> QED BY <2>3, <2>4
  <1> QED BY <1>2, <1>3

\* What the loop over the notes leaves.
LEMMA NotesCopied ==
    ASSUME NEW d, Good(d), Linked(d), NEW filters
    PROVE  NotesAdded(PrunedNotes(d, filters), PrunedProfiles(d, filters), d, filters, Len(d.notes))
  <1> DEFINE first == PrunedProfiles(d, filters)
  <1>0. Len(d.notes) \in Nat /\ Keyed(d)
    BY DEF Good, Keyed
  <1>1. PICK f : /\ f[0] = first
                 /\ \A k \in 1..Len(d.notes) : f[k] = CopyNote(f[k - 1], d, filters, k)
                 /\ PrunedNotes(d, filters) = f[Len(d.notes)]
    BY <1>0, CopyNotesAre
  <1>a. CopyOK(first) /\ NotesOf(first) \subseteq NotesOf(d)
    <2>1. CopyOK(first) /\ NotesOf(first) = KeptPeople(d, filters, Len(d.profiles))
      BY ProfilesCopied DEF PeopleCopied
    <2>2. \A q \in 1..Len(d.profiles) : NoteOf(d, q) \in 0..Len(d.notes)
      BY <1>0, NoteOfType
    <2>3. KeptPeople(d, filters, Len(d.profiles)) \subseteq NotesOf(d)
      BY <1>0, <2>2 DEF KeptPeople, Parsed, NotesOf
    <2> QED BY <2>1, <2>3
  <1> HIDE DEF first
  <1> DEFINE OK(k) == NotesAdded(f[k], first, d, filters, k)
             S == {k \in 0..Len(d.notes) : ~OK(k)}
  <1>2. OK(0)
    <2>1. KeptNotes(d, filters, 0) = {}
      BY DEF KeptNotes
    <2> QED BY <1>1, <1>a, <2>1 DEF NotesAdded
  <1>3. ASSUME NEW k \in 1..Len(d.notes), OK(k - 1) PROVE OK(k)
    BY <1>1, <1>a, <1>3, CopyNoteStep
  <1> HIDE DEF OK
  <1>4. S = {}
    <2> SUFFICES ASSUME S # {} PROVE FALSE
      OBVIOUS
    <2>0. S \in SUBSET Nat /\ \A k \in S : k \in 0..Len(d.notes) /\ ~OK(k)
      BY <1>0
    <2>1. PICK k \in S : \A j \in S : k <= j
      <3> HIDE DEF S
      <3> QED BY <2>0, LeastNat
    <2>2. k \in 1..Len(d.notes) /\ k - 1 \in 0..Len(d.notes) /\ k - 1 \notin S
      <3>1. k # 0
        BY <1>2, <2>0
      <3> HIDE DEF S
      <3> QED BY <1>0, <2>0, <2>1, <3>1
    <2>3. OK(k - 1)
      BY <2>2
    <2> QED BY <1>3, <2>0, <2>2, <2>3
  <1>5. OK(Len(d.notes))
    BY <1>0, <1>4
  <1> QED BY <1>1, <1>5 DEF OK, first

\* What the invariant says of a database does not depend on its metadata, on its
\* blocks or on its fetch times.
LEMMA SameTables ==
    ASSUME NEW d, Good(d), NEW w, IsDb(w), w.notes = d.notes, w.profiles = d.profiles,
           w.names = d.names, w.pubkeys = d.pubkeys, w.pubkeyKinds = d.pubkeyKinds,
           w.bad = d.bad, w.version = d.version
    PROVE  Good(w) /\ (Linked(d) => Linked(w))
  <1>1. \A p : NoteOf(w, p) = NoteOf(d, p)
    BY DEF NoteOf
  <1>2. Keyed(w) /\ Indexed(w)
    BY <1>1 DEF Good, Keyed, Indexed
  <1> QED BY <1>1, <1>2 DEF Good, Linked

\* One prune as PruneExact wants it.
Exact(d, filters, out) ==
    /\ Range(out.notes) = {n \in Range(d.notes) : Keeps(filters, n)}
    /\ \A p \in DOMAIN out.profiles : NoteOf(out, p) # 0
    /\ \A p \in Pubkeys : ProfileOf(out, p) = 0 => out.fetched[p] = 0
    /\ \A n \in Range(out.notes) : n.kind = 0 /\ n.parses => ProfileOf(out, n.pubkey) # 0
    /\ out.kinds = DOMAIN out.notes

\* ndb_prune of a consistent database makes one with what the filters keep.
LEMMA PruneGood ==
    ASSUME NEW d, Good(d), Linked(d), NEW filters
    PROVE  Good(PrunedDb(d, filters)) /\ Exact(d, filters, PrunedDb(d, filters))
  <1> DEFINE first == PrunedProfiles(d, filters)
             o == PrunedNotes(d, filters)
             fetched == [p \in Pubkeys |-> IF ProfileOf(o, p) # 0 THEN d.fetched[p] ELSE o.fetched[p]]
             w == PrunedDb(d, filters)
  <1>1. PeopleCopied(first, d, filters, Len(d.profiles))
    BY ProfilesCopied
  <1>2. NotesAdded(o, first, d, filters, Len(d.notes))
    BY NotesCopied
  <1>3. w = [o EXCEPT !.fetched = fetched]
    BY DEF PrunedDb
  <1> HIDE DEF first, o, w
  <1>4. /\ CopyOK(o) /\ NotesOf(o) = NotesOf(first) \cup KeptNotes(d, filters, Len(d.notes))
        /\ o.pk = first.pk
    BY <1>2 DEF NotesAdded
  <1>5. IsDb(o) /\ Good(o) /\ PkOK(o.pk) /\ FetchesOK(o)
    BY <1>4 DEF CopyOK, Good, Keyed
  <1>6. /\ IsDb(w) /\ w.fetched = fetched /\ w.notes = o.notes /\ w.profiles = o.profiles
        /\ w.names = o.names /\ w.pubkeys = o.pubkeys /\ w.pubkeyKinds = o.pubkeyKinds
        /\ w.bad = o.bad /\ w.version = o.version /\ w.kinds = o.kinds /\ w.pk = o.pk
    <2> HIDE DEF fetched
    <2> QED BY <1>3, <1>5 DEF IsDb, Fields
  <1>7. Good(w)
    <2> HIDE DEF fetched
    <2> QED BY <1>5, <1>6, SameTables
  <1>8. /\ Keyed(d) /\ DOMAIN d.notes = 1..Len(d.notes) /\ Len(d.notes) \in Nat
        /\ Len(d.profiles) \in Nat /\ DOMAIN d.profiles = 1..Len(d.profiles)
        /\ DOMAIN w.notes = 1..Len(w.notes) /\ DOMAIN w.profiles = 1..Len(w.profiles)
    BY <1>7 DEF Good, Keyed
  <1>9. Range(w.notes) = NotesOf(o) /\ Range(d.notes) = NotesOf(d)
    BY <1>6, <1>8 DEF Range, NotesOf
  <1>10. NotesOf(first) = KeptPeople(d, filters, Len(d.profiles))
    BY <1>1 DEF PeopleCopied
  <1>11. KeptNotes(d, filters, Len(d.notes)) = {n \in NotesOf(d) : Keeps(filters, n)}
    BY DEF KeptNotes, NotesOf
  <1>12. NotesOf(first) \subseteq {n \in NotesOf(d) : Keeps(filters, n)}
    <2>1. \A q \in 1..Len(d.profiles) : NoteOf(d, q) \in 0..Len(d.notes)
      BY <1>8, NoteOfType
    <2> SUFFICES ASSUME NEW n \in NotesOf(first) PROVE n \in NotesOf(d) /\ Keeps(filters, n)
      OBVIOUS
    <2>2. PICK q \in 1..Len(d.profiles) :
             n = d.notes[NoteOf(d, q)] /\ NoteOf(d, q) # 0 /\ Keeps(filters, d.notes[NoteOf(d, q)])
      BY <1>10 DEF KeptPeople, Parsed
    <2>3. NoteOf(d, q) \in 1..Len(d.notes)
      BY <1>8, <2>1, <2>2
    <2> QED BY <2>2, <2>3 DEF NotesOf
  <1>13. Range(w.notes) = {n \in Range(d.notes) : Keeps(filters, n)}
    BY <1>4, <1>9, <1>11, <1>12
  <1>14. \A p \in DOMAIN w.profiles : NoteOf(w, p) # 0
    BY <1>4, <1>6, <1>8 DEF CopyOK, NoteOf
  <1>15. \A p : ProfileOf(w, p) = 0 <=> \A e \in first.pk : e[1] # p
    BY <1>4, <1>5, <1>6, ProfileOfIs
  <1>16. \A p : ProfileOf(o, p) = 0 <=> \A e \in first.pk : e[1] # p
    BY <1>4, <1>5, ProfileOfIs
  <1>17. \A p \in Pubkeys : ProfileOf(w, p) = 0 => w.fetched[p] = 0
    BY <1>4, <1>5, <1>6, <1>15, <1>16 DEF FetchesOK
  <1>18. ASSUME NEW n \in Range(w.notes), n.kind = 0, n.parses PROVE ProfileOf(w, n.pubkey) # 0
    <2>1. PICK j \in 1..Len(d.notes) : n = d.notes[j] /\ Keeps(filters, n)
      BY <1>9, <1>13, <1>18 DEF NotesOf
    <2>2. PICK p \in 1..Len(d.profiles) : NoteOf(d, p) = j
      BY <1>18, <2>1 DEF Linked
    <2>3. n \in NotesOf(first)
      BY <1>8, <1>10, <1>18, <2>1, <2>2 DEF KeptPeople, Parsed
    <2>4. \E e \in first.pk : e[1] = n.pubkey
      BY <1>1, <2>3 DEF PeopleCopied
    <2> QED BY <1>15, <2>4
  <1>19. w.kinds = DOMAIN w.notes
    BY <1>4, <1>6, <1>8 DEF CopyOK
  <1> QED BY <1>7, <1>13, <1>14, <1>17, <1>18, <1>19 DEF Exact, w

-----------------------------------------------------------------------------
(* The life of the file *)

\* The committed database and, while the migrations run, the transaction are
\* consistent for the version they have; a prune made what it should.
UInv ==
    /\ Good(db) /\ Linked(db)
    /\ phase = "migrating" => Good(txn) /\ Linked(txn) /\ txn.version = at
    /\ IF phase = "pruned"
       THEN \E r : /\ pruned = <<r>>
                   /\ Good(r.out)
                   /\ Exact(r.from, r.filters, r.out)
       ELSE pruned = <<>>

\* The invariant holds in an empty file of any version.
LEMMA InitUInv == Init => UInv
  <1> SUFFICES ASSUME Init PROVE UInv
    OBVIOUS
  <1>1. PICK v \in OldVersions : db = EmptyDb(v)
    BY DEF Init
  <1>2. Good(db) /\ Linked(db)
    BY <1>1, EmptyGood, UpkeepAssumption
  <1> QED BY <1>2 DEF Init, UInv

\* Every write, migration, crash, client write and prune keeps the invariant.
LEMMA NextUInv == UInv /\ [Next]_vars => UInv'
  <1> SUFFICES ASSUME UInv, [Next]_vars PROVE UInv'
    OBVIOUS
  <1>1. ASSUME NEW n \in Arriving, Write(n) PROVE UInv'
    <2>1. Good(db') /\ Linked(db')
      BY <1>1, WrittenLinked DEF Write, UInv
    <2> QED BY <1>1, <2>1 DEF Write, UInv
  <1>2. CASE Open
    BY <1>2 DEF Open, UInv
  <1>3. CASE Migrate
    <2>1. txn.version \in 0..6 /\ txn.version = at /\ Good(txn) /\ Linked(txn)
      BY <1>3 DEF Migrate, UInv, Good, Keyed, Latest
    <2>2. txn' = [Migration(txn.version, txn) EXCEPT !.version = txn.version + 1]
      BY <1>3, <2>1 DEF Migrate
    <2>3. Good(txn') /\ Linked(txn') /\ txn'.version = at'
      BY <1>3, <2>1, <2>2, MigrationGood DEF Migrate
    <2> QED BY <1>3, <2>3 DEF Migrate, UInv
  <1>4. CASE Commit
    BY <1>4 DEF Commit, UInv
  <1>5. CASE Crash
    BY <1>5 DEF Crash, UInv
  <1>6. ASSUME NEW i \in ReadIds, ReadMeta(i) PROVE UInv'
    BY <1>6 DEF ReadMeta, UInv
  <1>7. CASE SetMeta
    <2>1. PICK metas : db' = [db EXCEPT !.meta = metas]
      BY <1>7 DEF SetMeta
    <2>2. IsDb(db)
      BY DEF UInv, Good, Keyed
    <2>3. /\ IsDb(db') /\ db'.notes = db.notes /\ db'.profiles = db.profiles
          /\ db'.names = db.names /\ db'.pubkeys = db.pubkeys /\ db'.pubkeyKinds = db.pubkeyKinds
          /\ db'.bad = db.bad /\ db'.version = db.version
      BY <2>1, <2>2 DEF IsDb, Fields
    <2>4. Good(db') /\ Linked(db')
      BY <2>3, SameTables DEF UInv
    <2> QED BY <1>7, <2>4 DEF SetMeta, UInv
  <1>8. ASSUME NEW f \in PruneFilters, Prune(f) PROVE UInv'
    <2> DEFINE r == [from |-> db, filters |-> f, out |-> PrunedDb(db, f)]
    <2>1. Good(r.out) /\ Exact(r.from, r.filters, r.out)
      BY PruneGood DEF UInv
    <2>2. pruned = <<>> /\ pruned' = Append(pruned, r) /\ phase' = "pruned"
      BY <1>8 DEF Prune, UInv
    <2> HIDE DEF r
    <2>3. pruned' = <<r>>
      BY <2>2
    <2> QED BY <1>8, <2>1, <2>2, <2>3 DEF Prune, UInv
  <1>9. CASE UNCHANGED vars
    BY <1>9 DEF UInv, vars
  <1> QED BY <1>1, <1>2, <1>3, <1>4, <1>5, <1>6, <1>7, <1>8, <1>9 DEF Next

\* Whatever version the file had, however often the migrations were cut off and
\* whatever was written before and after them, every database is consistent for
\* the version it says it has (nostrdb.c:2086-2836, 7899-7962, 8086-8091).
THEOREM UpkeepInvariant == Spec => []UInv
  BY InitUInv, NextUInv, PTL DEF Spec

\* A database of the latest version, migrated, new or pruned, has every note in
\* its pubkey indexes, every linked profile among the names and no wrong blocks.
THEOREM UpkeepVersionTrue == Spec => []VersionTrue
  <1>1. UInv => VersionTrue
    <2> SUFFICES ASSUME UInv, NEW d \in Databases, d.version = Latest
                 PROVE  /\ d.pubkeys = DOMAIN d.notes /\ d.pubkeyKinds = DOMAIN d.notes
                        /\ AllNames(d) \subseteq d.names
                        /\ d.bad = {}
      BY DEF VersionTrue
    <2>1. Good(d)
      <3>1. CASE d = db
        BY <3>1 DEF UInv
      <3>2. CASE d \in {pruned[i].out : i \in 1..Len(pruned)}
        <4>1. phase = "pruned"
          BY <3>2 DEF UInv
        <4>2. PICK r : pruned = <<r>> /\ Good(r.out)
          BY <4>1 DEF UInv
        <4> QED BY <3>2, <4>2
      <3> QED BY <3>1, <3>2 DEF Databases
    <2>2. /\ DOMAIN d.notes = 1..Len(d.notes) /\ DOMAIN d.profiles = 1..Len(d.profiles)
          /\ Indexed(d)
      BY <2>1 DEF Good, Keyed
    <2>3. d.pubkeys = DOMAIN d.notes /\ d.pubkeyKinds = DOMAIN d.notes /\ d.bad = {}
      <3>1. d.version = 7 /\ d.version >= 4
        BY DEF Latest
      <3>2. /\ d.pubkeys \subseteq 1..Len(d.notes) /\ 1..Len(d.notes) \subseteq d.pubkeys
            /\ d.pubkeyKinds \subseteq 1..Len(d.notes) /\ 1..Len(d.notes) \subseteq d.pubkeyKinds
            /\ d.bad = {}
        BY <2>2, <3>1 DEF Indexed
      <3>3. d.pubkeys = 1..Len(d.notes) /\ d.pubkeyKinds = 1..Len(d.notes)
        BY <3>2
      <3> QED BY <2>2, <3>2, <3>3
    <2>4. AllNames(d) \subseteq d.names
      <3> SUFFICES ASSUME NEW p \in 1..Len(d.profiles), NoteOf(d, p) # 0
                   PROVE  NameEntry(d.notes[NoteOf(d, p)], p) \in d.names
        BY <2>2 DEF AllNames, LinkedProfiles
      <3> QED BY <2>2 DEF Indexed
    <2> QED BY <2>3, <2>4
  <1> QED BY <1>1, UpkeepInvariant, PTL

\* ndb_prune keeps the notes that some filter matches and no others, each profile
\* with its note, a profile for the author of every note of kind 0 that parses, and
\* no fetch time of a dropped profile, for any database and any filters (nostrdb.c:9005-9182).
THEOREM UpkeepPruneExact == Spec => []PruneExact
  <1>1. UInv => PruneExact
    <2> SUFFICES ASSUME UInv, NEW i \in 1..Len(pruned)
                 PROVE  Exact(pruned[i].from, pruned[i].filters, pruned[i].out)
      BY DEF PruneExact, Exact
    <2>1. phase = "pruned"
      BY DEF UInv
    <2>2. PICK r : pruned = <<r>> /\ Exact(r.from, r.filters, r.out)
      BY <2>1 DEF UInv
    <2>3. i = 1 /\ pruned[1] = r
      BY <2>2
    <2> QED BY <2>2, <2>3
  <1> QED BY <1>1, UpkeepInvariant, PTL

-----------------------------------------------------------------------------
(* The entries of a metadata record *)

Counts == [quotes : Nat, direct : Nat, thread : Nat, reposts : Nat]

Entries == [type : {COUNTS, REACTION, ZAP_UNVERIFIED}, payload : Int, n : Nat, counts : Counts]

\* Entries of one kind, of which a record has at most one.
Alike(a, b) == a.type = b.type /\ (a.type = REACTION => a.payload = b.payload)

\* Entries in the order that ndb_note_meta_build gives them.
Sorted(es) == \A j, k \in 1..Len(es) : j < k => EntryLess(es[j], es[k])

\* The order is a strict one, and entries that it does not order are alike.
LEMMA EntryOrder ==
    /\ \A a, b \in Entries : EntryLess(a, b) => ~EntryLess(b, a) /\ ~Alike(a, b)
    /\ \A a, b \in Entries : EntryLess(a, b) \/ EntryLess(b, a) \/ Alike(a, b)
    /\ \A a, b, c \in Entries : EntryLess(a, b) /\ EntryLess(b, c) => EntryLess(a, c)
  BY DEF EntryLess, Alike, Entries, COUNTS, REACTION, ZAP_UNVERIFIED

\* The first n numbers are n.
LEMMA FirstNumbers == \A n \in Nat : IsFiniteSet(1..n) /\ Cardinality(1..n) = n
  <1> SUFFICES ASSUME NEW n \in Nat PROVE IsFiniteSet(1..n) /\ Cardinality(1..n) = n
    OBVIOUS
  <1>1. IsFiniteSet(1..n) /\ Cardinality(1..n) = IF 1 > n THEN 0 ELSE n - 1 + 1
    BY FS_Interval
  <1> QED BY <1>1

\* A sequence with one more element at place k.
Inserted(es, k, e) ==
    [i \in 1..(Len(es) + 1) |-> IF i < k THEN es[i] ELSE IF i = k THEN e ELSE es[i - 1]]

\* Building a sorted record with a further entry puts the entry in its place.
LEMMA BuildInserts ==
    ASSUME NEW es \in Seq(Entries), Sorted(es), NEW e \in Entries,
           \A i \in 1..Len(es) : ~Alike(es[i], e)
    PROVE  \E k \in 1..(Len(es) + 1) :
              /\ Build(Append(es, e)) = Inserted(es, k, e)
              /\ Inserted(es, k, e) \in Seq(Entries)
              /\ Len(Inserted(es, k, e)) = Len(es) + 1
              /\ Sorted(Inserted(es, k, e))
  <1> DEFINE N == Len(es)
             later == {i \in 1..N : EntryLess(e, es[i])} \cup {N + 1}
             a == Append(es, e)
  <1>0. /\ N \in Nat /\ \A i \in 1..N : es[i] \in Entries
        /\ Len(a) = N + 1 /\ DOMAIN a = 1..(N + 1) /\ a[N + 1] = e
        /\ \A i \in 1..N : a[i] = es[i]
    BY AppendProperties, ElementOfSeq
  <1>1. PICK k \in later : \A i \in later : k <= i
    <2>1. later \in SUBSET Nat /\ later # {}
      BY <1>0
    <2> HIDE DEF later
    <2> QED BY <2>1, LeastNat
  <1>2. k \in 1..(N + 1)
    BY <1>0, <1>1
  <1>3. \A i \in 1..N : i < k => EntryLess(es[i], e) /\ ~EntryLess(e, es[i])
    <2> SUFFICES ASSUME NEW i \in 1..N, i < k PROVE EntryLess(es[i], e) /\ ~EntryLess(e, es[i])
      OBVIOUS
    <2>1. i \notin later
      BY <1>0, <1>1, <1>2
    <2>2. ~EntryLess(e, es[i]) /\ ~Alike(es[i], e)
      BY <2>1
    <2> QED BY <1>0, <2>2, EntryOrder
  <1>4. \A i \in 1..N : k <= i => EntryLess(e, es[i]) /\ ~EntryLess(es[i], e)
    <2> SUFFICES ASSUME NEW i \in 1..N, k <= i PROVE EntryLess(e, es[i]) /\ ~EntryLess(es[i], e)
      OBVIOUS
    <2>1. k \in 1..N
      BY <1>0, <1>2
    <2>2. k # N + 1
      BY <1>0, <2>1
    <2>3. EntryLess(e, es[k])
      BY <1>1, <2>2
    <2>4. EntryLess(e, es[i])
      <3>1. CASE i = k
        BY <2>3, <3>1
      <3>2. CASE k < i
        <4>1. EntryLess(es[k], es[i])
          BY <2>1, <3>2 DEF Sorted
        <4> QED BY <1>0, <2>1, <2>3, <4>1, EntryOrder
      <3> QED BY <1>0, <1>2, <3>1, <3>2
    <2> QED BY <1>0, <2>4, EntryOrder
  <1>5. \A i, j \in 1..N : EntryLess(es[j], es[i]) <=> j < i
    <2> SUFFICES ASSUME NEW i \in 1..N, NEW j \in 1..N PROVE EntryLess(es[j], es[i]) <=> j < i
      OBVIOUS
    <2>1. j < i => EntryLess(es[j], es[i])
      BY DEF Sorted
    <2>2. i < j => ~EntryLess(es[j], es[i])
      <3> SUFFICES ASSUME i < j PROVE ~EntryLess(es[j], es[i])
        OBVIOUS
      <3>1. EntryLess(es[i], es[j])
        BY DEF Sorted
      <3> QED BY <1>0, <3>1, EntryOrder
    <2>3. i = j => ~EntryLess(es[j], es[i])
      BY <1>0, EntryOrder
    <2> QED BY <1>0, <2>1, <2>2, <2>3
  <1>5a. ~EntryLess(e, e)
    BY EntryOrder
  <1> HIDE DEF later, a
  <1> DEFINE Before(i) == {y \in DOMAIN a : EntryLess(a[y], a[i])}
  <1>6. \A i \in 1..N : Before(i) = IF i < k THEN 1..(i - 1) ELSE (1..(i - 1)) \cup {N + 1}
    <2> SUFFICES ASSUME NEW i \in 1..N PROVE Before(i) = IF i < k THEN 1..(i - 1) ELSE (1..(i - 1)) \cup {N + 1}
      OBVIOUS
    <2>1. Before(i) \subseteq (1..(i - 1)) \cup {N + 1}
      BY <1>0, <1>5
    <2>2. 1..(i - 1) \subseteq Before(i)
      BY <1>0, <1>5
    <2>3. N + 1 \in Before(i) <=> k <= i
      BY <1>0, <1>2, <1>3, <1>4
    <2>4. N + 1 \notin 1..(i - 1) /\ (k <= i <=> ~(i < k))
      BY <1>0, <1>2
    <2> HIDE DEF Before
    <2> QED BY <2>1, <2>2, <2>3, <2>4
  <1>7. Before(N + 1) = 1..(k - 1)
    <2>1. \A y \in 1..(N + 1) : y \in Before(N + 1) <=> y < k
      BY <1>0, <1>2, <1>3, <1>4, <1>5a
    <2>2. Before(N + 1) \subseteq 1..(N + 1)
      BY <1>0
    <2>3. \A y : y \in 1..(k - 1) <=> y \in 1..(N + 1) /\ y < k
      BY <1>0, <1>2
    <2> HIDE DEF Before
    <2> QED BY <2>1, <2>2, <2>3
  <1> HIDE DEF Before
  <1>8. \A i \in 1..N : Cardinality(Before(i)) = IF i < k THEN i - 1 ELSE i
    <2> SUFFICES ASSUME NEW i \in 1..N PROVE Cardinality(Before(i)) = IF i < k THEN i - 1 ELSE i
      OBVIOUS
    <2>1. IsFiniteSet(1..(i - 1)) /\ Cardinality(1..(i - 1)) = i - 1
      <3>1. i - 1 \in Nat
        BY <1>0
      <3> HIDE DEF N
      <3> QED BY <3>1, FirstNumbers
    <2>2. N + 1 \notin 1..(i - 1)
      BY <1>0
    <2>3. Cardinality((1..(i - 1)) \cup {N + 1}) = i
      <3>1. Cardinality((1..(i - 1)) \cup {N + 1}) = (i - 1) + 1
        <4> HIDE DEF N
        <4> QED BY <2>1, <2>2, FS_AddElement
      <3> QED BY <1>0, <3>1
    <2> QED BY <1>6, <2>1, <2>3
  <1>9. Cardinality(Before(N + 1)) = k - 1
    <2>1. k - 1 \in Nat
      BY <1>0, <1>2
    <2> QED BY <1>7, <2>1, FirstNumbers
  <1> DEFINE place(i) == IF i < k THEN i ELSE IF i = k THEN N + 1 ELSE i - 1
             order == Ranked(DOMAIN a, LAMBDA i, j : EntryLess(a[i], a[j]))
  <1>10. \A i \in 1..(N + 1) : order[i] = place(i)
    <2> SUFFICES ASSUME NEW i \in 1..(N + 1) PROVE order[i] = place(i)
      OBVIOUS
    <2>1. Cardinality(DOMAIN a) = N + 1
      <3>1. N + 1 \in Nat
        BY <1>0
      <3> HIDE DEF N
      <3> QED BY <1>0, <3>1, FirstNumbers
    <2>2. order[i] = CHOOSE x \in DOMAIN a : Cardinality(Before(x)) = i - 1
      BY <2>1 DEF Ranked, Before
    <2>3. place(i) \in DOMAIN a /\ Cardinality(Before(place(i))) = i - 1
      BY <1>0, <1>2, <1>8, <1>9
    <2>4. \A x \in DOMAIN a : Cardinality(Before(x)) = i - 1 => x = place(i)
      <3> SUFFICES ASSUME NEW x \in 1..(N + 1), Cardinality(Before(x)) = i - 1 PROVE x = place(i)
        BY <1>0
      <3>1. CASE x = N + 1
        BY <1>0, <1>2, <1>9, <3>1
      <3>2. CASE x \in 1..N
        BY <1>0, <1>2, <1>8, <3>2
      <3> QED BY <1>0, <3>1, <3>2
    <2> HIDE DEF place, order
    <2> QED BY <2>2, <2>3, <2>4
  <1>11. Build(a) = Inserted(es, k, e)
    <2>1. Build(a) = [i \in 1..(N + 1) |-> a[order[i]]]
      BY <1>0 DEF Build
    <2>2. \A i \in 1..(N + 1) : a[place(i)] = IF i < k THEN es[i] ELSE IF i = k THEN e ELSE es[i - 1]
      BY <1>0, <1>2
    <2> HIDE DEF order, place
    <2>3. \A i \in 1..(N + 1) : a[order[i]] = IF i < k THEN es[i] ELSE IF i = k THEN e ELSE es[i - 1]
      BY <1>10, <2>2
    <2> QED BY <2>1, <2>3 DEF Inserted
  <1> DEFINE w == Inserted(es, k, e)
  <1>12. \A i \in 1..(N + 1) : w[i] = (IF i < k THEN es[i] ELSE IF i = k THEN e ELSE es[i - 1]) /\ w[i] \in Entries
    BY <1>0, <1>2 DEF Inserted
  <1>13. w \in Seq(Entries) /\ Len(w) = N + 1
    <2>1. w \in [1..(N + 1) -> Entries]
      BY <1>12 DEF Inserted
    <2>2. N + 1 \in Nat
      BY <1>0
    <2> HIDE DEF w, N
    <2> QED BY <2>1, <2>2, IsASeq, LenProperties
  <1>14. Sorted(w)
    <2> SUFFICES ASSUME NEW i \in 1..(N + 1), NEW j \in 1..(N + 1), i < j PROVE EntryLess(w[i], w[j])
      BY <1>13 DEF Sorted
    <2>1. CASE j < k
      BY <1>0, <1>2, <1>5, <1>12, <2>1
    <2>2. CASE j = k
      BY <1>0, <1>2, <1>3, <1>12, <2>2
    <2>3. CASE k < j /\ i < k
      BY <1>0, <1>2, <1>5, <1>12, <2>3
    <2>4. CASE k < j /\ i = k
      BY <1>0, <1>2, <1>4, <1>12, <2>4
    <2>5. CASE k < i
      <3>1. i - 1 \in 1..N /\ j - 1 \in 1..N /\ i - 1 < j - 1
        BY <1>0, <1>2, <2>5
      <3>2. w[i] = es[i - 1] /\ w[j] = es[j - 1]
        BY <1>0, <1>2, <1>12, <2>5
      <3>3. EntryLess(es[i - 1], es[j - 1])
        BY <1>5, <3>1
      <3> QED BY <3>2, <3>3
    <2> QED BY <1>0, <1>2, <2>1, <2>2, <2>3, <2>4, <2>5
  <1> QED BY <1>2, <1>11, <1>13, <1>14 DEF a

-----------------------------------------------------------------------------
(* The sum over the reactions of a record *)

Worth(e) == IF e.type = REACTION THEN e.n ELSE 0

\* The running sum exists.
LEMMA SumExists ==
    ASSUME NEW es, NEW N \in Nat
    PROVE  \E f : f = [k \in 0..N |-> IF k = 0 THEN 0 ELSE f[k - 1] + (IF es[k].type = REACTION THEN es[k].n ELSE 0)]
  <1> DEFINE Is(f, n) == f = [k \in 0..n |-> IF k = 0 THEN 0 ELSE f[k - 1] + (IF es[k].type = REACTION THEN es[k].n ELSE 0)]
             S == {n \in Nat : ~\E f : Is(f, n)}
  <1> SUFFICES ASSUME S # {} PROVE FALSE
    OBVIOUS
  <1>1. PICK n \in S : \A m \in S : n <= m
    BY LeastNat
  <1>2. CASE n = 0
    <2>1. Is([p \in 0..0 |-> 0], 0)
      OBVIOUS
    <2> QED BY <1>2, <2>1
  <1>3. CASE n > 0
    <2>1. n - 1 \in Nat /\ n - 1 \notin S
      <3>1. S \subseteq Nat
        OBVIOUS
      <3> HIDE DEF S
      <3> QED BY <1>1, <1>3, <3>1
    <2>2. PICK f : Is(f, n - 1)
      BY <2>1
    <2> DEFINE g == [p \in 0..n |-> IF p = n THEN f[n - 1] + (IF es[n].type = REACTION THEN es[n].n ELSE 0) ELSE f[p]]
    <2>3. \A p \in 0..(n - 1) : g[p] = f[p]
      BY <2>1
    <2>4. \A p \in 0..(n - 1) : f[p] = IF p = 0 THEN 0 ELSE f[p - 1] + (IF es[p].type = REACTION THEN es[p].n ELSE 0)
      BY <2>2
    <2>5. \A p \in 0..n : g[p] = IF p = 0 THEN 0 ELSE g[p - 1] + (IF es[p].type = REACTION THEN es[p].n ELSE 0)
      BY <2>1, <2>3, <2>4, <1>3
    <2>6. Is(g, n)
      BY <2>5, Zenon
    <2> QED BY <2>6
  <1> QED BY <1>1, <1>2, <1>3

\* The sum is the last running sum.
LEMMA SumIs ==
    ASSUME NEW es, Len(es) \in Nat
    PROVE  \E u : /\ u[0] = 0
                  /\ \A k \in 1..Len(es) : u[k] = u[k - 1] + Worth(es[k])
                  /\ SumOfReactions(es) = u[Len(es)]
  <1> DEFINE u == CHOOSE f : f = [k \in 0..Len(es) |-> IF k = 0 THEN 0 ELSE f[k - 1] + (IF es[k].type = REACTION THEN es[k].n ELSE 0)]
  <1>1. u = [k \in 0..Len(es) |-> IF k = 0 THEN 0 ELSE u[k - 1] + (IF es[k].type = REACTION THEN es[k].n ELSE 0)]
    BY SumExists
  <1>2. SumOfReactions(es) = u[Len(es)]
    BY DEF SumOfReactions
  <1> HIDE DEF u
  <1>3. u[0] = 0
    BY <1>1
  <1>4. \A k \in 1..Len(es) : u[k] = u[k - 1] + Worth(es[k])
    BY <1>1 DEF Worth
  <1> QED BY <1>2, <1>3, <1>4

\* Entries have a number each.
LEMMA WorthType == \A e \in Entries : Worth(e) \in Nat
  BY DEF Worth, Entries

\* A sum of numbers is one.
LEMMA SumType ==
    ASSUME NEW es \in Seq(Entries), NEW u, u[0] = 0,
           \A k \in 1..Len(es) : u[k] = u[k - 1] + Worth(es[k])
    PROVE  \A k \in 0..Len(es) : u[k] \in Nat
  <1> DEFINE S == {k \in 0..Len(es) : u[k] \notin Nat}
  <1>0. Len(es) \in Nat /\ \A k \in 1..Len(es) : Worth(es[k]) \in Nat
    BY ElementOfSeq, WorthType
  <1> SUFFICES ASSUME S # {} PROVE FALSE
    OBVIOUS
  <1>1. S \in SUBSET Nat
    BY <1>0
  <1>2. PICK k \in S : \A j \in S : k <= j
    <2> HIDE DEF S
    <2> QED BY <1>1, LeastNat
  <1>3. k \in 1..Len(es) /\ k - 1 \in 0..Len(es) /\ k - 1 \notin S
    BY <1>0, <1>2
  <1>4. u[k - 1] \in Nat
    BY <1>3
  <1> QED BY <1>0, <1>2, <1>3, <1>4

\* A change of one entry changes the sum by as much.
LEMMA SumChanged ==
    ASSUME NEW es \in Seq(Entries), NEW ws \in Seq(Entries), Len(ws) = Len(es),
           NEW k \in 1..Len(es), NEW D \in Nat, Worth(ws[k]) = Worth(es[k]) + D,
           \A i \in 1..Len(es) : i # k => Worth(ws[i]) = Worth(es[i])
    PROVE  SumOfReactions(ws) = SumOfReactions(es) + D
  <1>0. Len(es) \in Nat /\ \A i \in 1..Len(es) : Worth(es[i]) \in Nat /\ Worth(ws[i]) \in Nat
    BY ElementOfSeq, WorthType
  <1>1. PICK u : /\ u[0] = 0 /\ \A i \in 1..Len(es) : u[i] = u[i - 1] + Worth(es[i])
                 /\ SumOfReactions(es) = u[Len(es)]
    BY <1>0, SumIs
  <1>2. PICK v : /\ v[0] = 0 /\ \A i \in 1..Len(es) : v[i] = v[i - 1] + Worth(ws[i])
                 /\ SumOfReactions(ws) = v[Len(es)]
    BY <1>0, SumIs
  <1>3. \A i \in 0..Len(es) : u[i] \in Nat /\ v[i] \in Nat
    BY <1>1, <1>2, SumType
  <1> DEFINE S == {i \in 0..Len(es) : v[i] # IF i < k THEN u[i] ELSE u[i] + D}
  <1>4. S = {}
    <2> SUFFICES ASSUME S # {} PROVE FALSE
      OBVIOUS
    <2>1. S \in SUBSET Nat
      BY <1>0
    <2>2. PICK i \in S : \A j \in S : i <= j
      <3> HIDE DEF S
      <3> QED BY <2>1, LeastNat
    <2>3. i \in 1..Len(es) /\ i - 1 \in 0..Len(es) /\ i - 1 \notin S
      BY <1>0, <1>1, <1>2, <2>2
    <2>4. v[i - 1] = IF i - 1 < k THEN u[i - 1] ELSE u[i - 1] + D
      BY <2>3
    <2>5. v[i] = v[i - 1] + Worth(ws[i]) /\ u[i] = u[i - 1] + Worth(es[i])
      BY <1>1, <1>2, <2>3
    <2>a. v[i] # IF i < k THEN u[i] ELSE u[i] + D
      BY <2>2
    <2>b. u[i - 1] \in Nat /\ v[i - 1] \in Nat /\ Worth(ws[i]) \in Nat /\ Worth(es[i]) \in Nat
      BY <1>0, <1>3, <2>3
    <2> HIDE DEF S
    <2>6. CASE i < k
      <3>1. Worth(ws[i]) = Worth(es[i]) /\ i - 1 < k
        BY <2>3, <2>6
      <3> QED BY <2>4, <2>5, <2>6, <2>a, <2>b, <3>1
    <2>7. CASE i = k
      <3>1. Worth(ws[i]) = Worth(es[i]) + D /\ i - 1 < k /\ ~(i < k)
        BY <2>3, <2>7
      <3> QED BY <2>4, <2>5, <2>a, <2>b, <3>1
    <2>8. CASE k < i
      <3>1. Worth(ws[i]) = Worth(es[i]) /\ ~(i - 1 < k) /\ ~(i < k)
        BY <2>3, <2>8
      <3> QED BY <2>4, <2>5, <2>a, <2>b, <3>1
    <2> QED BY <1>0, <2>3, <2>6, <2>7, <2>8
  <1>5. Len(es) \notin S
    BY <1>4
  <1>6. v[Len(es)] = u[Len(es)] + D
    <2>1. Len(es) \in 0..Len(es) /\ ~(Len(es) < k)
      BY <1>0
    <2> QED BY <1>5, <2>1
  <1> QED BY <1>1, <1>2, <1>6

\* A further entry that counts nothing leaves the sum as it is.
LEMMA SumInserted ==
    ASSUME NEW es \in Seq(Entries), NEW k \in 1..(Len(es) + 1), NEW e, Worth(e) = 0,
           NEW ws \in Seq(Entries), ws = Inserted(es, k, e), Len(ws) = Len(es) + 1
    PROVE  SumOfReactions(ws) = SumOfReactions(es)
  <1> DEFINE N == Len(es)
  <1>0. /\ N \in Nat /\ \A i \in 1..N : Worth(es[i]) \in Nat
        /\ \A i \in 1..(N + 1) : ws[i] = IF i < k THEN es[i] ELSE IF i = k THEN e ELSE es[i - 1]
    BY ElementOfSeq, WorthType DEF Inserted
  <1>1. PICK u : /\ u[0] = 0 /\ \A i \in 1..N : u[i] = u[i - 1] + Worth(es[i])
                 /\ SumOfReactions(es) = u[N]
    BY <1>0, SumIs
  <1>2. PICK v : /\ v[0] = 0 /\ \A i \in 1..(N + 1) : v[i] = v[i - 1] + Worth(ws[i])
                 /\ SumOfReactions(ws) = v[N + 1]
    <2>1. Len(ws) = N + 1 /\ Len(ws) \in Nat
      OBVIOUS
    <2>2. PICK v : /\ v[0] = 0 /\ \A i \in 1..Len(ws) : v[i] = v[i - 1] + Worth(ws[i])
                   /\ SumOfReactions(ws) = v[Len(ws)]
      BY <2>1, SumIs
    <2> QED BY <2>1, <2>2
  <1>3. /\ \A i \in 0..N : u[i] \in Nat
        /\ \A i \in 0..(N + 1) : v[i] \in Nat
    BY <1>1, <1>2, SumType
  <1> DEFINE S == {i \in 0..(N + 1) : v[i] # IF i < k THEN u[i] ELSE u[i - 1]}
  <1> HIDE DEF N
  <1>4. S = {}
    <2> SUFFICES ASSUME S # {} PROVE FALSE
      OBVIOUS
    <2>1. S \in SUBSET Nat
      BY <1>0
    <2>2. PICK i \in S : \A j \in S : i <= j
      <3> HIDE DEF S
      <3> QED BY <2>1, LeastNat
    <2>0. k \in 1..(N + 1)
      BY DEF N
    <2>3. i \in 1..(N + 1) /\ i - 1 \in 0..(N + 1) /\ i - 1 \notin S
      BY <1>0, <1>1, <1>2, <2>0, <2>2
    <2>4. v[i - 1] = IF i - 1 < k THEN u[i - 1] ELSE u[(i - 1) - 1]
      BY <2>3
    <2>5. v[i] = v[i - 1] + Worth(ws[i])
      BY <1>2, <2>3
    <2>6. CASE i < k
      <3>1. i \in 1..N /\ ws[i] = es[i] /\ u[i] = u[i - 1] + Worth(es[i])
        BY <1>0, <1>1, <2>0, <2>3, <2>6
      <3> QED BY <2>0, <2>2, <2>3, <2>4, <2>5, <2>6, <3>1
    <2>7. CASE i = k
      <3>1. ws[i] = e /\ v[i] = u[i - 1] + 0 /\ u[i - 1] \in Nat
        BY <1>0, <1>3, <2>0, <2>3, <2>4, <2>5, <2>7
      <3> QED BY <2>0, <2>2, <2>3, <2>7, <3>1
    <2>8. CASE k < i
      <3>1. i - 1 \in 1..N /\ ws[i] = es[i - 1] /\ u[i - 1] = u[(i - 1) - 1] + Worth(es[i - 1])
        BY <1>0, <1>1, <2>0, <2>3, <2>8
      <3>2. ~(i - 1 < k) /\ ~(i < k)
        BY <2>0, <2>3, <2>8
      <3> QED BY <2>0, <2>2, <2>3, <2>4, <2>5, <3>1, <3>2
    <2> QED BY <2>0, <2>3, <2>6, <2>7, <2>8
  <1>5. v[N + 1] = u[N]
    <2>1. N + 1 \in 0..(N + 1) /\ N + 1 \notin S
      <3>1. N + 1 \in 0..(N + 1)
        BY <1>0
      <3> HIDE DEF S
      <3> QED BY <1>4, <3>1
    <2>2. ~(N + 1 < k) /\ (N + 1) - 1 = N
      BY <1>0 DEF N
    <2> QED BY <2>1, <2>2
  <1> QED BY <1>1, <1>2, <1>5

\* No entries have the sum 0.
LEMMA SumEmpty == SumOfReactions(<<>>) = 0
  <1>1. Len(<<>>) = 0
    OBVIOUS
  <1>2. PICK u : u[0] = 0 /\ SumOfReactions(<<>>) = u[Len(<<>>)]
    BY <1>1, SumIs
  <1> QED BY <1>1, <1>2

-----------------------------------------------------------------------------
(* Metadata records *)

\* A record whose entries are sorted, one of each kind, and have room.
Orderly(m) ==
    /\ m = [flags |-> m.flags, entries |-> m.entries]
    /\ m.entries \in Seq(Entries)
    /\ Sorted(m.entries)
    /\ Len(m.entries) <= Room

\* The entry with the counts, or one that has counted nothing.
CountsOf(m) ==
    LET found == FindEntry(m, COUNTS, 0)
    IN  IF found = {} THEN Entry(COUNTS, 0, 0, NoCounts) ELSE m.entries[CHOOSE k \in found : TRUE]

Types == {COUNTS, REACTION, ZAP_UNVERIFIED}

\* A new entry is one.
LEMMA EntryType ==
    \A type \in Types, payload \in Int, n \in Nat, c \in Counts :
       LET e == Entry(type, payload, n, c)
       IN  e \in Entries /\ e.type = type /\ e.payload = payload /\ e.n = n /\ e.counts = c
  BY DEF Entry, Entries, Types

LEMMA NoCountsType == NoCounts \in Counts
  BY DEF NoCounts, Counts

\* What is looked for is found once.
LEMMA FoundOnce ==
    ASSUME NEW m, Orderly(m), NEW type, NEW payload,
           NEW j \in FindEntry(m, type, payload), NEW k \in FindEntry(m, type, payload)
    PROVE  j = k
  <1>1. /\ j \in 1..Len(m.entries) /\ k \in 1..Len(m.entries) /\ Len(m.entries) \in Nat
        /\ Alike(m.entries[j], m.entries[k]) /\ Alike(m.entries[k], m.entries[j])
    BY DEF FindEntry, Orderly, Alike
  <1>2. m.entries[j] \in Entries /\ m.entries[k] \in Entries
    BY <1>1, ElementOfSeq DEF Orderly
  <1>3. ~EntryLess(m.entries[j], m.entries[k]) /\ ~EntryLess(m.entries[k], m.entries[j])
    BY <1>1, <1>2, EntryOrder
  <1> QED BY <1>1, <1>3 DEF Orderly, Sorted

\* What the entry with the counts is.
LEMMA CountsAre ==
    ASSUME NEW m, Orderly(m)
    PROVE  /\ CountsOf(m) \in Entries /\ CountsOf(m).type = COUNTS
           /\ \A k \in FindEntry(m, COUNTS, 0) : CountsOf(m) = m.entries[k]
           /\ FindEntry(m, COUNTS, 0) = {} => CountsOf(m) = Entry(COUNTS, 0, 0, NoCounts)
  <1> DEFINE found == FindEntry(m, COUNTS, 0)
  <1>1. CASE found = {}
    BY <1>1, EntryType, NoCountsType DEF CountsOf, Types
  <1>2. CASE found # {}
    <2>1. PICK k \in found : CountsOf(m) = m.entries[k]
      BY <1>2 DEF CountsOf
    <2>2. \A j \in found : j = k
      BY <2>1, FoundOnce
    <2>3. k \in 1..Len(m.entries) /\ m.entries[k].type = COUNTS
      BY <2>1 DEF FindEntry
    <2>4. m.entries[k] \in Entries
      BY <2>3, ElementOfSeq DEF Orderly
    <2> HIDE DEF found
    <2>5. found = {} => FALSE
      BY <1>2
    <2> QED BY <2>1, <2>2, <2>3, <2>4, <2>5 DEF found
  <1> QED BY <1>1, <1>2

\* ndb_note_meta_clone_with_entry: the record has such an entry afterwards, if it
\* had one before or had room, and counts what it counted before.
LEMMA Cloned ==
    ASSUME NEW m, Orderly(m), NEW type \in Types, NEW payload \in Int, type = COUNTS => payload = 0
    PROVE  LET w == CloneWithEntry(m, type, payload)
           IN  /\ Orderly(w) /\ w.flags = m.flags
               /\ Len(m.entries) <= Len(w.entries)
               /\ SumOfReactions(w.entries) = SumOfReactions(m.entries)
               /\ CountsOf(w) = CountsOf(m)
               /\ Len(m.entries) < Room => FindEntry(w, type, payload) # {}
               /\ \A i \in 1..Len(w.entries) :
                     \/ \E j \in 1..Len(m.entries) : w.entries[i] = m.entries[j]
                     \/ w.entries[i] = Entry(type, payload, 0, NoCounts)
  <1> DEFINE w == CloneWithEntry(m, type, payload)
             e == Entry(type, payload, 0, NoCounts)
             es == m.entries
  <1>0. es \in Seq(Entries) /\ Sorted(es) /\ Len(es) \in Nat /\ Len(es) <= Room /\ Room \in Nat \ {0}
    BY MetaAssumption DEF Orderly
  <1>1. CASE FindEntry(m, type, payload) # {} \/ Len(es) >= Room
    <2>1. w = m
      BY <1>1 DEF CloneWithEntry
    <2>2. Len(es) < Room => FindEntry(m, type, payload) # {}
      BY <1>0, <1>1
    <2> HIDE DEF w
    <2>3. Len(m.entries) <= Len(w.entries)
      BY <1>0, <2>1
    <2> QED BY <2>1, <2>2, <2>3 DEF w
  <1>2. CASE FindEntry(m, type, payload) = {} /\ ~(Len(es) >= Room)
    <2>1. w = [m EXCEPT !.entries = Build(Append(es, e))]
      BY <1>2 DEF CloneWithEntry
    <2>2. e \in Entries /\ e.type = type /\ e.payload = payload /\ e.n = 0
      BY EntryType, NoCountsType
    <2>3. \A i \in 1..Len(es) : ~Alike(es[i], e)
      BY <1>2, <2>2 DEF FindEntry, Alike
    <2>4. PICK k \in 1..(Len(es) + 1) :
             /\ Build(Append(es, e)) = Inserted(es, k, e)
             /\ Inserted(es, k, e) \in Seq(Entries)
             /\ Len(Inserted(es, k, e)) = Len(es) + 1
             /\ Sorted(Inserted(es, k, e))
      BY <1>0, <2>2, <2>3, BuildInserts
    <2> HIDE DEF w, e
    <2>5. w = [flags |-> m.flags, entries |-> Inserted(es, k, e)]
      BY <2>1, <2>4 DEF Orderly
    <2>6. /\ w.entries = Inserted(es, k, e) /\ w.flags = m.flags /\ Len(w.entries) = Len(es) + 1
          /\ w.entries \in Seq(Entries)
      BY <2>4, <2>5
    <2>7. Orderly(w)
      BY <1>0, <1>2, <2>4, <2>5, <2>6 DEF Orderly
    <2>8. Worth(e) = 0
      BY <2>2 DEF Worth
    <2>9. SumOfReactions(w.entries) = SumOfReactions(es)
      <3> DEFINE ws == w.entries
      <3>1. ws \in Seq(Entries) /\ ws = Inserted(es, k, e) /\ Len(ws) = Len(es) + 1
        BY <2>6
      <3> HIDE DEF es, ws
      <3>2. SumOfReactions(ws) = SumOfReactions(es)
        BY <1>0, <2>4, <2>8, <3>1, SumInserted
      <3> QED BY <3>2 DEF ws
    <2>10. \A i \in 1..(Len(es) + 1) : w.entries[i] = IF i < k THEN es[i] ELSE IF i = k THEN e ELSE es[i - 1]
      BY <2>6 DEF Inserted
    <2>11. k \in FindEntry(w, type, payload)
      <3>1. k \in 1..Len(w.entries) /\ w.entries[k] = e
        BY <1>0, <2>6, <2>10
      <3> QED BY <2>2, <3>1 DEF FindEntry
    <2>12. CountsOf(w) = CountsOf(m)
      <3>1. CASE type = COUNTS
        <4>1. FindEntry(m, COUNTS, 0) = {} /\ k \in FindEntry(w, COUNTS, 0)
          BY <1>2, <2>11, <3>1
        <4>2. CountsOf(m) = Entry(COUNTS, 0, 0, NoCounts)
          BY <4>1, CountsAre
        <4>3. CountsOf(w) = w.entries[k]
          BY <2>7, <4>1, CountsAre
        <4>4. w.entries[k] = e /\ e = Entry(COUNTS, 0, 0, NoCounts)
          BY <1>0, <2>10, <3>1 DEF e
        <4> QED BY <4>2, <4>3, <4>4
      <3>2. CASE type # COUNTS
        <4>1. CASE FindEntry(m, COUNTS, 0) = {}
          <5>1. \A i \in 1..Len(es) : es[i].type # COUNTS
            BY <4>1 DEF FindEntry, COUNTS, REACTION
          <5>2. \A i \in 1..(Len(es) + 1) : w.entries[i].type # COUNTS
            <6> SUFFICES ASSUME NEW i \in 1..(Len(es) + 1) PROVE w.entries[i].type # COUNTS
              OBVIOUS
            <6>1. CASE i < k
              <7>1. i \in 1..Len(es) /\ w.entries[i] = es[i]
                BY <1>0, <2>10, <6>1
              <7> QED BY <5>1, <7>1
            <6>2. CASE i = k
              BY <2>2, <2>10, <3>2, <6>2
            <6>3. CASE k < i
              <7>1. i - 1 \in 1..Len(es) /\ w.entries[i] = es[i - 1]
                BY <1>0, <2>10, <6>3
              <7> QED BY <5>1, <7>1
            <6>4. i < k \/ i = k \/ k < i
              BY <1>0
            <6> QED BY <6>1, <6>2, <6>3, <6>4
          <5>3. FindEntry(w, COUNTS, 0) = {}
            BY <2>6, <5>2 DEF FindEntry
          <5> QED BY <2>7, <4>1, <5>3, CountsAre
        <4>2. CASE FindEntry(m, COUNTS, 0) # {}
          <5>1. PICK i \in FindEntry(m, COUNTS, 0) : TRUE
            BY <4>2
          <5>2. i \in 1..Len(es) /\ es[i].type = COUNTS
            BY <5>1 DEF FindEntry
          <5>3. PICK j \in 1..(Len(es) + 1) : w.entries[j] = es[i]
            <6>1. CASE i < k
              <7>1. i \in 1..(Len(es) + 1)
                BY <1>0, <5>2
              <7> QED BY <2>10, <6>1, <7>1
            <6>2. CASE ~(i < k)
              <7>1. i + 1 \in 1..(Len(es) + 1) /\ ~(i + 1 < k) /\ i + 1 # k /\ (i + 1) - 1 = i
                BY <1>0, <5>2, <6>2
              <7> QED BY <2>10, <7>1
            <6> QED BY <6>1, <6>2
          <5>4. j \in FindEntry(w, COUNTS, 0)
            BY <2>6, <5>2, <5>3 DEF FindEntry, COUNTS, REACTION
          <5> QED BY <2>7, <5>1, <5>3, <5>4, CountsAre
        <4> QED BY <4>1, <4>2
      <3> QED BY <3>1, <3>2
    <2>13. \A i \in 1..Len(w.entries) : (\E j \in 1..Len(es) : w.entries[i] = es[j]) \/ w.entries[i] = e
      <3> SUFFICES ASSUME NEW i \in 1..(Len(es) + 1), w.entries[i] # e PROVE \E j \in 1..Len(es) : w.entries[i] = es[j]
        BY <2>6
      <3>1. CASE i < k
        BY <1>0, <2>10, <3>1
      <3>2. CASE k < i
        BY <1>0, <2>10, <3>2
      <3> QED BY <1>0, <2>10, <3>1, <3>2
    <2>14. Len(m.entries) <= Len(w.entries)
      BY <1>0, <2>6
    <2> QED BY <2>6, <2>7, <2>9, <2>11, <2>12, <2>13, <2>14 DEF w, e
  <1> QED BY <1>1, <1>2

\* One more in an entry: the others stay, and so does their order.
LEMMA Incremented ==
    ASSUME NEW m, Orderly(m), NEW type \in Types, NEW payload \in Int, NEW sum \in Int,
           type # ZAP_UNVERIFIED => sum = 0, type = COUNTS => payload = 0
    PROVE  LET w == Increment(m, type, payload, sum)
               found == FindEntry(m, type, payload) # {}
           IN  /\ Orderly(w) /\ w.flags = m.flags
               /\ Len(w.entries) = Len(m.entries)
               /\ \A i \in 1..Len(m.entries) : w.entries[i].type = m.entries[i].type
               /\ \A i \in 1..Len(m.entries) : m.entries[i].type = REACTION => w.entries[i].payload = m.entries[i].payload
               /\ \A t, p : FindEntry(w, t, p) = FindEntry(m, t, p)
               /\ SumOfReactions(w.entries) =
                     SumOfReactions(m.entries) + (IF type = REACTION /\ found THEN 1 ELSE 0)
               /\ CountsOf(w).counts = CountsOf(m).counts
               /\ CountsOf(w).n = CountsOf(m).n + (IF type = COUNTS /\ found THEN 1 ELSE 0)
  <1> DEFINE w == Increment(m, type, payload, sum)
             es == m.entries
             at0 == FindEntry(m, type, payload)
             inc(x) == [x EXCEPT !.n = @ + 1, !.payload = @ + sum]
  <1>0. es \in Seq(Entries) /\ Sorted(es) /\ Len(es) \in Nat /\ DOMAIN es = 1..Len(es) /\ \A i \in 1..Len(es) : es[i] \in Entries
    BY ElementOfSeq DEF Orderly
  <1>1. \A x \in Entries : /\ inc(x).type = x.type /\ inc(x).n = x.n + 1 /\ inc(x).counts = x.counts
                           /\ inc(x) \in Entries /\ inc(x).payload = x.payload + sum
    <2> SUFFICES ASSUME NEW x \in Entries
                 PROVE  /\ inc(x).type = x.type /\ inc(x).n = x.n + 1 /\ inc(x).counts = x.counts
                        /\ inc(x) \in Entries /\ inc(x).payload = x.payload + sum
      OBVIOUS
    <2>1. x.n \in Nat /\ x.payload \in Int /\ x.counts \in Counts /\ x.type \in Types
      BY DEF Entries, Types
    <2>2. inc(x) = [type |-> x.type, payload |-> x.payload + sum, n |-> x.n + 1, counts |-> x.counts]
      <3> DEFINE y == [x EXCEPT !.n = x.n + 1]
      <3>1. x = [type |-> x.type, payload |-> x.payload, n |-> x.n, counts |-> x.counts]
        BY DEF Entries
      <3>2. y = [type |-> x.type, payload |-> x.payload, n |-> x.n + 1, counts |-> x.counts]
        BY <3>1
      <3>3. inc(x) = [y EXCEPT !.payload = y.payload + sum]
        OBVIOUS
      <3> HIDE DEF y, inc
      <3> QED BY <3>2, <3>3
    <2> HIDE DEF inc
    <2>3. x.n + 1 \in Nat /\ x.payload + sum \in Int
      BY <2>1
    <2> QED BY <2>1, <2>2, <2>3 DEF Entries, Types
  <1> DEFINE F == [i \in DOMAIN es |-> IF i \in at0 THEN inc(es[i]) ELSE es[i]]
  <1>2. w = [flags |-> m.flags, entries |-> F]
    <2>1. w = [m EXCEPT !.entries = F]
      BY DEF Increment
    <2> HIDE DEF F, w
    <2> QED BY <2>1 DEF Orderly
  <1> DEFINE ws == w.entries
  <1>3. ws = [i \in 1..Len(es) |-> IF i \in at0 THEN inc(es[i]) ELSE es[i]] /\ w.flags = m.flags
    <2>1. F = [i \in 1..Len(es) |-> IF i \in at0 THEN inc(es[i]) ELSE es[i]]
      BY <1>0
    <2>2. w.entries = F /\ w.flags = m.flags
      <3> HIDE DEF F, w
      <3> QED BY <1>2
    <2> QED BY <2>1, <2>2
  <1>4. w = [flags |-> w.flags, entries |-> w.entries]
    <2> HIDE DEF F, w
    <2> QED BY <1>2
  <1> HIDE DEF w, inc, F
  <1>5. \A i \in at0 : i \in 1..Len(es) /\ es[i].type = type /\ (type = REACTION => es[i].payload = payload)
    BY DEF FindEntry
  <1>6. \A i \in 1..Len(es) : ws[i] = (IF i \in at0 THEN inc(es[i]) ELSE es[i]) /\ ws[i] \in Entries
    BY <1>0, <1>1, <1>3
  <1> HIDE DEF at0
  <1>7. ws \in Seq(Entries) /\ Len(ws) = Len(es)
    <2>1. ws \in [1..Len(es) -> Entries]
      BY <1>3, <1>6
    <2> HIDE DEF ws, es
    <2> QED BY <1>0, <2>1, IsASeq, LenProperties
  <1>8. \A i \in 1..Len(es) : ws[i].type = es[i].type /\ (es[i].type = REACTION => ws[i].payload = es[i].payload)
    <2> SUFFICES ASSUME NEW i \in 1..Len(es)
                 PROVE  ws[i].type = es[i].type /\ (es[i].type = REACTION => ws[i].payload = es[i].payload)
      OBVIOUS
    <2>1. CASE i \in at0
      <3>1. ws[i] = inc(es[i]) /\ es[i] \in Entries /\ es[i].type = type
        BY <1>0, <1>5, <1>6, <2>1
      <3>2. ws[i].type = es[i].type /\ ws[i].payload = es[i].payload + sum
        BY <1>1, <3>1
      <3>3. es[i].type = REACTION => sum = 0
        BY <3>1 DEF REACTION, ZAP_UNVERIFIED
      <3>4. es[i].payload \in Int
        BY <3>1 DEF Entries
      <3> QED BY <3>2, <3>3, <3>4
    <2>2. CASE i \notin at0
      BY <1>6, <2>2
    <2> QED BY <2>1, <2>2
  <1>9. Sorted(ws)
    <2> SUFFICES ASSUME NEW j \in 1..Len(es), NEW k \in 1..Len(es), j < k PROVE EntryLess(ws[j], ws[k])
      BY <1>7 DEF Sorted
    <2>1. EntryLess(es[j], es[k])
      BY <1>0 DEF Sorted
    <2> HIDE DEF ws, es
    <2> QED BY <1>8, <2>1 DEF EntryLess
  <1>10. Orderly(w)
    BY <1>4, <1>7, <1>9 DEF Orderly
  <1>11. \A t, p : FindEntry(w, t, p) = FindEntry(m, t, p)
    <2> SUFFICES ASSUME NEW t, NEW p PROVE FindEntry(w, t, p) = FindEntry(m, t, p)
      OBVIOUS
    <2>1. \A i \in 1..Len(es) : (ws[i].type = t /\ (t = REACTION => ws[i].payload = p))
                                  <=> (es[i].type = t /\ (t = REACTION => es[i].payload = p))
      BY <1>8
    <2> QED BY <1>7, <2>1 DEF FindEntry
  <1>12. CASE at0 = {}
    <2>1. \A i \in 1..Len(es) : ws[i] = es[i]
      BY <1>6, <1>12
    <2>2. ws = es
      BY <1>0, <1>3, <1>12, <2>1
    <2>3. w = m
      BY <1>3, <1>4, <2>2 DEF Orderly
    <2>4. FindEntry(m, type, payload) = {}
      BY <1>12 DEF at0
    <2>5. SumOfReactions(es) \in Nat
      <3> HIDE DEF es, ws, w
      <3>1. PICK u : /\ u[0] = 0 /\ \A k \in 1..Len(es) : u[k] = u[k - 1] + Worth(es[k])
                     /\ SumOfReactions(es) = u[Len(es)]
        BY <1>0, SumIs
      <3>2. u[Len(es)] \in Nat
        BY <1>0, <3>1, SumType
      <3> QED BY <3>1, <3>2
    <2>6. CountsOf(m).n \in Nat
      BY CountsAre DEF Entries
    <2>7. Orderly(w) /\ \A t, p : FindEntry(w, t, p) = FindEntry(m, t, p)
      BY <1>10, <1>11
    <2> HIDE DEF w
    <2>8. SumOfReactions(w.entries) = SumOfReactions(m.entries) + 0 /\ CountsOf(w).n = CountsOf(m).n + 0
      BY <2>3, <2>5, <2>6
    <2> QED BY <2>3, <2>4, <2>7, <2>8 DEF w
  <1>13. CASE at0 # {}
    <2>1. PICK k \in at0 : TRUE
      BY <1>13
    <2>2. \A j \in at0 : j = k
      BY <2>1, FoundOnce DEF at0
    <2>3. /\ k \in 1..Len(es) /\ es[k].type = type /\ es[k] \in Entries /\ ws[k] = inc(es[k])
          /\ \A i \in 1..Len(es) : i # k => ws[i] = es[i]
      BY <1>0, <1>5, <1>6, <2>1, <2>2
    <2> DEFINE D == IF type = REACTION THEN 1 ELSE 0
    <2>4. Worth(ws[k]) = Worth(es[k]) + D
      <3>1. ws[k].type = type /\ ws[k].n = es[k].n + 1 /\ es[k].n \in Nat
        BY <1>1, <2>3 DEF Entries
      <3> QED BY <2>3, <3>1 DEF Worth
    <2>5. SumOfReactions(ws) = SumOfReactions(es) + D
      <3>1. D \in Nat /\ \A i \in 1..Len(es) : i # k => Worth(ws[i]) = Worth(es[i])
        BY <2>3
      <3> HIDE DEF ws, es, D
      <3> QED BY <1>0, <1>7, <2>3, <2>4, <3>1, SumChanged
    <2>6. /\ CountsOf(w).counts = CountsOf(m).counts
          /\ CountsOf(w).n = CountsOf(m).n + (IF type = COUNTS THEN 1 ELSE 0)
      <3>0. CountsOf(m).n \in Nat
        BY CountsAre DEF Entries
      <3>1. CASE FindEntry(m, COUNTS, 0) = {}
        <4>1. type # COUNTS
          BY <1>13, <3>1 DEF at0
        <4>2. CountsOf(w) = CountsOf(m)
          BY <1>10, <1>11, <3>1, CountsAre
        <4> QED BY <3>0, <4>1, <4>2
      <3>2. CASE FindEntry(m, COUNTS, 0) # {}
        <4>1. PICK j \in FindEntry(m, COUNTS, 0) : TRUE
          BY <3>2
        <4>2. CountsOf(m) = es[j]
          BY <4>1, CountsAre
        <4>3. CountsOf(w) = ws[j]
          BY <1>10, <1>11, <4>1, CountsAre
        <4>4. j \in 1..Len(es) /\ es[j].type = COUNTS
          BY <4>1 DEF FindEntry
        <4>5. CASE type = COUNTS
          <5>1. j \in at0
            BY <4>1, <4>5 DEF at0
          <5>2. j = k
            BY <2>2, <5>1
          <5>3. ws[k].counts = es[k].counts /\ ws[k].n = es[k].n + 1
            BY <1>1, <2>3
          <5> QED BY <4>2, <4>3, <4>5, <5>2, <5>3
        <4>6. CASE type # COUNTS
          <5>1. j # k
            BY <2>3, <4>4, <4>6
          <5>2. ws[j] = es[j]
            BY <2>3, <4>4, <5>1
          <5> QED BY <3>0, <4>2, <4>3, <4>6, <5>2
        <4> QED BY <4>5, <4>6
      <3> QED BY <3>1, <3>2
    <2>7. FindEntry(m, type, payload) # {}
      BY <1>13 DEF at0
    <2> QED BY <1>3, <1>7, <1>8, <1>10, <1>11, <2>5, <2>6, <2>7 DEF w
  <1> QED BY <1>12, <1>13

\* A record whose total is the sum of its reactions, unless it is full.
RecordOK(m) ==
    /\ Orderly(m)
    /\ Len(m.entries) < Room => CountsOf(m).n = SumOfReactions(m.entries)

CountFields == {"quotes", "direct", "thread", "reposts"}

\* A count after one more: all but that of the thread are cut to 16 bits.
OneMore(field, c) == IF field = "thread" THEN c + 1 ELSE Short(c + 1)

LEMMA ShortType == \A x \in Nat : Short(x) \in Nat
  BY MetaAssumption DEF Short

\* The empty record.
LEMMA NoMetaOK ==
    /\ RecordOK(NoMeta) /\ NoMeta.entries = <<>>
    /\ CountsOf(NoMeta) = Entry(COUNTS, 0, 0, NoCounts)
    /\ CountsOf(NoMeta).n = 0 /\ CountsOf(NoMeta).counts = NoCounts
  <1>1. NoMeta.entries = <<>> /\ NoMeta = [flags |-> NoMeta.flags, entries |-> NoMeta.entries]
    BY DEF NoMeta
  <1>2. Orderly(NoMeta)
    BY <1>1, MetaAssumption DEF Orderly, Sorted
  <1>3. FindEntry(NoMeta, COUNTS, 0) = {}
    BY <1>1 DEF FindEntry
  <1>4. CountsOf(NoMeta) = Entry(COUNTS, 0, 0, NoCounts)
    BY <1>2, <1>3, CountsAre
  <1>5. Entry(COUNTS, 0, 0, NoCounts).n = 0 /\ Entry(COUNTS, 0, 0, NoCounts).counts = NoCounts
    BY DEF Entry
  <1> QED BY <1>1, <1>2, <1>4, <1>5, SumEmpty DEF RecordOK

\* A reply, quote or repost counts one in its field and nothing else.
LEMMA CountedOK ==
    ASSUME NEW m, RecordOK(m), NEW field \in CountFields
    PROVE  LET w == Counted(m, field)
           IN  /\ RecordOK(w)
               /\ Len(m.entries) <= Len(w.entries)
               /\ Len(m.entries) < Room =>
                     /\ CountsOf(w).n = CountsOf(m).n
                     /\ CountsOf(w).counts = [CountsOf(m).counts EXCEPT ![field] = OneMore(field, @)]
  <1> DEFINE new == CloneWithEntry(m, COUNTS, 0)
             w == Counted(m, field)
             es == new.entries
             at0 == FindEntry(new, COUNTS, 0)
             inc(x) == [x EXCEPT !.counts[field] = OneMore(field, @)]
             F == [i \in DOMAIN es |-> IF i \in at0 THEN inc(es[i]) ELSE es[i]]
  <1>1. /\ Orderly(new) /\ new.flags = m.flags
        /\ Len(m.entries) <= Len(es)
        /\ SumOfReactions(es) = SumOfReactions(m.entries)
        /\ CountsOf(new) = CountsOf(m)
        /\ Len(m.entries) < Room => at0 # {}
    BY Cloned DEF RecordOK, Types
  <1>2. /\ w = [new EXCEPT !.entries = F]
        /\ at0 = FindEntry(new, COUNTS, 0)
    BY DEF Counted, OneMore
  <1> HIDE DEF new, w
  <1>0. /\ es \in Seq(Entries) /\ Sorted(es) /\ Len(es) \in Nat /\ DOMAIN es = 1..Len(es)
        /\ Len(m.entries) \in Nat /\ Room \in Nat
        /\ \A i \in 1..Len(es) : es[i] \in Entries
    BY <1>1, ElementOfSeq, MetaAssumption DEF Orderly, RecordOK
  <1>3. \A x \in Entries : /\ inc(x) \in Entries
                           /\ inc(x).type = x.type /\ inc(x).payload = x.payload /\ inc(x).n = x.n
                           /\ inc(x).counts = [x.counts EXCEPT ![field] = OneMore(field, @)]
    <2> SUFFICES ASSUME NEW x \in Entries
                 PROVE  /\ inc(x) \in Entries
                        /\ inc(x).type = x.type /\ inc(x).payload = x.payload /\ inc(x).n = x.n
                        /\ inc(x).counts = [x.counts EXCEPT ![field] = OneMore(field, @)]
      OBVIOUS
    <2> DEFINE c == [x.counts EXCEPT ![field] = OneMore(field, @)]
    <2>1. x.counts \in Counts /\ x.counts \in [CountFields -> Nat]
      BY DEF Entries, Counts, CountFields
    <2>2. x.counts[field] \in Nat
      BY <2>1
    <2>3. OneMore(field, x.counts[field]) \in Nat
      BY <2>2, ShortType DEF OneMore
    <2>4. c \in Counts
      <3> HIDE DEF CountFields
      <3>1. c \in [CountFields -> Nat]
        BY <2>1, <2>3
      <3> QED BY <3>1 DEF Counts, CountFields
    <2>5. inc(x) = [x EXCEPT !.counts = c]
      OBVIOUS
    <2>6. x = [type |-> x.type, payload |-> x.payload, n |-> x.n, counts |-> x.counts]
      BY DEF Entries
    <2> HIDE DEF inc, c
    <2>7. inc(x) = [type |-> x.type, payload |-> x.payload, n |-> x.n, counts |-> c]
      BY <2>5, <2>6
    <2>8. inc(x) \in Entries
      BY <2>4, <2>7 DEF Entries
    <2>9. inc(x).counts = c /\ inc(x).type = x.type /\ inc(x).payload = x.payload /\ inc(x).n = x.n
      BY <2>7
    <2> QED BY <2>8, <2>9 DEF c
  <1> DEFINE ws == w.entries
  <1>4. w = [flags |-> w.flags, entries |-> ws] /\ ws = F
    <2> HIDE DEF F
    <2> QED BY <1>1, <1>2 DEF Orderly
  <1> HIDE DEF at0
  <1>5. \A i \in 1..Len(es) : ws[i] = IF i \in at0 THEN inc(es[i]) ELSE es[i]
    BY <1>0, <1>4
  <1> HIDE DEF inc
  <1>6. \A i \in 1..Len(es) : /\ ws[i] \in Entries /\ ws[i].type = es[i].type
                              /\ ws[i].payload = es[i].payload /\ ws[i].n = es[i].n
    BY <1>0, <1>3, <1>5
  <1>7. ws \in Seq(Entries) /\ Len(ws) = Len(es)
    <2>1. ws = [i \in 1..Len(es) |-> ws[i]]
      BY <1>0, <1>4
    <2>2. ws \in [1..Len(es) -> Entries]
      BY <1>6, <2>1
    <2> HIDE DEF ws, es
    <2> QED BY <1>0, <2>2, IsASeq, LenProperties
  <1>8. Orderly(w)
    <2>1. Sorted(ws)
      <3> SUFFICES ASSUME NEW j \in 1..Len(es), NEW k \in 1..Len(es), j < k PROVE EntryLess(ws[j], ws[k])
        BY <1>7 DEF Sorted
      <3>1. EntryLess(es[j], es[k])
        BY <1>0 DEF Sorted
      <3> HIDE DEF ws, es
      <3> QED BY <1>6, <3>1 DEF EntryLess
    <2> QED BY <1>1, <1>4, <1>7, <2>1 DEF Orderly
  <1>9. FindEntry(w, COUNTS, 0) = at0
    BY <1>6, <1>7 DEF FindEntry, at0
  <1>10. SumOfReactions(ws) = SumOfReactions(es)
    <2>1. \A i \in 1..Len(es) : Worth(ws[i]) = Worth(es[i]) /\ Worth(es[i]) \in Nat
      BY <1>0, <1>6, WorthType DEF Worth
    <2>2. CASE at0 = {}
      <3>1. ws = es
        <4>1. es = [i \in DOMAIN es |-> es[i]]
          BY <1>0
        <4>2. F = [i \in DOMAIN es |-> es[i]]
          BY <2>2
        <4> QED BY <1>4, <4>1, <4>2
      <3> QED BY <3>1
    <2>3. CASE at0 # {}
      <3>1. PICK k \in 1..Len(es) : TRUE
        BY <2>3 DEF at0, FindEntry
      <3>2. Worth(ws[k]) = Worth(es[k]) + 0
        BY <2>1
      <3> HIDE DEF ws, es
      <3>3. SumOfReactions(ws) = SumOfReactions(es) + 0
        BY <1>0, <1>7, <2>1, <3>2, SumChanged
      <3>4. SumOfReactions(es) \in Nat
        <4>1. PICK u : /\ u[0] = 0 /\ \A i \in 1..Len(es) : u[i] = u[i - 1] + Worth(es[i])
                       /\ SumOfReactions(es) = u[Len(es)]
          BY <1>0, SumIs
        <4>2. u[Len(es)] \in Nat
          BY <1>0, <4>1, SumType
        <4> QED BY <4>1, <4>2
      <3> QED BY <3>3, <3>4
    <2> QED BY <2>2, <2>3
  <1>11. CountsOf(w).n = CountsOf(new).n
    <2>1. CASE at0 = {}
      BY <1>1, <1>8, <1>9, <2>1, CountsAre DEF at0
    <2>2. CASE at0 # {}
      <3>1. PICK k \in at0 : TRUE
        BY <2>2
      <3>2. CountsOf(w) = ws[k] /\ CountsOf(new) = es[k]
        BY <1>1, <1>8, <1>9, <3>1, CountsAre DEF at0
      <3>3. k \in 1..Len(es)
        BY <3>1 DEF at0, FindEntry
      <3> QED BY <1>6, <3>2, <3>3
    <2> QED BY <2>1, <2>2
  <1>12. ASSUME Len(m.entries) < Room
         PROVE  CountsOf(w).counts = [CountsOf(m).counts EXCEPT ![field] = OneMore(field, @)]
    <2>1. PICK k \in at0 : TRUE
      BY <1>1, <1>12
    <2>2. CountsOf(w) = ws[k] /\ CountsOf(new) = es[k]
      BY <1>1, <1>8, <1>9, <2>1, CountsAre DEF at0
    <2>3. k \in 1..Len(es)
      BY <2>1 DEF at0, FindEntry
    <2>4. ws[k] = inc(es[k]) /\ es[k] \in Entries
      BY <1>0, <1>5, <2>1, <2>3
    <2>5. ws[k].counts = [es[k].counts EXCEPT ![field] = OneMore(field, @)]
      BY <1>3, <2>4
    <2> QED BY <1>1, <2>2, <2>5
  <1>13. RecordOK(w)
    <2> SUFFICES ASSUME Len(ws) < Room PROVE CountsOf(w).n = SumOfReactions(ws)
      BY <1>8 DEF RecordOK
    <2>1. Len(m.entries) < Room
      BY <1>0, <1>1, <1>7
    <2> QED BY <1>1, <1>10, <1>11, <2>1 DEF RecordOK
  <1>14. Len(m.entries) <= Len(ws)
    BY <1>1, <1>7
  <1> QED BY <1>1, <1>11, <1>12, <1>13, <1>14 DEF w

\* A reaction counts one in its entry and one in the total.
LEMMA ReactedOK ==
    ASSUME NEW m, RecordOK(m), NEW content \in Int
    PROVE  LET w == Reacted(m, content)
           IN  /\ RecordOK(w)
               /\ Len(m.entries) <= Len(w.entries)
               /\ Len(w.entries) < Room =>
                     /\ CountsOf(w).n = CountsOf(m).n + 1
                     /\ CountsOf(w).counts = CountsOf(m).counts
  <1> DEFINE r == Reaction(content)
             new == CloneWithEntry(m, REACTION, r)
             a == Increment(new, REACTION, r, 0)
             b == CloneWithEntry(a, COUNTS, 0)
             w == Increment(b, COUNTS, 0, 0)
  <1>0. /\ Orderly(m) /\ Len(m.entries) \in Nat /\ Room \in Nat
        /\ REACTION \in Types /\ COUNTS \in Types
        /\ REACTION # COUNTS /\ REACTION # ZAP_UNVERIFIED /\ COUNTS # ZAP_UNVERIFIED
    BY MetaAssumption DEF RecordOK, Orderly, Types, REACTION, COUNTS, ZAP_UNVERIFIED
  <1>1. r \in Int
    BY DEF Reaction
  <1> HIDE DEF r
  <1>2. /\ Orderly(new) /\ Len(m.entries) <= Len(new.entries)
        /\ SumOfReactions(new.entries) = SumOfReactions(m.entries)
        /\ CountsOf(new) = CountsOf(m)
        /\ Len(m.entries) < Room => FindEntry(new, REACTION, r) # {}
    BY <1>0, <1>1, Cloned
  <1>3. CASE FindEntry(new, REACTION, r) = {}
    <2>1. Reacted(m, content) = m
      BY <1>3 DEF Reacted, r
    <2>2. ~(Len(m.entries) < Room) /\ Len(m.entries) <= Len(m.entries)
      BY <1>0, <1>2, <1>3
    <2> QED BY <2>1, <2>2
  <1>4. CASE FindEntry(new, REACTION, r) # {}
    <2>1. Reacted(m, content) = w
      BY <1>4 DEF Reacted, r
    <2> HIDE DEF new, a, b, w
    <2>2. /\ Orderly(a) /\ Len(a.entries) = Len(new.entries)
          /\ SumOfReactions(a.entries) = SumOfReactions(new.entries) + 1
          /\ CountsOf(a).counts = CountsOf(new).counts
          /\ CountsOf(a).n = CountsOf(new).n + 0
      BY <1>0, <1>1, <1>2, <1>4, Incremented DEF a
    <2>3. /\ Orderly(b) /\ Len(a.entries) <= Len(b.entries)
          /\ SumOfReactions(b.entries) = SumOfReactions(a.entries)
          /\ CountsOf(b) = CountsOf(a)
          /\ Len(a.entries) < Room => FindEntry(b, COUNTS, 0) # {}
      BY <1>0, <2>2, Cloned DEF b
    <2>4. /\ Orderly(w) /\ Len(w.entries) = Len(b.entries)
          /\ SumOfReactions(w.entries) = SumOfReactions(b.entries) + 0
          /\ CountsOf(w).counts = CountsOf(b).counts
          /\ CountsOf(w).n = CountsOf(b).n + (IF FindEntry(b, COUNTS, 0) # {} THEN 1 ELSE 0)
      BY <1>0, <2>3, Incremented DEF w
    <2>5. Len(new.entries) \in Nat /\ Len(a.entries) \in Nat /\ Len(b.entries) \in Nat /\ Len(w.entries) \in Nat
      BY <1>2, <2>2, <2>3, <2>4 DEF Orderly
    <2>6. Len(m.entries) <= Len(w.entries)
      BY <1>0, <1>2, <2>2, <2>3, <2>4, <2>5
    <2>7. CountsOf(m).n \in Nat
      BY <1>0, CountsAre DEF Entries
    <2>8. ASSUME Len(w.entries) < Room
          PROVE  /\ CountsOf(w).n = CountsOf(m).n + 1
                 /\ CountsOf(w).counts = CountsOf(m).counts
                 /\ CountsOf(w).n = SumOfReactions(w.entries)
      <3>1. Len(a.entries) < Room /\ Len(m.entries) < Room
        BY <1>0, <1>2, <2>2, <2>3, <2>4, <2>5, <2>8
      <3>2. CountsOf(w).n = CountsOf(m).n + 1
        BY <1>2, <2>2, <2>3, <2>4, <2>7, <3>1
      <3>3. SumOfReactions(m.entries) = CountsOf(m).n
        BY <3>1 DEF RecordOK
      <3>4. SumOfReactions(w.entries) = CountsOf(m).n + 1
        BY <1>2, <2>2, <2>3, <2>4, <2>7, <3>3
      <3>5. CountsOf(w).counts = CountsOf(m).counts
        BY <1>2, <2>2, <2>3, <2>4
      <3> QED BY <3>2, <3>4, <3>5
    <2>9. RecordOK(w)
      BY <2>4, <2>8 DEF RecordOK
    <2> QED BY <2>1, <2>6, <2>8, <2>9
  <1> QED BY <1>3, <1>4

\* A zap counts in its own entry only.
LEMMA ZappedOK ==
    ASSUME NEW m, RecordOK(m), NEW msats \in Int
    PROVE  LET w == Zapped(m, msats)
           IN  /\ RecordOK(w)
               /\ Len(m.entries) <= Len(w.entries)
               /\ CountsOf(w).n = CountsOf(m).n
               /\ CountsOf(w).counts = CountsOf(m).counts
  <1> DEFINE new == CloneWithEntry(m, ZAP_UNVERIFIED, 0)
             w == Increment(new, ZAP_UNVERIFIED, 0, msats)
  <1>0. /\ Orderly(m) /\ Len(m.entries) \in Nat /\ Room \in Nat
        /\ ZAP_UNVERIFIED \in Types /\ ZAP_UNVERIFIED # COUNTS /\ ZAP_UNVERIFIED # REACTION
    BY MetaAssumption DEF RecordOK, Orderly, Types, REACTION, COUNTS, ZAP_UNVERIFIED
  <1>1. Zapped(m, msats) = w
    BY DEF Zapped
  <1> HIDE DEF new, w
  <1>2. /\ Orderly(new) /\ Len(m.entries) <= Len(new.entries)
        /\ SumOfReactions(new.entries) = SumOfReactions(m.entries)
        /\ CountsOf(new) = CountsOf(m)
    BY <1>0, Cloned DEF new
  <1>3. /\ Orderly(w) /\ Len(w.entries) = Len(new.entries)
        /\ SumOfReactions(w.entries) = SumOfReactions(new.entries) + 0
        /\ CountsOf(w).counts = CountsOf(new).counts
        /\ CountsOf(w).n = CountsOf(new).n + 0
    BY <1>0, <1>2, Incremented DEF w
  <1>4. CountsOf(m).n \in Nat /\ Len(new.entries) \in Nat
    <2>1. CountsOf(m) \in Entries
      BY <1>0, CountsAre
    <2>2. new.entries \in Seq(Entries)
      BY <1>2 DEF Orderly
    <2> QED BY <2>1, <2>2 DEF Entries
  <1>5. Len(w.entries) < Room => CountsOf(w).n = SumOfReactions(w.entries)
    <2> SUFFICES ASSUME Len(w.entries) < Room PROVE CountsOf(w).n = SumOfReactions(w.entries)
      OBVIOUS
    <2>1. Len(m.entries) < Room
      BY <1>0, <1>2, <1>3, <1>4
    <2>2. CountsOf(m).n = SumOfReactions(m.entries)
      BY <2>1 DEF RecordOK
    <2> QED BY <1>2, <1>3, <1>4, <2>2
  <1> QED BY <1>1, <1>2, <1>3, <1>4, <1>5 DEF RecordOK

-----------------------------------------------------------------------------
(* Counting from scratch *)

\* Of a finite set in a strict total order, every rank has an element.
LEMMA RanksTaken ==
    ASSUME NEW S, IsFiniteSet(S), NEW R,
           \A x \in S : <<x, x>> \notin R,
           \A x, y \in S : x # y => (<<x, y>> \in R \/ <<y, x>> \in R),
           \A x, y, z \in S : <<x, y>> \in R /\ <<y, z>> \in R => <<x, z>> \in R
    PROVE  /\ Cardinality(S) \in Nat
           /\ \A i \in 1..Cardinality(S) : \E x \in S : Cardinality({y \in S : <<y, x>> \in R}) = i - 1
  <1> DEFINE below(x) == {y \in S : <<y, x>> \in R}
             N == Cardinality(S)
             T == 0..(N - 1)
             rank == [x \in S |-> Cardinality(below(x))]
  <1>1. N \in Nat
    BY FS_CardinalityType
  <1>2. \A x \in S : IsFiniteSet(below(x)) /\ Cardinality(below(x)) \in Nat /\ Cardinality(below(x)) < N
    <2> SUFFICES ASSUME NEW x \in S
                 PROVE  IsFiniteSet(below(x)) /\ Cardinality(below(x)) \in Nat /\ Cardinality(below(x)) < N
      OBVIOUS
    <2>1. below(x) \in SUBSET S /\ x \notin below(x)
      OBVIOUS
    <2> HIDE DEF below
    <2>2. IsFiniteSet(below(x)) /\ Cardinality(below(x)) <= N /\ N # Cardinality(below(x))
      BY <2>1, FS_Subset
    <2>3. Cardinality(below(x)) \in Nat
      BY <2>2, FS_CardinalityType
    <2> QED BY <1>1, <2>2, <2>3
  <1>3. ASSUME NEW x \in S, NEW y \in S, <<x, y>> \in R PROVE Cardinality(below(x)) # Cardinality(below(y))
    <2>1. below(x) \in SUBSET below(y) /\ x \in below(y) /\ x \notin below(x)
      BY <1>3
    <2> HIDE DEF below
    <2>2. below(x) # below(y)
      BY <2>1
    <2> QED BY <1>2, <2>1, <2>2, FS_Subset
  <1>4. rank \in Injection(S, T)
    <2>1. \A x \in S : rank[x] \in T
      <3> HIDE DEF below, N
      <3> QED BY <1>1, <1>2
    <2>2. \A x, y \in S : rank[x] = rank[y] => x = y
      <3> SUFFICES ASSUME NEW x \in S, NEW y \in S, x # y PROVE rank[x] # rank[y]
        OBVIOUS
      <3>1. Cardinality(below(x)) # Cardinality(below(y))
        <4> HIDE DEF below
        <4> QED BY <1>3
      <3> QED BY <3>1
    <2>3. rank \in [S -> T]
      BY <2>1
    <2> HIDE DEF rank, T
    <2> QED BY <2>2, <2>3 DEF Injection, IsInjective
  <1>5. IsFiniteSet(T) /\ Cardinality(T) = N
    <2> HIDE DEF N
    <2>1. 0 \in Int /\ N - 1 \in Int
      BY <1>1
    <2>2. IsFiniteSet(T) /\ Cardinality(T) = IF 0 > N - 1 THEN 0 ELSE (N - 1) - 0 + 1
      BY <2>1, FS_Interval
    <2> HIDE DEF T
    <2> QED BY <1>1, <2>2
  <1>6. rank \in Surjection(S, T)
    <2> HIDE DEF rank, T
    <2> QED BY <1>4, <1>5, FS_Injection
  <1>7. \A t \in T : \E x \in S : rank[x] = t
    <2> HIDE DEF rank, T
    <2> QED BY <1>6 DEF Surjection
  <1>8. \A i \in 1..N : i - 1 \in T
    BY <1>1
  <1> QED BY <1>1, <1>7, <1>8

\* The reactions to a note, and their order in the index.
ReactionKeys(ns, id) == {k \in DOMAIN ns : ns[k].kind = 7 /\ LastId(ns[k], "e") = id}

ReactionOrder(ns, id) ==
    Ranked(ReactionKeys(ns, id), LAMBDA a, b : ns[a].created_at < ns[b].created_at
                                               \/ (ns[a].created_at = ns[b].created_at /\ a < b))

\* The loop comes to each of them.
LEMMA ReactionOrderIs ==
    ASSUME NEW ns \in Seq(Arriving), NEW id
    PROVE  /\ IsFiniteSet(ReactionKeys(ns, id)) /\ ReactionKeys(ns, id) \subseteq 1..Len(ns)
           /\ Len(ReactionOrder(ns, id)) = Cardinality(ReactionKeys(ns, id))
           /\ Len(ReactionOrder(ns, id)) \in Nat
           /\ \A i \in 1..Len(ReactionOrder(ns, id)) : ReactionOrder(ns, id)[i] \in ReactionKeys(ns, id)
  <1> DEFINE S == ReactionKeys(ns, id)
             before(a, b) == ns[a].created_at < ns[b].created_at
                             \/ (ns[a].created_at = ns[b].created_at /\ a < b)
             R == {p \in S \X S : before(p[1], p[2])}
             N == Cardinality(S)
  <1>0. Len(ns) \in Nat /\ DOMAIN ns = 1..Len(ns)
    OBVIOUS
  <1>1. S \subseteq 1..Len(ns)
    BY <1>0 DEF ReactionKeys
  <1>2. IsFiniteSet(S)
    BY <1>0, <1>1, FirstNumbers, FS_Subset
  <1>3. \A a \in S : ns[a].created_at \in Nat /\ a \in Nat
    <2> SUFFICES ASSUME NEW a \in S PROVE ns[a].created_at \in Nat /\ a \in Nat
      OBVIOUS
    <2>1. a \in 1..Len(ns)
      BY <1>1
    <2>2. ns[a] \in Arriving
      BY <2>1, ElementOfSeq
    <2> QED BY <1>0, <2>1, <2>2, UpkeepAssumption
  <1> HIDE DEF S
  <1>4. \A a, b \in S : <<a, b>> \in R <=> before(a, b)
    OBVIOUS
  <1> HIDE DEF R
  <1>5. /\ \A x \in S : <<x, x>> \notin R
        /\ \A x, y \in S : x # y => (<<x, y>> \in R \/ <<y, x>> \in R)
        /\ \A x, y, z \in S : <<x, y>> \in R /\ <<y, z>> \in R => <<x, z>> \in R
    <2>1. \A x \in S : ~before(x, x)
      BY <1>3
    <2>2. \A x, y \in S : x # y => before(x, y) \/ before(y, x)
      BY <1>3
    <2>3. \A x, y, z \in S : before(x, y) /\ before(y, z) => before(x, z)
      BY <1>3
    <2> HIDE DEF before
    <2> QED BY <1>4, <2>1, <2>2, <2>3
  <1>6. N \in Nat /\ \A i \in 1..N : \E x \in S : Cardinality({y \in S : <<y, x>> \in R}) = i - 1
    BY <1>2, <1>5, RanksTaken
  <1>7. \A x \in S : {y \in S : before(y, x)} = {y \in S : <<y, x>> \in R}
    BY <1>4
  <1>8. \A i \in 1..N : \E x \in S : Cardinality({y \in S : before(y, x)}) = i - 1
    BY <1>6, <1>7
  <1>9. ReactionOrder(ns, id) = [i \in 1..N |-> CHOOSE x \in S : Cardinality({y \in S : before(y, x)}) = i - 1]
    BY DEF ReactionOrder, Ranked, S
  <1> HIDE DEF before
  <1>10. \A i \in 1..N : ReactionOrder(ns, id)[i] \in S
    BY <1>8, <1>9
  <1>11. Len(ReactionOrder(ns, id)) = N
    <2>1. ReactionOrder(ns, id) \in [1..N -> S]
      BY <1>9, <1>10
    <2> HIDE DEF N
    <2> QED BY <1>6, <2>1, IsASeq, LenProperties
  <1> QED BY <1>1, <1>2, <1>6, <1>10, <1>11 DEF S

\* One turn of the loop over the reactions.
AddReaction(ns, m, k) ==
    LET r == Reaction(ns[k].content) IN Increment(CloneWithEntry(m, REACTION, r), REACTION, r, 0)

\* The loop computes a record.
LEMMA ReactionLoopExists ==
    ASSUME NEW ns, NEW keys, NEW N \in Nat
    PROVE  \E f : f = [i \in 0..N |-> IF i = 0 THEN NoMeta ELSE AddReaction(ns, f[i - 1], keys[i])]
  <1> DEFINE Is(f, n) == f = [i \in 0..n |-> IF i = 0 THEN NoMeta ELSE AddReaction(ns, f[i - 1], keys[i])]
             S == {n \in Nat : ~\E f : Is(f, n)}
  <1> SUFFICES ASSUME S # {} PROVE FALSE
    OBVIOUS
  <1>1. PICK n \in S : \A m \in S : n <= m
    BY LeastNat
  <1>2. CASE n = 0
    <2>1. Is([p \in 0..0 |-> NoMeta], 0)
      OBVIOUS
    <2> QED BY <1>2, <2>1
  <1>3. CASE n > 0
    <2>1. n - 1 \in Nat /\ n - 1 \notin S
      BY <1>1, <1>3
    <2>2. PICK f : Is(f, n - 1)
      BY <2>1
    <2> DEFINE g == [p \in 0..n |-> IF p = n THEN AddReaction(ns, f[n - 1], keys[n]) ELSE f[p]]
    <2>3. \A p \in 0..(n - 1) : g[p] = f[p]
      BY <2>1
    <2>4. \A p \in 0..(n - 1) : f[p] = IF p = 0 THEN NoMeta ELSE AddReaction(ns, f[p - 1], keys[p])
      BY <2>2
    <2>5. \A p \in 0..n : g[p] = IF p = 0 THEN NoMeta ELSE AddReaction(ns, g[p - 1], keys[p])
      BY <2>1, <2>3, <2>4, <1>3
    <2>6. Is(g, n)
      BY <2>5, Zenon
    <2> QED BY <2>6
  <1> QED BY <1>1, <1>2, <1>3

\* What the loop leaves is what its last turn does.
LEMMA ReactionLoopIs ==
    ASSUME NEW ns, NEW id, Len(ReactionOrder(ns, id)) \in Nat
    PROVE  LET keys == ReactionOrder(ns, id)
           IN  \E f : /\ f[0] = NoMeta
                      /\ \A i \in 1..Len(keys) : f[i] = AddReaction(ns, f[i - 1], keys[i])
                      /\ ReactionEntries(ns, id) = f[Len(keys)].entries
  <1> DEFINE keys == ReactionOrder(ns, id)
             u == CHOOSE f : f = [i \in 0..Len(keys) |-> IF i = 0 THEN NoMeta ELSE AddReaction(ns, f[i - 1], keys[i])]
  <1>1. u = [i \in 0..Len(keys) |-> IF i = 0 THEN NoMeta ELSE AddReaction(ns, u[i - 1], keys[i])]
    <2> HIDE DEF keys
    <2> QED BY ReactionLoopExists DEF keys
  <1>2. ReactionEntries(ns, id) = u[Len(keys)].entries
    BY DEF ReactionEntries, ReactionOrder, ReactionKeys, AddReaction, Keys, ReactsTo
  <1> HIDE DEF u, keys
  <1>0. Len(keys) \in Nat
    BY DEF keys
  <1>3. u[0] = NoMeta
    BY <1>0, <1>1
  <1>4. \A i \in 1..Len(keys) : u[i] = AddReaction(ns, u[i - 1], keys[i])
    BY <1>0, <1>1
  <1> QED BY <1>2, <1>3, <1>4 DEF keys

\* The kinds of reactions to a note.
Kinds(ns, id) == {Reaction(ns[k].content) : k \in ReactionKeys(ns, id)}

\* The record after turn i: reactions only, and all of them as long as it has room.
Tallied(m, kinds, i) ==
    /\ Orderly(m)
    /\ \A j \in 1..Len(m.entries) : m.entries[j].type = REACTION /\ m.entries[j].payload \in kinds
    /\ Len(m.entries) < Room => SumOfReactions(m.entries) = i

\* One turn counts one reaction.
LEMMA AddReactionOK ==
    ASSUME NEW ns \in Seq(Arriving), NEW id, NEW k \in ReactionKeys(ns, id), NEW i \in Nat,
           NEW m, Tallied(m, Kinds(ns, id), i)
    PROVE  Tallied(AddReaction(ns, m, k), Kinds(ns, id), i + 1)
  <1> DEFINE r == Reaction(ns[k].content)
             new == CloneWithEntry(m, REACTION, r)
             w == Increment(new, REACTION, r, 0)
             kinds == Kinds(ns, id)
  <1>0. Orderly(m) /\ REACTION \in Types /\ REACTION # ZAP_UNVERIFIED /\ REACTION # COUNTS /\ Room \in Nat
    BY MetaAssumption DEF Tallied, Types, REACTION, COUNTS, ZAP_UNVERIFIED
  <1>1. AddReaction(ns, m, k) = w
    BY DEF AddReaction
  <1>2. r \in Int /\ r \in kinds
    <2>1. k \in 1..Len(ns) /\ ns[k].kind = 7
      BY DEF ReactionKeys
    <2>2. ns[k] \in Arriving
      BY <2>1, ElementOfSeq
    <2>3. ns[k].content \in Int
      BY <2>1, <2>2, UpkeepAssumption
    <2> QED BY <2>3 DEF Reaction, Kinds
  <1> HIDE DEF r, new, w, kinds
  <1>3. /\ Orderly(new) /\ Len(m.entries) <= Len(new.entries)
        /\ SumOfReactions(new.entries) = SumOfReactions(m.entries)
        /\ Len(m.entries) < Room => FindEntry(new, REACTION, r) # {}
        /\ \A j \in 1..Len(new.entries) :
              \/ \E l \in 1..Len(m.entries) : new.entries[j] = m.entries[l]
              \/ new.entries[j] = Entry(REACTION, r, 0, NoCounts)
    BY <1>0, <1>2, Cloned DEF new
  <1>4. /\ Orderly(w) /\ Len(w.entries) = Len(new.entries)
        /\ \A j \in 1..Len(new.entries) : w.entries[j].type = new.entries[j].type
        /\ \A j \in 1..Len(new.entries) : new.entries[j].type = REACTION => w.entries[j].payload = new.entries[j].payload
        /\ SumOfReactions(w.entries) =
              SumOfReactions(new.entries) + (IF FindEntry(new, REACTION, r) # {} THEN 1 ELSE 0)
    BY <1>0, <1>2, <1>3, Incremented DEF w
  <1>5. \A j \in 1..Len(new.entries) : new.entries[j].type = REACTION /\ new.entries[j].payload \in kinds
    <2>1. Entry(REACTION, r, 0, NoCounts).type = REACTION /\ Entry(REACTION, r, 0, NoCounts).payload = r
      BY DEF Entry
    <2> QED BY <1>2, <1>3, <2>1 DEF Tallied, kinds
  <1>6. \A j \in 1..Len(w.entries) : w.entries[j].type = REACTION /\ w.entries[j].payload \in kinds
    BY <1>4, <1>5
  <1>7. ASSUME Len(w.entries) < Room PROVE SumOfReactions(w.entries) = i + 1
    <2>1. Len(m.entries) \in Nat /\ Len(new.entries) \in Nat
      BY <1>0, <1>3 DEF Orderly
    <2>2. Len(m.entries) < Room
      BY <1>0, <1>3, <1>4, <1>7, <2>1
    <2>3. SumOfReactions(m.entries) = i
      BY <2>2 DEF Tallied
    <2> QED BY <1>3, <1>4, <2>2, <2>3
  <1> QED BY <1>1, <1>4, <1>6, <1>7 DEF Tallied, kinds

\* The loop over the reactions counts them all, unless it runs out of room.
LEMMA ReactionsTallied ==
    ASSUME NEW ns \in Seq(Arriving), NEW id
    PROVE  LET es == ReactionEntries(ns, id)
           IN  /\ es \in Seq(Entries) /\ Sorted(es) /\ Len(es) <= Room
               /\ \A j \in 1..Len(es) : es[j].type = REACTION /\ es[j].payload \in Kinds(ns, id)
               /\ Len(es) < Room => SumOfReactions(es) = Cardinality(ReactionKeys(ns, id))
  <1> DEFINE keys == ReactionOrder(ns, id)
             kinds == Kinds(ns, id)
  <1>0. /\ Len(keys) = Cardinality(ReactionKeys(ns, id)) /\ Len(keys) \in Nat
        /\ \A i \in 1..Len(keys) : keys[i] \in ReactionKeys(ns, id)
    BY ReactionOrderIs
  <1>1. PICK f : /\ f[0] = NoMeta
                 /\ \A i \in 1..Len(keys) : f[i] = AddReaction(ns, f[i - 1], keys[i])
                 /\ ReactionEntries(ns, id) = f[Len(keys)].entries
    BY <1>0, ReactionLoopIs
  <1> HIDE DEF keys
  <1> DEFINE OK(i) == Tallied(f[i], kinds, i)
             S == {i \in 0..Len(keys) : ~OK(i)}
  <1>2. OK(0)
    <2>1. Len(NoMeta.entries) = 0 /\ Orderly(NoMeta) /\ SumOfReactions(NoMeta.entries) = 0
      BY NoMetaOK, SumEmpty DEF RecordOK
    <2> QED BY <1>1, <2>1 DEF Tallied
  <1>3. ASSUME NEW i \in 1..Len(keys), OK(i - 1) PROVE OK(i)
    <2>1. keys[i] \in ReactionKeys(ns, id) /\ f[i] = AddReaction(ns, f[i - 1], keys[i])
      BY <1>0, <1>1
    <2>2. i - 1 \in Nat /\ (i - 1) + 1 = i
      BY <1>0
    <2>3. Tallied(AddReaction(ns, f[i - 1], keys[i]), kinds, (i - 1) + 1)
      BY <1>3, <2>1, <2>2, AddReactionOK
    <2> QED BY <2>1, <2>2, <2>3
  <1> HIDE DEF OK
  <1>4. S = {}
    <2> SUFFICES ASSUME S # {} PROVE FALSE
      OBVIOUS
    <2>0. S \in SUBSET Nat /\ \A i \in S : i \in 0..Len(keys) /\ ~OK(i)
      BY <1>0
    <2>1. PICK i \in S : \A j \in S : i <= j
      <3> HIDE DEF S
      <3> QED BY <2>0, LeastNat
    <2>2. i \in 1..Len(keys) /\ i - 1 \in 0..Len(keys) /\ i - 1 \notin S
      <3>1. i # 0
        BY <1>2, <2>0
      <3> HIDE DEF S
      <3> QED BY <1>0, <2>0, <2>1, <3>1
    <2>3. OK(i - 1)
      BY <2>2
    <2> QED BY <1>3, <2>0, <2>2, <2>3
  <1>5. OK(Len(keys))
    BY <1>0, <1>4
  <1> QED BY <1>0, <1>1, <1>5 DEF OK, Tallied, Orderly, keys

\* There are no more entries than kinds of reactions.
LEMMA ReactionsFit ==
    ASSUME NEW ns \in Seq(Arriving), NEW id
    PROVE  /\ Cardinality(Kinds(ns, id)) \in Nat
           /\ Len(ReactionEntries(ns, id)) <= Cardinality(Kinds(ns, id))
  <1> DEFINE es == ReactionEntries(ns, id)
             kinds == Kinds(ns, id)
             K == ReactionKeys(ns, id)
             g == [k \in K |-> Reaction(ns[k].content)]
             f == [j \in 1..Len(es) |-> es[j].payload]
  <1>1. /\ es \in Seq(Entries) /\ Sorted(es) /\ Len(es) \in Nat
        /\ \A j \in 1..Len(es) : es[j].type = REACTION /\ es[j].payload \in kinds
    BY ReactionsTallied
  <1>2. IsFiniteSet(kinds) /\ Cardinality(kinds) \in Nat
    <2>1. IsFiniteSet(K)
      BY ReactionOrderIs
    <2>2. g \in Surjection(K, kinds)
      BY DEF Surjection, Kinds
    <2> HIDE DEF g, K, kinds
    <2>3. IsFiniteSet(kinds)
      BY <2>1, <2>2, FS_Surjection
    <2> QED BY <2>3, FS_CardinalityType
  <1> HIDE DEF es, kinds
  <1>3. \A j, k \in 1..Len(es) : j < k => es[j].payload # es[k].payload
    <2> SUFFICES ASSUME NEW j \in 1..Len(es), NEW k \in 1..Len(es), j < k PROVE es[j].payload # es[k].payload
      OBVIOUS
    <2>1. EntryLess(es[j], es[k]) /\ es[j] \in Entries /\ es[k] \in Entries
      BY <1>1, ElementOfSeq DEF Sorted
    <2>2. ~Alike(es[j], es[k])
      BY <2>1, EntryOrder
    <2> QED BY <1>1, <2>2 DEF Alike
  <1>4. f \in Injection(1..Len(es), kinds)
    <2>1. \A j, k \in 1..Len(es) : f[j] = f[k] => j = k
      BY <1>1, <1>3
    <2>2. f \in [1..Len(es) -> kinds]
      BY <1>1
    <2> HIDE DEF f
    <2> QED BY <2>1, <2>2 DEF Injection, IsInjective
  <1>5. Cardinality(1..Len(es)) <= Cardinality(kinds)
    <2> HIDE DEF f
    <2> QED BY <1>2, <1>4, FS_Injection
  <1>6. Cardinality(1..Len(es)) = Len(es)
    BY <1>1, FirstNumbers
  <1> QED BY <1>2, <1>5, <1>6 DEF es, kinds

\* Keys of notes are finitely many.
LEMMA KeysFinite ==
    ASSUME NEW ns \in Seq(Arriving), NEW K, K \subseteq DOMAIN ns
    PROVE  IsFiniteSet(K) /\ Cardinality(K) \in Nat
  <1>1. Len(ns) \in Nat /\ K \subseteq 1..Len(ns)
    OBVIOUS
  <1>2. IsFiniteSet(K)
    BY <1>1, FirstNumbers, FS_Subset
  <1> QED BY <1>2, FS_CardinalityType

\* The counts that the migration makes are numbers.
LEMMA CountsType ==
    ASSUME NEW ns \in Seq(Arriving), NEW id
    PROVE  /\ CountQuotes(ns, id) \in Nat /\ CountDirect(ns, id) \in Nat
           /\ CountThread(ns, id) \in Nat /\ CountReposts(ns, id) \in Nat
           /\ CountReactions(ns, id) = Cardinality(ReactionKeys(ns, id))
           /\ CountReactions(ns, id) \in Nat
  <1>1. CountQuotes(ns, id) \in Nat
    BY KeysFinite, ShortType DEF CountQuotes, Keys
  <1>2. CountDirect(ns, id) \in Nat
    BY KeysFinite, ShortType DEF CountDirect, Keys
  <1>3. CountThread(ns, id) \in Nat
    BY KeysFinite DEF CountThread, Keys
  <1>4. CountReposts(ns, id) \in Nat
    BY KeysFinite, ShortType DEF CountReposts, Keys
  <1>5. CountReactions(ns, id) = Cardinality(ReactionKeys(ns, id))
    BY DEF CountReactions, Keys, ReactsTo, ReactionKeys
  <1>6. CountReactions(ns, id) \in Nat
    BY <1>5, KeysFinite DEF ReactionKeys
  <1> QED BY <1>1, <1>2, <1>3, <1>4, <1>5, <1>6

\* A record counted from scratch is a record like any other, and has the replies
\* that the notes give, unless its reactions take all the room.
LEMMA RecountOK ==
    ASSUME NEW ns \in Seq(Arriving), NEW id
    PROVE  LET m == Recount(ns, id)
           IN  /\ RecordOK(m)
               /\ Len(ReactionEntries(ns, id)) < Room =>
                     /\ CountsOf(m).counts.direct = CountDirect(ns, id)
                     /\ CountsOf(m).counts.thread = CountThread(ns, id)
  <1> DEFINE es == ReactionEntries(ns, id)
             c == [quotes |-> CountQuotes(ns, id), direct |-> CountDirect(ns, id),
                   thread |-> CountThread(ns, id), reposts |-> CountReposts(ns, id)]
             e == Entry(COUNTS, 0, CountReactions(ns, id), c)
             m == Recount(ns, id)
  <1>0. c \in Counts /\ c.direct = CountDirect(ns, id) /\ c.thread = CountThread(ns, id)
    BY CountsType DEF Counts
  <1>1. /\ es \in Seq(Entries) /\ Sorted(es) /\ Len(es) <= Room /\ Len(es) \in Nat /\ Room \in Nat
        /\ \A j \in 1..Len(es) : es[j].type = REACTION
        /\ Len(es) < Room => SumOfReactions(es) = CountReactions(ns, id)
    BY ReactionsTallied, CountsType, MetaAssumption
  <1>2. m = IF c = NoCounts \/ Len(es) >= Room THEN NoMeta
            ELSE [flags |-> 0, entries |-> Build(Append(es, e))]
    BY DEF Recount
  <1> HIDE DEF es, c, m
  <1>3. CASE c = NoCounts \/ Len(es) >= Room
    <2>1. m = NoMeta
      BY <1>2, <1>3
    <2>2. RecordOK(m) /\ CountsOf(m).counts = NoCounts
      BY <2>1, NoMetaOK
    <2>3. Len(es) < Room => CountsOf(m).counts = c
      BY <1>1, <1>3, <2>2
    <2> QED BY <1>0, <2>2, <2>3 DEF m, es
  <1>4. CASE ~(c = NoCounts \/ Len(es) >= Room)
    <2>1. m = [flags |-> 0, entries |-> Build(Append(es, e))]
      BY <1>2, <1>4
    <2>2. /\ e \in Entries /\ e.type = COUNTS /\ e.n = CountReactions(ns, id) /\ e.counts = c
      <3>1. COUNTS \in Types /\ CountReactions(ns, id) \in Nat
        BY CountsType DEF Types
      <3> QED BY <1>0, <3>1, EntryType
    <2> HIDE DEF e
    <2>3. \A i \in 1..Len(es) : ~Alike(es[i], e)
      BY <1>1, <2>2 DEF Alike, COUNTS, REACTION
    <2>4. PICK k \in 1..(Len(es) + 1) :
             /\ Build(Append(es, e)) = Inserted(es, k, e)
             /\ Inserted(es, k, e) \in Seq(Entries)
             /\ Len(Inserted(es, k, e)) = Len(es) + 1
             /\ Sorted(Inserted(es, k, e))
      BY <1>1, <2>2, <2>3, BuildInserts
    <2> DEFINE ws == Inserted(es, k, e)
    <2>5. m = [flags |-> 0, entries |-> ws] /\ m.entries = ws
      BY <2>1, <2>4
    <2>6. Orderly(m)
      BY <1>1, <1>4, <2>4, <2>5 DEF Orderly
    <2>7. Worth(e) = 0
      BY <2>2 DEF Worth, COUNTS, REACTION
    <2>8. SumOfReactions(ws) = SumOfReactions(es)
      <3>1. ws \in Seq(Entries) /\ ws = Inserted(es, k, e) /\ Len(ws) = Len(es) + 1
        BY <2>4
      <3> HIDE DEF ws
      <3> QED BY <1>1, <2>4, <2>7, <3>1, SumInserted
    <2>9. ws[k] = e /\ k \in 1..Len(ws)
      BY <1>1, <2>4 DEF Inserted
    <2>10. k \in FindEntry(m, COUNTS, 0)
      BY <2>2, <2>5, <2>9 DEF FindEntry, COUNTS, REACTION
    <2>11. CountsOf(m) = e
      BY <2>5, <2>6, <2>9, <2>10, CountsAre
    <2>12. SumOfReactions(m.entries) = CountsOf(m).n
      BY <1>1, <1>4, <2>2, <2>5, <2>8, <2>11
    <2> QED BY <1>0, <2>2, <2>6, <2>11, <2>12 DEF RecordOK, m
  <1> QED BY <1>3, <1>4

-----------------------------------------------------------------------------
(* Statistics *)

\* A counter that wraps around still counts.
LEMMA WrapsAround ==
    ASSUME NEW R \in Nat \ {0}, NEW n \in Nat
    PROVE  ((n % R) + 1) % R = (n + 1) % R
  <1> DEFINE q == n \div R
             r == n % R
  <1>1. q \in Nat /\ r \in 0..(R - 1) /\ n = R * q + r
    OBVIOUS
  <1> HIDE DEF q, r
  <1>2. \A a \in Nat, p \in Nat, t \in 0..(R - 1) : a = R * p + t => a % R = t
    OBVIOUS
  <1>3. n + 1 \in Nat /\ q + 1 \in Nat /\ 0 \in 0..(R - 1)
    BY <1>1
  <1>4. CASE r + 1 < R
    <2>1. n + 1 = R * q + (r + 1) /\ r + 1 \in 0..(R - 1)
      BY <1>1, <1>4
    <2>2. (n + 1) % R = r + 1
      BY <1>1, <1>2, <1>3, <2>1, Zenon
    <2>3. (r + 1) % R = r + 1
      BY <1>1, <1>4
    <2> QED BY <2>2, <2>3 DEF r
  <1>5. CASE r + 1 = R
    <2>1. R * (q + 1) = R * q + R
      BY <1>1
    <2>2. n + 1 = R * (q + 1) + 0
      BY <1>1, <1>5, <2>1
    <2>3. (n + 1) % R = 0
      BY <1>2, <1>3, <2>2, Zenon
    <2>4. (r + 1) % R = 0
      BY <1>5
    <2> QED BY <2>3, <2>4 DEF r
  <1>6. r + 1 < R \/ r + 1 = R
    BY <1>1
  <1> QED BY <1>4, <1>5, <1>6

\* All records of a database.
MetasOK(metas) == metas = [i \in Ids |-> metas[i]] /\ \A i \in Ids : RecordOK(metas[i])

\* No note has the id that stands for none.
LEMMA NoIdIsNone == NoId \notin Ids
  BY UpkeepAssumption DEF Ids

\* Counting at an id changes the record of that id, if there is one.
LEMMA CountedAtIs ==
    ASSUME NEW metas, MetasOK(metas), NEW id, NEW field \in CountFields
    PROVE  LET s == CountedAt(metas, id, field)
           IN  /\ MetasOK(s)
               /\ \A i \in Ids : s[i] = IF id = i THEN Counted(metas[i], field) ELSE metas[i]
  <1> DEFINE s == CountedAt(metas, id, field)
  <1>1. CASE id = NoId
    <2>1. s = metas
      BY <1>1 DEF CountedAt
    <2> QED BY <1>1, <2>1, NoIdIsNone
  <1>2. CASE id # NoId
    <2>1. s = [metas EXCEPT ![id] = Counted(@, field)]
      BY <1>2 DEF CountedAt
    <2> HIDE DEF s
    <2>2. s = [i \in Ids |-> s[i]] /\ \A i \in Ids : s[i] = IF id = i THEN Counted(metas[i], field) ELSE metas[i]
      BY <2>1 DEF MetasOK
    <2>3. \A i \in Ids : RecordOK(s[i])
      <3> SUFFICES ASSUME NEW i \in Ids PROVE RecordOK(s[i])
        OBVIOUS
      <3>1. RecordOK(metas[i])
        BY DEF MetasOK
      <3>2. RecordOK(Counted(metas[i], field))
        BY <3>1, CountedOK
      <3> QED BY <2>2, <3>1, <3>2
    <2> QED BY <2>2, <2>3 DEF MetasOK, s
  <1> QED BY <1>1, <1>2

\* The record w is the record m with, perhaps, one more in a field.
CountedOnce(m, w, field, yes) ==
    /\ Len(m.entries) <= Len(w.entries)
    /\ Len(m.entries) < Room =>
          /\ CountsOf(w).n = CountsOf(m).n
          /\ \A f \in CountFields :
                CountsOf(w).counts[f] = IF yes /\ f = field THEN OneMore(f, CountsOf(m).counts[f])
                                        ELSE CountsOf(m).counts[f]

\* Counting in a record, or not.
LEMMA CountedIf ==
    ASSUME NEW m, RecordOK(m), NEW field \in CountFields, NEW yes \in BOOLEAN,
           NEW w, w = IF yes THEN Counted(m, field) ELSE m
    PROVE  RecordOK(w) /\ CountedOnce(m, w, field, yes)
  <1>1. Len(m.entries) \in Nat
    BY DEF RecordOK, Orderly
  <1>2. CASE yes
    <2>1. /\ RecordOK(w) /\ Len(m.entries) <= Len(w.entries)
          /\ Len(m.entries) < Room =>
                /\ CountsOf(w).n = CountsOf(m).n
                /\ CountsOf(w).counts = [CountsOf(m).counts EXCEPT ![field] = OneMore(field, @)]
      BY <1>2, CountedOK
    <2>2. CountsOf(m).counts \in [CountFields -> Nat]
      BY CountsAre DEF RecordOK, Entries, Counts, CountFields
    <2> HIDE DEF CountFields
    <2> QED BY <1>2, <2>1, <2>2 DEF CountedOnce
  <1>3. CASE ~yes
    BY <1>1, <1>3 DEF CountedOnce
  <1> QED BY <1>2, <1>3

\* What a note of kind 1 counts, and for whom.
LEMMA NoteStatsIs ==
    ASSUME NEW metas, MetasOK(metas), NEW n
    PROVE  LET s == NoteStats(metas, n)
           IN  /\ MetasOK(s)
               /\ \A i \in Ids :
                     /\ Len(metas[i].entries) <= Len(s[i].entries)
                     /\ Len(s[i].entries) < Room =>
                           LET c == CountsOf(metas[i])
                               e == CountsOf(s[i])
                           IN  /\ e.n = c.n
                               /\ e.counts["quotes"] = IF FirstId(n, "q") = i THEN Short(c.counts["quotes"] + 1) ELSE c.counts["quotes"]
                               /\ e.counts["direct"] = IF DirectParent(n) = i THEN Short(c.counts["direct"] + 1) ELSE c.counts["direct"]
                               /\ e.counts["thread"] = IF ThreadRoot(n) = i THEN c.counts["thread"] + 1 ELSE c.counts["thread"]
                               /\ e.counts["reposts"] = c.counts["reposts"]
  <1> DEFINE m1 == CountedAt(metas, FirstId(n, "q"), "quotes")
             m2 == CountedAt(m1, DirectParent(n), "direct")
             m3 == CountedAt(m2, ThreadRoot(n), "thread")
  <1>0. NoteStats(metas, n) = m3
    BY DEF NoteStats
  <1>1. /\ MetasOK(m1)
        /\ \A i \in Ids : m1[i] = IF FirstId(n, "q") = i THEN Counted(metas[i], "quotes") ELSE metas[i]
    BY CountedAtIs DEF CountFields
  <1> HIDE DEF m1
  <1>2. /\ MetasOK(m2)
        /\ \A i \in Ids : m2[i] = IF DirectParent(n) = i THEN Counted(m1[i], "direct") ELSE m1[i]
    BY <1>1, CountedAtIs DEF CountFields
  <1> HIDE DEF m2
  <1>3. /\ MetasOK(m3)
        /\ \A i \in Ids : m3[i] = IF ThreadRoot(n) = i THEN Counted(m2[i], "thread") ELSE m2[i]
    BY <1>2, CountedAtIs DEF CountFields
  <1> HIDE DEF m3
  <1> SUFFICES ASSUME NEW i \in Ids
               PROVE  /\ Len(metas[i].entries) <= Len(m3[i].entries)
                      /\ Len(m3[i].entries) < Room =>
                           LET c == CountsOf(metas[i])
                               e == CountsOf(m3[i])
                           IN  /\ e.n = c.n
                               /\ e.counts["quotes"] = IF FirstId(n, "q") = i THEN Short(c.counts["quotes"] + 1) ELSE c.counts["quotes"]
                               /\ e.counts["direct"] = IF DirectParent(n) = i THEN Short(c.counts["direct"] + 1) ELSE c.counts["direct"]
                               /\ e.counts["thread"] = IF ThreadRoot(n) = i THEN c.counts["thread"] + 1 ELSE c.counts["thread"]
                               /\ e.counts["reposts"] = c.counts["reposts"]
    BY <1>0, <1>3
  <1> DEFINE a == metas[i]
             b == m1[i]
             d == m2[i]
             e == m3[i]
  <1>4. RecordOK(a) /\ RecordOK(b) /\ RecordOK(d) /\ RecordOK(e)
    BY <1>1, <1>2, <1>3 DEF MetasOK
  <1>5. /\ Len(a.entries) \in Nat /\ Len(b.entries) \in Nat /\ Len(d.entries) \in Nat /\ Len(e.entries) \in Nat
        /\ Room \in Nat
    BY <1>4, MetaAssumption DEF RecordOK, Orderly
  <1>a. b = IF FirstId(n, "q") = i THEN Counted(a, "quotes") ELSE a
    BY <1>1
  <1>b. d = IF DirectParent(n) = i THEN Counted(b, "direct") ELSE b
    BY <1>2
  <1>c. e = IF ThreadRoot(n) = i THEN Counted(d, "thread") ELSE d
    BY <1>3
  <1> HIDE DEF a, b, d, e
  <1> DEFINE C(x) == CountsOf(x).counts
  <1>6. /\ Len(a.entries) <= Len(b.entries)
        /\ Len(a.entries) < Room =>
              /\ CountsOf(b).n = CountsOf(a).n
              /\ \A f \in CountFields : C(b)[f] = IF FirstId(n, "q") = i /\ f = "quotes" THEN OneMore(f, C(a)[f]) ELSE C(a)[f]
    <2> DEFINE yes == FirstId(n, "q") = i
    <2>1. yes \in BOOLEAN /\ "quotes" \in CountFields
      BY DEF CountFields
    <2>2. b = IF yes THEN Counted(a, "quotes") ELSE a
      BY <1>a
    <2> HIDE DEF yes
    <2>3. CountedOnce(a, b, "quotes", yes)
      BY <1>4, <2>1, <2>2, CountedIf
    <2> QED BY <2>3 DEF yes, CountedOnce
  <1>7. /\ Len(b.entries) <= Len(d.entries)
        /\ Len(b.entries) < Room =>
              /\ CountsOf(d).n = CountsOf(b).n
              /\ \A f \in CountFields : C(d)[f] = IF DirectParent(n) = i /\ f = "direct" THEN OneMore(f, C(b)[f]) ELSE C(b)[f]
    <2> DEFINE yes == DirectParent(n) = i
    <2>1. yes \in BOOLEAN /\ "direct" \in CountFields
      BY DEF CountFields
    <2>2. d = IF yes THEN Counted(b, "direct") ELSE b
      BY <1>b
    <2> HIDE DEF yes
    <2>3. CountedOnce(b, d, "direct", yes)
      BY <1>4, <2>1, <2>2, CountedIf
    <2> QED BY <2>3 DEF yes, CountedOnce
  <1>8. /\ Len(d.entries) <= Len(e.entries)
        /\ Len(d.entries) < Room =>
              /\ CountsOf(e).n = CountsOf(d).n
              /\ \A f \in CountFields : C(e)[f] = IF ThreadRoot(n) = i /\ f = "thread" THEN OneMore(f, C(d)[f]) ELSE C(d)[f]
    <2> DEFINE yes == ThreadRoot(n) = i
    <2>1. yes \in BOOLEAN /\ "thread" \in CountFields
      BY DEF CountFields
    <2>2. e = IF yes THEN Counted(d, "thread") ELSE d
      BY <1>c
    <2> HIDE DEF yes
    <2>3. CountedOnce(d, e, "thread", yes)
      BY <1>4, <2>1, <2>2, CountedIf
    <2> QED BY <2>3 DEF yes, CountedOnce
  <1>9. Len(a.entries) <= Len(e.entries)
    BY <1>5, <1>6, <1>7, <1>8
  <1>10. ASSUME Len(e.entries) < Room
         PROVE  /\ CountsOf(e).n = CountsOf(a).n
                /\ C(e)["quotes"] = IF FirstId(n, "q") = i THEN Short(C(a)["quotes"] + 1) ELSE C(a)["quotes"]
                /\ C(e)["direct"] = IF DirectParent(n) = i THEN Short(C(a)["direct"] + 1) ELSE C(a)["direct"]
                /\ C(e)["thread"] = IF ThreadRoot(n) = i THEN C(a)["thread"] + 1 ELSE C(a)["thread"]
                /\ C(e)["reposts"] = C(a)["reposts"]
    <2>1. Len(a.entries) < Room /\ Len(b.entries) < Room /\ Len(d.entries) < Room
      BY <1>5, <1>6, <1>7, <1>8, <1>10
    <2>2. {"quotes", "direct", "thread", "reposts"} = CountFields
      BY DEF CountFields
    <2> HIDE DEF C
    <2>3. /\ C(b)["quotes"] = (IF FirstId(n, "q") = i THEN Short(C(a)["quotes"] + 1) ELSE C(a)["quotes"])
          /\ C(b)["direct"] = C(a)["direct"] /\ C(b)["thread"] = C(a)["thread"] /\ C(b)["reposts"] = C(a)["reposts"]
      BY <1>6, <2>1, <2>2 DEF OneMore
    <2>4. /\ C(d)["direct"] = (IF DirectParent(n) = i THEN Short(C(b)["direct"] + 1) ELSE C(b)["direct"])
          /\ C(d)["quotes"] = C(b)["quotes"] /\ C(d)["thread"] = C(b)["thread"] /\ C(d)["reposts"] = C(b)["reposts"]
      BY <1>7, <2>1, <2>2 DEF OneMore
    <2>5. /\ C(e)["thread"] = (IF ThreadRoot(n) = i THEN C(d)["thread"] + 1 ELSE C(d)["thread"])
          /\ C(e)["quotes"] = C(d)["quotes"] /\ C(e)["direct"] = C(d)["direct"] /\ C(e)["reposts"] = C(d)["reposts"]
      BY <1>8, <2>1, <2>2 DEF OneMore
    <2>6. CountsOf(e).n = CountsOf(a).n
      BY <1>6, <1>7, <1>8, <2>1
    <2> QED BY <2>3, <2>4, <2>5, <2>6
  <1> QED BY <1>9, <1>10 DEF a, e

\* What a note is to the note with an id.
IsDirect(n, i) == n.kind = 1 /\ DirectParent(n) = i
IsThread(n, i) == n.kind = 1 /\ ThreadRoot(n) = i
IsQuote(n, i) == n.kind = 1 /\ FirstId(n, "q") = i
IsRepost(n, i) == n.kind \in {6, 16} /\ FirstId(n, "e") = i
IsReaction(n, i) == n.kind = 7 /\ LastId(n, "e") = i

\* The record w of note i has counted note n besides what m had counted.
Advanced(m, w, n, i) ==
    LET c == CountsOf(m)
        e == CountsOf(w)
    IN  /\ e.n = IF IsReaction(n, i) THEN c.n + 1 ELSE c.n
        /\ e.counts["direct"] = IF IsDirect(n, i) THEN Short(c.counts["direct"] + 1) ELSE c.counts["direct"]
        /\ e.counts["thread"] = IF IsThread(n, i) THEN c.counts["thread"] + 1 ELSE c.counts["thread"]
        /\ e.counts["quotes"] = IF IsQuote(n, i) THEN Short(c.counts["quotes"] + 1) ELSE c.counts["quotes"]
        /\ e.counts["reposts"] = IF IsRepost(n, i) THEN Short(c.counts["reposts"] + 1) ELSE c.counts["reposts"]

\* The records s have counted n besides what the records metas had counted.
AllAdvanced(metas, s, n) ==
    /\ MetasOK(s)
    /\ \A i \in Ids :
          /\ Len(metas[i].entries) <= Len(s[i].entries)
          /\ Len(s[i].entries) < Room => Advanced(metas[i], s[i], n, i)

\* A record of an id is changed, or none.
LEMMA RecordAdvanced ==
    ASSUME NEW metas, MetasOK(metas), NEW n, NEW id, NEW s, NEW new,
           s = [metas EXCEPT ![id] = new],
           id \in Ids => /\ RecordOK(new)
                         /\ Len(metas[id].entries) <= Len(new.entries)
                         /\ Len(new.entries) < Room => Advanced(metas[id], new, n, id),
           \A i \in Ids : i # id => ~IsReaction(n, i) /\ ~IsDirect(n, i) /\ ~IsThread(n, i)
                                    /\ ~IsQuote(n, i) /\ ~IsRepost(n, i)
    PROVE  AllAdvanced(metas, s, n)
  <1>1. s = [i \in Ids |-> s[i]] /\ \A i \in Ids : s[i] = IF id = i THEN new ELSE metas[i]
    BY DEF MetasOK
  <1>2. ASSUME NEW i \in Ids
        PROVE  /\ RecordOK(s[i])
               /\ Len(metas[i].entries) <= Len(s[i].entries)
               /\ Len(s[i].entries) < Room => Advanced(metas[i], s[i], n, i)
    <2>1. CASE id = i
      BY <1>1, <2>1
    <2>2. CASE id # i
      <3>1. s[i] = metas[i] /\ RecordOK(metas[i])
        BY <1>1, <2>2 DEF MetasOK
      <3>2. Len(metas[i].entries) \in Nat
        BY <3>1 DEF RecordOK, Orderly
      <3>3. Advanced(metas[i], metas[i], n, i)
        BY <2>2 DEF Advanced
      <3> QED BY <3>1, <3>2, <3>3
    <2> QED BY <2>1, <2>2
  <1> QED BY <1>1, <1>2 DEF AllAdvanced, MetasOK

\* The statistics of ndb_write_note count a note where it belongs and nowhere else.
LEMMA StatsIs ==
    ASSUME NEW metas, MetasOK(metas), NEW n \in Arriving
    PROVE  AllAdvanced(metas, Stats(metas, n), n)
  <1> DEFINE s == Stats(metas, n)
             id == LastId(n, "e")
             none == \A i \in Ids : ~IsReaction(n, i) /\ ~IsDirect(n, i) /\ ~IsThread(n, i)
                                    /\ ~IsQuote(n, i) /\ ~IsRepost(n, i)
  <1> SUFFICES AllAdvanced(metas, s, n)
    OBVIOUS
  <1>0. \A i \in Ids : Len(metas[i].entries) \in Nat /\ RecordOK(metas[i])
    BY DEF MetasOK, RecordOK, Orderly
  <1>u. ASSUME s = metas, none PROVE AllAdvanced(metas, s, n)
    BY <1>0, <1>u DEF AllAdvanced, Advanced
  <1>1. CASE n.kind = 1
    <2>1. s = NoteStats(metas, n)
      BY <1>1 DEF Stats
    <2>2. /\ \A i \in Ids : ~IsReaction(n, i) /\ ~IsRepost(n, i)
          /\ \A i \in Ids : /\ IsQuote(n, i) <=> FirstId(n, "q") = i
                            /\ IsDirect(n, i) <=> DirectParent(n) = i
                            /\ IsThread(n, i) <=> ThreadRoot(n) = i
      BY <1>1 DEF IsReaction, IsRepost, IsQuote, IsDirect, IsThread
    <2> HIDE DEF s
    <2> QED BY <2>1, <2>2, NoteStatsIs DEF AllAdvanced, Advanced
  <1>2. CASE n.kind = 7
    <2>2. \A i \in Ids : /\ ~IsRepost(n, i) /\ ~IsQuote(n, i) /\ ~IsDirect(n, i) /\ ~IsThread(n, i)
                         /\ IsReaction(n, i) <=> id = i
      BY <1>2 DEF IsReaction, IsRepost, IsQuote, IsDirect, IsThread
    <2>3. CASE id = NoId
      <3>1. s = metas
        BY <1>2, <2>3 DEF Stats
      <3>2. none
        BY <2>2, <2>3, NoIdIsNone
      <3> QED BY <1>u, <3>1, <3>2
    <2>4. CASE id # NoId
      <3> DEFINE new == Reacted(metas[id], n.content)
      <3>1. s = [metas EXCEPT ![id] = new]
        BY <1>2, <2>4 DEF Stats
      <3>2. n.content \in Int
        BY <1>2, UpkeepAssumption
      <3>3. id \in Ids => /\ RecordOK(new)
                          /\ Len(metas[id].entries) <= Len(new.entries)
                          /\ Len(new.entries) < Room =>
                                /\ CountsOf(new).n = CountsOf(metas[id]).n + 1
                                /\ CountsOf(new).counts = CountsOf(metas[id]).counts
        BY <1>0, <3>2, ReactedOK
      <3> HIDE DEF new, s, id
      <3>4. id \in Ids => (Len(new.entries) < Room => Advanced(metas[id], new, n, id))
        BY <2>2, <3>3 DEF Advanced
      <3> QED BY <2>2, <3>1, <3>3, <3>4, RecordAdvanced
    <2> QED BY <2>3, <2>4
  <1>3. CASE n.kind \in {6, 16}
    <2> DEFINE r == FirstId(n, "e")
    <2>1. s = CountedAt(metas, r, "reposts")
      BY <1>3 DEF Stats
    <2>2. \A i \in Ids : /\ ~IsReaction(n, i) /\ ~IsQuote(n, i) /\ ~IsDirect(n, i) /\ ~IsThread(n, i)
                         /\ IsRepost(n, i) <=> r = i
      BY <1>3 DEF IsReaction, IsRepost, IsQuote, IsDirect, IsThread
    <2>3. CASE r = NoId
      <3>1. s = metas
        BY <2>1, <2>3 DEF CountedAt
      <3>2. none
        BY <2>2, <2>3, NoIdIsNone
      <3> QED BY <1>u, <3>1, <3>2
    <2>4. CASE r # NoId
      <3> DEFINE new == Counted(metas[r], "reposts")
      <3>1. s = [metas EXCEPT ![r] = new]
        BY <2>1, <2>4 DEF CountedAt
      <3>2. "reposts" \in CountFields
        BY DEF CountFields
      <3>3. r \in Ids => /\ RecordOK(new)
                         /\ CountedOnce(metas[r], new, "reposts", TRUE)
        BY <1>0, <3>2, CountedIf
      <3>4. ASSUME r \in Ids, Len(new.entries) < Room PROVE Advanced(metas[r], new, n, r)
        <4>1. Len(new.entries) \in Nat /\ Room \in Nat
          BY <3>3, <3>4, MetaAssumption DEF RecordOK, Orderly
        <4>2. Len(metas[r].entries) <= Len(new.entries)
          BY <3>3, <3>4 DEF CountedOnce
        <4>3. Len(metas[r].entries) < Room
          BY <1>0, <3>4, <4>1, <4>2
        <4>4. \A f \in {"quotes", "direct", "thread", "reposts"} :
                 CountsOf(new).counts[f] = IF f = "reposts" THEN Short(CountsOf(metas[r]).counts[f] + 1)
                                           ELSE CountsOf(metas[r]).counts[f]
          <5> HIDE DEF new, r
          <5> QED BY <3>3, <3>4, <4>3 DEF CountedOnce, CountFields, OneMore
        <4>5. CountsOf(new).n = CountsOf(metas[r]).n
          BY <3>3, <3>4, <4>3 DEF CountedOnce
        <4> HIDE DEF new, r
        <4> QED BY <2>2, <3>4, <4>4, <4>5 DEF Advanced
      <3> HIDE DEF new, s, r
      <3> QED BY <2>2, <3>1, <3>3, <3>4, RecordAdvanced DEF CountedOnce
    <2> QED BY <2>3, <2>4
  <1>4. CASE n.kind \notin {1, 6, 7, 16}
    <2>1. none
      BY <1>4 DEF IsReaction, IsRepost, IsQuote, IsDirect, IsThread
    <2>2. CASE n.kind = 9735 /\ n.content >= 0 /\ id # NoId
      <3> DEFINE new == Zapped(metas[id], n.content)
      <3>1. s = [metas EXCEPT ![id] = new]
        BY <2>2 DEF Stats
      <3>2. n.content \in Int
        BY <2>2, UpkeepAssumption
      <3>3. id \in Ids => /\ RecordOK(new)
                          /\ Len(metas[id].entries) <= Len(new.entries)
                          /\ CountsOf(new).n = CountsOf(metas[id]).n
                          /\ CountsOf(new).counts = CountsOf(metas[id]).counts
        BY <1>0, <3>2, ZappedOK
      <3> HIDE DEF new, s, id
      <3>4. id \in Ids => Advanced(metas[id], new, n, id)
        BY <2>1, <3>3 DEF Advanced
      <3> QED BY <2>1, <3>1, <3>3, <3>4, RecordAdvanced
    <2>3. CASE ~(n.kind = 9735 /\ n.content >= 0 /\ id # NoId)
      <3>1. s = metas
        BY <1>4, <2>3 DEF Stats
      <3> QED BY <1>u, <2>1, <3>1
    <2> QED BY <2>2, <2>3
  <1> QED BY <1>1, <1>2, <1>3, <1>4

\* The notes that refer to the note with an id, in each way.
Directs(ns, i) == {k \in DOMAIN ns : IsDirect(ns[k], i)}
Threads(ns, i) == {k \in DOMAIN ns : IsThread(ns[k], i)}
Quotes(ns, i) == {k \in DOMAIN ns : IsQuote(ns[k], i)}
Reposts(ns, i) == {k \in DOMAIN ns : IsRepost(ns[k], i)}
Reactions(ns, i) == {k \in DOMAIN ns : IsReaction(ns[k], i)}

\* The record m of note i counts the notes ns, unless it is full.
ExactFor(m, ns, i) ==
    Len(m.entries) < Room =>
        LET c == CountsOf(m)
        IN  /\ c.n = Cardinality(Reactions(ns, i))
            /\ c.counts["direct"] = Short(Cardinality(Directs(ns, i)))
            /\ c.counts["thread"] = Cardinality(Threads(ns, i))
            /\ c.counts["quotes"] = Short(Cardinality(Quotes(ns, i)))
            /\ c.counts["reposts"] = Short(Cardinality(Reposts(ns, i)))

\* One more note is one more key, or none.
LEMMA OneMoreKey ==
    ASSUME NEW ns \in Seq(Arriving), NEW K, K \subseteq DOMAIN ns, NEW L, NEW yes \in BOOLEAN,
           L = IF yes THEN K \cup {Len(ns) + 1} ELSE K
    PROVE  /\ Cardinality(K) \in Nat
           /\ Cardinality(L) = IF yes THEN Cardinality(K) + 1 ELSE Cardinality(K)
           /\ Short(Cardinality(L)) = IF yes THEN Short(Short(Cardinality(K)) + 1) ELSE Short(Cardinality(K))
  <1>1. IsFiniteSet(K) /\ Cardinality(K) \in Nat
    BY KeysFinite
  <1>2. Len(ns) + 1 \notin K
    BY LenProperties
  <1>3. Cardinality(L) = IF yes THEN Cardinality(K) + 1 ELSE Cardinality(K)
    <2>1. CASE yes
      BY <1>1, <1>2, <2>1, FS_AddElement
    <2>2. CASE ~yes
      BY <2>2
    <2> QED BY <2>1, <2>2
  <1>4. Short(Short(Cardinality(K)) + 1) = Short(Cardinality(K) + 1)
    <2>1. ShortRange \in Nat \ {0}
      BY MetaAssumption
    <2> QED BY <1>1, <2>1, WrapsAround DEF Short
  <1> QED BY <1>1, <1>3, <1>4

\* The keys that refer to a note, after one more note.
LEMMA KeysGrow ==
    ASSUME NEW ns \in Seq(Arriving), NEW n \in Arriving, NEW i
    PROVE  LET new == Append(ns, n)
               key == Len(ns) + 1
           IN  /\ Reactions(new, i) = IF IsReaction(n, i) THEN Reactions(ns, i) \cup {key} ELSE Reactions(ns, i)
               /\ Directs(new, i) = IF IsDirect(n, i) THEN Directs(ns, i) \cup {key} ELSE Directs(ns, i)
               /\ Threads(new, i) = IF IsThread(n, i) THEN Threads(ns, i) \cup {key} ELSE Threads(ns, i)
               /\ Quotes(new, i) = IF IsQuote(n, i) THEN Quotes(ns, i) \cup {key} ELSE Quotes(ns, i)
               /\ Reposts(new, i) = IF IsRepost(n, i) THEN Reposts(ns, i) \cup {key} ELSE Reposts(ns, i)
  <1> DEFINE new == Append(ns, n)
             key == Len(ns) + 1
  <1>1. /\ DOMAIN ns = 1..Len(ns) /\ Len(ns) \in Nat /\ new \in Seq(Arriving) /\ Len(new) = key
        /\ new[key] = n /\ \A k \in 1..Len(ns) : new[k] = ns[k]
    BY AppendProperties
  <1>2. DOMAIN new = 1..key
    BY <1>1
  <1>3. /\ key \in DOMAIN new /\ key \notin DOMAIN ns /\ new[key] = n
        /\ \A k \in DOMAIN new : k \in DOMAIN ns \/ k = key
        /\ \A k \in DOMAIN ns : k \in DOMAIN new /\ new[k] = ns[k]
    BY <1>1, <1>2
  <1> HIDE DEF new, key
  <1>4. Reactions(new, i) = IF IsReaction(n, i) THEN Reactions(ns, i) \cup {key} ELSE Reactions(ns, i)
    BY <1>3 DEF Reactions
  <1>5. Directs(new, i) = IF IsDirect(n, i) THEN Directs(ns, i) \cup {key} ELSE Directs(ns, i)
    BY <1>3 DEF Directs
  <1>6. Threads(new, i) = IF IsThread(n, i) THEN Threads(ns, i) \cup {key} ELSE Threads(ns, i)
    BY <1>3 DEF Threads
  <1>7. Quotes(new, i) = IF IsQuote(n, i) THEN Quotes(ns, i) \cup {key} ELSE Quotes(ns, i)
    BY <1>3 DEF Quotes
  <1>8. Reposts(new, i) = IF IsRepost(n, i) THEN Reposts(ns, i) \cup {key} ELSE Reposts(ns, i)
    BY <1>3 DEF Reposts
  <1> QED BY <1>4, <1>5, <1>6, <1>7, <1>8 DEF new, key

\* Records that were exact are so after one more note.
LEMMA ExactGrows ==
    ASSUME NEW ns \in Seq(Arriving), NEW n \in Arriving, NEW metas, MetasOK(metas),
           NEW i \in Ids, ExactFor(metas[i], ns, i)
    PROVE  ExactFor(Stats(metas, n)[i], Append(ns, n), i)
  <1> DEFINE m == metas[i]
             w == Stats(metas, n)[i]
             new == Append(ns, n)
             key == Len(ns) + 1
  <1> SUFFICES ASSUME Len(w.entries) < Room PROVE ExactFor(w, new, i)
    BY DEF ExactFor
  <1>1. AllAdvanced(metas, Stats(metas, n), n)
    BY StatsIs
  <1>2. Advanced(m, w, n, i) /\ Len(m.entries) <= Len(w.entries) /\ RecordOK(m) /\ RecordOK(w)
    BY <1>1 DEF AllAdvanced, MetasOK
  <1>3. Len(m.entries) < Room
    <2>1. Len(m.entries) \in Nat /\ Len(w.entries) \in Nat /\ Room \in Nat
      BY <1>2, MetaAssumption DEF RecordOK, Orderly
    <2> QED BY <1>2, <2>1
  <1>4. /\ CountsOf(m).n = Cardinality(Reactions(ns, i))
        /\ CountsOf(m).counts["direct"] = Short(Cardinality(Directs(ns, i)))
        /\ CountsOf(m).counts["thread"] = Cardinality(Threads(ns, i))
        /\ CountsOf(m).counts["quotes"] = Short(Cardinality(Quotes(ns, i)))
        /\ CountsOf(m).counts["reposts"] = Short(Cardinality(Reposts(ns, i)))
    BY <1>3 DEF ExactFor
  <1> HIDE DEF m, w, new
  <1>5. /\ Reactions(ns, i) \subseteq DOMAIN ns /\ Directs(ns, i) \subseteq DOMAIN ns
        /\ Threads(ns, i) \subseteq DOMAIN ns /\ Quotes(ns, i) \subseteq DOMAIN ns
        /\ Reposts(ns, i) \subseteq DOMAIN ns
    BY DEF Reactions, Directs, Threads, Quotes, Reposts
  <1>6. /\ IsReaction(n, i) \in BOOLEAN /\ IsDirect(n, i) \in BOOLEAN /\ IsThread(n, i) \in BOOLEAN
        /\ IsQuote(n, i) \in BOOLEAN /\ IsRepost(n, i) \in BOOLEAN
    BY DEF IsReaction, IsDirect, IsThread, IsQuote, IsRepost
  <1>7. CountsOf(w).n = Cardinality(Reactions(new, i))
    <2>1. Reactions(new, i) = IF IsReaction(n, i) THEN Reactions(ns, i) \cup {key} ELSE Reactions(ns, i)
      BY KeysGrow DEF new
    <2>2. Cardinality(Reactions(new, i)) = IF IsReaction(n, i) THEN Cardinality(Reactions(ns, i)) + 1 ELSE Cardinality(Reactions(ns, i))
      BY <1>5, <1>6, <2>1, OneMoreKey
    <2> QED BY <1>2, <1>4, <2>2 DEF Advanced
  <1>8. CountsOf(w).counts["direct"] = Short(Cardinality(Directs(new, i)))
    <2>1. Directs(new, i) = IF IsDirect(n, i) THEN Directs(ns, i) \cup {key} ELSE Directs(ns, i)
      BY KeysGrow DEF new
    <2>2. Short(Cardinality(Directs(new, i))) = IF IsDirect(n, i) THEN Short(Short(Cardinality(Directs(ns, i))) + 1)
                                                ELSE Short(Cardinality(Directs(ns, i)))
      BY <1>5, <1>6, <2>1, OneMoreKey
    <2> QED BY <1>2, <1>4, <2>2 DEF Advanced
  <1>9. CountsOf(w).counts["thread"] = Cardinality(Threads(new, i))
    <2>1. Threads(new, i) = IF IsThread(n, i) THEN Threads(ns, i) \cup {key} ELSE Threads(ns, i)
      BY KeysGrow DEF new
    <2>2. Cardinality(Threads(new, i)) = IF IsThread(n, i) THEN Cardinality(Threads(ns, i)) + 1 ELSE Cardinality(Threads(ns, i))
      BY <1>5, <1>6, <2>1, OneMoreKey
    <2> QED BY <1>2, <1>4, <2>2 DEF Advanced
  <1>10. CountsOf(w).counts["quotes"] = Short(Cardinality(Quotes(new, i)))
    <2>1. Quotes(new, i) = IF IsQuote(n, i) THEN Quotes(ns, i) \cup {key} ELSE Quotes(ns, i)
      BY KeysGrow DEF new
    <2>2. Short(Cardinality(Quotes(new, i))) = IF IsQuote(n, i) THEN Short(Short(Cardinality(Quotes(ns, i))) + 1)
                                               ELSE Short(Cardinality(Quotes(ns, i)))
      BY <1>5, <1>6, <2>1, OneMoreKey
    <2> QED BY <1>2, <1>4, <2>2 DEF Advanced
  <1>11. CountsOf(w).counts["reposts"] = Short(Cardinality(Reposts(new, i)))
    <2>1. Reposts(new, i) = IF IsRepost(n, i) THEN Reposts(ns, i) \cup {key} ELSE Reposts(ns, i)
      BY KeysGrow DEF new
    <2>2. Short(Cardinality(Reposts(new, i))) = IF IsRepost(n, i) THEN Short(Short(Cardinality(Reposts(ns, i))) + 1)
                                                ELSE Short(Cardinality(Reposts(ns, i)))
      BY <1>5, <1>6, <2>1, OneMoreKey
    <2> QED BY <1>2, <1>4, <2>2 DEF Advanced
  <1> QED BY <1>7, <1>8, <1>9, <1>10, <1>11 DEF ExactFor

\* No record counts nothing.
LEMMA ExactAtFirst ==
    ASSUME NEW i PROVE ExactFor(NoMeta, <<>>, i)
  <1>1. /\ Reactions(<<>>, i) = {} /\ Directs(<<>>, i) = {} /\ Threads(<<>>, i) = {}
        /\ Quotes(<<>>, i) = {} /\ Reposts(<<>>, i) = {}
    BY DEF Reactions, Directs, Threads, Quotes, Reposts
  <1>2. Cardinality({}) = 0
    BY FS_EmptySet
  <1>3. Short(0) = 0
    BY MetaAssumption DEF Short
  <1>4. CountsOf(NoMeta).n = 0 /\ CountsOf(NoMeta).counts = NoCounts
    BY NoMetaOK
  <1>5. /\ NoCounts["direct"] = 0 /\ NoCounts["thread"] = 0 /\ NoCounts["quotes"] = 0
        /\ NoCounts["reposts"] = 0
    BY DEF NoCounts
  <1> QED BY <1>1, <1>2, <1>3, <1>4, <1>5 DEF ExactFor

-----------------------------------------------------------------------------
(* Records of a database *)

\* What TypeOK wants of a database besides Good, and records that are in order.
Sound(d) ==
    /\ MetasOK(d.meta)
    /\ d.kinds \subseteq 1..Len(d.notes) /\ d.blocks \subseteq 1..Len(d.notes)
    /\ \A e \in d.pk : e[3] \in 1..Len(d.profiles)

\* An empty file is in order.
LEMMA EmptySound == \A v : Sound(EmptyDb(v))
  <1> SUFFICES ASSUME NEW v PROVE Sound(EmptyDb(v))
    OBVIOUS
  <1> DEFINE d == EmptyDb(v)
  <1>1. d.meta = [i \in Ids |-> NoMeta] /\ d.kinds = {} /\ d.blocks = {} /\ d.pk = {}
    BY DEF EmptyDb
  <1> HIDE DEF d
  <1>2. MetasOK(d.meta)
    BY <1>1, NoMetaOK DEF MetasOK
  <1> QED BY <1>1, <1>2 DEF Sound, d

\* ndb_write_note counts a new note, and keeps the tables in order.
LEMMA WriteNoteSound ==
    ASSUME NEW d, Keyed(d), Sound(d), NEW n \in Arriving, n.id \notin Stored(d)
    PROVE  LET w == WriteNote(d, n)
           IN  Sound(w) /\ w.meta = IF d.version >= 5 THEN Stats(d.meta, n) ELSE d.meta
  <1> DEFINE w == WriteNote(d, n)
             key == Len(d.notes) + 1
  <1>1. /\ w.notes = Append(d.notes, n) /\ w.kinds = d.kinds \cup {key}
        /\ w.profiles = d.profiles /\ w.pk = d.pk
    BY WriteNoteFields DEF Keyed
  <1>2. /\ w.meta = IF d.version >= 5 THEN Stats(d.meta, n) ELSE d.meta
        /\ w.blocks = IF n.kind = 1 THEN d.blocks \cup {key} ELSE d.blocks
    BY DEF WriteNote, IsDb, Fields, Keyed
  <1> HIDE DEF w
  <1>3. Len(d.notes) \in Nat /\ Len(w.notes) = key
    BY <1>1, AppendProperties DEF Keyed
  <1>4. w.kinds \subseteq 1..Len(w.notes) /\ w.blocks \subseteq 1..Len(w.notes)
    BY <1>1, <1>2, <1>3 DEF Sound
  <1>5. MetasOK(w.meta)
    BY <1>2, StatsIs DEF Sound, AllAdvanced
  <1> QED BY <1>1, <1>2, <1>4, <1>5 DEF Sound, w

\* ndb_write_profile leaves records and notes alone.
LEMMA WriteProfileSound ==
    ASSUME NEW d, Keyed(d), Sound(d), NEW n, NEW key \in Nat
    PROVE  LET w == WriteProfile(d, n, key)
           IN  Sound(w) /\ w.meta = d.meta /\ w.notes = d.notes
  <1> DEFINE w == WriteProfile(d, n, key)
             e == <<n.pubkey, n.created_at, Len(d.profiles) + 1>>
  <1>1. /\ w.profiles = Append(d.profiles, [note |-> key]) /\ w.pk = d.pk \cup {e}
        /\ w.notes = d.notes /\ w.kinds = d.kinds
    BY WriteProfileFields DEF Keyed
  <1>2. w.meta = d.meta /\ w.blocks = d.blocks
    BY DEF WriteProfile, IsDb, Fields, Keyed
  <1> HIDE DEF w
  <1>3. /\ Len(d.profiles) \in Nat /\ Len(w.profiles) = Len(d.profiles) + 1
    <2>1. d.profiles \in Seq([note : Nat]) /\ [note |-> key] \in [note : Nat]
      BY DEF Keyed
    <2> QED BY <1>1, <2>1, AppendProperties
  <1>4. \A x \in w.pk : x[3] \in 1..Len(w.profiles)
    <2>1. e[3] = Len(d.profiles) + 1
      OBVIOUS
    <2> HIDE DEF e
    <2> QED BY <1>1, <1>3, <2>1 DEF Sound
  <1> QED BY <1>1, <1>2, <1>4 DEF Sound, w

\* Both.
LEMMA WriteBothSound ==
    ASSUME NEW d, Good(d), Sound(d), NEW n \in Arriving
    PROVE  LET w == WriteNoteAndProfile(d, n)
           IN  /\ Sound(w)
               /\ w.meta = WriteNote(d, n).meta
               /\ w.notes = WriteNote(d, n).notes
  <1>0. Keyed(d) /\ Len(d.notes) \in Nat
    BY DEF Good, Keyed
  <1>a. CASE ~n.parses
    <2>1. WriteNoteAndProfile(d, n) = WriteNote(d, n)
      BY <1>a DEF WriteNoteAndProfile
    <2>2. CASE n.id \in Stored(d)
      BY <2>1, <2>2 DEF WriteNote
    <2>3. CASE n.id \notin Stored(d)
      BY <1>0, <2>1, <2>3, WriteNoteSound
    <2> QED BY <2>2, <2>3
  <1>1. CASE n.id \in Stored(d) /\ n.parses
    <2>1. WriteNoteAndProfile(d, n) = WriteProfile(d, n, 0) /\ WriteNote(d, n) = d
      BY <1>1 DEF WriteNoteAndProfile, WriteNote
    <2> QED BY <1>0, <2>1, WriteProfileSound
  <1>2. CASE n.id \notin Stored(d) /\ n.parses
    <2> DEFINE v == WriteNote(d, n)
               key == Len(d.notes) + 1
    <2>1. WriteNoteAndProfile(d, n) = WriteProfile(v, n, key)
      BY <1>2 DEF WriteNoteAndProfile
    <2>2. Keyed(v) /\ Sound(v) /\ key \in Nat
      BY <1>0, <1>2, WriteNoteGood, WriteNoteSound DEF Good
    <2> HIDE DEF v, key
    <2>3. Sound(WriteProfile(v, n, key)) /\ WriteProfile(v, n, key).meta = v.meta
          /\ WriteProfile(v, n, key).notes = v.notes
      BY <2>2, WriteProfileSound
    <2> QED BY <2>1, <2>3 DEF v
  <1> QED BY <1>a, <1>1, <1>2

\* The writer's messages.
LEMMA WrittenSound ==
    ASSUME NEW d, Good(d), Sound(d), NEW n \in Arriving, n.id \notin Stored(d)
    PROVE  LET w == Written(d, n)
           IN  /\ Sound(w)
               /\ w.notes = Append(d.notes, n)
               /\ w.meta = IF d.version >= 5 THEN Stats(d.meta, n) ELSE d.meta
  <1>1. Keyed(d) /\ IsDb(d)
    BY DEF Good, Keyed
  <1>2. /\ Sound(WriteNote(d, n)) /\ WriteNote(d, n).notes = Append(d.notes, n)
        /\ WriteNote(d, n).meta = IF d.version >= 5 THEN Stats(d.meta, n) ELSE d.meta
    BY <1>1, WriteNoteSound, WriteNoteFields
  <1>3. CASE n.kind = 0
    BY <1>2, <1>3, WriteBothSound DEF Written
  <1>4. CASE n.kind # 0
    BY <1>2, <1>4 DEF Written
  <1> QED BY <1>3, <1>4

\* What Sound says does not depend on the indexes of pubkeys and names, on wrong
\* blocks, on fetch times or on the version.
LEMMA SameRecords ==
    ASSUME NEW d, Sound(d), NEW w, w.notes = d.notes, w.profiles = d.profiles, MetasOK(w.meta),
           w.kinds \subseteq d.kinds, w.blocks \subseteq d.blocks, w.pk = d.pk
    PROVE  Sound(w)
  BY DEF Sound

\* Writing the profiles again leaves the records alone.
LEMMA Utf8Sound ==
    ASSUME NEW d, Good(d), Linked(d), Sound(d)
    PROVE  LET w == Utf8ProfileNames(d)
           IN  Sound(w) /\ w.meta = d.meta /\ w.notes = d.notes /\ IsDb(w)
  <1>0. Len(d.profiles) \in Nat
    BY DEF Good, Keyed
  <1>1. PICK f : /\ f[0] = d
                 /\ \A p \in 1..Len(d.profiles) : f[p] = RewriteProfile(f[p - 1], d, p)
                 /\ Utf8ProfileNames(d) = f[Len(d.profiles)]
    BY <1>0, RewriteIs
  <1> DEFINE As(e) == Good(e) /\ Linked(e) /\ e.notes = d.notes /\ e.version = d.version
             OK(p) == As(f[p]) /\ Sound(f[p]) /\ f[p].meta = d.meta
             S == {p \in 0..Len(d.profiles) : ~OK(p)}
  <1>2. OK(0)
    BY <1>1
  <1>3. ASSUME NEW p \in 1..Len(d.profiles), OK(p - 1) PROVE OK(p)
    <2> DEFINE e == f[p - 1]
               n == d.notes[NoteOf(d, p)]
    <2>1. f[p] = RewriteProfile(e, d, p)
      BY <1>1
    <2>2. Good(e) /\ Linked(e) /\ e.notes = d.notes /\ e.version = d.version /\ Sound(e) /\ e.meta = d.meta
      BY <1>3
    <2>3. Keyed(d) /\ Keyed(e)
      BY <2>2 DEF Good
    <2> HIDE DEF e
    <2>4. As(f[p])
      BY <2>1, <2>2, RewriteGood
    <2>5. CASE ~Parsed(d, p)
      BY <2>1, <2>2, <2>4, <2>5 DEF RewriteProfile
    <2>6. CASE Parsed(d, p)
      <3>1. NoteOf(d, p) \in 1..Len(d.notes)
        BY <2>3, <2>6, NoteOfType DEF Parsed
      <3>2. n.id \in Stored(e)
        BY <2>2, <2>3, <3>1, StoredIs
      <3>3. f[p] = WriteProfile(e, n, 0)
        BY <2>1, <2>6, <3>2 DEF RewriteProfile, Parsed, WriteNoteAndProfile, WriteNote
      <3>4. Sound(WriteProfile(e, n, 0)) /\ WriteProfile(e, n, 0).meta = e.meta
        BY <2>2, <2>3, WriteProfileSound
      <3> QED BY <2>2, <2>4, <3>3, <3>4
    <2> QED BY <2>5, <2>6
  <1> HIDE DEF OK
  <1>4. S = {}
    <2> SUFFICES ASSUME S # {} PROVE FALSE
      OBVIOUS
    <2>0. S \in SUBSET Nat /\ \A p \in S : p \in 0..Len(d.profiles) /\ ~OK(p)
      BY <1>0
    <2>1. PICK p \in S : \A q \in S : p <= q
      <3> HIDE DEF S
      <3> QED BY <2>0, LeastNat
    <2>2. p \in 1..Len(d.profiles) /\ p - 1 \in 0..Len(d.profiles) /\ p - 1 \notin S
      <3>1. p # 0
        BY <1>2, <2>0
      <3> HIDE DEF S
      <3> QED BY <1>0, <2>0, <2>1, <3>1
    <2>3. OK(p - 1)
      BY <2>2
    <2> QED BY <1>3, <2>0, <2>2, <2>3
  <1>5. OK(Len(d.profiles))
    BY <1>0, <1>4
  <1> QED BY <1>1, <1>5 DEF OK, Good, Keyed

\* One step of ndb_run_migrations keeps the notes, and the records but for the
\* migration that counts them from scratch.
LEMMA MigrationSound ==
    ASSUME NEW d, Good(d), Linked(d), Sound(d), d.version \in 0..6
    PROVE  LET w == [Migration(d.version, d) EXCEPT !.version = d.version + 1]
           IN  /\ Sound(w) /\ w.notes = d.notes
               /\ d.version # 4 => w.meta = d.meta
               /\ d.version = 4 => \A i \in Stored(d) : w.meta[i] = Recount(d.notes, i)
  <1> DEFINE m == Migration(d.version, d)
             w == [m EXCEPT !.version = d.version + 1]
  <1> SUFFICES /\ Sound(w) /\ w.notes = d.notes
               /\ d.version # 4 => w.meta = d.meta
               /\ d.version = 4 => \A i \in Stored(d) : w.meta[i] = Recount(d.notes, i)
    OBVIOUS
  <1>0. Keyed(d) /\ IsDb(d) /\ d.notes \in Seq(Arriving) /\ DOMAIN d.notes = 1..Len(d.notes)
    BY DEF Good, Keyed
  <1>a. ASSUME IsDb(m), Sound(m), m.notes = d.notes
        PROVE  Sound(w) /\ w.notes = d.notes /\ w.meta = m.meta
    <2> HIDE DEF m
    <2>1. /\ w.notes = m.notes /\ w.profiles = m.profiles /\ w.meta = m.meta /\ w.kinds = m.kinds
          /\ w.blocks = m.blocks /\ w.pk = m.pk
      BY <1>a DEF IsDb, Fields
    <2> HIDE DEF w
    <2> QED BY <1>a, <2>1, SameRecords DEF Sound
  <1> HIDE DEF w
  <1>1. CASE d.version \in {0, 1, 5}
    <2>1. m = UserSearchIndices(d) \/ m = UserSearchIndices([d EXCEPT !.names = {}])
      BY <1>1 DEF Migration, SearchKeyCmpFix, LowerUserSearchIndices
    <2>2. PICK names : m = [d EXCEPT !.names = names]
      <3>1. CASE m = UserSearchIndices(d)
        BY <3>1 DEF UserSearchIndices
      <3>2. CASE m = UserSearchIndices([d EXCEPT !.names = {}])
        <4> DEFINE e == [d EXCEPT !.names = {}]
        <4>1. m = [e EXCEPT !.names = @ \cup AllNames(e)]
          BY <3>2 DEF UserSearchIndices
        <4>2. m = [d EXCEPT !.names = AllNames(e)]
          <5> DEFINE names == AllNames(e)
          <5>1. m = [e EXCEPT !.names = @ \cup names]
            BY <4>1
          <5> HIDE DEF names
          <5>2. m = [d EXCEPT !.names = names]
            BY <1>0, <5>1 DEF IsDb, Fields
          <5> QED BY <5>2 DEF names
        <4> QED BY <4>2
      <3> QED BY <2>1, <3>1, <3>2
    <2> HIDE DEF m
    <2>3. /\ IsDb(m) /\ m.notes = d.notes /\ m.profiles = d.profiles /\ m.meta = d.meta
          /\ m.kinds = d.kinds /\ m.blocks = d.blocks /\ m.pk = d.pk
      BY <1>0, <2>2 DEF IsDb, Fields
    <2>4. Sound(m)
      BY <2>3, SameRecords DEF Sound
    <2> QED BY <1>1, <1>a, <2>3, <2>4
  <1>2. CASE d.version = 2
    <2>1. m = Utf8ProfileNames(d)
      BY <1>2 DEF Migration
    <2> HIDE DEF m
    <2>2. Sound(m) /\ m.meta = d.meta /\ m.notes = d.notes /\ IsDb(m)
      BY <2>1, Utf8Sound
    <2> QED BY <1>2, <1>a, <2>2
  <1>3. CASE d.version = 3
    <2>1. m = ProfileIndices(d)
      BY <1>3 DEF Migration
    <2> HIDE DEF m
    <2>2. /\ IsDb(m) /\ m.notes = d.notes /\ m.profiles = d.profiles /\ m.meta = d.meta
          /\ m.kinds = {} /\ m.blocks = d.blocks /\ m.pk = d.pk
      BY <1>0, <2>1 DEF ProfileIndices, IsDb, Fields
    <2>3. Sound(m)
      BY <2>2, SameRecords DEF Sound
    <2> QED BY <1>3, <1>a, <2>2, <2>3
  <1>4. CASE d.version = 4
    <2> DEFINE metas == [i \in Ids |-> IF i \in Stored(d) THEN Recount(d.notes, i) ELSE NoMeta]
    <2>1. m = [d EXCEPT !.meta = metas]
      BY <1>4 DEF Migration, Metadata
    <2>2. MetasOK(metas)
      <3>1. \A i \in Ids : RecordOK(metas[i])
        <4> SUFFICES ASSUME NEW i \in Ids PROVE RecordOK(metas[i])
          OBVIOUS
        <4>1. RecordOK(Recount(d.notes, i))
          BY <1>0, RecountOK
        <4> QED BY <4>1, NoMetaOK
      <3> QED BY <3>1 DEF MetasOK
    <2>3. \A i \in Stored(d) : i \in Ids /\ metas[i] = Recount(d.notes, i)
      <3> SUFFICES ASSUME NEW i \in Stored(d) PROVE i \in Ids
        OBVIOUS
      <3>1. PICK k \in 1..Len(d.notes) : i = d.notes[k].id
        BY <1>0, StoredIs
      <3>2. d.notes[k] \in Arriving
        BY <1>0, ElementOfSeq
      <3> QED BY <3>1, <3>2 DEF Ids
    <2> HIDE DEF m, metas
    <2>4. /\ IsDb(m) /\ m.notes = d.notes /\ m.profiles = d.profiles /\ m.meta = metas
          /\ m.kinds = d.kinds /\ m.blocks = d.blocks /\ m.pk = d.pk
      BY <1>0, <2>1 DEF IsDb, Fields
    <2>5. Sound(m)
      BY <2>2, <2>4, SameRecords
    <2> QED BY <1>4, <1>a, <2>3, <2>4, <2>5
  <1>5. CASE d.version = 6
    <2>1. m = BadNoteBlocks(d)
      BY <1>5 DEF Migration
    <2> HIDE DEF m
    <2>2. /\ IsDb(m) /\ m.notes = d.notes /\ m.profiles = d.profiles /\ m.meta = d.meta
          /\ m.kinds = d.kinds /\ m.blocks = d.blocks \ d.bad /\ m.pk = d.pk
      BY <1>0, <2>1 DEF BadNoteBlocks, IsDb, Fields
    <2>3. Sound(m)
      BY <2>2, SameRecords DEF Sound
    <2> QED BY <1>5, <1>a, <2>2, <2>3
  <1> QED BY <1>1, <1>2, <1>3, <1>4, <1>5

\* The copy that the first loop of ndb_prune leaves.
LEMMA PrunedProfilesSound ==
    ASSUME NEW d, Good(d), NEW filters
    PROVE  Good(PrunedProfiles(d, filters)) /\ Sound(PrunedProfiles(d, filters))
  <1>0. Len(d.profiles) \in Nat /\ Keyed(d)
    BY DEF Good, Keyed
  <1>1. PICK f : /\ f[0] = EmptyDb(Latest)
                 /\ \A p \in 1..Len(d.profiles) : f[p] = CopyProfile(f[p - 1], d, filters, p)
                 /\ PrunedProfiles(d, filters) = f[Len(d.profiles)]
    BY <1>0, CopyProfilesAre
  <1> DEFINE OK(p) == Good(f[p]) /\ Sound(f[p])
             S == {p \in 0..Len(d.profiles) : ~OK(p)}
  <1>2. OK(0)
    BY <1>1, EmptySound, EmptyGood DEF Latest
  <1>3. ASSUME NEW p \in 1..Len(d.profiles), OK(p - 1) PROVE OK(p)
    <2> DEFINE n == d.notes[NoteOf(d, p)]
    <2>1. f[p] = CopyProfile(f[p - 1], d, filters, p)
      BY <1>1
    <2>2. CASE Parsed(d, p) /\ Keeps(filters, n)
      <3>1. NoteOf(d, p) \in 1..Len(d.notes)
        BY <1>0, <2>2, NoteOfType DEF Parsed
      <3>2. n \in Arriving
        BY <1>0, <3>1, ElementOfSeq DEF Keyed
      <3>3. f[p] = WriteNoteAndProfile(f[p - 1], n)
        BY <2>1, <2>2 DEF CopyProfile
      <3> QED BY <1>3, <3>2, <3>3, WriteBothGood, WriteBothSound
    <2>3. CASE ~(Parsed(d, p) /\ Keeps(filters, n))
      BY <1>3, <2>1, <2>3 DEF CopyProfile
    <2> QED BY <2>2, <2>3
  <1> HIDE DEF OK
  <1>4. S = {}
    <2> SUFFICES ASSUME S # {} PROVE FALSE
      OBVIOUS
    <2>0. S \in SUBSET Nat /\ \A p \in S : p \in 0..Len(d.profiles) /\ ~OK(p)
      BY <1>0
    <2>1. PICK p \in S : \A q \in S : p <= q
      <3> HIDE DEF S
      <3> QED BY <2>0, LeastNat
    <2>2. p \in 1..Len(d.profiles) /\ p - 1 \in 0..Len(d.profiles) /\ p - 1 \notin S
      <3>1. p # 0
        BY <1>2, <2>0
      <3> HIDE DEF S
      <3> QED BY <1>0, <2>0, <2>1, <3>1
    <2>3. OK(p - 1)
      BY <2>2
    <2> QED BY <1>3, <2>0, <2>2, <2>3
  <1>5. OK(Len(d.profiles))
    BY <1>0, <1>4
  <1> QED BY <1>1, <1>5 DEF OK

\* The copy that ndb_prune leaves.
LEMMA PruneSound ==
    ASSUME NEW d, Good(d), NEW filters
    PROVE  Sound(PrunedDb(d, filters))
  <1>0. Len(d.notes) \in Nat /\ Keyed(d)
    BY DEF Good, Keyed
  <1>1. PICK f : /\ f[0] = PrunedProfiles(d, filters)
                 /\ \A k \in 1..Len(d.notes) : f[k] = CopyNote(f[k - 1], d, filters, k)
                 /\ PrunedNotes(d, filters) = f[Len(d.notes)]
    BY <1>0, CopyNotesAre
  <1> DEFINE OK(k) == Good(f[k]) /\ Sound(f[k])
             S == {k \in 0..Len(d.notes) : ~OK(k)}
  <1>2. OK(0)
    BY <1>1, PrunedProfilesSound
  <1>3. ASSUME NEW k \in 1..Len(d.notes), OK(k - 1) PROVE OK(k)
    <2> DEFINE n == d.notes[k]
    <2>1. f[k] = CopyNote(f[k - 1], d, filters, k) /\ n \in Arriving /\ Keyed(f[k - 1])
      BY <1>0, <1>1, <1>3, ElementOfSeq DEF Keyed, Good
    <2>2. CASE Keeps(filters, n) /\ n.id \notin Stored(f[k - 1])
      <3>1. f[k] = WriteNote(f[k - 1], n)
        BY <2>1, <2>2 DEF CopyNote
      <3> QED BY <1>3, <2>1, <2>2, <3>1, WriteNoteGood, WriteNoteSound
    <2>3. CASE ~(Keeps(filters, n) /\ n.id \notin Stored(f[k - 1]))
      <3>1. f[k] = f[k - 1]
        BY <2>1, <2>3 DEF CopyNote, WriteNote
      <3> QED BY <1>3, <3>1
    <2> QED BY <2>2, <2>3
  <1> HIDE DEF OK
  <1>4. S = {}
    <2> SUFFICES ASSUME S # {} PROVE FALSE
      OBVIOUS
    <2>0. S \in SUBSET Nat /\ \A k \in S : k \in 0..Len(d.notes) /\ ~OK(k)
      BY <1>0
    <2>1. PICK k \in S : \A j \in S : k <= j
      <3> HIDE DEF S
      <3> QED BY <2>0, LeastNat
    <2>2. k \in 1..Len(d.notes) /\ k - 1 \in 0..Len(d.notes) /\ k - 1 \notin S
      <3>1. k # 0
        BY <1>2, <2>0
      <3> HIDE DEF S
      <3> QED BY <1>0, <2>0, <2>1, <3>1
    <2>3. OK(k - 1)
      BY <2>2
    <2> QED BY <1>3, <2>0, <2>2, <2>3
  <1> DEFINE o == PrunedNotes(d, filters)
             w == PrunedDb(d, filters)
  <1>5. Good(o) /\ Sound(o) /\ IsDb(o)
    BY <1>0, <1>1, <1>4 DEF OK, Good, Keyed
  <1>6. PICK fetched : w = [o EXCEPT !.fetched = fetched]
    BY DEF PrunedDb
  <1> HIDE DEF o, w
  <1>7. /\ w.notes = o.notes /\ w.profiles = o.profiles /\ w.meta = o.meta /\ w.kinds = o.kinds
        /\ w.blocks = o.blocks /\ w.pk = o.pk
    BY <1>5, <1>6 DEF IsDb, Fields
  <1>8. Sound(w)
    BY <1>5, <1>7, SameRecords DEF Sound
  <1> QED BY <1>8 DEF w

-----------------------------------------------------------------------------
(* The counts over the life of the file *)

\* Two records with the same entries count the same.
LEMMA SameEntries ==
    ASSUME NEW m, NEW w, w.entries = m.entries, w = [flags |-> w.flags, entries |-> w.entries]
    PROVE  /\ RecordOK(m) => RecordOK(w)
           /\ \A ns, i : ExactFor(m, ns, i) => ExactFor(w, ns, i)
  <1>1. CountsOf(w) = CountsOf(m)
    BY DEF CountsOf, FindEntry
  <1>2. RecordOK(m) => RecordOK(w)
    BY <1>1 DEF RecordOK, Orderly
  <1>3. \A ns, i : ExactFor(m, ns, i) => ExactFor(w, ns, i)
    BY <1>1 DEF ExactFor
  <1> QED BY <1>2, <1>3

\* The records of the file are in order, and exact where nothing undid or restarted
\* them; the transaction has the notes of the file, and its records or, once they
\* have been counted from scratch, the new ones; what a client read was a record.
CountsInv ==
    /\ phase \in {"old", "migrating", "open", "pruned"} /\ at \in 0..Latest
    /\ phase \in {"open", "pruned"} => db.version = Latest
    /\ phase \in {"old", "migrating"} => restarted = {}
    /\ Sound(db)
    /\ \A i \in Ids \ (stale \cup restarted) : db.version >= 5 => ExactFor(db.meta[i], db.notes, i)
    /\ read # <<>> => /\ read = <<read[1], read[2]>>
                      /\ read[1] \in Ids => RecordOK(read[2])
    /\ phase = "migrating" =>
          /\ Sound(txn) /\ txn.notes = db.notes
          /\ db.version >= 5 => txn.meta = db.meta
          /\ (at >= 5 /\ db.version < 5) => \A i \in Stored(txn) : txn.meta[i] = Recount(txn.notes, i)
          /\ db.version <= at
    /\ \A k \in 1..Len(pruned) : Sound(pruned[k].out)

\* Nothing is counted in an empty file.
LEMMA InitCounts == Init => CountsInv
  <1> SUFFICES ASSUME Init PROVE CountsInv
    OBVIOUS
  <1>1. PICK v \in OldVersions : db = EmptyDb(v)
    BY DEF Init
  <1>2. Sound(db) /\ \A i \in Ids : db.meta[i] = NoMeta
    BY <1>1, EmptySound DEF EmptyDb
  <1>3. db.notes = <<>>
    BY <1>1 DEF EmptyDb
  <1>4. \A i \in Ids : ExactFor(db.meta[i], db.notes, i)
    BY <1>2, <1>3, ExactAtFirst
  <1> QED BY <1>2, <1>4 DEF Init, CountsInv, Latest

\* Every write, migration, crash, client write and prune keeps the counts.
LEMMA NextCounts == UInv /\ CountsInv /\ [Next]_vars => CountsInv'
  <1> SUFFICES ASSUME UInv, CountsInv, [Next]_vars PROVE CountsInv'
    OBVIOUS
  <1>0. /\ Good(db) /\ Linked(db) /\ Sound(db) /\ IsDb(db) /\ db.notes \in Seq(Arriving)
        /\ db.version \in 0..7 /\ at \in 0..7
    BY DEF UInv, CountsInv, Good, Keyed, Latest
  <1>1. ASSUME NEW n \in Arriving, Write(n) PROVE CountsInv'
    <2>1. /\ Sound(db') /\ db'.notes = Append(db.notes, n)
          /\ db'.meta = IF db.version >= 5 THEN Stats(db.meta, n) ELSE db.meta
      BY <1>0, <1>1, WrittenSound DEF Write
    <2>2. db'.version = db.version
      BY <1>0, <1>1, WrittenLinked DEF Write
    <2>3. ASSUME NEW i \in Ids \ (stale \cup restarted), db.version >= 5
          PROVE  ExactFor(db'.meta[i], db'.notes, i)
      <3>1. ExactFor(db.meta[i], db.notes, i) /\ MetasOK(db.meta)
        BY <1>0, <2>3 DEF CountsInv, Sound
      <3> QED BY <1>0, <2>1, <2>3, <3>1, ExactGrows
    <2> QED BY <1>1, <2>1, <2>2, <2>3 DEF Write, CountsInv
  <1>2. CASE Open
    <2>1. ~(at' >= 5 /\ db.version < 5) /\ db.version <= at'
      BY <1>0, <1>2 DEF Open
    <2> QED BY <1>0, <1>2, <2>1 DEF Open, CountsInv, Latest
  <1>3. CASE Migrate
    <2>1. txn.version \in 0..6 /\ txn.version = at /\ Good(txn) /\ Linked(txn) /\ Sound(txn)
      BY <1>3 DEF Migrate, UInv, CountsInv, Good, Keyed, Latest
    <2>2. txn' = [Migration(txn.version, txn) EXCEPT !.version = txn.version + 1]
      BY <1>3, <2>1 DEF Migrate
    <2>3. /\ Sound(txn') /\ txn'.notes = txn.notes
          /\ at # 4 => txn'.meta = txn.meta
          /\ at = 4 => \A i \in Stored(txn) : txn'.meta[i] = Recount(txn.notes, i)
      BY <2>1, <2>2, MigrationSound
    <2>4. Stored(txn') = Stored(txn)
      BY <2>3 DEF Stored
    <2>5. at' = at + 1 /\ UNCHANGED <<db, phase, read, stale, restarted, pruned>> /\ phase = "migrating" /\ at \in 0..6
      BY <1>0, <1>3, <2>1 DEF Migrate
    <2>6. at >= db.version
      BY <2>5 DEF CountsInv
    <2>7. db.version >= 5 => txn'.meta = db.meta
      BY <1>0, <2>3, <2>5, <2>6 DEF CountsInv
    <2>8. (at' >= 5 /\ db.version < 5) => \A i \in Stored(txn') : txn'.meta[i] = Recount(txn'.notes, i)
      <3> SUFFICES ASSUME at' >= 5, db.version < 5, NEW i \in Stored(txn')
                   PROVE  txn'.meta[i] = Recount(txn'.notes, i)
        OBVIOUS
      <3>1. CASE at = 4
        BY <2>3, <2>4, <3>1
      <3>2. CASE at # 4
        BY <2>3, <2>4, <2>5, <3>2 DEF CountsInv
      <3> QED BY <3>1, <3>2
    <2>9. at' \in 0..Latest /\ db.version <= at'
      BY <1>0, <2>5, <2>6 DEF Latest
    <2> QED BY <2>3, <2>5, <2>7, <2>8, <2>9 DEF CountsInv
  <1>4. CASE Commit
    <2>1. /\ db' = txn /\ phase' = "open" /\ phase = "migrating" /\ at = Latest /\ txn.version = at
          /\ restarted' = (IF db.version < 5 THEN Ids ELSE {})
          /\ UNCHANGED <<at, read, stale, pruned>>
      BY <1>4 DEF Commit, UInv
    <2>2. restarted = {} /\ Sound(txn) /\ txn.notes = db.notes /\ (db.version >= 5 => txn.meta = db.meta)
      BY <2>1 DEF CountsInv
    <2>3. ASSUME NEW i \in Ids \ (stale \cup restarted') PROVE ExactFor(txn.meta[i], txn.notes, i)
      <3>1. db.version >= 5
        BY <1>0, <2>1, <2>3
      <3> QED BY <2>2, <2>3, <3>1 DEF CountsInv
    <2> QED BY <2>1, <2>2, <2>3 DEF CountsInv
  <1>5. CASE Crash
    BY <1>5 DEF Crash, CountsInv, Latest
  <1>6. ASSUME NEW i \in ReadIds, ReadMeta(i) PROVE CountsInv'
    <2>1. read' = <<i, db.meta[i]>> /\ (i \in Ids => RecordOK(db.meta[i]))
      BY <1>0, <1>6 DEF ReadMeta, Sound, MetasOK
    <2>2. read' = <<read'[1], read'[2]>> /\ (read'[1] \in Ids => RecordOK(read'[2]))
      BY <2>1
    <2> QED BY <1>6, <2>2 DEF ReadMeta, CountsInv
  <1>7. CASE SetMeta
    <2> DEFINE r == read[1]
               m == [read[2] EXCEPT !.flags = 1]
               metas == [db.meta EXCEPT ![r] = m]
    <2>1. /\ db' = [db EXCEPT !.meta[r] = m]
          /\ stale' = (IF db.meta[r].entries # read[2].entries THEN stale \cup {r} ELSE stale)
          /\ read' = <<>> /\ phase = "open" /\ UNCHANGED <<txn, at, phase, restarted, pruned>>
          /\ read # <<>>
      BY <1>7 DEF SetMeta
    <2>2. r \in Ids => RecordOK(read[2])
      BY <2>1 DEF CountsInv
    <2>3. r \in Ids => /\ m.entries = read[2].entries /\ m = [flags |-> m.flags, entries |-> m.entries]
                       /\ RecordOK(m)
      <3> SUFFICES ASSUME r \in Ids
                   PROVE  /\ m.entries = read[2].entries /\ m = [flags |-> m.flags, entries |-> m.entries]
                          /\ RecordOK(m)
        OBVIOUS
      <3>1. read[2] = [flags |-> read[2].flags, entries |-> read[2].entries]
        BY <2>2 DEF RecordOK, Orderly
      <3>2. m.entries = read[2].entries /\ m = [flags |-> m.flags, entries |-> m.entries]
        BY <3>1
      <3> HIDE DEF m, r
      <3> QED BY <2>2, <3>2, SameEntries
    <2>4. db' = [db EXCEPT !.meta = metas]
      BY <2>1
    <2>5. metas = [i \in Ids |-> metas[i]] /\ \A i \in Ids : metas[i] = IF i = r THEN m ELSE db.meta[i]
      BY <1>0 DEF Sound, MetasOK
    <2> HIDE DEF m, r, metas
    <2>6. MetasOK(metas)
      BY <1>0, <2>3, <2>5 DEF Sound, MetasOK
    <2>7. /\ db'.notes = db.notes /\ db'.profiles = db.profiles /\ db'.meta = metas /\ db'.kinds = db.kinds
          /\ db'.blocks = db.blocks /\ db'.pk = db.pk /\ db'.version = db.version
      BY <1>0, <2>4 DEF IsDb, Fields
    <2>8. Sound(db')
      BY <1>0, <2>6, <2>7, SameRecords
    <2>9. ASSUME NEW i \in Ids \ (stale' \cup restarted), db.version >= 5
          PROVE  ExactFor(metas[i], db.notes, i)
      <3>1. ExactFor(db.meta[i], db.notes, i)
        BY <2>1, <2>9 DEF CountsInv
      <3>2. CASE i # r
        BY <2>5, <3>1, <3>2
      <3>3. CASE i = r
        <4>1. db.meta[i].entries = read[2].entries
          BY <2>1, <2>9, <3>3
        <4>2. m.entries = db.meta[i].entries /\ metas[i] = m
          BY <2>3, <2>5, <3>3, <4>1
        <4> QED BY <2>3, <3>1, <3>3, <4>2, SameEntries
      <3> QED BY <3>2, <3>3
    <2> QED BY <2>1, <2>7, <2>8, <2>9 DEF CountsInv
  <1>8. ASSUME NEW f \in PruneFilters, Prune(f) PROVE CountsInv'
    <2> DEFINE r == [from |-> db, filters |-> f, out |-> PrunedDb(db, f)]
    <2>1. Sound(r.out)
      BY <1>0, PruneSound
    <2>2. pruned = <<>> /\ pruned' = Append(pruned, r) /\ phase' = "pruned" /\ phase = "open"
      BY <1>8 DEF Prune, UInv
    <2> HIDE DEF r
    <2>3. pruned' = <<r>>
      BY <2>2
    <2>4. \A k \in 1..Len(pruned') : Sound(pruned'[k].out)
      BY <2>1, <2>3
    <2> QED BY <1>8, <2>2, <2>4 DEF Prune, CountsInv
  <1>9. CASE UNCHANGED vars
    BY <1>9 DEF CountsInv, vars
  <1> QED BY <1>1, <1>2, <1>3, <1>4, <1>5, <1>6, <1>7, <1>8, <1>9 DEF Next

\* Records stay in order and exact, whatever is written, migrated, cut off, put
\* back or pruned.
THEOREM UpkeepCounts == Spec => [](UInv /\ CountsInv)
  BY InitUInv, NextUInv, InitCounts, NextCounts, PTL DEF Spec

\* In every database, migrated, new or pruned, the total of a record is the sum of
\* its reactions unless the record is full, and its entries are sorted, one of each
\* kind; whatever counts, recounts and client writes came before
\* (metadata.c:157-381; nostrdb.c:2540-2577, 4270-4399).
THEOREM UpkeepTotalIsSum == Spec => []TotalIsSum
  <1>1. UInv /\ CountsInv => TotalIsSum
    <2> SUFFICES ASSUME UInv, CountsInv PROVE TotalIsSum
      OBVIOUS
    <2>1. ASSUME NEW d \in Databases PROVE Good(d) /\ Sound(d)
      <3>1. CASE d = db
        BY <3>1 DEF UInv, CountsInv
      <3>2. CASE d \in {pruned[i].out : i \in 1..Len(pruned)}
        <4>1. phase = "pruned"
          BY <3>2 DEF UInv
        <4>2. PICK r : pruned = <<r>> /\ Good(r.out)
          BY <4>1 DEF UInv
        <4>3. d = r.out
          BY <3>2, <4>2
        <4>4. 1 \in 1..Len(pruned) /\ pruned[1] = r
          BY <4>2
        <4>5. Sound(r.out)
          BY <4>4 DEF CountsInv
        <4> QED BY <4>2, <4>3, <4>5
      <3> QED BY <2>1, <3>1, <3>2 DEF Databases
    <2>2. ASSUME NEW d \in Databases
          PROVE  /\ d.kinds \cup d.pubkeys \cup d.pubkeyKinds \cup d.blocks \subseteq DOMAIN d.notes
                 /\ \A e \in d.pk : e[3] \in DOMAIN d.profiles
      <3>1. DOMAIN d.notes = 1..Len(d.notes) /\ DOMAIN d.profiles = 1..Len(d.profiles)
        BY <2>1 DEF Good, Keyed
      <3>2. d.pubkeys \subseteq 1..Len(d.notes) /\ d.pubkeyKinds \subseteq 1..Len(d.notes)
        BY <2>1 DEF Good, Indexed
      <3>3. /\ d.kinds \subseteq 1..Len(d.notes) /\ d.blocks \subseteq 1..Len(d.notes)
            /\ \A e \in d.pk : e[3] \in 1..Len(d.profiles)
        BY <2>1 DEF Sound
      <3> QED BY <3>1, <3>2, <3>3
    <2>3. ASSUME NEW d \in Databases, NEW i \in Ids
          PROVE  LET es == d.meta[i].entries
                 IN  /\ Len(es) <= Room
                     /\ \A k \in 1..Len(es) - 1 : EntryLess(es[k], es[k + 1])
                     /\ Len(es) < Room => CountsEntry(d, i).n = SumOfReactions(es)
      <3> DEFINE m == d.meta[i]
      <3>1. RecordOK(m)
        BY <2>1 DEF Sound, MetasOK
      <3>2. CountsEntry(d, i) = CountsOf(m)
        BY DEF CountsEntry, CountsOf
      <3> HIDE DEF m
      <3>3. Len(m.entries) \in Nat /\ Sorted(m.entries) /\ Len(m.entries) <= Room
        BY <3>1 DEF RecordOK, Orderly
      <3>4. \A k \in 1..Len(m.entries) - 1 : EntryLess(m.entries[k], m.entries[k + 1])
        <4> SUFFICES ASSUME NEW k \in 1..Len(m.entries) - 1 PROVE EntryLess(m.entries[k], m.entries[k + 1])
          OBVIOUS
        <4>1. k \in 1..Len(m.entries) /\ k + 1 \in 1..Len(m.entries) /\ k < k + 1
          BY <3>3
        <4> QED BY <3>3, <4>1 DEF Sorted
      <3> QED BY <3>1, <3>2, <3>3, <3>4 DEF RecordOK, m
    <2>4. TypeOK
      BY <2>2, <2>3 DEF TypeOK, CountsInv
    <2> QED BY <2>3, <2>4 DEF TotalIsSum
  <1> QED BY <1>1, UpkeepCounts, PTL

\* The counts of a note are those of the notes that refer to it, replies, quotes,
\* reposts and reactions alike, modulo the width of the counters, unless a client
\* put an older record back, a migration counted anew or the record is full; and a
\* migration counts the replies of every note that has fewer kinds of reactions
\* than entries have room (nostrdb.c:2283-2646, 6816-7045).
THEOREM UpkeepCountsExact == Spec => []CountsExact
  <1>1. UInv /\ CountsInv => CountsExact
    <2> SUFFICES ASSUME UInv, CountsInv PROVE CountsExact
      OBVIOUS
    <2>1. RepliesRecounted
      <3> SUFFICES ASSUME phase = "migrating", at >= 5, db.version < 5, NEW i \in Stored(txn),
                          Cardinality(ReactionKinds(txn, i)) < Room
                   PROVE  LET c == CountsEntry(txn, i).counts
                          IN  /\ c.direct = Short(RefCount(txn, LAMBDA n : n.kind = 1 /\ DirectParent(n) = i))
                              /\ c.thread = RefCount(txn, LAMBDA n : n.kind = 1 /\ ThreadRoot(n) = i)
        BY DEF RepliesRecounted
      <3> DEFINE ns == txn.notes
                 m == txn.meta[i]
      <3>1. ns \in Seq(Arriving) /\ Keyed(txn) /\ DOMAIN ns = 1..Len(ns)
        BY DEF UInv, Good, Keyed
      <3>2. m = Recount(ns, i)
        BY DEF CountsInv
      <3>3. i # NoId
        <4>1. PICK k \in 1..Len(ns) : i = ns[k].id
          BY <3>1, StoredIs
        <4>2. ns[k] \in Arriving
          BY <3>1, ElementOfSeq
        <4>3. i \in Ids
          BY <4>1, <4>2 DEF Ids
        <4> QED BY <4>3, NoIdIsNone
      <3>4. ReactionKinds(txn, i) = Kinds(ns, i)
        <4>1. \A n : Reacts(n, i) <=> n.kind = 7 /\ LastId(n, "e") = i
          BY <3>3 DEF Reacts, LastId
        <4>2. {k \in DOMAIN ns : Reacts(ns[k], i)} = ReactionKeys(ns, i)
          BY <4>1 DEF ReactionKeys
        <4> QED BY <4>2 DEF ReactionKinds, Kinds
      <3>5. Len(ReactionEntries(ns, i)) < Room
        <4>1. /\ Cardinality(Kinds(ns, i)) \in Nat
              /\ Len(ReactionEntries(ns, i)) <= Cardinality(Kinds(ns, i))
          BY <3>1, ReactionsFit
        <4>2. Len(ReactionEntries(ns, i)) \in Nat /\ Room \in Nat
          BY <3>1, ReactionsTallied, MetaAssumption
        <4> QED BY <3>4, <4>1, <4>2
      <3>6. CountsOf(m).counts.direct = CountDirect(ns, i) /\ CountsOf(m).counts.thread = CountThread(ns, i)
        BY <3>1, <3>2, <3>5, RecountOK
      <3>7. CountsEntry(txn, i) = CountsOf(m)
        BY DEF CountsEntry, CountsOf
      <3>8. /\ CountDirect(ns, i) = Short(RefCount(txn, LAMBDA n : n.kind = 1 /\ DirectParent(n) = i))
            /\ CountThread(ns, i) = RefCount(txn, LAMBDA n : n.kind = 1 /\ ThreadRoot(n) = i)
        BY DEF CountDirect, CountThread, Keys, RefCount
      <3> QED BY <3>6, <3>7, <3>8
    <2>2. ASSUME NEW i \in Ids \ (stale \cup restarted), db.version >= 5, Len(db.meta[i].entries) < Room
          PROVE  LET c == CountsEntry(db, i)
                 IN  /\ c.counts.direct = Short(RefCount(db, LAMBDA n : n.kind = 1 /\ DirectParent(n) = i))
                     /\ c.counts.thread = RefCount(db, LAMBDA n : n.kind = 1 /\ ThreadRoot(n) = i)
                     /\ c.counts.quotes = Short(RefCount(db, LAMBDA n : n.kind = 1 /\ FirstId(n, "q") = i))
                     /\ c.counts.reposts = Short(RefCount(db, LAMBDA n : n.kind \in {6, 16} /\ FirstId(n, "e") = i))
                     /\ c.n = RefCount(db, LAMBDA n : Reacts(n, i))
      <3> DEFINE ns == db.notes
                 m == db.meta[i]
      <3>1. ExactFor(m, ns, i) /\ Len(m.entries) < Room
        BY <2>2 DEF CountsInv
      <3>2. CountsEntry(db, i) = CountsOf(m)
        BY DEF CountsEntry, CountsOf
      <3>3. /\ RefCount(db, LAMBDA n : n.kind = 1 /\ DirectParent(n) = i) = Cardinality(Directs(ns, i))
            /\ RefCount(db, LAMBDA n : n.kind = 1 /\ ThreadRoot(n) = i) = Cardinality(Threads(ns, i))
            /\ RefCount(db, LAMBDA n : n.kind = 1 /\ FirstId(n, "q") = i) = Cardinality(Quotes(ns, i))
            /\ RefCount(db, LAMBDA n : n.kind \in {6, 16} /\ FirstId(n, "e") = i) = Cardinality(Reposts(ns, i))
        BY DEF RefCount, Directs, Threads, Quotes, Reposts, IsDirect, IsThread, IsQuote, IsRepost
      <3>4. RefCount(db, LAMBDA n : Reacts(n, i)) = Cardinality(Reactions(ns, i))
        <4>1. i # NoId
          BY NoIdIsNone
        <4>2. \A n : Reacts(n, i) <=> IsReaction(n, i)
          BY <4>1 DEF Reacts, LastId, IsReaction
        <4>3. {k \in DOMAIN ns : Reacts(ns[k], i)} = Reactions(ns, i)
          BY <4>2 DEF Reactions
        <4> QED BY <4>3 DEF RefCount
      <3> HIDE DEF m
      <3>5. /\ CountsOf(m).n = Cardinality(Reactions(ns, i))
            /\ CountsOf(m).counts.direct = Short(Cardinality(Directs(ns, i)))
            /\ CountsOf(m).counts.thread = Cardinality(Threads(ns, i))
            /\ CountsOf(m).counts.quotes = Short(Cardinality(Quotes(ns, i)))
            /\ CountsOf(m).counts.reposts = Short(Cardinality(Reposts(ns, i)))
        BY <3>1 DEF ExactFor
      <3> QED BY <3>2, <3>3, <3>4, <3>5
    <2> QED BY <2>1, <2>2 DEF CountsExact
  <1> QED BY <1>1, UpkeepCounts, PTL

=============================================================================
