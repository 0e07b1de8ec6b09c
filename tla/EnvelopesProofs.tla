--------------------------- MODULE EnvelopesProofs ---------------------------
(***************************************************************************)
(* Proofs about Envelopes, for any events, nested to any depth, any keys,  *)
(* threads and queue sizes: whose a note in the store is and for whom it   *)
(* was opened; that no envelope a scan found is missed; and that what is   *)
(* marked as opened has its note in the store.                             *)
(*                                                                         *)
(* A note is vouched for from the moment it enters a thread: the invariant *)
(* says so of every note on its way (on a thread's stack, in the writer's  *)
(* inbox) and of every note in the store, from which an envelope may be    *)
(* taken to be peeled again. In the same way an envelope a scan found is   *)
(* followed from the message of the scan to the store, and a mark is never *)
(* ahead, in the writer's inbox, of the note it speaks of.                 *)
(***************************************************************************)
EXTENDS Envelopes, FiniteSetTheorems, SequenceTheorems, NaturalsInduction, WellFoundedInduction, TLAPS

-----------------------------------------------------------------------------
(* Types *)

Secrets == Devices \cup Teams

Ids ==
    [kind : {j.kind : j \in Jsons}, text : {j.text : j \in Jsons}, at : {j.at : j \in Jsons},
     author : {j.author : j \in Jsons} \cup Secrets, lock : {j.lock : j \in Jsons},
     inside : {j.inside : j \in Jsons}]

Notes ==
    [id : Ids, signed : BOOLEAN, rumor : BOOLEAN, receiver : Secrets \cup {Nobody},
     wrap : Ids \cup {Nobody}]

Frames ==
    [note : Notes, store : BOOLEAN, teams : BOOLEAN, storage : BOOLEAN, done : BOOLEAN,
     unwrapped : BOOLEAN]

Messages ==
    [type : {"event"}, json : Jsons] \cup [type : {"key", "team"}, key : Secrets]
        \cup [type : {"peel"}, note : Ids]

Orders == [note : Notes, unwrapped : BOOLEAN, over : BOOLEAN]

Stored == [rumor : BOOLEAN, receiver : Secrets \cup {Nobody}, wrap : Ids \cup {Nobody}, unwrapped : BOOLEAN]

-----------------------------------------------------------------------------
(* The invariant *)

\* Less than d is inside the note.
Within(id, d) == id.inside # Garbage => id.inside \in Jsons /\ Nesting[id.inside] < d

\* Who stands for a note, as AuthorsVouched has it.
VouchedBy(id, rumor, receiver, w) ==
    IF ~rumor THEN \E j \in Jsons : Id(j) = id /\ j.sig = j.author
    ELSE \/ /\ w.kind \in {"giftwrap", "sns"}
            /\ w.inside # Garbage
            /\ w.inside.kind = "seal"
            /\ w.inside.sig = w.inside.author
            /\ [Id(w.inside.inside) EXCEPT !.author = w.inside.author] = id
         \/ /\ w.kind = "pns"
            /\ w.author = PnsKey(receiver)
            /\ id.author \in {w.inside.author, receiver}
            /\ [Id(w.inside) EXCEPT !.author = id.author] = id

\* For whom a rumor was opened, as ReceiversRegistered has it; reg are the public
\* keys of the secrets given.
OpenedFor(receiver, w, reg) ==
    /\ receiver \in reg
    /\ {receiver, PnsKey(receiver)} \cap w.lock[2] # {}

Sound(n, reg) ==
    /\ VouchedBy(n.id, n.rumor, n.receiver, n.wrap)
    /\ n.rumor => OpenedFor(n.receiver, n.wrap, reg)
    /\ Within(n.id, Depth)

\* The note stored under id, as a thread or the writer reads it.
NoteAt(store, id) ==
    [id |-> id, signed |-> FALSE, rumor |-> store[id].rumor, receiver |-> store[id].receiver,
     wrap |-> store[id].wrap]

Store(d, reg) ==
    /\ IsFiniteSet(DOMAIN d)
    /\ DOMAIN d \subseteq Ids
    /\ \A id \in DOMAIN d : d[id] \in Stored /\ Sound(NoteAt(d, id), reg)

\* The writer's inbox.
Queue(q, reg) ==
    /\ q \in Seq(Orders)
    /\ Len(q) <= WriterInboxSize
    /\ \A i \in 1..Len(q) : Sound(q[i].note, reg)

\* What a message of a thread's inbox refers to.
Refers(m, reg, ids) ==
    /\ m.type \in {"key", "team"} => m.key \in reg
    /\ m.type = "peel" => m.note \in ids

\* The inbox of a thread.
Box(q, reg, ids) ==
    /\ q \in Seq(Messages)
    /\ Len(q) <= InboxSize
    /\ \A i \in 1..Len(q) : Refers(q[i], reg, ids)

Boxes(b, reg, ids) ==
    /\ b \in [Threads -> Seq(Messages)]
    /\ \A t \in Threads : Box(b[t], reg, ids)

\* A scan reads the envelopes of the store.
Scanned(q, ids) ==
    /\ q \in Seq(Ids)
    /\ \A i \in 1..Len(q) : q[i] \in ids

\* A table of secrets.
Table(s, reg) ==
    /\ s \in Seq(Secrets)
    /\ Len(s) <= MaxKeys
    /\ \A i \in 1..Len(s) : s[i] \in reg

Tables(k, reg) ==
    /\ k \in [Threads -> Seq(Secrets)]
    /\ \A t \in Threads : Table(k[t], reg)

\* The notes a thread is processing: each is from inside the one before.
Nested(s, reg) ==
    /\ s \in Seq(Frames)
    /\ Len(s) <= Depth + 1
    /\ \A i \in 1..Len(s) : Sound(s[i].note, reg) /\ Within(s[i].note.id, Depth + 1 - i)

Stacks(s, reg) ==
    /\ s \in [Threads -> Seq(Frames)]
    /\ \A t \in Threads : Nested(s[t], reg)

EInv ==
    /\ registered \subseteq Secrets
    /\ Store(db, registered)
    /\ Queue(writer, registered)
    /\ Boxes(inbox, registered, DOMAIN db)
    /\ turn \in Threads
    /\ Scanned(scan, DOMAIN db)
    /\ Tables(keys, registered)
    /\ Tables(pns, registered)
    /\ Tables(sns, registered)
    /\ Stacks(stack, registered)

\* The empty queues, tables and stacks of a start.
LEMMA EmptyTyped ==
    \A reg, ids :
       /\ Queue(<<>>, reg)
       /\ Boxes(Empty, reg, ids)
       /\ 0 \in Threads
       /\ Scanned(<<>>, ids)
       /\ Tables(Empty, reg)
       /\ Stacks(Empty, reg)
  <1> SUFFICES ASSUME NEW reg, NEW ids
               PROVE  /\ Queue(<<>>, reg)
                      /\ Boxes(Empty, reg, ids)
                      /\ 0 \in Threads
                      /\ Scanned(<<>>, ids)
                      /\ Tables(Empty, reg)
                      /\ Stacks(Empty, reg)
    OBVIOUS
  <1> USE EnvelopesAssumption
  <1>1. Queue(<<>>, reg)
    BY DEF Queue
  <1>2. Boxes(Empty, reg, ids)
    BY DEF Boxes, Box, Empty
  <1>3. 0 \in Threads
    BY DEF Threads
  <1>4. Scanned(<<>>, ids)
    BY DEF Scanned
  <1>5. Tables(Empty, reg)
    BY DEF Tables, Table, Empty
  <1>6. Stacks(Empty, reg)
    BY DEF Stacks, Nested, Empty
  <1> QED BY <1>1, <1>2, <1>3, <1>4, <1>5, <1>6

\* With no event sent and no key registered every part of the invariant is empty.
LEMMA InitEInv == Init => EInv
  <1> SUFFICES ASSUME Init PROVE EInv
    OBVIOUS
  <1>1. Store(db, registered)
    BY FS_EmptySet DEF Init, Store
  <1> QED BY <1>1, EmptyTyped DEF EInv, Init

-----------------------------------------------------------------------------
(* Notes from json *)

\* The id of a text is an id, nested no deeper than the text, under any author assigned
\* to it.
LEMMA IdType ==
    ASSUME NEW j \in Jsons
    PROVE  /\ Id(j) \in Ids
           /\ Within(Id(j), Nesting[j])
           /\ Nesting[j] \in 0..Depth
           /\ \A a \in {k.author : k \in Jsons} \cup Secrets : [Id(j) EXCEPT !.author = a] \in Ids
  <1>1. Id(j) \in Ids
    BY DEF Id, Ids
  <1>2. Within(Id(j), Nesting[j]) /\ Nesting[j] \in 0..Depth
    BY EnvelopesAssumption DEF Within, Id
  <1>3. \A a \in {k.author : k \in Jsons} \cup Secrets : [Id(j) EXCEPT !.author = a] \in Ids
    BY DEF Id, Ids
  <1> QED BY <1>1, <1>2, <1>3

\* What fits in d more layers fits in more than d.
LEMMA WithinWider ==
    ASSUME NEW id, NEW d \in Int, NEW e \in Int, d <= e, Within(id, d)
    PROVE  Within(id, e)
  BY EnvelopesAssumption DEF Within

\* An event whose signature is its author's.
LEMMA EventSound ==
    ASSUME NEW j \in Jsons, Accepts(NoteOf(j)), NEW reg
    PROVE  NoteOf(j) \in Notes /\ Sound(NoteOf(j), reg)
  <1>1. NoteOf(j) \in Notes
    BY IdType DEF NoteOf, Notes
  <1>2. j.sig = j.author
    BY DEF Accepts, NoteOf
  <1>3. Within(Id(j), Depth)
    BY IdType, WithinWider, EnvelopesAssumption
  <1>4. NoteOf(j).id = Id(j) /\ NoteOf(j).rumor = FALSE
    BY DEF NoteOf
  <1>5. \E k \in Jsons : Id(k) = Id(j) /\ k.sig = k.author
    BY <1>2
  <1> QED BY <1>1, <1>3, <1>4, <1>5 DEF Sound, VouchedBy

\* A rumor made of json j, for author and receiver.
IsRumor(m, j, a, r, w) ==
    /\ m \in Notes
    /\ m.rumor = TRUE
    /\ m.receiver = r
    /\ m.wrap = w
    /\ m.id = [Id(j) EXCEPT !.author = a]
    /\ m.id.author = a
    /\ Within(m.id, Nesting[j])

Authors == {k.author : k \in Jsons} \cup Secrets

\* ndb_ingest_rumor gives the note the author and the receiver it is told.
LEMMA RumorIs ==
    \A j \in Jsons, a \in Authors, r \in Secrets, w \in Ids :
       \A m : m = Rumor(j, a, r, w) => IsRumor(m, j, a, r, w)
  <1> SUFFICES ASSUME NEW j \in Jsons, NEW a \in Authors, NEW r \in Secrets, NEW w \in Ids,
                      NEW m, m = Rumor(j, a, r, w)
               PROVE  IsRumor(m, j, a, r, w)
    OBVIOUS
  <1>1. [Id(j) EXCEPT !.author = a] \in Ids
    BY IdType DEF Authors
  <1>2. [Id(j) EXCEPT !.author = a].inside = Id(j).inside /\ [Id(j) EXCEPT !.author = a].author = a
    BY DEF Id
  <1>3. Within([Id(j) EXCEPT !.author = a], Nesting[j])
    BY <1>2, IdType DEF Within
  <1> QED BY <1>1, <1>2, <1>3 DEF Rumor, Notes, IsRumor

\* What the peeled note m is, of an envelope w that holds less than d.
Good(m, w, d, reg) ==
    /\ m \in Notes
    /\ m.rumor = TRUE
    /\ w.inside # Garbage
    /\ VouchedBy(m.id, TRUE, m.receiver, m.wrap)
    /\ OpenedFor(m.receiver, m.wrap, reg)
    /\ Within(m.id, d - 1)
    /\ Within(m.id, Depth)

\* What comes out of a seal in the envelope w.
LEMMA SealSound ==
    ASSUME NEW w \in Ids, NEW d \in Int, Within(w, d), w.kind \in {"giftwrap", "sns"},
           NEW reg, reg \subseteq Secrets, NEW r \in reg, r \in w.lock[2],
           NEW m \in Seal(w.inside, r, w)
    PROVE  Good(m, w, d, reg)
  <1> DEFINE seal == w.inside
             inner == seal.inside
             auth == seal.author
  <1>1. /\ seal # Garbage /\ seal.kind = "seal" /\ seal.sig = seal.author /\ inner # Garbage
        /\ m = Rumor(inner, auth, r, w)
    BY DEF Seal
  <1>2. seal \in Jsons /\ Nesting[seal] < d
    BY <1>1 DEF Within
  <1>3. inner \in Jsons /\ Nesting[inner] < Nesting[seal]
    BY <1>1, <1>2, EnvelopesAssumption
  <1>a. auth \in Authors
    BY <1>2 DEF Authors
  <1>4. r \in Secrets
    OBVIOUS
  <1>5. IsRumor(m, inner, auth, r, w)
    <2> HIDE DEF seal, inner, auth
    <2> QED BY <1>1, <1>3, <1>a, <1>4, RumorIs
  <1>6. Nesting[inner] \in Int /\ Nesting[inner] <= d - 1 /\ Nesting[inner] <= Depth
    <2>1. Nesting[inner] \in 0..Depth /\ Nesting[seal] \in 0..Depth
      BY <1>2, <1>3, EnvelopesAssumption
    <2> HIDE DEF seal, inner
    <2> QED BY <1>2, <1>3, <2>1, EnvelopesAssumption
  <1>7. Within(m.id, d - 1) /\ Within(m.id, Depth)
    <2>1. Within(m.id, Nesting[inner])
      BY <1>5 DEF IsRumor
    <2>2. d - 1 \in Int /\ Depth \in Int
      BY EnvelopesAssumption
    <2> HIDE DEF inner
    <2> QED BY <2>1, <2>2, <1>6, WithinWider
  <1>8. VouchedBy(m.id, TRUE, m.receiver, m.wrap)
    BY <1>1, <1>5 DEF VouchedBy, IsRumor
  <1>9. OpenedFor(m.receiver, m.wrap, reg)
    BY <1>5 DEF OpenedFor, IsRumor
  <1> QED BY <1>1, <1>5, <1>7, <1>8, <1>9 DEF Good, IsRumor

\* What comes out of private storage.
LEMMA PnsSound ==
    ASSUME NEW w \in Ids, NEW d \in Int, Within(w, d), w.kind = "pns",
           NEW reg, reg \subseteq Secrets, NEW ps, Table(ps, reg), NEW m \in Pns(w, ps)
    PROVE  Good(m, w, d, reg)
  <1> DEFINE inner == w.inside
             author(r) == IF inner.author = Nobody THEN r ELSE inner.author
  <1>1. PICK r \in Range(ps) : /\ w.author = PnsKey(r)
                               /\ Opens(w.lock, Symmetric(PnsKey(r)))
                               /\ inner # Garbage
                               /\ m = Rumor(inner, author(r), r, w)
    BY DEF Pns
  <1> DEFINE auth == author(r)
  <1>2. r \in reg /\ r \in Secrets
    BY <1>1, LenProperties DEF Table, Range
  <1>3. PnsKey(r) \in w.lock[2]
    BY <1>1 DEF Opens, Symmetric
  <1>4. inner \in Jsons /\ Nesting[inner] < d
    BY <1>1 DEF Within
  <1>5. auth \in Authors /\ auth \in {inner.author, r}
    BY <1>2, <1>4 DEF Authors
  <1>6. IsRumor(m, inner, auth, r, w)
    <2> HIDE DEF inner, auth
    <2>1. m = Rumor(inner, auth, r, w)
      BY <1>1 DEF auth
    <2> QED BY <1>2, <1>4, <1>5, <2>1, RumorIs
  <1>7. Nesting[inner] \in 0..Depth
    BY <1>4, EnvelopesAssumption
  <1>8. Within(m.id, d - 1) /\ Within(m.id, Depth)
    <2>1. Within(m.id, Nesting[inner])
      BY <1>6 DEF IsRumor
    <2>2. d - 1 \in Int /\ Depth \in Int
      BY EnvelopesAssumption
    <2> HIDE DEF inner
    <2>3. Nesting[inner] \in Int /\ Nesting[inner] <= d - 1 /\ Nesting[inner] <= Depth
      BY <1>4, <1>7, <2>2
    <2> QED BY <2>1, <2>2, <2>3, WithinWider
  <1>9. VouchedBy(m.id, TRUE, m.receiver, m.wrap)
    <2> HIDE DEF auth
    <2> QED BY <1>1, <1>5, <1>6 DEF VouchedBy, IsRumor
  <1>10. OpenedFor(m.receiver, m.wrap, reg)
    BY <1>2, <1>3, <1>6 DEF OpenedFor, IsRumor
  <1> QED BY <1>1, <1>6, <1>8, <1>9, <1>10 DEF Good, IsRumor

\* What comes out of an envelope is vouched for, opened for a registered key, and
\* holds less than the envelope.
LEMMA PeeledSound ==
    ASSUME NEW n, n.id \in Ids, NEW d \in Int, Within(n.id, d), NEW reg, reg \subseteq Secrets,
           NEW ks, NEW ps, NEW ss, Table(ks, reg), Table(ps, reg), Table(ss, reg),
           NEW m \in Peeled(n, ks, ps, ss)
    PROVE  m \in Notes /\ Sound(m, reg) /\ Within(m.id, d - 1) /\ d >= 1
  <1> DEFINE w == n.id
  <1>1. \/ w.kind = "giftwrap" /\ m \in Giftwrap(w, ks)
        \/ w.kind = "pns" /\ m \in Pns(w, ps)
        \/ w.kind = "sns" /\ m \in Sns(w, ss)
    BY DEF Peeled
  <1>i. w \in Ids /\ Within(w, d)
    OBVIOUS
  <1> HIDE DEF w
  <1>2. ASSUME w.kind = "giftwrap", m \in Giftwrap(w, ks) PROVE Good(m, w, d, reg)
    <2>1. PICK i \in 1..Len(ks) : Opens(w.lock, Ecdh(w.author, ks[i])) /\ m \in Seal(w.inside, ks[i], w)
      BY <1>2 DEF Giftwrap
    <2>2. ks[i] \in reg /\ ks[i] \in w.lock[2]
      BY <2>1 DEF Table, Opens, Ecdh
    <2>3. w.kind \in {"giftwrap", "sns"}
      BY <1>2
    <2> DEFINE k == ks[i]
    <2>4. k \in reg /\ k \in w.lock[2] /\ m \in Seal(w.inside, k, w)
      BY <2>1, <2>2
    <2> HIDE DEF k
    <2> QED BY <1>i, <2>3, <2>4, SealSound
  <1>3. ASSUME w.kind = "sns", m \in Sns(w, ss) PROVE Good(m, w, d, reg)
    <2>1. PICK t \in Range(ss) : Opens(w.lock, Symmetric(t)) /\ m \in Seal(w.inside, t, w)
      BY <1>3 DEF Sns
    <2>2. t \in reg
      BY <2>1, LenProperties DEF Table, Range
    <2>3. t \in w.lock[2]
      BY <2>1 DEF Opens, Symmetric
    <2>4. w.kind \in {"giftwrap", "sns"}
      BY <1>3
    <2> QED BY <1>i, <2>1, <2>2, <2>3, <2>4, SealSound
  <1>4. ASSUME w.kind = "pns", m \in Pns(w, ps) PROVE Good(m, w, d, reg)
    BY <1>4, <1>i, PnsSound
  <1>5. Good(m, w, d, reg)
    BY <1>1, <1>2, <1>3, <1>4
  <1>6. d >= 1
    <2>1. w.inside \in Jsons /\ Nesting[w.inside] < d
      BY <1>5, <1>i DEF Within, Good
    <2>2. Nesting[w.inside] \in 0..Depth
      BY <2>1, EnvelopesAssumption
    <2> QED BY <2>1, <2>2
  <1> QED BY <1>5, <1>6 DEF Sound, Good

-----------------------------------------------------------------------------
(* More keys and more stored notes disturb nothing *)

\* Registering another key takes no attribution back.
LEMMA SoundMore ==
    \A n, reg, more : reg \subseteq more /\ Sound(n, reg) => Sound(n, more)
  BY DEF Sound, OpenedFor

\* The same for the messages in the writer's inbox.
LEMMA QueueMore ==
    \A q, reg, more : reg \subseteq more /\ Queue(q, reg) => Queue(q, more)
  BY SoundMore DEF Queue

\* The same for the ingester inboxes, which may also name more stored notes.
LEMMA BoxesMore ==
    \A b, reg, more, ids, ids2 :
       reg \subseteq more /\ ids \subseteq ids2 /\ Boxes(b, reg, ids) => Boxes(b, more, ids2)
  BY DEF Boxes, Box, Refers

\* What a scan collected stays in a store that grows.
LEMMA ScannedMore ==
    \A q, ids, ids2 : ids \subseteq ids2 /\ Scanned(q, ids) => Scanned(q, ids2)
  BY DEF Scanned

\* Key tables stay within the registered keys when another is registered.
LEMMA TablesMore ==
    \A k, reg, more : reg \subseteq more /\ Tables(k, reg) => Tables(k, more)
  BY DEF Tables, Table

\* Registering another key takes no attribution of a note being processed back.
LEMMA StacksMore ==
    \A s, reg, more : reg \subseteq more /\ Stacks(s, reg) => Stacks(s, more)
  BY SoundMore DEF Stacks, Nested

\* Registering another key takes no attribution of a stored note back.
LEMMA StoreMore ==
    \A d, reg, more : reg \subseteq more /\ Store(d, reg) => Store(d, more)
  BY SoundMore DEF Store

-----------------------------------------------------------------------------
(* Queues, tables and stacks *)

\* The thread after a thread is a thread.
LEMMA FollowingType == \A t \in Threads : Following(t) \in Threads
  BY EnvelopesAssumption DEF Threads, Following

\* Appending a message that refers to what is registered or stored keeps an inbox sound.
LEMMA BoxAppend ==
    \A q, reg, ids : \A m \in Messages :
       Box(q, reg, ids) /\ Refers(m, reg, ids) /\ Len(q) < InboxSize
          => Box(Append(q, m), reg, ids)
  <1> SUFFICES ASSUME NEW q, NEW reg, NEW ids, NEW m \in Messages,
                      Box(q, reg, ids), Refers(m, reg, ids), Len(q) < InboxSize
               PROVE  Box(Append(q, m), reg, ids)
    OBVIOUS
  <1>1. Append(q, m) \in Seq(Messages) /\ Len(Append(q, m)) = Len(q) + 1
    BY DEF Box
  <1>2. \A i \in 1..Len(q) + 1 : Append(q, m)[i] = IF i <= Len(q) THEN q[i] ELSE m
    BY DEF Box
  <1>3. \A i \in 1..Len(q) + 1 : Refers(Append(q, m)[i], reg, ids)
    BY <1>2 DEF Box
  <1> QED BY <1>1, <1>3, EnvelopesAssumption DEF Box

\* The first message of a sound inbox is sound, and so is the rest.
LEMMA BoxTail ==
    \A q, reg, ids : Box(q, reg, ids) /\ q # <<>> =>
       /\ Box(Tail(q), reg, ids)
       /\ Head(q) \in Messages
       /\ Refers(Head(q), reg, ids)
  <1> SUFFICES ASSUME NEW q, NEW reg, NEW ids, Box(q, reg, ids), q # <<>>
               PROVE  /\ Box(Tail(q), reg, ids)
                      /\ Head(q) \in Messages
                      /\ Refers(Head(q), reg, ids)
    OBVIOUS
  <1>1. /\ Tail(q) \in Seq(Messages)
        /\ Len(Tail(q)) = Len(q) - 1
        /\ \A i \in 1..Len(q) - 1 : Tail(q)[i] = q[i + 1]
    BY HeadTailProperties DEF Box
  <1>2. Len(q) \in Nat /\ Len(q) >= 1 /\ q[1] \in Messages /\ Head(q) = q[1]
    BY DEF Box
  <1>3. \A i \in 1..Len(q) - 1 : Refers(Tail(q)[i], reg, ids)
    BY <1>1, <1>2 DEF Box
  <1>4. Refers(Head(q), reg, ids)
    BY <1>2 DEF Box
  <1> QED BY <1>1, <1>2, <1>3, <1>4, EnvelopesAssumption DEF Box

\* Replacing one inbox by a sound one keeps all of them sound.
LEMMA BoxesPut ==
    \A b, reg, ids, q : \A t \in Threads :
       Boxes(b, reg, ids) /\ Box(q, reg, ids) => Boxes([b EXCEPT ![t] = q], reg, ids)
  BY DEF Boxes, Box

\* A dispatch, to a full inbox too, keeps all inboxes sound.
LEMMA BoxesDispatched ==
    \A b, reg, ids : \A t \in Threads, m \in Messages :
       Boxes(b, reg, ids) /\ Refers(m, reg, ids) => Boxes(Dispatched(b, t, m), reg, ids)
  <1> SUFFICES ASSUME NEW b, NEW reg, NEW ids, NEW t \in Threads, NEW m \in Messages,
                      Boxes(b, reg, ids), Refers(m, reg, ids)
               PROVE  Boxes(Dispatched(b, t, m), reg, ids)
    OBVIOUS
  <1>1. CASE Len(b[t]) < InboxSize
    <2> DEFINE q == Append(b[t], m)
    <2>1. Box(q, reg, ids)
      BY <1>1, BoxAppend DEF Boxes
    <2>2. Dispatched(b, t, m) = [b EXCEPT ![t] = q]
      BY <1>1 DEF Dispatched
    <2> HIDE DEF q
    <2>3. Boxes([b EXCEPT ![t] = q], reg, ids)
      BY <2>1, BoxesPut
    <2> QED BY <2>2, <2>3
  <1>2. CASE ~(Len(b[t]) < InboxSize)
    BY <1>2 DEF Dispatched
  <1> QED BY <1>1, <1>2

\* Taking the first message of one inbox keeps all of them sound.
LEMMA BoxesTail ==
    \A b, reg, ids : \A t \in Threads :
       Boxes(b, reg, ids) /\ b[t] # <<>> =>
          /\ Boxes([b EXCEPT ![t] = Tail(@)], reg, ids)
          /\ Head(b[t]) \in Messages
          /\ Refers(Head(b[t]), reg, ids)
  <1> SUFFICES ASSUME NEW b, NEW reg, NEW ids, NEW t \in Threads, Boxes(b, reg, ids), b[t] # <<>>
               PROVE  /\ Boxes([b EXCEPT ![t] = Tail(@)], reg, ids)
                      /\ Head(b[t]) \in Messages
                      /\ Refers(Head(b[t]), reg, ids)
    OBVIOUS
  <1> DEFINE q == Tail(b[t])
  <1>1. Box(q, reg, ids) /\ Head(b[t]) \in Messages /\ Refers(Head(b[t]), reg, ids)
    BY BoxTail DEF Boxes
  <1>2. [b EXCEPT ![t] = Tail(@)] = [b EXCEPT ![t] = q]
    OBVIOUS
  <1> HIDE DEF q
  <1> QED BY <1>1, <1>2, BoxesPut

\* Adding a registered key to one thread's table keeps every table within the registered
\* keys.
LEMMA TablesPut ==
    \A k, reg : \A t \in Threads, p \in Secrets :
       Tables(k, reg) /\ p \in reg => Tables([k EXCEPT ![t] = WithKey(@, p)], reg)
  <1> SUFFICES ASSUME NEW k, NEW reg, NEW t \in Threads, NEW p \in Secrets,
                      Tables(k, reg), p \in reg
               PROVE  Tables([k EXCEPT ![t] = WithKey(@, p)], reg)
    OBVIOUS
  <1> DEFINE s == k[t]
             q == WithKey(s, p)
  <1>1. Table(s, reg)
    BY DEF Tables
  <1>2. Table(q, reg)
    <2> HIDE DEF s
    <2>1. CASE Len(s) < MaxKeys
      <3>1. q = Append(s, p)
        BY <2>1 DEF WithKey
      <3>2. q \in Seq(Secrets) /\ Len(q) = Len(s) + 1
        BY <1>1, <3>1 DEF Table
      <3>3. \A i \in 1..Len(s) + 1 : q[i] = IF i <= Len(s) THEN s[i] ELSE p
        BY <1>1, <3>1 DEF Table
      <3> HIDE DEF q
      <3>4. \A i \in 1..Len(s) + 1 : q[i] \in reg
        BY <1>1, <3>3 DEF Table
      <3>5. Len(s) \in Nat
        BY <1>1 DEF Table
      <3> QED BY <2>1, <3>2, <3>4, <3>5, EnvelopesAssumption DEF Table
    <2>2. CASE ~(Len(s) < MaxKeys)
      BY <1>1, <2>2 DEF WithKey
    <2> QED BY <2>1, <2>2
  <1>3. [k EXCEPT ![t] = WithKey(@, p)] = [k EXCEPT ![t] = q]
    OBVIOUS
  <1> HIDE DEF q
  <1> QED BY <1>2, <1>3 DEF Tables, Table

\* Pushing a sound note keeps the writer's inbox sound.
LEMMA QueueAppend ==
    \A q, reg : \A m \in Orders :
       Queue(q, reg) /\ Sound(m.note, reg) /\ Len(q) < WriterInboxSize
          => Queue(Append(q, m), reg)
  <1> SUFFICES ASSUME NEW q, NEW reg, NEW m \in Orders,
                      Queue(q, reg), Sound(m.note, reg), Len(q) < WriterInboxSize
               PROVE  Queue(Append(q, m), reg)
    OBVIOUS
  <1>1. Append(q, m) \in Seq(Orders) /\ Len(Append(q, m)) = Len(q) + 1
    BY DEF Queue
  <1>2. \A i \in 1..Len(q) + 1 : Append(q, m)[i] = IF i <= Len(q) THEN q[i] ELSE m
    BY DEF Queue
  <1>3. \A i \in 1..Len(q) + 1 : Sound(Append(q, m)[i].note, reg)
    BY <1>2 DEF Queue
  <1> QED BY <1>1, <1>3, EnvelopesAssumption DEF Queue

\* The first note of the writer's inbox is sound, and so is the rest.
LEMMA QueueTail ==
    \A q, reg : Queue(q, reg) /\ q # <<>> =>
       /\ Queue(Tail(q), reg)
       /\ Head(q) \in Orders
       /\ Sound(Head(q).note, reg)
       /\ Len(Tail(q)) = Len(q) - 1
  <1> SUFFICES ASSUME NEW q, NEW reg, Queue(q, reg), q # <<>>
               PROVE  /\ Queue(Tail(q), reg)
                      /\ Head(q) \in Orders
                      /\ Sound(Head(q).note, reg)
                      /\ Len(Tail(q)) = Len(q) - 1
    OBVIOUS
  <1>1. /\ Tail(q) \in Seq(Orders)
        /\ Len(Tail(q)) = Len(q) - 1
        /\ \A i \in 1..Len(q) - 1 : Tail(q)[i] = q[i + 1]
    BY HeadTailProperties DEF Queue
  <1>2. Len(q) \in Nat /\ Len(q) >= 1 /\ q[1] \in Orders /\ Head(q) = q[1]
    BY DEF Queue
  <1>3. \A i \in 1..Len(q) - 1 : Sound(Tail(q)[i].note, reg)
    BY <1>1, <1>2 DEF Queue
  <1>4. Sound(Head(q).note, reg)
    BY <1>2 DEF Queue
  <1> QED BY <1>1, <1>2, <1>3, <1>4, EnvelopesAssumption DEF Queue

\* The front of a stack, and a stack whose last frame is replaced.
LEMMA NestedFront ==
    \A s, reg : Nested(s, reg) /\ s # <<>> =>
       /\ Nested(Front(s), reg)
       /\ Len(Front(s)) = Len(s) - 1
       /\ Len(s) \in 1..Depth + 1
       /\ s[Len(s)] \in Frames
  <1> SUFFICES ASSUME NEW s, NEW reg, Nested(s, reg), s # <<>>
               PROVE  /\ Nested(Front(s), reg)
                      /\ Len(Front(s)) = Len(s) - 1
                      /\ Len(s) \in 1..Depth + 1
                      /\ s[Len(s)] \in Frames
    OBVIOUS
  <1>1. Len(s) \in Nat /\ Len(s) >= 1 /\ Len(s) <= Depth + 1 /\ Depth \in Nat
    BY EnvelopesAssumption DEF Nested
  <1>2. /\ Front(s) \in Seq(Frames)
        /\ Len(Front(s)) = Len(s) - 1
        /\ \A i \in 1..Len(s) - 1 : Front(s)[i] = s[i]
    <2> DEFINE last == Len(s) - 1
               q == SubSeq(s, 1, last)
    <2>1. last \in Int /\ 1 \in Int /\ \A i \in 1..last : s[i] \in Frames
      BY <1>1 DEF Nested
    <2>2. /\ q \in Seq(Frames)
          /\ Len(q) = IF 1 <= last THEN last - 1 + 1 ELSE 0
          /\ \A i \in 1..last - 1 + 1 : q[i] = s[1 + i - 1]
      <3> HIDE DEF last
      <3> QED BY <2>1, SubSeqProperties
    <2>3. Len(q) = last
      <3>1. last \in Nat
        BY <1>1
      <3>2. Len(q) = IF 1 <= last THEN last - 1 + 1 ELSE 0
        BY <2>2
      <3> HIDE DEF q, last
      <3> QED BY <3>1, <3>2
    <2>4. \A i \in 1..last : q[i] = s[i]
      <3> HIDE DEF q
      <3> QED BY <1>1, <2>2
    <2> QED BY <2>2, <2>3, <2>4 DEF Front
  <1>3. Nested(Front(s), reg)
    BY <1>1, <1>2 DEF Nested
  <1>4. s[Len(s)] \in Frames
    BY <1>1 DEF Nested
  <1> QED BY <1>1, <1>2, <1>3, <1>4

\* A stack grows by a note that has one layer less to go.
LEMMA NestedAppend ==
    \A s, reg : \A f \in Frames :
       /\ Nested(s, reg)
       /\ Len(s) <= Depth
       /\ Sound(f.note, reg)
       /\ Within(f.note.id, Depth - Len(s))
       => /\ Nested(Append(s, f), reg)
          /\ Len(Append(s, f)) = Len(s) + 1
  <1> SUFFICES ASSUME NEW s, NEW reg, NEW f \in Frames, Nested(s, reg), Len(s) <= Depth,
                      Sound(f.note, reg), Within(f.note.id, Depth - Len(s))
               PROVE  Nested(Append(s, f), reg) /\ Len(Append(s, f)) = Len(s) + 1
    OBVIOUS
  <1>1. Len(s) \in Nat /\ Depth \in Nat
    BY EnvelopesAssumption DEF Nested
  <1>2. Append(s, f) \in Seq(Frames) /\ Len(Append(s, f)) = Len(s) + 1
    BY DEF Nested
  <1>3. \A i \in 1..Len(s) + 1 : Append(s, f)[i] = IF i <= Len(s) THEN s[i] ELSE f
    BY DEF Nested
  <1> DEFINE q == Append(s, f)
  <1> HIDE DEF q
  <1>4. ASSUME NEW i \in 1..Len(s) + 1
        PROVE  Sound(q[i].note, reg) /\ Within(q[i].note.id, Depth + 1 - i)
    <2>1. CASE i <= Len(s)
      BY <2>1, <1>1, <1>3 DEF Nested, q
    <2>2. CASE i = Len(s) + 1
      <3>1. q[i] = f
        BY <2>2, <1>1, <1>3 DEF q
      <3>2. Depth + 1 - i = Depth - Len(s)
        BY <2>2, <1>1
      <3> QED BY <3>1, <3>2
    <2> QED BY <2>1, <2>2, <1>1
  <1>5. Nested(q, reg)
    BY <1>1, <1>2, <1>4 DEF Nested, q
  <1> QED BY <1>2, <1>5 DEF q

\* Replacing one stack by a sound one keeps all of them sound.
LEMMA StacksPut ==
    \A s, reg, q : \A t \in Threads :
       Stacks(s, reg) /\ Nested(q, reg) => Stacks([s EXCEPT ![t] = q], reg)
  BY DEF Stacks, Nested

-----------------------------------------------------------------------------
(* The steps of the client *)

\* A client's event is attributed to nobody but its own author.
LEMMA ProcessEventStep ==
    ASSUME EInv, NEW j \in Events, ProcessEvent(j) PROVE EInv'
  <1> DEFINE m == [type |-> "event", json |-> j]
  <1>1. m \in Messages /\ \A reg, ids : Refers(m, reg, ids)
    BY EnvelopesAssumption DEF Messages, Refers
  <1>2. turn' \in Threads
    BY FollowingType DEF EInv, ProcessEvent
  <1>3. inbox' = Dispatched(inbox, turn', m)
    BY DEF ProcessEvent
  <1> HIDE DEF m
  <1>4. Boxes(inbox', registered, DOMAIN db)
    BY <1>1, <1>2, <1>3, BoxesDispatched DEF EInv
  <1> QED BY <1>2, <1>4 DEF EInv, ProcessEvent, keyVars

\* threadpool_dispatch_all_threads
LEMMA BoxesToAll ==
    ASSUME NEW reg, NEW ids, Boxes(inbox, reg, ids), NEW m \in Messages, Refers(m, reg, ids)
    PROVE  Boxes(ToAllThreads(m), reg, ids)
  <1> DEFINE b == ToAllThreads(m)
  <1>1. ASSUME NEW t \in Threads PROVE Box(b[t], reg, ids)
    <2>1. CASE \A s \in 0..t : Fits(inbox, s)
      <3>1. t \in 0..t
        BY EnvelopesAssumption DEF Threads
      <3>2. Len(inbox[t]) < InboxSize
        BY <2>1, <3>1 DEF Fits
      <3>3. b[t] = Append(inbox[t], m)
        BY <2>1 DEF ToAllThreads
      <3>4. Box(inbox[t], reg, ids)
        BY DEF Boxes
      <3> HIDE DEF b
      <3> QED BY <3>2, <3>3, <3>4, BoxAppend
    <2>2. CASE ~\A s \in 0..t : Fits(inbox, s)
      BY <2>2 DEF ToAllThreads, Boxes
    <2> QED BY <2>1, <2>2
  <1>2. b = [t \in Threads |-> b[t]]
    BY DEF ToAllThreads
  <1> HIDE DEF b
  <1>3. \A t \in Threads : b[t] \in Seq(Messages)
    BY <1>1 DEF Box
  <1>4. b \in [Threads -> Seq(Messages)]
    BY <1>2, <1>3
  <1>5. Boxes(b, reg, ids)
    BY <1>1, <1>4 DEF Boxes
  <1> QED BY <1>5 DEF b

\* Registering a key or a team root only makes more attributions good.
LEMMA AddSecretStep ==
    ASSUME EInv, NEW type \in {"key", "team"}, NEW p \in Secrets, AddSecret(type, p) PROVE EInv'
  <1> DEFINE m == [type |-> type, key |-> p]
  <1>1. registered' = registered \cup {p} /\ registered \subseteq registered' /\ p \in registered'
    BY DEF AddSecret
  <1>2. m \in Messages /\ \A ids : Refers(m, registered', ids)
    BY <1>1 DEF Messages, Refers
  <1>3. Boxes(inbox, registered', DOMAIN db)
    BY <1>1, BoxesMore DEF EInv
  <1>4. inbox' = ToAllThreads(m)
    BY DEF AddSecret
  <1> HIDE DEF m
  <1>5. Boxes(inbox', registered', DOMAIN db)
    BY <1>2, <1>3, <1>4, BoxesToAll
  <1>6. /\ db' = db /\ writer' = writer /\ stack' = stack /\ turn' = turn /\ scan' = scan
        /\ keys' = keys /\ pns' = pns /\ sns' = sns
    BY DEF AddSecret, keyVars
  <1>7. Store(db, registered') /\ Queue(writer, registered') /\ Stacks(stack, registered')
    BY <1>1, StoreMore, QueueMore, StacksMore DEF EInv
  <1>8. Tables(keys, registered') /\ Tables(pns, registered') /\ Tables(sns, registered')
    BY <1>1, TablesMore DEF EInv
  <1> QED BY <1>1, <1>5, <1>6, <1>7, <1>8 DEF EInv

\* A scan collects envelopes that are in the store.
LEMMA ScanBeginStep ==
    ASSUME EInv, NEW kind, ScanBegin(kind) PROVE EInv'
  <1> DEFINE S == Unpeeled(kind)
  <1>1. S \subseteq DOMAIN db
    BY DEF Unpeeled
  <1>2. IsFiniteSet(S)
    BY <1>1, FS_Subset DEF EInv, Store
  <1>3. Cardinality(S) \in Nat
    BY <1>2, FS_CardinalityType
  <1>4. scan' \in SetToSeqs(S)
    BY DEF ScanBegin
  <1>5. scan' \in [1..Cardinality(S) -> S]
    BY <1>4 DEF SetToSeqs
  <1>6. DOMAIN db \subseteq Ids
    BY DEF EInv, Store
  <1> HIDE DEF S
  <1>7. scan' \in Seq(Ids)
    BY <1>1, <1>3, <1>5, <1>6
  <1>8. Len(scan') = Cardinality(S)
    BY <1>3, <1>5
  <1>9. Scanned(scan', DOMAIN db)
    BY <1>1, <1>5, <1>7, <1>8 DEF Scanned
  <1> QED BY <1>9 DEF EInv, ScanBegin, keyVars

\* A dispatched envelope is one the scan collected, and so still stored.
LEMMA ScanDispatchStep ==
    ASSUME EInv, ScanDispatch PROVE EInv'
  <1> DEFINE m == [type |-> "peel", note |-> Head(scan)]
  <1>1. scan \in Seq(Ids) /\ scan # <<>> /\ Len(scan) \in Nat /\ Len(scan) >= 1
    BY DEF EInv, Scanned, ScanDispatch
  <1>2. Head(scan) \in Ids /\ Head(scan) \in DOMAIN db
    BY <1>1 DEF EInv, Scanned
  <1>3. m \in Messages /\ Refers(m, registered, DOMAIN db)
    BY <1>2 DEF Messages, Refers
  <1>4. turn' \in Threads
    BY FollowingType DEF EInv, ScanDispatch
  <1>5. inbox' = Dispatched(inbox, turn', m)
    BY DEF ScanDispatch
  <1> HIDE DEF m
  <1>6. Boxes(inbox', registered, DOMAIN db)
    BY <1>3, <1>4, <1>5, BoxesDispatched DEF EInv
  <1>7. Scanned(Tail(scan), DOMAIN db)
    <2>1. /\ Tail(scan) \in Seq(Ids)
          /\ Len(Tail(scan)) = Len(scan) - 1
          /\ \A i \in 1..Len(scan) - 1 : Tail(scan)[i] = scan[i + 1]
      BY <1>1, HeadTailProperties
    <2>2. \A i \in 1..Len(scan) - 1 : Tail(scan)[i] \in DOMAIN db
      BY <1>1, <2>1 DEF EInv, Scanned
    <2> QED BY <2>1, <2>2 DEF Scanned
  <1>8. scan' \in {Tail(scan), <<>>}
    BY DEF ScanDispatch
  <1>9. Scanned(scan', DOMAIN db)
    BY <1>7, <1>8, EmptyTyped
  <1> QED BY <1>4, <1>6, <1>9 DEF EInv, ScanDispatch, keyVars

-----------------------------------------------------------------------------
(* The steps of a thread *)

\* The message a thread takes.
LEMMA Received ==
    ASSUME EInv, NEW t \in Threads, NEW type, Receives(t, type), Consume(t)
    PROVE  /\ Boxes(inbox', registered, DOMAIN db)
           /\ Head(inbox[t]) \in Messages
           /\ Head(inbox[t]).type = type
           /\ Refers(Head(inbox[t]), registered, DOMAIN db)
  <1>1. inbox[t] # <<>> /\ Boxes(inbox, registered, DOMAIN db) /\ Head(inbox[t]).type = type
    BY DEF EInv, Receives
  <1>2. inbox' = [inbox EXCEPT ![t] = Tail(@)]
    BY DEF Consume
  <1>3. Boxes([inbox EXCEPT ![t] = Tail(@)], registered, DOMAIN db)
    BY <1>1, BoxesTail
  <1> QED BY <1>1, <1>2, <1>3, BoxesTail

\* The key a thread adds to its table was registered.
LEMMA TakeKeyStep ==
    ASSUME EInv, NEW t \in Threads, TakeKey(t) PROVE EInv'
  <1> DEFINE p == Head(inbox[t]).key
  <1>1. /\ Boxes(inbox', registered, DOMAIN db)
        /\ Head(inbox[t]) \in Messages
        /\ Head(inbox[t]).type = "key"
        /\ Refers(Head(inbox[t]), registered, DOMAIN db)
    BY Received DEF TakeKey
  <1>2. p \in registered /\ p \in Secrets
    BY <1>1 DEF Refers, EInv
  <1>3. /\ keys' = [keys EXCEPT ![t] = WithKey(@, p)]
        /\ pns' = [pns EXCEPT ![t] = WithKey(@, p)]
    BY DEF TakeKey
  <1> HIDE DEF p
  <1>4. Tables([keys EXCEPT ![t] = WithKey(@, p)], registered)
    BY <1>2, TablesPut DEF EInv
  <1>5. Tables([pns EXCEPT ![t] = WithKey(@, p)], registered)
    BY <1>2, TablesPut DEF EInv
  <1>6. Tables(keys', registered) /\ Tables(pns', registered)
    BY <1>3, <1>4, <1>5
  <1> QED BY <1>1, <1>6 DEF EInv, TakeKey

\* The team root a thread adds to its table was registered.
LEMMA TakeTeamRootStep ==
    ASSUME EInv, NEW t \in Threads, TakeTeamRoot(t) PROVE EInv'
  <1> DEFINE p == Head(inbox[t]).key
  <1>1. /\ Boxes(inbox', registered, DOMAIN db)
        /\ Head(inbox[t]) \in Messages
        /\ Head(inbox[t]).type = "team"
        /\ Refers(Head(inbox[t]), registered, DOMAIN db)
    BY Received DEF TakeTeamRoot
  <1>2. p \in registered /\ p \in Secrets
    BY <1>1 DEF Refers, EInv
  <1>3. sns' = [sns EXCEPT ![t] = WithKey(@, p)]
    BY DEF TakeTeamRoot
  <1> HIDE DEF p
  <1>4. Tables([sns EXCEPT ![t] = WithKey(@, p)], registered)
    BY <1>2, TablesPut DEF EInv
  <1>5. Tables(sns', registered)
    BY <1>3, <1>4
  <1> QED BY <1>1, <1>5 DEF EInv, TakeTeamRoot

\* A thread starts on a note.
LEMMA NestedOne ==
    ASSUME NEW n \in Notes, NEW reg, Sound(n, reg), NEW store \in BOOLEAN
    PROVE  Nested(<<Frame(n, store, TRUE)>>, reg)
  <1> DEFINE f == Frame(n, store, TRUE)
             q == <<f>>
  <1>1. f \in Frames /\ f.note = n
    BY DEF Frame, Frames
  <1> HIDE DEF f
  <1>2. q \in Seq(Frames) /\ Len(q) = 1 /\ q[1] = f
    BY <1>1
  <1> HIDE DEF q
  <1>3. Within(n.id, Depth) /\ Depth \in Nat /\ Depth + 1 - 1 = Depth
    BY EnvelopesAssumption DEF Sound
  <1>4. \A i \in 1..Len(q) : i = 1
    BY <1>2
  <1>5. Nested(q, reg)
    BY <1>1, <1>2, <1>3, <1>4 DEF Nested
  <1> QED BY <1>5 DEF q, f

\* An event that arrives starts a stack of one plain note.
LEMMA TakeEventStep ==
    ASSUME EInv, NEW t \in Threads, TakeEvent(t) PROVE EInv'
  <1> DEFINE j == Head(inbox[t]).json
             n == NoteOf(j)
  <1>1. /\ Boxes(inbox', registered, DOMAIN db)
        /\ Head(inbox[t]) \in Messages
        /\ Head(inbox[t]).type = "event"
    BY Received DEF TakeEvent
  <1>2. j \in Jsons
    BY <1>1 DEF Messages
  <1>3. \/ stack' = stack
        \/ Accepts(n) /\ stack' = [stack EXCEPT ![t] = <<Frame(n, TRUE, TRUE)>>]
    BY DEF TakeEvent
  <1>4. Stacks(stack, registered)
    BY DEF EInv
  <1> HIDE DEF j
  <1>5. ASSUME Accepts(n), stack' = [stack EXCEPT ![t] = <<Frame(n, TRUE, TRUE)>>]
        PROVE  Stacks(stack', registered)
    <2>1. n \in Notes /\ Sound(n, registered)
      BY <1>2, <1>5, EventSound
    <2> DEFINE q == <<Frame(n, TRUE, TRUE)>>
    <2>2. Nested(q, registered)
      <3> HIDE DEF n
      <3> QED BY <2>1, NestedOne
    <2>3. stack' = [stack EXCEPT ![t] = q]
      BY <1>5
    <2> HIDE DEF q
    <2>4. Stacks([stack EXCEPT ![t] = q], registered)
      BY <1>4, <2>2, StacksPut
    <2> QED BY <2>3, <2>4
  <1>6. Stacks(stack', registered)
    BY <1>3, <1>4, <1>5
  <1> QED BY <1>1, <1>6 DEF EInv, TakeEvent, keyVars

\* A stored note, read.
LEMMA NoteAtTyped ==
    ASSUME NEW d, NEW reg, Store(d, reg), NEW id \in DOMAIN d
    PROVE  NoteAt(d, id) \in Notes /\ Sound(NoteAt(d, id), reg)
  BY DEF Store, Stored, NoteAt, Notes

\* A reprocessed envelope starts a stack with the note that is stored.
LEMMA TakePeelStep ==
    ASSUME EInv, NEW t \in Threads, TakePeel(t) PROVE EInv'
  <1> DEFINE id == Head(inbox[t]).note
             n == NoteAt(db, id)
             q == <<Frame(n, FALSE, TRUE)>>
  <1>1. /\ Boxes(inbox', registered, DOMAIN db)
        /\ Head(inbox[t]) \in Messages
        /\ Head(inbox[t]).type = "peel"
        /\ Refers(Head(inbox[t]), registered, DOMAIN db)
    BY Received DEF TakePeel
  <1>2. id \in DOMAIN db
    BY <1>1 DEF Refers
  <1>3. stack' = [stack EXCEPT ![t] = q]
    BY DEF TakePeel, NoteAt
  <1>4. Stacks(stack, registered) /\ Store(db, registered)
    BY DEF EInv
  <1> HIDE DEF id
  <1>5. n \in Notes /\ Sound(n, registered)
    BY <1>2, <1>4, NoteAtTyped
  <1> HIDE DEF n
  <1>6. Nested(q, registered)
    BY <1>5, NestedOne
  <1> HIDE DEF q
  <1>7. Stacks([stack EXCEPT ![t] = q], registered)
    BY <1>4, <1>6, StacksPut
  <1>8. Stacks(stack', registered)
    BY <1>3, <1>7
  <1> QED BY <1>1, <1>8 DEF EInv, TakePeel, keyVars

\* The innermost frame, its note and the keys at hand for it.
LEMMA TopTyped ==
    ASSUME EInv, NEW t \in Threads, stack[t] # <<>>
    PROVE  /\ Nested(stack[t], registered)
           /\ Top(t) \in Frames
           /\ Sound(Top(t).note, registered)
           /\ Len(stack[t]) \in 1..Depth + 1
           /\ Within(Top(t).note.id, Depth + 1 - Len(stack[t]))
           /\ Nested(Front(stack[t]), registered)
           /\ Len(Front(stack[t])) = Len(stack[t]) - 1
  <1>1. Nested(stack[t], registered)
    BY DEF EInv, Stacks
  <1> DEFINE s == stack[t]
  <1> HIDE DEF s
  <1>2. /\ Nested(Front(s), registered)
        /\ Len(Front(s)) = Len(s) - 1
        /\ Len(s) \in 1..Depth + 1
        /\ s[Len(s)] \in Frames
    BY <1>1, NestedFront DEF s
  <1>3. Len(s) \in 1..Len(s)
    BY <1>2, EnvelopesAssumption
  <1>4. Sound(s[Len(s)].note, registered) /\ Within(s[Len(s)].note.id, Depth + 1 - Len(s))
    BY <1>1, <1>3 DEF Nested, s
  <1> QED BY <1>1, <1>2, <1>4 DEF Top, s

\* What one layer yields is attributed to the party that sealed it, opened with a
\* registered key, and one layer less deep.
LEMMA InsideSound ==
    ASSUME EInv, NEW t \in Threads, stack[t] # <<>>, NEW n \in Inside(t)
    PROVE  /\ n \in Notes
           /\ Sound(n, registered)
           /\ Within(n.id, Depth - Len(stack[t]))
           /\ Len(stack[t]) <= Depth
  <1> DEFINE d == Depth + 1 - Len(stack[t])
             o == Top(t).note
             ps == IF Top(t).storage THEN pns[t] ELSE <<>>
             ss == IF Top(t).teams THEN sns[t] ELSE <<>>
             ks == keys[t]
  <1>1. Top(t) \in Frames /\ Len(stack[t]) \in 1..Depth + 1 /\ Within(o.id, d)
    BY TopTyped
  <1>2. d \in Int /\ d - 1 = Depth - Len(stack[t])
    BY <1>1, EnvelopesAssumption
  <1>3. o.id \in Ids
    BY <1>1 DEF Frames, Notes
  <1>4. Table(<<>>, registered)
    BY EnvelopesAssumption DEF Table
  <1>5. Table(ks, registered) /\ Table(ps, registered) /\ Table(ss, registered)
    BY <1>4 DEF EInv, Tables
  <1>6. n \in Peeled(o, ks, ps, ss)
    BY DEF Inside
  <1>7. registered \subseteq Secrets
    BY DEF EInv
  <1>8. n \in Notes /\ Sound(n, registered) /\ Within(n.id, d - 1) /\ d >= 1
    <2>1. Within(o.id, d)
      BY <1>1
    <2>2. d \in Int
      BY <1>2
    <2> HIDE DEF d, o, ps, ss, ks
    <2> QED BY <1>3, <1>5, <1>6, <1>7, <2>1, <2>2, PeeledSound
  <1>9. Within(n.id, Depth - Len(stack[t]))
    <2> HIDE DEF d
    <2> QED BY <1>2, <1>8
  <1>10. Len(stack[t]) <= Depth
    BY <1>1, <1>8, EnvelopesAssumption
  <1> QED BY <1>8, <1>9, <1>10

\* The top of a stack replaced by a frame of the same note.
LEMMA NestedReplaced ==
    ASSUME EInv, NEW t \in Threads, stack[t] # <<>>, NEW f \in Frames, f.note = Top(t).note
    PROVE  /\ Nested(Front(stack[t]) \o <<f>>, registered)
           /\ Len(Front(stack[t]) \o <<f>>) = Len(stack[t])
  <1> DEFINE s == Front(stack[t])
             len == Len(stack[t])
  <1>1. /\ Nested(s, registered) /\ Len(s) = len - 1 /\ len \in 1..Depth + 1
        /\ Sound(f.note, registered) /\ Within(f.note.id, Depth + 1 - len)
    BY TopTyped
  <1>2. s \in Seq(Frames)
    BY <1>1 DEF Nested
  <1> HIDE DEF s, len
  <1>3. s \o <<f>> = Append(s, f)
    BY <1>2
  <1>4. Len(s) <= Depth /\ Depth - Len(s) = Depth + 1 - len /\ Len(s) + 1 = len
    BY <1>1, EnvelopesAssumption
  <1>5. Within(f.note.id, Depth - Len(s))
    BY <1>1, <1>4
  <1>6. Nested(Append(s, f), registered) /\ Len(Append(s, f)) = Len(s) + 1
    BY <1>1, <1>4, <1>5, NestedAppend
  <1>7. Nested(s \o <<f>>, registered) /\ Len(s \o <<f>>) = len
    BY <1>3, <1>4, <1>6
  <1> QED BY <1>7 DEF s, len

\* Opening a layer pushes a sound note on the stack.
LEMMA PeelStep ==
    ASSUME EInv, NEW t \in Threads, Peel(t) PROVE EInv'
  <1> DEFINE f == [Top(t) EXCEPT !.done = TRUE, !.unwrapped = TRUE]
             g(n) == [Frame(n, TRUE, FALSE) EXCEPT !.storage = Top(t).note.id.kind = "pns"]
             s == Front(stack[t]) \o <<f>>
  <1>1. PICK n \in Inside(t) : stack' = [stack EXCEPT ![t] = Append(s, g(n))]
    BY DEF Peel
  <1> DEFINE h == g(n)
  <1>2. stack[t] # <<>>
    BY DEF Peel
  <1>3. Top(t) \in Frames
    BY <1>2, TopTyped
  <1>4. f \in Frames /\ f.note = Top(t).note
    BY <1>3 DEF Frames
  <1>5. Nested(s, registered) /\ Len(s) = Len(stack[t])
    <2> HIDE DEF f
    <2> QED BY <1>2, <1>4, NestedReplaced
  <1>6. /\ n \in Notes
        /\ Sound(n, registered)
        /\ Within(n.id, Depth - Len(stack[t]))
        /\ Len(stack[t]) <= Depth
    BY <1>2, InsideSound
  <1>7. h \in Frames /\ h.note = n
    BY <1>6 DEF Frame, Frames
  <1>8. stack' = [stack EXCEPT ![t] = Append(s, h)]
    BY <1>1
  <1> HIDE DEF s, h
  <1>9. Nested(Append(s, h), registered)
    BY <1>5, <1>6, <1>7, NestedAppend
  <1> DEFINE q == Append(s, h)
  <1>10. stack' = [stack EXCEPT ![t] = q] /\ Nested(q, registered)
    BY <1>8, <1>9
  <1> HIDE DEF q
  <1>11. Stacks([stack EXCEPT ![t] = q], registered)
    BY <1>10, StacksPut DEF EInv
  <1>12. Stacks(stack', registered)
    BY <1>10, <1>11
  <1> QED BY <1>12 DEF EInv, Peel, keyVars

\* A note that is no envelope, or that no key opens, is only marked as done; a repost
\* dispatches the event inside it.
LEMMA PlainStep ==
    ASSUME EInv, NEW t \in Threads, Plain(t) PROVE EInv'
  <1> DEFINE f == [Top(t) EXCEPT !.done = TRUE]
             q == Front(stack[t]) \o <<f>>
             id == Top(t).note.id
             m == [type |-> "event", json |-> id.inside]
  <1>1. stack' = [stack EXCEPT ![t] = q] /\ stack[t] # <<>>
    BY DEF Plain
  <1>2. Top(t) \in Frames /\ Sound(Top(t).note, registered)
    BY <1>1, TopTyped
  <1>3. f \in Frames /\ f.note = Top(t).note
    BY <1>2 DEF Frames
  <1>4. Nested(q, registered)
    <2> HIDE DEF f
    <2> QED BY <1>1, <1>3, NestedReplaced
  <1>5. Stacks(stack', registered)
    <2> HIDE DEF q
    <2>1. Stacks([stack EXCEPT ![t] = q], registered)
      BY <1>4, StacksPut DEF EInv
    <2> QED BY <1>1, <2>1
  <1>6. turn' \in Threads /\ Boxes(inbox', registered, DOMAIN db)
    <2>1. CASE id.kind = "repost" /\ id.inside # Garbage
      <3>1. id.inside \in Jsons
        BY <1>2, <2>1 DEF Sound, Within
      <3>2. m \in Messages /\ Refers(m, registered, DOMAIN db)
        BY <3>1 DEF Messages, Refers
      <3>3. turn' = Following(turn) /\ inbox' = Dispatched(inbox, turn', m)
        BY <2>1 DEF Plain
      <3>4. turn' \in Threads
        BY <3>3, FollowingType DEF EInv
      <3> HIDE DEF m
      <3>5. Boxes(inbox', registered, DOMAIN db)
        BY <3>2, <3>3, <3>4, BoxesDispatched DEF EInv
      <3> QED BY <3>4, <3>5
    <2>2. CASE ~(id.kind = "repost" /\ id.inside # Garbage)
      BY <2>2 DEF Plain, EInv
    <2> QED BY <2>1, <2>2
  <1> QED BY <1>5, <1>6 DEF EInv, Plain, keyVars

\* Handing a processed note to the writer hands on its attribution.
LEMMA PushStep ==
    ASSUME EInv, NEW t \in Threads, Push(t) PROVE EInv'
  <1> DEFINE f == Top(t)
             m == [note |-> f.note, unwrapped |-> MarkOf(f), over |-> FALSE]
             q == Front(stack[t])
  <1>1. stack' = [stack EXCEPT ![t] = q] /\ stack[t] # <<>>
    BY DEF Push
  <1>2. f \in Frames /\ Sound(f.note, registered) /\ Nested(q, registered)
    BY <1>1, TopTyped
  <1>3. Stacks(stack', registered)
    <2> HIDE DEF q
    <2>1. Stacks([stack EXCEPT ![t] = q], registered)
      BY <1>2, StacksPut DEF EInv
    <2> QED BY <1>1, <2>1
  <1>4. m \in Orders /\ Sound(m.note, registered)
    <2> HIDE DEF f
    <2> QED BY <1>2 DEF Orders, Frames, MarkOf
  <1>5. \/ Len(writer) < WriterInboxSize /\ writer' = Append(writer, m)
        \/ writer' = writer
    BY DEF Push
  <1> HIDE DEF m
  <1>6. Queue(writer', registered)
    BY <1>4, <1>5, QueueAppend DEF EInv
  <1> QED BY <1>3, <1>6 DEF EInv, Push, keyVars

-----------------------------------------------------------------------------
(* The steps of the writer and of the process *)

\* A message written to the store.
LEMMA StorePut ==
    ASSUME NEW d, NEW reg, Store(d, reg), NEW m \in Orders, Sound(m.note, reg), NEW e,
           e = [id \in DOMAIN d \cup {m.note.id} |->
                   IF id = m.note.id THEN Record(m) ELSE d[id]]
    PROVE  Store(e, reg) /\ DOMAIN d \subseteq DOMAIN e
  <1> DEFINE n == m.note
             x == n.id
             r == Record(m)
  <1>1. n \in Notes /\ x \in Ids /\ m.unwrapped \in BOOLEAN
    BY DEF Orders, Notes
  <1>2. r \in Stored /\ r.rumor = n.rumor /\ r.receiver = n.receiver /\ r.wrap = n.wrap
    BY <1>1 DEF Record, Stored, Notes
  <1>3. /\ DOMAIN e = DOMAIN d \cup {x}
        /\ e[x] = r
        /\ \A id \in DOMAIN d : id # x => e[id] = d[id]
    OBVIOUS
  <1>4. Sound(n, reg)
    OBVIOUS
  <1> HIDE DEF n, r
  <1>5. IsFiniteSet(DOMAIN e)
    <2>1. IsFiniteSet(DOMAIN d)
      BY DEF Store
    <2> HIDE DEF x
    <2> QED BY <1>3, <2>1, FS_AddElement
  <1>6. DOMAIN e \subseteq Ids
    BY <1>1, <1>3 DEF Store
  <1>7. ASSUME NEW id \in DOMAIN e PROVE e[id] \in Stored /\ Sound(NoteAt(e, id), reg)
    <2>1. CASE id = x
      <3>1. /\ NoteAt(e, id).id = n.id /\ NoteAt(e, id).rumor = n.rumor
            /\ NoteAt(e, id).receiver = n.receiver /\ NoteAt(e, id).wrap = n.wrap
        BY <2>1, <1>2, <1>3 DEF NoteAt
      <3>2. Sound(NoteAt(e, id), reg)
        BY <1>4, <3>1 DEF Sound
      <3> QED BY <1>2, <1>3, <2>1, <3>2
    <2>2. CASE id # x
      <3>1. id \in DOMAIN d /\ e[id] = d[id]
        BY <1>3, <2>2
      <3>2. NoteAt(e, id) = NoteAt(d, id)
        BY <3>1 DEF NoteAt
      <3> QED BY <3>1, <3>2 DEF Store
    <2> QED BY <2>1, <2>2
  <1> QED BY <1>3, <1>5, <1>6, <1>7 DEF Store

\* Storing or promoting a note stores its attribution.
LEMMA WriteStep ==
    ASSUME EInv, Write PROVE EInv'
  <1> DEFINE m == Head(writer)
             w == m.note.wrap
             mark == IF Writes(m) THEN ToMark(m) ELSE {}
             e == [id \in DOMAIN db \cup {m.note.id} |->
                      IF id = m.note.id THEN Record(m) ELSE db[id]]
  <1>1. writer # <<>> /\ Queue(writer, registered) /\ Store(db, registered)
    BY DEF Write, EInv
  <1>2. /\ Queue(Tail(writer), registered)
        /\ m \in Orders
        /\ Sound(m.note, registered)
        /\ Len(Tail(writer)) = Len(writer) - 1
    BY <1>1, QueueTail
  <1>3. db' = IF Writes(m) THEN e ELSE db
    BY DEF Write
  <1>4. Store(db', registered) /\ DOMAIN db \subseteq DOMAIN db'
    <2>1. Store(e, registered) /\ DOMAIN db \subseteq DOMAIN e
      <3> HIDE DEF m
      <3> QED BY <1>1, <1>2, StorePut
    <2> HIDE DEF e
    <2> QED BY <1>1, <1>3, <2>1
  <1>5. \/ writer' = Tail(writer)
        \/ mark # {} /\ Len(writer) - 1 < WriterInboxSize /\ writer' = Append(Tail(writer), Marking(w))
    BY DEF Write
  <1>6. ASSUME mark # {} PROVE w \in DOMAIN db
    BY <1>6 DEF ToMark
  <1>7. Queue(writer', registered)
    <2>1. CASE writer' = Tail(writer)
      BY <1>2, <2>1
    <2>2. CASE mark # {} /\ Len(writer) - 1 < WriterInboxSize /\ writer' = Append(Tail(writer), Marking(w))
      <3>1. w \in DOMAIN db
        BY <1>6, <2>2
      <3> HIDE DEF w
      <3>2. NoteAt(db, w) \in Notes /\ Sound(NoteAt(db, w), registered)
        BY <1>1, <3>1, NoteAtTyped
      <3> DEFINE o == Marking(w)
      <3>3. o.note = NoteAt(db, w) /\ o = [note |-> NoteAt(db, w), unwrapped |-> TRUE, over |-> TRUE]
        BY DEF Marking, NoteAt
      <3>4. o \in Orders /\ Sound(o.note, registered)
        BY <3>2, <3>3 DEF Orders
      <3>5. Len(Tail(writer)) < WriterInboxSize /\ writer' = Append(Tail(writer), o)
        BY <1>2, <2>2
      <3> DEFINE tail == Tail(writer)
      <3> HIDE DEF o, tail
      <3>6. Queue(tail, registered) /\ Len(tail) < WriterInboxSize /\ writer' = Append(tail, o)
        BY <1>2, <3>5 DEF tail
      <3>7. Queue(Append(tail, o), registered)
        BY <3>4, <3>6, QueueAppend
      <3> QED BY <3>6, <3>7
    <2> QED BY <1>5, <2>1, <2>2
  <1>8. UNCHANGED <<inbox, stack, keys, pns, sns, turn, registered, scan>>
    BY DEF Write, keyVars
  <1>9. Boxes(inbox, registered, DOMAIN db') /\ Scanned(scan, DOMAIN db')
    BY <1>4, BoxesMore, ScannedMore DEF EInv
  <1> QED BY <1>4, <1>7, <1>8, <1>9 DEF EInv

\* A restart keeps the store and forgets everything else.
LEMMA CrashStep ==
    ASSUME EInv, Crash PROVE EInv'
  BY EmptyTyped DEF EInv, Crash

\* A step that changes nothing keeps the invariant.
LEMMA StutterStep ==
    ASSUME EInv, UNCHANGED vars PROVE EInv'
  BY DEF EInv, vars

\* Every step of clients, threads, writer and restarts keeps the invariant.
LEMMA NextEInv == EInv /\ [Next]_vars => EInv'
  <1> SUFFICES ASSUME EInv, [Next]_vars PROVE EInv'
    OBVIOUS
  <1>1. CASE Client
    <2>1. CASE \E j \in Events : ProcessEvent(j)
      BY <2>1, ProcessEventStep
    <2>2. CASE \E p \in Devices : AddSecret("key", p)
      BY <2>2, AddSecretStep DEF Secrets
    <2>3. CASE \E p \in Teams : AddSecret("team", p)
      BY <2>3, AddSecretStep DEF Secrets
    <2>4. CASE \E kind \in {"giftwrap", "pns", "sns"} : ScanBegin(kind)
      BY <2>4, ScanBeginStep
    <2>5. CASE ScanDispatch
      BY <2>5, ScanDispatchStep
    <2> QED BY <1>1, <2>1, <2>2, <2>3, <2>4, <2>5 DEF Client
  <1>2. CASE \E t \in Threads : Ingester(t)
    <2>1. PICK t \in Threads : Ingester(t)
      BY <1>2
    <2>2. CASE TakeKey(t)
      BY <2>2, TakeKeyStep
    <2>3. CASE TakeTeamRoot(t)
      BY <2>3, TakeTeamRootStep
    <2>4. CASE TakeEvent(t)
      BY <2>4, TakeEventStep
    <2>5. CASE TakePeel(t)
      BY <2>5, TakePeelStep
    <2>6. CASE Peel(t)
      BY <2>6, PeelStep
    <2>7. CASE Plain(t)
      BY <2>7, PlainStep
    <2>8. CASE Push(t)
      BY <2>8, PushStep
    <2> QED BY <2>1, <2>2, <2>3, <2>4, <2>5, <2>6, <2>7, <2>8 DEF Ingester
  <1>3. CASE Write
    BY <1>3, WriteStep
  <1>4. CASE Crash
    BY <1>4, CrashStep
  <1>5. CASE UNCHANGED vars
    BY <1>5, StutterStep
  <1> QED BY <1>1, <1>2, <1>3, <1>4, <1>5 DEF Next

\* Every note in the store, on a thread's stack or on its way to the writer is
\* vouched for, and opened for a secret the client gave, whatever is nested in
\* what and in whichever order keys and envelopes arrive.
THEOREM EnvelopesInvariant == Spec => []EInv
  <1>1. Init => EInv
    BY InitEInv
  <1>2. EInv /\ [Next]_vars => EInv'
    BY NextEInv
  <1> QED BY <1>1, <1>2, PTL DEF Spec

\* The author of every stored note stands for it, a rumor is stored for a secret
\* the client gave, and queues, key tables and stacks stay in their bounds
\* (RumorsVouched; nostrdb.c:7215-7242, 8146, 8190, 8254).
THEOREM EnvelopesVouched == Spec => []RumorsVouched
  <1>1. EInv => RumorsVouched
    <2> SUFFICES ASSUME EInv PROVE RumorsVouched
      OBVIOUS
    <2>1. ASSUME NEW id \in DOMAIN db
          PROVE  /\ db[id] \in Stored
                 /\ VouchedBy(id, db[id].rumor, db[id].receiver, db[id].wrap)
                 /\ db[id].rumor => OpenedFor(db[id].receiver, db[id].wrap, registered)
      <3>1. /\ NoteAt(db, id).id = id /\ NoteAt(db, id).rumor = db[id].rumor
            /\ NoteAt(db, id).receiver = db[id].receiver /\ NoteAt(db, id).wrap = db[id].wrap
        BY DEF NoteAt
      <3>2. db[id] \in Stored /\ Sound(NoteAt(db, id), registered)
        BY DEF EInv, Store
      <3> QED BY <3>1, <3>2 DEF Sound
    <2>2. AuthorsVouched
      BY <2>1 DEF AuthorsVouched, VouchedBy
    <2>3. ReceiversRegistered
      BY <2>1 DEF ReceiversRegistered, OpenedFor
    <2>4. \A id \in DOMAIN db : db[id].unwrapped \in BOOLEAN /\ db[id].rumor \in BOOLEAN
      BY <2>1 DEF Stored
    <2>5. Len(writer) <= WriterInboxSize /\ turn \in Threads
      BY DEF EInv, Queue
    <2>6. ASSUME NEW t \in Threads
          PROVE  /\ Len(inbox[t]) <= InboxSize
                 /\ {Len(keys[t]), Len(pns[t]), Len(sns[t])} \subseteq 0..MaxKeys
                 /\ Len(stack[t]) <= Depth + 1
      <3>1. Len(inbox[t]) <= InboxSize /\ Len(stack[t]) <= Depth + 1
        BY DEF EInv, Boxes, Box, Stacks, Nested
      <3>2. Table(keys[t], registered) /\ Table(pns[t], registered) /\ Table(sns[t], registered)
        BY DEF EInv, Tables
      <3>3. \A s : Table(s, registered) => Len(s) \in 0..MaxKeys
        BY EnvelopesAssumption DEF Table
      <3> QED BY <3>1, <3>2, <3>3
    <2>7. TypeOK
      BY <2>4, <2>5, <2>6 DEF TypeOK
    <2> QED BY <2>2, <2>3, <2>7 DEF RumorsVouched
  <1> QED BY <1>1, EnvelopesInvariant, PTL

-----------------------------------------------------------------------------
(* What an envelope holds, for sets of keys *)

\* What is inside the envelope w, for the keys K, the storage keys P and the team
\* keys T.
Inner(w, K, P, T) ==
    {m \in CASE w.kind = "giftwrap" ->
                    UNION {Seal(w.inside, k, w) : k \in {k \in K : Opens(w.lock, Ecdh(w.author, k))}}
             [] w.kind = "pns" -> Pns(w, [d \in P |-> d])
             [] w.kind = "sns" -> Sns(w, [t \in T |-> t])
             [] OTHER -> {} : Accepts(m)}

\* One key or none opens an envelope, so that what it holds does not depend on
\* the order of the keys.
Inmost(m, w, K, P, T) ==
    /\ Accepts(m)
    /\ \/ /\ w.kind = "giftwrap"
          /\ \E k \in K : Opens(w.lock, Ecdh(w.author, k)) /\ m \in Seal(w.inside, k, w)
       \/ /\ w.kind = "pns"
          /\ \E d \in P : /\ w.author = PnsKey(d)
                          /\ Opens(w.lock, Symmetric(PnsKey(d)))
                          /\ w.inside # Garbage
                          /\ m = Rumor(w.inside, IF w.inside.author = Nobody THEN d ELSE w.inside.author, d, w)
       \/ /\ w.kind = "sns"
          /\ \E t \in T : w.author = t /\ Opens(w.lock, Symmetric(t)) /\ m \in Seal(w.inside, t, w)

\* A set of numbers that is not empty has a least one.
LEMMA LeastNat ==
    ASSUME NEW S \in SUBSET Nat, S # {}
    PROVE  \E x \in S : \A y \in S : x <= y
  <1> DEFINE R == {ss \in Nat \X Nat : ss[1] < ss[2]}
  <1>a. IsWellFoundedOn(R, Nat)
    BY NatLessThanWellFounded DEF OpToRel
  <1>b. \A x, y \in Nat : x < y => <<x, y>> \in R
    OBVIOUS
  <1> HIDE DEF R
  <1>1. PICK x \in S : \A y \in S : ~(<<y, x>> \in R)
    BY <1>a, WFMin
  <1>2. \A y \in S : x <= y
    <2> SUFFICES ASSUME NEW y \in S PROVE x <= y
      OBVIOUS
    <2>1. x \in Nat /\ y \in Nat /\ ~(y < x)
      BY <1>1, <1>b
    <2> QED BY <2>1
  <1> QED BY <1>2

\* The range of a function that keeps what it is given.
LEMMA RangeSame == \A S : Range([x \in S |-> x]) = S
  BY DEF Range

\* What comes out of private storage, by the keys.
LEMMA PnsIs ==
    \A w, ps, m :
       m \in Pns(w, ps) <=>
          \E d \in Range(ps) :
             /\ w.author = PnsKey(d)
             /\ Opens(w.lock, Symmetric(PnsKey(d)))
             /\ w.inside # Garbage
             /\ m = Rumor(w.inside, IF w.inside.author = Nobody THEN d ELSE w.inside.author, d, w)
  BY Zenon DEF Pns

\* What comes out of a shared envelope, by the keys.
LEMMA SnsIs ==
    \A w, ss, m :
       m \in Sns(w, ss) <=>
          \E t \in Range(ss) : w.author = t /\ Opens(w.lock, Symmetric(t)) /\ m \in Seal(w.inside, t, w)
  BY Zenon DEF Sns

\* The first key that opens a gift wrap is as good as any.
LEMMA GiftwrapIs ==
    ASSUME NEW w, NEW X, NEW ks \in Seq(X), NEW m
    PROVE  m \in Giftwrap(w, ks) <=>
              \E k \in Range(ks) : Opens(w.lock, Ecdh(w.author, k)) /\ m \in Seal(w.inside, k, w)
  <1> DEFINE opens == {i \in 1..Len(ks) : Opens(w.lock, Ecdh(w.author, ks[i]))}
             first == {i \in opens : \A j \in opens : i <= j}
  <1>1. m \in Giftwrap(w, ks) <=> \E i \in first : m \in Seal(w.inside, ks[i], w)
    BY Zenon DEF Giftwrap
  <1>2. Range(ks) = {ks[i] : i \in 1..Len(ks)}
    BY LenProperties DEF Range
  <1>3. ASSUME NEW i \in opens, NEW j \in opens PROVE ks[i] = ks[j]
    <2> DEFINE a == w.author
               x == ks[i]
               y == ks[j]
    <2>1. <<"ecdh", {a, x}>> = <<"ecdh", {a, y}>>
      BY DEF Opens, Ecdh
    <2> HIDE DEF a, x, y
    <2>2. {a, x} = {a, y}
      BY <2>1
    <2>3. x = y
      BY <2>2
    <2> QED BY <2>3 DEF x, y
  <1>4. ASSUME opens # {} PROVE first # {}
    <2>1. opens \in SUBSET Nat
      OBVIOUS
    <2> HIDE DEF opens
    <2> QED BY <1>4, <2>1, LeastNat
  <1>5. ASSUME NEW k \in Range(ks), Opens(w.lock, Ecdh(w.author, k)), m \in Seal(w.inside, k, w)
        PROVE  \E i \in first : m \in Seal(w.inside, ks[i], w)
    <2>1. PICK j \in opens : ks[j] = k
      BY <1>2, <1>5
    <2>2. PICK i \in first : TRUE
      BY <1>4, <2>1
    <2>3. i \in opens /\ ks[i] = k
      BY <1>3, <2>1, <2>2
    <2> QED BY <1>5, <2>2, <2>3
  <1>6. ASSUME NEW i \in first, m \in Seal(w.inside, ks[i], w)
        PROVE  \E k \in Range(ks) : Opens(w.lock, Ecdh(w.author, k)) /\ m \in Seal(w.inside, k, w)
    <2>1. i \in 1..Len(ks) /\ Opens(w.lock, Ecdh(w.author, ks[i])) /\ ks[i] \in Range(ks)
      BY <1>2
    <2> QED BY <1>6, <2>1
  <1> QED BY <1>1, <1>5, <1>6

\* What an envelope holds, in one formula.
LEMMA InnerIs ==
    \A m, w, K, P, T : m \in Inner(w, K, P, T) <=> Inmost(m, w, K, P, T)
  <1> SUFFICES ASSUME NEW m, NEW w, NEW K, NEW P, NEW T
               PROVE  m \in Inner(w, K, P, T) <=> Inmost(m, w, K, P, T)
    OBVIOUS
  <1>1. m \in Pns(w, [d \in P |-> d]) <=>
          \E d \in P : /\ w.author = PnsKey(d)
                       /\ Opens(w.lock, Symmetric(PnsKey(d)))
                       /\ w.inside # Garbage
                       /\ m = Rumor(w.inside, IF w.inside.author = Nobody THEN d ELSE w.inside.author, d, w)
    <2> DEFINE ps == [d \in P |-> d]
    <2>1. Range(ps) = P
      BY RangeSame
    <2> HIDE DEF ps
    <2>2. m \in Pns(w, ps) <=>
            \E d \in P : /\ w.author = PnsKey(d)
                         /\ Opens(w.lock, Symmetric(PnsKey(d)))
                         /\ w.inside # Garbage
                         /\ m = Rumor(w.inside, IF w.inside.author = Nobody THEN d ELSE w.inside.author, d, w)
      BY <2>1, PnsIs
    <2> QED BY <2>2 DEF ps
  <1>2. m \in Sns(w, [t \in T |-> t]) <=>
          \E t \in T : w.author = t /\ Opens(w.lock, Symmetric(t)) /\ m \in Seal(w.inside, t, w)
    BY SnsIs, RangeSame, Zenon
  <1>3. CASE w.kind = "giftwrap"
    BY <1>3 DEF Inner, Inmost
  <1>4. CASE w.kind = "pns"
    BY <1>1, <1>4 DEF Inner, Inmost
  <1>5. CASE w.kind = "sns"
    BY <1>2, <1>5 DEF Inner, Inmost
  <1>6. CASE w.kind \notin {"giftwrap", "pns", "sns"}
    BY <1>6 DEF Inner, Inmost
  <1> QED BY <1>3, <1>4, <1>5, <1>6

\* Peeling with tables of keys yields what the envelope holds for the keys in them.
LEMMA PeeledIs ==
    ASSUME NEW n, NEW X, NEW ks \in Seq(X), NEW ps, NEW ss
    PROVE  Peeled(n, ks, ps, ss) = Inner(n.id, Range(ks), Range(ps), Range(ss))
  <1> DEFINE w == n.id
  <1> SUFFICES ASSUME NEW m
               PROVE  m \in Peeled(n, ks, ps, ss) <=> Inmost(m, w, Range(ks), Range(ps), Range(ss))
    BY InnerIs
  <1>1. m \in Peeled(n, ks, ps, ss) <=>
          /\ m \in CASE w.kind = "giftwrap" -> Giftwrap(w, ks)
                     [] w.kind = "pns"      -> Pns(w, ps)
                     [] w.kind = "sns"      -> Sns(w, ss)
                     [] OTHER               -> {}
          /\ Accepts(m)
    BY Zenon DEF Peeled
  <1> HIDE DEF w
  <1>2. m \in Giftwrap(w, ks) <=>
              \E k \in Range(ks) : Opens(w.lock, Ecdh(w.author, k)) /\ m \in Seal(w.inside, k, w)
    BY GiftwrapIs
  <1>3. CASE w.kind = "giftwrap"
    BY <1>1, <1>2, <1>3 DEF Inmost
  <1>4. CASE w.kind = "pns"
    BY <1>1, <1>4, PnsIs DEF Inmost
  <1>5. CASE w.kind = "sns"
    BY <1>1, <1>5, SnsIs DEF Inmost
  <1>6. CASE w.kind \notin {"giftwrap", "pns", "sns"}
    BY <1>1, <1>6 DEF Inmost
  <1> QED BY <1>3, <1>4, <1>5, <1>6

\* More keys take nothing back.
LEMMA InnerMore ==
    \A w, K, P, T, K2, P2, T2 :
       K \subseteq K2 /\ P \subseteq P2 /\ T \subseteq T2 => Inner(w, K, P, T) \subseteq Inner(w, K2, P2, T2)
  <1>1. \A m, w, K, P, T, K2, P2, T2 :
           K \subseteq K2 /\ P \subseteq P2 /\ T \subseteq T2 /\ Inmost(m, w, K, P, T)
              => Inmost(m, w, K2, P2, T2)
    BY DEF Inmost
  <1> QED BY <1>1, InnerIs

\* A finite set written out as a sequence.
LEMMA SetToSeqIs ==
    ASSUME NEW S, IsFiniteSet(S)
    PROVE  SetToSeq(S) \in Seq(S) /\ Range(SetToSeq(S)) = S
  <1> DEFINE N == Cardinality(S)
             f == SetToSeq(S)
  <1>1. N \in Nat /\ ExistsBijection(1..N, S)
    BY FS_CardinalityType
  <1>2. \E g \in [1..N -> S] : IsInjective(g)
    BY <1>1 DEF ExistsBijection, Bijection, Injection, IsInjective
  <1>3. f \in [1..N -> S] /\ IsInjective(f)
    BY <1>2 DEF SetToSeq
  <1>4. Cardinality(1..N) = N
    BY <1>1, FS_Interval
  <1> HIDE DEF f, N
  <1>5. f \in Injection(1..N, S)
    BY <1>3 DEF Injection, IsInjective
  <1>6. f \in Surjection(1..N, S)
    BY <1>4, <1>5, FS_Injection DEF N
  <1>7. Range(f) = S
    BY <1>3, <1>6 DEF Range, Surjection
  <1>8. f \in Seq(S)
    BY <1>1, <1>3
  <1> QED BY <1>7, <1>8 DEF f

\* The members of a sequence.
LEMMA RangeIs ==
    ASSUME NEW X, NEW s \in Seq(X)
    PROVE  /\ Range(s) = {s[i] : i \in 1..Len(s)}
           /\ IsFiniteSet(Range(s))
  <1>1. Len(s) \in Nat /\ DOMAIN s = 1..Len(s)
    OBVIOUS
  <1>2. Range(s) = {s[i] : i \in 1..Len(s)}
    BY <1>1 DEF Range
  <1>3. s \in Surjection(1..Len(s), Range(s))
    BY <1>1, <1>2 DEF Surjection
  <1>4. IsFiniteSet(1..Len(s))
    BY <1>1, FS_Interval
  <1> QED BY <1>2, <1>3, <1>4, FS_Surjection

\* One more secret in a table.
LEMMA RangeAppend ==
    ASSUME NEW X, NEW s \in Seq(X), NEW p \in X
    PROVE  Range(Append(s, p)) = Range(s) \cup {p}
  <1>1. /\ Append(s, p) \in Seq(X)
        /\ Len(Append(s, p)) = Len(s) + 1
        /\ \A i \in 1..Len(s) + 1 : Append(s, p)[i] = IF i <= Len(s) THEN s[i] ELSE p
        /\ Len(s) \in Nat
    OBVIOUS
  <1>2. Range(s) = {s[i] : i \in 1..Len(s)}
    BY RangeIs
  <1>3. Range(Append(s, p)) = {Append(s, p)[i] : i \in 1..Len(s) + 1}
    BY <1>1, RangeIs
  <1> DEFINE q == Append(s, p)
  <1> HIDE DEF q
  <1>4. ASSUME NEW x PROVE (\E i \in 1..Len(s) + 1 : x = q[i]) <=> (\E i \in 1..Len(s) : x = s[i]) \/ x = p
    <2>1. ASSUME NEW i \in 1..Len(s) + 1, x = q[i] PROVE (\E j \in 1..Len(s) : x = s[j]) \/ x = p
      BY <1>1, <2>1 DEF q
    <2>2. ASSUME NEW i \in 1..Len(s), x = s[i] PROVE \E j \in 1..Len(s) + 1 : x = q[j]
      <3>1. i \in 1..Len(s) + 1 /\ q[i] = x
        BY <1>1, <2>2 DEF q
      <3> QED BY <3>1
    <2>3. ASSUME x = p PROVE \E j \in 1..Len(s) + 1 : x = q[j]
      <3>1. Len(s) + 1 \in 1..Len(s) + 1 /\ q[Len(s) + 1] = x
        BY <1>1, <2>3 DEF q
      <3> QED BY <3>1
    <2> QED BY <2>1, <2>2, <2>3
  <1> QED BY <1>2, <1>3, <1>4 DEF q

-----------------------------------------------------------------------------
(* Secrets on their way to a thread *)

\* The secrets of a type among the first n messages of an inbox.
Queued(q, n, type) == {q[i].key : i \in {j \in 1..n : q[j].type = type}}

\* What is queued behind them does not count.
LEMMA QueuedSame ==
    ASSUME NEW q, NEW r, NEW n, NEW type, \A i \in 1..n : r[i] = q[i]
    PROVE  Queued(r, n, type) = Queued(q, n, type)
  BY DEF Queued

\* One more message.
LEMMA QueuedNext ==
    ASSUME NEW q, NEW n \in Nat, NEW type
    PROVE  Queued(q, n + 1, type) = Queued(q, n, type) \cup (IF q[n + 1].type = type THEN {q[n + 1].key} ELSE {})
  <1>1. \A i : i \in 1..(n + 1) <=> i \in 1..n \/ i = n + 1
    OBVIOUS
  <1> QED BY <1>1 DEF Queued

\* A message at the end.
LEMMA QueuedAppend ==
    ASSUME NEW X, NEW q \in Seq(X), NEW m \in X, NEW type, NEW n \in 0..Len(q)
    PROVE  Queued(Append(q, m), n, type) = Queued(q, n, type)
  <1> DEFINE r == Append(q, m)
  <1>1. \A i \in 1..n : r[i] = q[i]
    OBVIOUS
  <1> HIDE DEF r
  <1>2. Queued(r, n, type) = Queued(q, n, type)
    BY <1>1, QueuedSame
  <1> QED BY <1>2 DEF r

\* The secrets in a whole inbox, with one more message.
LEMMA QueuedWhole ==
    \A q \in Seq(Messages), m \in Messages : \A type :
       Queued(Append(q, m), Len(q) + 1, type) =
          Queued(q, Len(q), type) \cup (IF m.type = type THEN {m.key} ELSE {})
  <1> SUFFICES ASSUME NEW q \in Seq(Messages), NEW m \in Messages, NEW type
               PROVE  Queued(Append(q, m), Len(q) + 1, type) =
                         Queued(q, Len(q), type) \cup (IF m.type = type THEN {m.key} ELSE {})
    OBVIOUS
  <1> DEFINE r == Append(q, m)
             N == Len(q)
  <1>1. N \in Nat /\ r[N + 1] = m /\ N \in 0..N
    OBVIOUS
  <1>2. Queued(r, N, type) = Queued(q, N, type)
    BY QueuedAppend
  <1> HIDE DEF r, N
  <1>3. Queued(r, N + 1, type) =
           Queued(r, N, type) \cup (IF r[N + 1].type = type THEN {r[N + 1].key} ELSE {})
    BY <1>1, QueuedNext
  <1>4. Queued(r, N + 1, type) = Queued(q, N, type) \cup (IF m.type = type THEN {m.key} ELSE {})
    BY <1>1, <1>2, <1>3
  <1> QED BY <1>4 DEF r, N

\* The first message is taken.
LEMMA QueuedTail ==
    ASSUME NEW X, NEW q \in Seq(X), q # <<>>, NEW type, NEW n \in 0..(Len(q) - 1)
    PROVE  Queued(q, n + 1, type) =
              (IF Head(q).type = type THEN {Head(q).key} ELSE {}) \cup Queued(Tail(q), n, type)
  <1> DEFINE r == Tail(q)
             N == Len(q)
  <1>1. N \in Nat /\ N >= 1 /\ Head(q) = q[1] /\ \A i \in 1..(N - 1) : r[i] = q[i + 1]
    OBVIOUS
  <1> HIDE DEF r, N
  <1>n. n \in 0..(N - 1)
    BY DEF N
  <1>2. ASSUME NEW x \in Queued(q, n + 1, type)
        PROVE  x \in (IF q[1].type = type THEN {q[1].key} ELSE {}) \cup Queued(r, n, type)
    <2>1. PICK i \in 1..(n + 1) : q[i].type = type /\ x = q[i].key
      BY DEF Queued
    <2>2. CASE i = 1
      BY <2>1, <2>2
    <2>3. CASE i > 1
      <3>1. i - 1 \in 1..n /\ r[i - 1] = q[i]
        BY <2>3, <1>1, <1>n
      <3>2. x \in Queued(r, n, type)
        BY <2>1, <3>1 DEF Queued
      <3> QED BY <3>2
    <2> QED BY <2>1, <2>2, <2>3
  <1>3. ASSUME NEW x \in Queued(r, n, type) PROVE x \in Queued(q, n + 1, type)
    <2>1. PICK i \in 1..n : r[i].type = type /\ x = r[i].key
      BY DEF Queued
    <2>2. i + 1 \in 1..(n + 1) /\ q[i + 1] = r[i]
      BY <1>1, <1>n
    <2> QED BY <2>1, <2>2 DEF Queued
  <1>4. ASSUME q[1].type = type PROVE q[1].key \in Queued(q, n + 1, type)
    <2>1. 1 \in 1..(n + 1)
      OBVIOUS
    <2> QED BY <2>1, <1>4 DEF Queued
  <1>5. Queued(q, n + 1, type) = (IF q[1].type = type THEN {q[1].key} ELSE {}) \cup Queued(r, n, type)
    BY <1>2, <1>3, <1>4
  <1> QED BY <1>1, <1>5 DEF r

\* The secrets of a type that are in a table, or will be after n more messages.
Known(table, q, n, type) == Range(table) \cup Queued(q, n, type)

\* What the envelope w holds for keys and team keys.
Opened(w, K, T) == Inner(w, K, K, T)

\* The envelope w waits in an inbox, behind secrets that open it.
Waits(w, q, k, s) ==
    \E i \in 1..Len(q) :
       /\ q[i].type = "peel"
       /\ q[i].note = w
       /\ Opened(w, Known(k, q, i - 1, "key"), Known(s, q, i - 1, "team")) # {}

\* It stays there when messages come behind it.
LEMMA WaitsAppend ==
    ASSUME NEW q \in Seq(Messages), NEW m \in Messages, NEW w, NEW k, NEW s, Waits(w, q, k, s)
    PROVE  Waits(w, Append(q, m), k, s)
  <1>1. PICK i \in 1..Len(q) :
           /\ q[i].type = "peel"
           /\ q[i].note = w
           /\ Opened(w, Known(k, q, i - 1, "key"), Known(s, q, i - 1, "team")) # {}
    BY DEF Waits
  <1> DEFINE r == Append(q, m)
  <1>2. Len(r) = Len(q) + 1 /\ r[i] = q[i] /\ Len(q) \in Nat
    OBVIOUS
  <1>3. i - 1 \in 0..Len(q)
    BY <1>2
  <1>4. /\ Queued(r, i - 1, "key") = Queued(q, i - 1, "key")
        /\ Queued(r, i - 1, "team") = Queued(q, i - 1, "team")
    BY <1>3, QueuedAppend
  <1> HIDE DEF r
  <1>5. i \in 1..Len(r)
    BY <1>2
  <1>6. Opened(w, Known(k, r, i - 1, "key"), Known(s, r, i - 1, "team")) # {}
    BY <1>1, <1>4 DEF Known
  <1>7. Waits(w, r, k, s)
    BY <1>1, <1>2, <1>5, <1>6 DEF Waits
  <1> QED BY <1>7 DEF r

\* It comes nearer, with the same secrets before it, or it is the first.
LEMMA WaitsTail ==
    ASSUME NEW q \in Seq(Messages), q # <<>>, NEW w, NEW k, NEW s, NEW k2, NEW s2,
           \A n \in 0..(Len(q) - 1) :
              /\ Known(k2, Tail(q), n, "key") = Known(k, q, n + 1, "key")
              /\ Known(s2, Tail(q), n, "team") = Known(s, q, n + 1, "team"),
           Waits(w, q, k, s)
    PROVE  \/ Waits(w, Tail(q), k2, s2)
           \/ /\ Head(q).type = "peel"
              /\ Head(q).note = w
              /\ Opened(w, Range(k), Range(s)) # {}
  <1>1. PICK i \in 1..Len(q) :
           /\ q[i].type = "peel"
           /\ q[i].note = w
           /\ Opened(w, Known(k, q, i - 1, "key"), Known(s, q, i - 1, "team")) # {}
    BY DEF Waits
  <1> DEFINE r == Tail(q)
             N == Len(q)
  <1>2. N \in Nat /\ N >= 1 /\ Len(r) = N - 1 /\ Head(q) = q[1] /\ \A j \in 1..(N - 1) : r[j] = q[j + 1]
    OBVIOUS
  <1>3. CASE i = 1
    <2>1. Queued(q, 0, "key") = {} /\ Queued(q, 0, "team") = {}
      BY DEF Queued
    <2>2. Known(k, q, i - 1, "key") = Range(k) /\ Known(s, q, i - 1, "team") = Range(s)
      BY <1>3, <2>1 DEF Known
    <2> QED BY <1>1, <1>2, <1>3, <2>2
  <1>4. CASE i > 1
    <2> DEFINE j == i - 1
               n == i - 2
    <2>1. j \in 1..(N - 1) /\ r[j] = q[i] /\ n \in 0..(N - 1) /\ n + 1 = i - 1 /\ j - 1 = n
      BY <1>2, <1>4
    <2>2. /\ Known(k2, r, j - 1, "key") = Known(k, q, i - 1, "key")
          /\ Known(s2, r, j - 1, "team") = Known(s, q, i - 1, "team")
      BY <2>1
    <2>3. j \in 1..Len(r)
      BY <2>1, <1>2
    <2> HIDE DEF r, j
    <2>4. Waits(w, r, k2, s2)
      BY <1>1, <2>1, <2>2, <2>3 DEF Waits
    <2> QED BY <2>4 DEF r
  <1> QED BY <1>1, <1>3, <1>4

\* A thread takes the first message and, if it is a key, the key.
LEMMA KnownTaken ==
    ASSUME NEW q \in Seq(Messages), q # <<>>, NEW type, NEW k, NEW k2,
           Range(k2) = Range(k) \cup (IF Head(q).type = type THEN {Head(q).key} ELSE {}),
           NEW n \in 0..(Len(q) - 1)
    PROVE  Known(k2, Tail(q), n, type) = Known(k, q, n + 1, type)
  <1>1. Queued(q, n + 1, type) =
          (IF Head(q).type = type THEN {Head(q).key} ELSE {}) \cup Queued(Tail(q), n, type)
    BY QueuedTail
  <1> QED BY <1>1 DEF Known

-----------------------------------------------------------------------------
(* What a scan found due *)

\* The thread is about to peel w, and has the secrets to do it.
Peeling(w, st, k, s) ==
    /\ Len(st) = 1
    /\ st[1].note.id = w
    /\ ~st[1].done /\ st[1].storage /\ st[1].teams
    /\ Opened(w, Range(k), Range(s)) # {}

\* A note with this id will be pushed, or is in the inbox of the writer.
Stacked(id, st) == \E i \in 1..Len(st) : st[i].note.id = id /\ st[i].store

Pushed(id, q) == \E i \in 1..Len(q) : q[i].note.id = id

OnItsWay(id) == id \in DOMAIN db \/ Pushed(id, writer) \/ \E t \in Threads : Stacked(id, stack[t])

\* The secrets that a thread has once its inbox is empty.
AllKeys(t) == Known(keys[t], inbox[t], Len(inbox[t]), "key")

AllTeams(t) == Known(sns[t], inbox[t], Len(inbox[t]), "team")

\* All threads come to have the same secrets.
Agreed == pns = keys /\ \A t \in Threads : AllKeys(t) = AllKeys(0) /\ AllTeams(t) = AllTeams(0)

\* What w holds is on its way to the store, or w is on its way to be peeled.
Arrives(w) ==
    \/ \E m \in Opened(w, AllKeys(0), AllTeams(0)) : OnItsWay(m.id)
    \/ \E t \in Threads : \/ Waits(w, inbox[t], keys[t], sns[t])
                          \/ Peeling(w, stack[t], keys[t], sns[t])

Fine == Agreed /\ \A w \in due : Arrives(w)

\* As long as nothing is refused, no envelope is lost.
DueInv == ~dropped => Fine

\* A step that carries every part of the way on carries the envelopes on.
LEMMA Carried ==
    ASSUME NEW D, \A w \in D : Arrives(w),
           AllKeys(0) \subseteq AllKeys(0)', AllTeams(0) \subseteq AllTeams(0)',
           \A id : OnItsWay(id) => OnItsWay(id)',
           \A t \in Threads : \A w \in D :
              /\ Waits(w, inbox[t], keys[t], sns[t]) =>
                    \/ Waits(w, inbox'[t], keys'[t], sns'[t])
                    \/ Peeling(w, stack'[t], keys'[t], sns'[t])
              /\ Peeling(w, stack[t], keys[t], sns[t]) =>
                    \/ Peeling(w, stack'[t], keys'[t], sns'[t])
                    \/ \E m \in Opened(w, AllKeys(0)', AllTeams(0)') : OnItsWay(m.id)'
    PROVE  \A w \in D : Arrives(w)'
  <1> SUFFICES ASSUME NEW w \in D PROVE Arrives(w)'
    OBVIOUS
  <1>1. CASE \E m \in Opened(w, AllKeys(0), AllTeams(0)) : OnItsWay(m.id)
    <2>1. Opened(w, AllKeys(0), AllTeams(0)) \subseteq Opened(w, AllKeys(0)', AllTeams(0)')
      BY InnerMore DEF Opened
    <2>2. \E m \in Opened(w, AllKeys(0)', AllTeams(0)') : OnItsWay(m.id)'
      BY <1>1, <2>1
    <2> QED BY <2>2 DEF Arrives
  <1>2. CASE \E t \in Threads : \/ Waits(w, inbox[t], keys[t], sns[t])
                                \/ Peeling(w, stack[t], keys[t], sns[t])
    <2>1. \/ \E m \in Opened(w, AllKeys(0)', AllTeams(0)') : OnItsWay(m.id)'
          \/ \E t \in Threads : \/ Waits(w, inbox'[t], keys'[t], sns'[t])
                                \/ Peeling(w, stack'[t], keys'[t], sns'[t])
      BY <1>2
    <2> QED BY <2>1 DEF Arrives
  <1> QED BY <1>1, <1>2 DEF Arrives

\* The types of what belongs to a thread.
LEMMA ThreadTypes ==
    ASSUME EInv, NEW t \in Threads
    PROVE  /\ inbox[t] \in Seq(Messages)
           /\ keys[t] \in Seq(Secrets) /\ pns[t] \in Seq(Secrets) /\ sns[t] \in Seq(Secrets)
           /\ stack[t] \in Seq(Frames)
  BY DEF EInv, Boxes, Box, Tables, Table, Stacks, Nested

\* The first thread.
LEMMA FirstThread == 0 \in Threads
  BY EnvelopesAssumption DEF Threads

\* What is kept when nothing changes that the secrets and the envelopes are in.
LEMMA ThreadSame ==
    ASSUME NEW t, inbox'[t] = inbox[t], keys'[t] = keys[t], sns'[t] = sns[t]
    PROVE  /\ AllKeys(t)' = AllKeys(t)
           /\ AllTeams(t)' = AllTeams(t)
           /\ \A w : Waits(w, inbox[t], keys[t], sns[t]) => Waits(w, inbox'[t], keys'[t], sns'[t])
  BY DEF AllKeys, AllTeams

\* A message comes to a thread.
LEMMA ThreadAppend ==
    ASSUME EInv, NEW t \in Threads, NEW m \in Messages, inbox'[t] = Append(inbox[t], m),
           keys'[t] = keys[t], sns'[t] = sns[t]
    PROVE  /\ AllKeys(t)' = AllKeys(t) \cup (IF m.type = "key" THEN {m.key} ELSE {})
           /\ AllTeams(t)' = AllTeams(t) \cup (IF m.type = "team" THEN {m.key} ELSE {})
           /\ \A w : Waits(w, inbox[t], keys[t], sns[t]) => Waits(w, inbox'[t], keys'[t], sns'[t])
  <1> DEFINE q == inbox[t]
             r == Append(q, m)
  <1>1. q \in Seq(Messages) /\ inbox'[t] = r /\ Len(r) = Len(q) + 1
    BY ThreadTypes
  <1>2. \A type : Queued(r, Len(q) + 1, type) =
                    Queued(q, Len(q), type) \cup (IF m.type = type THEN {m.key} ELSE {})
    <2> TAKE type
    <2>1. q \in Seq(Messages)
      BY <1>1
    <2> HIDE DEF q, r
    <2>2. Queued(Append(q, m), Len(q) + 1, type) =
             Queued(q, Len(q), type) \cup (IF m.type = type THEN {m.key} ELSE {})
      BY <2>1, QueuedWhole, Zenon
    <2> QED BY <2>2 DEF r
  <1>3. \A k, s, w : Waits(w, q, k, s) => Waits(w, r, k, s)
    BY <1>1, WaitsAppend
  <1> HIDE DEF r
  <1>4. AllKeys(t)' = Range(keys[t]) \cup Queued(r, Len(q) + 1, "key")
    BY <1>1 DEF AllKeys, Known
  <1>5. AllTeams(t)' = Range(sns[t]) \cup Queued(r, Len(q) + 1, "team")
    BY <1>1 DEF AllTeams, Known
  <1>6. AllKeys(t) = Range(keys[t]) \cup Queued(q, Len(q), "key")
    BY DEF AllKeys, Known
  <1>7. AllTeams(t) = Range(sns[t]) \cup Queued(q, Len(q), "team")
    BY DEF AllTeams, Known
  <1>8. AllKeys(t)' = AllKeys(t) \cup (IF m.type = "key" THEN {m.key} ELSE {})
    BY <1>2, <1>4, <1>6
  <1>9. AllTeams(t)' = AllTeams(t) \cup (IF m.type = "team" THEN {m.key} ELSE {})
    BY <1>2, <1>5, <1>7
  <1>10. \A w : Waits(w, inbox[t], keys[t], sns[t]) => Waits(w, inbox'[t], keys'[t], sns'[t])
    BY <1>1, <1>3
  <1> QED BY <1>8, <1>9, <1>10

\* A message that is no secret comes to one of the threads, or to none.
LEMMA OtherMessage ==
    ASSUME EInv, Agreed, NEW m \in Messages, m.type \notin {"key", "team"}, NEW u \in Threads,
           inbox' = Dispatched(inbox, u, m) \/ inbox' = inbox, UNCHANGED <<keys, pns, sns>>
    PROVE  /\ Agreed'
           /\ AllKeys(0)' = AllKeys(0) /\ AllTeams(0)' = AllTeams(0)
           /\ \A t \in Threads : \A w :
                 Waits(w, inbox[t], keys[t], sns[t]) => Waits(w, inbox'[t], keys'[t], sns'[t])
  <1>1. ASSUME NEW t \in Threads
        PROVE  /\ AllKeys(t)' = AllKeys(t)
               /\ AllTeams(t)' = AllTeams(t)
               /\ \A w : Waits(w, inbox[t], keys[t], sns[t]) => Waits(w, inbox'[t], keys'[t], sns'[t])
    <2>1. inbox \in [Threads -> Seq(Messages)]
      BY DEF EInv, Boxes
    <2>2. inbox'[t] = inbox[t] \/ inbox'[t] = Append(inbox[t], m)
      BY <2>1 DEF Dispatched
    <2>3. CASE inbox'[t] = inbox[t]
      BY <2>3, ThreadSame
    <2>4. CASE inbox'[t] = Append(inbox[t], m)
      <3>1. /\ AllKeys(t)' = AllKeys(t) \cup (IF m.type = "key" THEN {m.key} ELSE {})
            /\ AllTeams(t)' = AllTeams(t) \cup (IF m.type = "team" THEN {m.key} ELSE {})
            /\ \A w : Waits(w, inbox[t], keys[t], sns[t]) => Waits(w, inbox'[t], keys'[t], sns'[t])
        BY <2>4, ThreadAppend
      <3> QED BY <3>1
    <2> QED BY <2>2, <2>3, <2>4
  <1>2. AllKeys(0)' = AllKeys(0) /\ AllTeams(0)' = AllTeams(0)
    BY <1>1, FirstThread
  <1>3. \A t \in Threads : AllKeys(t)' = AllKeys(0)' /\ AllTeams(t)' = AllTeams(0)'
    BY <1>1, <1>2 DEF Agreed
  <1>4. pns' = keys'
    BY DEF Agreed
  <1>5. Agreed'
    BY <1>3, <1>4 DEF Agreed
  <1> QED BY <1>1, <1>2, <1>5

\* A new event waits behind what waits.
LEMMA ProcessEventFine ==
    ASSUME EInv, Fine, NEW j \in Events, ProcessEvent(j) PROVE Fine'
  <1> DEFINE m == [type |-> "event", json |-> j]
  <1>1. m \in Messages /\ m.type \notin {"key", "team"}
    BY EnvelopesAssumption DEF Messages
  <1>2. /\ turn' \in Threads /\ inbox' = Dispatched(inbox, turn', m)
        /\ UNCHANGED <<db, writer, stack, keys, pns, sns, due>>
    BY FollowingType DEF EInv, ProcessEvent, keyVars
  <1> HIDE DEF m
  <1>3. /\ Agreed'
        /\ AllKeys(0)' = AllKeys(0) /\ AllTeams(0)' = AllTeams(0)
        /\ \A t \in Threads : \A w :
              Waits(w, inbox[t], keys[t], sns[t]) => Waits(w, inbox'[t], keys'[t], sns'[t])
    BY <1>1, <1>2, OtherMessage DEF Fine
  <1>4. \A id : OnItsWay(id) => OnItsWay(id)'
    BY <1>2 DEF OnItsWay
  <1>5. \A w \in due : Arrives(w)
    BY DEF Fine
  <1>6. \A w \in due : Arrives(w)'
    BY <1>2, <1>3, <1>4, <1>5, Carried
  <1> QED BY <1>2, <1>3, <1>6 DEF Fine

\* A secret comes to all threads, or something is refused.
LEMMA AddSecretFine ==
    ASSUME EInv, Fine, NEW type \in {"key", "team"}, NEW p \in Secrets, AddSecret(type, p), ~dropped'
    PROVE  Fine'
  <1> DEFINE m == [type |-> type, key |-> p]
  <1>1. m \in Messages /\ m.type = type /\ m.key = p
    BY DEF Messages
  <1>2. \A t \in Threads : Fits(inbox, t)
    BY DEF AddSecret
  <1>3. inbox' = ToAllThreads(m) /\ UNCHANGED <<db, writer, stack, keys, pns, sns, due>>
    BY DEF AddSecret, keyVars
  <1>4. ASSUME NEW t \in Threads PROVE inbox'[t] = Append(inbox[t], m)
    <2>1. \A s \in 0..t : s \in Threads
      BY EnvelopesAssumption DEF Threads
    <2>2. \A s \in 0..t : Fits(inbox, s)
      BY <1>2, <2>1
    <2> HIDE DEF m
    <2> QED BY <1>3, <2>2 DEF ToAllThreads
  <1> HIDE DEF m
  <1>5. ASSUME NEW t \in Threads
        PROVE  /\ AllKeys(t)' = AllKeys(t) \cup (IF m.type = "key" THEN {m.key} ELSE {})
               /\ AllTeams(t)' = AllTeams(t) \cup (IF m.type = "team" THEN {m.key} ELSE {})
               /\ \A w : Waits(w, inbox[t], keys[t], sns[t]) => Waits(w, inbox'[t], keys'[t], sns'[t])
    BY <1>1, <1>3, <1>4, ThreadAppend
  <1>6. \A t \in Threads : AllKeys(t) = AllKeys(0) /\ AllTeams(t) = AllTeams(0)
    BY DEF Fine, Agreed
  <1>7. \A t \in Threads : AllKeys(t)' = AllKeys(0)' /\ AllTeams(t)' = AllTeams(0)'
    BY <1>5, <1>6, FirstThread
  <1>8. AllKeys(0) \subseteq AllKeys(0)' /\ AllTeams(0) \subseteq AllTeams(0)'
    BY <1>5, FirstThread
  <1>9. \A id : OnItsWay(id) => OnItsWay(id)'
    BY <1>3 DEF OnItsWay
  <1>10. \A w \in due : Arrives(w)
    BY DEF Fine
  <1>11. \A w \in due : Arrives(w)'
    BY <1>3, <1>5, <1>8, <1>9, <1>10, Carried
  <1>12. Agreed'
    BY <1>3, <1>7 DEF Fine, Agreed
  <1> QED BY <1>3, <1>11, <1>12 DEF Fine

\* A step that touches none of this.
LEMMA SameFine ==
    ASSUME Fine, UNCHANGED <<db, writer, inbox, stack, keys, pns, sns, due>> PROVE Fine'
  <1>1. Agreed'
    BY DEF Fine, Agreed, AllKeys, AllTeams
  <1>2. \A w \in due : Arrives(w)'
    BY DEF Fine, Arrives, AllKeys, AllTeams, OnItsWay
  <1> QED BY <1>1, <1>2 DEF Fine

\* The secrets that a scan finds given are those the thread will have.
LEMMA GivenIs ==
    ASSUME EInv, NEW t \in Threads, NEW type, NEW table, table[t] \in Seq(Secrets),
           NEW A, A = Known(table[t], inbox[t], Len(inbox[t]), type)
    PROVE  Given(t, type, table) \in Seq(A) /\ Range(Given(t, type, table)) = A
  <1> DEFINE q == inbox[t]
             N == Len(q)
             I == {i \in 1..N : q[i].type = type}
             B == {m.key : m \in {n \in Range(q) : n.type = type}}
  <1>1. q \in Seq(Messages) /\ N \in Nat /\ Range(q) = {q[i] : i \in 1..N}
    <2>1. q \in Seq(Messages)
      BY ThreadTypes
    <2> HIDE DEF q
    <2> QED BY <2>1, RangeIs
  <1>2. B = Queued(q, N, type)
    <2> HIDE DEF q, N
    <2> QED BY <1>1 DEF Queued
  <1>3. IsFiniteSet(Queued(q, N, type))
    <2> DEFINE f == [i \in I |-> q[i].key]
    <2>1. f \in Surjection(I, Queued(q, N, type))
      <3> HIDE DEF q, N
      <3> QED BY DEF Surjection, Queued
    <2>2. IsFiniteSet(1..N)
      <3>1. N \in Int /\ 1 \in Int
        BY <1>1
      <3> HIDE DEF N
      <3> QED BY <3>1, FS_Interval
    <2>3. I \in SUBSET (1..N)
      OBVIOUS
    <2> HIDE DEF I, f
    <2>4. IsFiniteSet(I)
      BY <2>2, <2>3, FS_Subset
    <2> QED BY <2>1, <2>4, FS_Surjection
  <1>4. IsFiniteSet(Range(table[t]))
    BY RangeIs
  <1>5. A = Range(table[t]) \cup B
    BY <1>2 DEF Known
  <1>6. IsFiniteSet(A)
    <2> HIDE DEF q, N, B
    <2> QED BY <1>2, <1>3, <1>4, <1>5, FS_Union
  <1>7. Given(t, type, table) = SetToSeq(A)
    BY <1>5 DEF Given
  <1> QED BY <1>6, <1>7, SetToSeqIs

\* The scan hands an envelope to the next thread, which will have the secrets.
LEMMA ScanDispatchFine ==
    ASSUME EInv, Fine, ScanDispatch, ~dropped' PROVE Fine'
  <1> DEFINE h == Head(scan)
             m == [type |-> "peel", note |-> h]
             u == turn'
             ks == Given(0, "key", keys)
             ss == Given(0, "team", sns)
             q == inbox[u]
             N == Len(q)
  <1>1. scan # <<>> /\ Fits(inbox, u)
    BY DEF ScanDispatch
  <1>2. h \in Ids
    BY <1>1 DEF EInv, Scanned
  <1>3. m \in Messages /\ m.type = "peel" /\ m.note = h
    BY <1>2 DEF Messages
  <1>4. /\ u \in Threads /\ inbox' = Dispatched(inbox, u, m)
        /\ UNCHANGED <<db, writer, stack, keys, pns, sns>>
        /\ due' = due \cup Openable({h}, ks, ss)
    BY FollowingType DEF EInv, ScanDispatch, keyVars
  <1>5. inbox'[u] = Append(q, m)
    <2>1. inbox \in [Threads -> Seq(Messages)]
      BY DEF EInv, Boxes
    <2> HIDE DEF m, u
    <2> QED BY <1>1, <1>4, <2>1 DEF Dispatched, Fits
  <1>6. ks \in Seq(AllKeys(0)) /\ Range(ks) = AllKeys(0)
    <2>1. keys[0] \in Seq(Secrets) /\ AllKeys(0) = Known(keys[0], inbox[0], Len(inbox[0]), "key")
      BY ThreadTypes, FirstThread DEF AllKeys
    <2> QED BY <2>1, GivenIs, FirstThread
  <1>7. ss \in Seq(AllTeams(0)) /\ Range(ss) = AllTeams(0)
    <2>1. sns[0] \in Seq(Secrets) /\ AllTeams(0) = Known(sns[0], inbox[0], Len(inbox[0]), "team")
      BY ThreadTypes, FirstThread DEF AllTeams
    <2> QED BY <2>1, GivenIs, FirstThread
  <1> HIDE DEF m, u, ks, ss
  <1>8. /\ Agreed'
        /\ AllKeys(0)' = AllKeys(0) /\ AllTeams(0)' = AllTeams(0)
        /\ \A t \in Threads : \A w :
              Waits(w, inbox[t], keys[t], sns[t]) => Waits(w, inbox'[t], keys'[t], sns'[t])
    BY <1>3, <1>4, OtherMessage DEF Fine
  <1>9. \A id : OnItsWay(id) => OnItsWay(id)'
    BY <1>4 DEF OnItsWay
  <1>10. \A w \in due : Arrives(w)
    BY DEF Fine
  <1>11. \A w \in due : Arrives(w)'
    BY <1>4, <1>8, <1>9, <1>10, Carried
  <1>12. ASSUME h \in Openable({h}, ks, ss) PROVE Waits(h, inbox'[u], keys'[u], sns'[u])
    <2> DEFINE n == [id |-> h]
    <2>1. Peeled(n, ks, ks, ss) # {}
      BY <1>12 DEF Openable
    <2>2. Peeled(n, ks, ks, ss) = Inner(h, Range(ks), Range(ks), Range(ss))
      <3>1. n.id = h
        OBVIOUS
      <3> HIDE DEF n, h
      <3>2. Peeled(n, ks, ks, ss) = Inner(n.id, Range(ks), Range(ks), Range(ss))
        BY <1>6, PeeledIs
      <3> QED BY <3>1, <3>2
    <2>3. Opened(h, AllKeys(u), AllTeams(u)) # {}
      <3>1. AllKeys(u) = AllKeys(0) /\ AllTeams(u) = AllTeams(0)
        BY <1>4 DEF Fine, Agreed
      <3> HIDE DEF n, h
      <3> QED BY <1>6, <1>7, <2>1, <2>2, <3>1 DEF Opened
    <2> DEFINE r == Append(q, m)
    <2>4. q \in Seq(Messages) /\ N \in Nat /\ N \in 0..N
      BY <1>4, ThreadTypes
    <2>5. r[N + 1] = m /\ Len(r) = N + 1
      BY <1>3, <2>4
    <2>6. Queued(r, N, "key") = Queued(q, N, "key") /\ Queued(r, N, "team") = Queued(q, N, "team")
      <3> HIDE DEF q
      <3> QED BY <1>3, <2>4, QueuedAppend
    <2>7. /\ Known(keys[u], r, N, "key") = AllKeys(u)
          /\ Known(sns[u], r, N, "team") = AllTeams(u)
      BY <2>6 DEF Known, AllKeys, AllTeams
    <2> HIDE DEF r, q, N, n, h
    <2>8. Opened(h, Known(keys[u], r, (N + 1) - 1, "key"), Known(sns[u], r, (N + 1) - 1, "team")) # {}
      BY <2>3, <2>4, <2>7
    <2>9. N + 1 \in 1..Len(r)
      BY <2>4, <2>5
    <2>10. Waits(h, r, keys[u], sns[u])
      BY <1>3, <2>5, <2>8, <2>9 DEF Waits
    <2> QED BY <1>4, <1>5, <2>10 DEF r
  <1>13. ASSUME NEW w \in Openable({h}, ks, ss) PROVE Arrives(w)'
    <2>1. w = h
      BY DEF Openable
    <2> HIDE DEF h
    <2>2. Waits(w, inbox'[u], keys'[u], sns'[u])
      BY <1>12, <2>1
    <2> QED BY <1>4, <2>2 DEF Arrives
  <1> QED BY <1>4, <1>8, <1>11, <1>13 DEF Fine

\* A thread takes its first message.
LEMMA TakenFine ==
    ASSUME EInv, Agreed, NEW t \in Threads, inbox[t] # <<>>, Consume(t), pns' = keys',
           \A s \in Threads : s # t => keys'[s] = keys[s] /\ sns'[s] = sns[s],
           Range(keys'[t]) = Range(keys[t]) \cup (IF Head(inbox[t]).type = "key" THEN {Head(inbox[t]).key} ELSE {}),
           Range(sns'[t]) = Range(sns[t]) \cup (IF Head(inbox[t]).type = "team" THEN {Head(inbox[t]).key} ELSE {})
    PROVE  /\ Agreed'
           /\ AllKeys(0)' = AllKeys(0) /\ AllTeams(0)' = AllTeams(0)
           /\ \A s \in Threads : \A w :
                 Waits(w, inbox[s], keys[s], sns[s]) =>
                    \/ Waits(w, inbox'[s], keys'[s], sns'[s])
                    \/ /\ s = t
                       /\ Head(inbox[t]).type = "peel"
                       /\ Head(inbox[t]).note = w
                       /\ Opened(w, Range(keys[t]), Range(sns[t])) # {}
  <1> DEFINE q == inbox[t]
             k == keys[t]
             x == sns[t]
             k2 == keys'[t]
             x2 == sns'[t]
  <1>1. q \in Seq(Messages) /\ q # <<>>
    BY ThreadTypes
  <1>2. inbox'[t] = Tail(q) /\ \A s \in Threads : s # t => inbox'[s] = inbox[s]
    BY DEF Consume, EInv, Boxes
  <1>3. ASSUME NEW n \in 0..(Len(q) - 1)
        PROVE  /\ Known(k2, Tail(q), n, "key") = Known(k, q, n + 1, "key")
               /\ Known(x2, Tail(q), n, "team") = Known(x, q, n + 1, "team")
    <2>1. /\ Range(k2) = Range(k) \cup (IF Head(q).type = "key" THEN {Head(q).key} ELSE {})
          /\ Range(x2) = Range(x) \cup (IF Head(q).type = "team" THEN {Head(q).key} ELSE {})
      OBVIOUS
    <2> HIDE DEF q, k, x, k2, x2
    <2> QED BY <1>1, <2>1, KnownTaken
  <1>4. AllKeys(t)' = AllKeys(t) /\ AllTeams(t)' = AllTeams(t)
    <2> DEFINE n == Len(q) - 1
    <2>1. n \in 0..(Len(q) - 1) /\ n + 1 = Len(q) /\ Len(Tail(q)) = n
      BY <1>1
    <2>2. AllKeys(t)' = Known(k2, Tail(q), n, "key") /\ AllTeams(t)' = Known(x2, Tail(q), n, "team")
      BY <1>2, <2>1 DEF AllKeys, AllTeams
    <2>3. AllKeys(t) = Known(k, q, n + 1, "key") /\ AllTeams(t) = Known(x, q, n + 1, "team")
      BY <2>1 DEF AllKeys, AllTeams
    <2> HIDE DEF n, q, k, x, k2, x2
    <2> QED BY <1>3, <2>1, <2>2, <2>3
  <1>5. ASSUME NEW s \in Threads PROVE AllKeys(s)' = AllKeys(s) /\ AllTeams(s)' = AllTeams(s)
    <2>1. CASE s = t
      BY <1>4, <2>1
    <2>2. CASE s # t
      BY <1>2, <2>2, ThreadSame
    <2> QED BY <2>1, <2>2
  <1>6. \A s \in Threads : AllKeys(s) = AllKeys(0) /\ AllTeams(s) = AllTeams(0)
    BY DEF Agreed
  <1>7. AllKeys(0)' = AllKeys(0) /\ AllTeams(0)' = AllTeams(0)
    BY <1>5, FirstThread
  <1>8. \A s \in Threads : AllKeys(s)' = AllKeys(0)' /\ AllTeams(s)' = AllTeams(0)'
    BY <1>5, <1>6, <1>7
  <1>9. Agreed'
    BY <1>8 DEF Agreed
  <1>10. ASSUME NEW w, Waits(w, q, k, x)
         PROVE  \/ Waits(w, Tail(q), k2, x2)
                \/ /\ Head(q).type = "peel"
                   /\ Head(q).note = w
                   /\ Opened(w, Range(k), Range(x)) # {}
    <2> HIDE DEF q, k, x, k2, x2
    <2> QED BY <1>1, <1>3, <1>10, WaitsTail
  <1>11. ASSUME NEW s \in Threads, NEW w, Waits(w, inbox[s], keys[s], sns[s])
         PROVE  \/ Waits(w, inbox'[s], keys'[s], sns'[s])
                \/ /\ s = t
                   /\ Head(inbox[t]).type = "peel"
                   /\ Head(inbox[t]).note = w
                   /\ Opened(w, Range(keys[t]), Range(sns[t])) # {}
    <2>1. CASE s = t
      BY <1>2, <1>10, <1>11, <2>1
    <2>2. CASE s # t
      BY <1>2, <1>11, <2>2, ThreadSame
    <2> QED BY <2>1, <2>2
  <1> QED BY <1>7, <1>9, <1>11

\* A thread that works on nothing peels nothing.
LEMMA NotPeeling == \A w, k, s : ~Peeling(w, <<>>, k, s)
  BY DEF Peeling

\* A thread with room for it takes the key in both its tables.
LEMMA TakeKeyFine ==
    ASSUME EInv, Fine, NEW t \in Threads, TakeKey(t), ~dropped' PROVE Fine'
  <1> DEFINE h == Head(inbox[t])
             p == h.key
  <1>1. /\ inbox[t] # <<>> /\ stack[t] = <<>> /\ h.type = "key" /\ Consume(t)
        /\ keys' = [keys EXCEPT ![t] = WithKey(@, p)]
        /\ pns' = [pns EXCEPT ![t] = WithKey(@, p)]
        /\ UNCHANGED <<db, writer, stack, sns, due>>
        /\ Len(keys[t]) # MaxKeys
    BY DEF TakeKey, Receives
  <1>2. h \in Messages /\ p \in Secrets
    <2>1. h \in Messages
      BY <1>1, Received DEF TakeKey
    <2> QED BY <1>1, <2>1 DEF Messages
  <1>3. keys \in [Threads -> Seq(Secrets)] /\ Len(keys[t]) <= MaxKeys /\ keys[t] \in Seq(Secrets)
    BY DEF EInv, Tables, Table
  <1>4. keys'[t] = Append(keys[t], p)
    <2>1. Len(keys[t]) < MaxKeys
      BY <1>1, <1>3, EnvelopesAssumption
    <2> HIDE DEF p
    <2> QED BY <1>1, <1>3, <2>1 DEF WithKey
  <1>5. Range(keys'[t]) = Range(keys[t]) \cup {p}
    <2> HIDE DEF p
    <2> QED BY <1>2, <1>3, <1>4, RangeAppend
  <1>6. pns' = keys'
    BY <1>1 DEF Fine, Agreed
  <1>7. \A s \in Threads : s # t => keys'[s] = keys[s] /\ sns'[s] = sns[s]
    BY <1>1, <1>3
  <1>8. /\ Agreed'
        /\ AllKeys(0)' = AllKeys(0) /\ AllTeams(0)' = AllTeams(0)
        /\ \A s \in Threads : \A w :
              Waits(w, inbox[s], keys[s], sns[s]) =>
                 \/ Waits(w, inbox'[s], keys'[s], sns'[s])
                 \/ s = t /\ h.type = "peel"
    <2>1. Range(keys'[t]) = Range(keys[t]) \cup (IF Head(inbox[t]).type = "key" THEN {Head(inbox[t]).key} ELSE {})
      BY <1>1, <1>5
    <2>2. Range(sns'[t]) = Range(sns[t]) \cup (IF Head(inbox[t]).type = "team" THEN {Head(inbox[t]).key} ELSE {})
      BY <1>1
    <2>3. Agreed
      BY DEF Fine
    <2> QED BY <1>1, <1>6, <1>7, <2>1, <2>2, <2>3, TakenFine
  <1>9. \A s \in Threads : \A w :
           Waits(w, inbox[s], keys[s], sns[s]) => Waits(w, inbox'[s], keys'[s], sns'[s])
    BY <1>1, <1>8
  <1>10. \A s \in Threads : \A w :
            Peeling(w, stack[s], keys[s], sns[s]) => Peeling(w, stack'[s], keys'[s], sns'[s])
    BY <1>1, <1>7, NotPeeling
  <1>11. \A id : OnItsWay(id) => OnItsWay(id)'
    BY <1>1 DEF OnItsWay
  <1>12. \A w \in due : Arrives(w)
    BY DEF Fine
  <1>13. \A w \in due : Arrives(w)'
    BY <1>8, <1>9, <1>10, <1>11, <1>12, Carried
  <1> QED BY <1>1, <1>8, <1>13 DEF Fine

\* The same for a team root.
LEMMA TakeTeamRootFine ==
    ASSUME EInv, Fine, NEW t \in Threads, TakeTeamRoot(t), ~dropped' PROVE Fine'
  <1> DEFINE h == Head(inbox[t])
             p == h.key
  <1>1. /\ inbox[t] # <<>> /\ stack[t] = <<>> /\ h.type = "team" /\ Consume(t)
        /\ sns' = [sns EXCEPT ![t] = WithKey(@, p)]
        /\ UNCHANGED <<db, writer, stack, keys, pns, due>>
        /\ Len(sns[t]) # MaxKeys
    BY DEF TakeTeamRoot, Receives
  <1>2. h \in Messages /\ p \in Secrets
    <2>1. h \in Messages
      BY <1>1, Received DEF TakeTeamRoot
    <2> QED BY <1>1, <2>1 DEF Messages
  <1>3. sns \in [Threads -> Seq(Secrets)] /\ Len(sns[t]) <= MaxKeys /\ sns[t] \in Seq(Secrets)
    BY DEF EInv, Tables, Table
  <1>4. sns'[t] = Append(sns[t], p)
    <2>1. Len(sns[t]) < MaxKeys
      BY <1>1, <1>3, EnvelopesAssumption
    <2> HIDE DEF p
    <2> QED BY <1>1, <1>3, <2>1 DEF WithKey
  <1>5. Range(sns'[t]) = Range(sns[t]) \cup {p}
    <2> HIDE DEF p
    <2> QED BY <1>2, <1>3, <1>4, RangeAppend
  <1>6. pns' = keys'
    BY <1>1 DEF Fine, Agreed
  <1>7. \A s \in Threads : s # t => keys'[s] = keys[s] /\ sns'[s] = sns[s]
    BY <1>1, <1>3
  <1>8. /\ Agreed'
        /\ AllKeys(0)' = AllKeys(0) /\ AllTeams(0)' = AllTeams(0)
        /\ \A s \in Threads : \A w :
              Waits(w, inbox[s], keys[s], sns[s]) =>
                 \/ Waits(w, inbox'[s], keys'[s], sns'[s])
                 \/ s = t /\ h.type = "peel"
    <2>1. Range(sns'[t]) = Range(sns[t]) \cup (IF Head(inbox[t]).type = "team" THEN {Head(inbox[t]).key} ELSE {})
      BY <1>1, <1>5
    <2>2. Range(keys'[t]) = Range(keys[t]) \cup (IF Head(inbox[t]).type = "key" THEN {Head(inbox[t]).key} ELSE {})
      BY <1>1
    <2>3. Agreed
      BY DEF Fine
    <2> QED BY <1>1, <1>6, <1>7, <2>1, <2>2, <2>3, TakenFine
  <1>9. \A s \in Threads : \A w :
           Waits(w, inbox[s], keys[s], sns[s]) => Waits(w, inbox'[s], keys'[s], sns'[s])
    BY <1>1, <1>8
  <1>10. \A s \in Threads : \A w :
            Peeling(w, stack[s], keys[s], sns[s]) => Peeling(w, stack'[s], keys'[s], sns'[s])
    BY <1>1, <1>7, NotPeeling
  <1>11. \A id : OnItsWay(id) => OnItsWay(id)'
    BY <1>1 DEF OnItsWay
  <1>12. \A w \in due : Arrives(w)
    BY DEF Fine
  <1>13. \A w \in due : Arrives(w)'
    BY <1>8, <1>9, <1>10, <1>11, <1>12, Carried
  <1> QED BY <1>1, <1>8, <1>13 DEF Fine

\* A thread that takes a message starts on a note, or takes the next.
LEMMA TakenNote ==
    ASSUME EInv, Fine, NEW t \in Threads, inbox[t] # <<>>, stack[t] = <<>>, Consume(t),
           Head(inbox[t]).type \notin {"key", "team"},
           UNCHANGED <<db, writer, keys, pns, sns, due>>,
           \A s \in Threads : s # t => stack'[s] = stack[s],
           \A w : Head(inbox[t]).type = "peel" /\ Head(inbox[t]).note = w
                  /\ Opened(w, Range(keys[t]), Range(sns[t])) # {} => Peeling(w, stack'[t], keys[t], sns[t])
    PROVE  Fine'
  <1>1. pns' = keys' /\ Agreed
    BY DEF Fine, Agreed
  <1>2. Range(keys'[t]) = Range(keys[t]) \cup (IF Head(inbox[t]).type = "key" THEN {Head(inbox[t]).key} ELSE {})
    OBVIOUS
  <1>3. Range(sns'[t]) = Range(sns[t]) \cup (IF Head(inbox[t]).type = "team" THEN {Head(inbox[t]).key} ELSE {})
    OBVIOUS
  <1>4. /\ Agreed'
        /\ AllKeys(0)' = AllKeys(0) /\ AllTeams(0)' = AllTeams(0)
        /\ \A s \in Threads : \A w :
              Waits(w, inbox[s], keys[s], sns[s]) =>
                 \/ Waits(w, inbox'[s], keys'[s], sns'[s])
                 \/ /\ s = t
                    /\ Head(inbox[t]).type = "peel"
                    /\ Head(inbox[t]).note = w
                    /\ Opened(w, Range(keys[t]), Range(sns[t])) # {}
    BY <1>1, <1>2, <1>3, TakenFine
  <1>5. \A s \in Threads : \A w :
           Waits(w, inbox[s], keys[s], sns[s]) =>
              \/ Waits(w, inbox'[s], keys'[s], sns'[s])
              \/ Peeling(w, stack'[s], keys'[s], sns'[s])
    BY <1>4
  <1>6. \A s \in Threads : \A w :
           Peeling(w, stack[s], keys[s], sns[s]) => Peeling(w, stack'[s], keys'[s], sns'[s])
    BY NotPeeling
  <1>7. \A id : OnItsWay(id) => OnItsWay(id)'
    <2> SUFFICES ASSUME NEW id, OnItsWay(id) PROVE OnItsWay(id)'
      OBVIOUS
    <2>1. ~Stacked(id, stack[t])
      BY DEF Stacked
    <2>2. \A s \in Threads : Stacked(id, stack[s]) => Stacked(id, stack'[s])
      BY <2>1
    <2> QED BY <2>2 DEF OnItsWay
  <1>8. \A w \in due : Arrives(w)
    BY DEF Fine
  <1>9. \A w \in due : Arrives(w)'
    BY <1>4, <1>5, <1>6, <1>7, <1>8, Carried
  <1> QED BY <1>4, <1>9 DEF Fine

\* An event is no envelope that waits.
LEMMA TakeEventFine ==
    ASSUME EInv, Fine, NEW t \in Threads, TakeEvent(t) PROVE Fine'
  <1>1. /\ inbox[t] # <<>> /\ stack[t] = <<>> /\ Head(inbox[t]).type = "event" /\ Consume(t)
        /\ UNCHANGED <<db, writer, keys, pns, sns, due>>
    BY DEF TakeEvent, Receives, keyVars
  <1>2. \A s \in Threads : s # t => stack'[s] = stack[s]
    BY DEF TakeEvent, EInv, Stacks
  <1> QED BY <1>1, <1>2, TakenNote

\* The envelope whose turn it is meets the secrets that open it.
LEMMA TakePeelFine ==
    ASSUME EInv, Fine, NEW t \in Threads, TakePeel(t) PROVE Fine'
  <1> DEFINE id == Head(inbox[t]).note
             n == [id |-> id, signed |-> FALSE, rumor |-> db[id].rumor,
                   receiver |-> db[id].receiver, wrap |-> db[id].wrap]
             f == Frame(n, FALSE, TRUE)
  <1>1. /\ inbox[t] # <<>> /\ stack[t] = <<>> /\ Head(inbox[t]).type = "peel" /\ Consume(t)
        /\ UNCHANGED <<db, writer, keys, pns, sns, due>>
        /\ stack' = [stack EXCEPT ![t] = <<f>>]
    BY DEF TakePeel, Receives, keyVars
  <1>2. stack \in [Threads -> Seq(Frames)]
    BY DEF EInv, Stacks
  <1>3. f.note.id = id /\ f.done = FALSE /\ f.storage = TRUE /\ f.teams = TRUE
    BY DEF Frame
  <1> HIDE DEF f
  <1>4. stack'[t] = <<f>> /\ \A s \in Threads : s # t => stack'[s] = stack[s]
    BY <1>1, <1>2
  <1>5. ASSUME NEW w, id = w, Opened(w, Range(keys[t]), Range(sns[t])) # {}
        PROVE  Peeling(w, stack'[t], keys[t], sns[t])
    <2>1. Len(stack'[t]) = 1 /\ stack'[t][1] = f
      BY <1>4
    <2> QED BY <1>3, <1>5, <2>1 DEF Peeling
  <1> QED BY <1>1, <1>4, <1>5, TakenNote

\* A stack whose last frame is replaced, and one that grows.
LEMMA StackReplaced ==
    ASSUME EInv, NEW t \in Threads, stack[t] # <<>>, NEW f \in Frames
    PROVE  LET r == Front(stack[t]) \o <<f>>
           IN  /\ r \in Seq(Frames)
               /\ Len(r) = Len(stack[t])
               /\ Len(stack[t]) \in Nat \ {0}
               /\ r[Len(stack[t])] = f
               /\ \A i \in 1..(Len(stack[t]) - 1) : r[i] = stack[t][i]
  <1> DEFINE st == stack[t]
             N == Len(st)
             s == Front(st)
  <1>1. st \in Seq(Frames) /\ N \in Nat \ {0}
    BY ThreadTypes
  <1>2. s \in Seq(Frames) /\ Len(s) = N - 1 /\ \A i \in 1..(N - 1) : s[i] = st[i]
    <2>1. /\ Nested(s, registered) /\ Len(s) = N - 1
      BY TopTyped
    <2>2. \A i \in 1..(N - 1) : s[i] = st[i]
      <3> HIDE DEF st
      <3> QED BY <1>1 DEF Front
    <2> QED BY <2>1, <2>2 DEF Nested
  <1> DEFINE r == s \o <<f>>
  <1>3. r \in Seq(Frames) /\ Len(r) = N /\ r[N] = f /\ \A i \in 1..(N - 1) : r[i] = s[i]
    <2> HIDE DEF s, N
    <2>1. r = Append(s, f)
      BY <1>2
    <2> HIDE DEF r
    <2> QED BY <1>1, <1>2, <2>1
  <1> QED BY <1>1, <1>2, <1>3

\* The envelope is peeled, and the note inside is on its way.
LEMMA PeelFine ==
    ASSUME EInv, Fine, NEW t \in Threads, Peel(t) PROVE Fine'
  <1> DEFINE f == [Top(t) EXCEPT !.done = TRUE, !.unwrapped = TRUE]
             g(n) == [Frame(n, TRUE, FALSE) EXCEPT !.storage = Top(t).note.id.kind = "pns"]
             s == Front(stack[t]) \o <<f>>
             N == Len(stack[t])
  <1>1. PICK n \in Inside(t) : stack' = [stack EXCEPT ![t] = Append(s, g(n))]
    BY DEF Peel
  <1> DEFINE h == g(n)
  <1>2. stack[t] # <<>> /\ UNCHANGED <<db, writer, inbox, keys, pns, sns, due>>
    BY DEF Peel, keyVars
  <1>3. Top(t) \in Frames
    BY <1>2, TopTyped
  <1>4. f \in Frames /\ f.note = Top(t).note /\ f.store = Top(t).store
    BY <1>3 DEF Frames
  <1>5. n \in Notes
    BY <1>2, InsideSound
  <1>6. h \in Frames /\ h.note = n /\ h.store = TRUE
    BY <1>5 DEF Frame, Frames
  <1>7. stack \in [Threads -> Seq(Frames)]
    BY DEF EInv, Stacks
  <1>8. /\ s \in Seq(Frames) /\ Len(s) = N /\ N \in Nat \ {0}
        /\ s[N] = f /\ \A i \in 1..(N - 1) : s[i] = stack[t][i]
    <2> HIDE DEF f
    <2> QED BY <1>2, <1>4, StackReplaced
  <1>9. stack'[t] = Append(s, h) /\ \A u \in Threads : u # t => stack'[u] = stack[u]
    BY <1>1, <1>7
  <1> HIDE DEF h, f, s
  <1>10. /\ Len(stack'[t]) = N + 1 /\ stack'[t][N + 1] = h
         /\ \A i \in 1..N : stack'[t][i] = s[i]
    BY <1>6, <1>8, <1>9
  <1>11. ASSUME NEW id, Stacked(id, stack[t]) PROVE Stacked(id, stack'[t])
    <2>1. PICK i \in 1..N : stack[t][i].note.id = id /\ stack[t][i].store
      BY <1>11 DEF Stacked
    <2>2. i \in 1..Len(stack'[t]) /\ stack'[t][i] = s[i]
      BY <1>8, <1>10
    <2>3. s[i].note.id = id /\ s[i].store
      <3>1. CASE i = N
        BY <1>4, <1>8, <2>1, <3>1 DEF Top
      <3>2. CASE i # N
        BY <1>8, <2>1, <3>2
      <3> QED BY <3>1, <3>2
    <2> QED BY <2>2, <2>3 DEF Stacked
  <1>12. \A id : OnItsWay(id) => OnItsWay(id)'
    <2>1. \A id : \A u \in Threads : Stacked(id, stack[u]) => Stacked(id, stack'[u])
      BY <1>9, <1>11
    <2> QED BY <1>2, <2>1 DEF OnItsWay
  <1>13. OnItsWay(n.id)'
    <2>1. N + 1 \in 1..Len(stack'[t])
      BY <1>8, <1>10
    <2>2. Stacked(n.id, stack'[t])
      BY <1>6, <1>10, <2>1 DEF Stacked
    <2> QED BY <2>2 DEF OnItsWay
  <1>14. /\ Agreed' /\ AllKeys(0)' = AllKeys(0) /\ AllTeams(0)' = AllTeams(0)
         /\ \A u \in Threads : AllKeys(u) = AllKeys(0) /\ AllTeams(u) = AllTeams(0)
         /\ pns = keys
    BY <1>2 DEF Fine, Agreed, AllKeys, AllTeams
  <1>15. ASSUME NEW w, Peeling(w, stack[t], keys[t], sns[t])
         PROVE  \E m \in Opened(w, AllKeys(0)', AllTeams(0)') : OnItsWay(m.id)'
    <2>1. Top(t).note.id = w /\ Top(t).storage /\ Top(t).teams
      BY <1>15 DEF Peeling, Top
    <2>2. n \in Peeled(Top(t).note, keys[t], pns[t], sns[t])
      BY <2>1 DEF Inside
    <2>3. n \in Opened(w, Range(keys[t]), Range(sns[t]))
      <3>1. keys[t] \in Seq(Secrets)
        BY ThreadTypes
      <3>2. Peeled(Top(t).note, keys[t], pns[t], sns[t]) =
               Inner(Top(t).note.id, Range(keys[t]), Range(pns[t]), Range(sns[t]))
        BY <3>1, PeeledIs
      <3> QED BY <1>14, <2>1, <2>2, <3>2 DEF Opened
    <2>4. Range(keys[t]) \subseteq AllKeys(0) /\ Range(sns[t]) \subseteq AllTeams(0)
      <3>1. Range(keys[t]) \subseteq AllKeys(t) /\ Range(sns[t]) \subseteq AllTeams(t)
        BY DEF AllKeys, AllTeams, Known
      <3> QED BY <1>14, <3>1
    <2>5. n \in Opened(w, AllKeys(0), AllTeams(0))
      BY <2>3, <2>4, InnerMore DEF Opened
    <2> QED BY <1>13, <1>14, <2>5
  <1>16. \A w \in due : Arrives(w)
    BY DEF Fine
  <1>17. \A w \in due : Arrives(w)'
    <2>1. \A u \in Threads : \A w :
             Waits(w, inbox[u], keys[u], sns[u]) => Waits(w, inbox'[u], keys'[u], sns'[u])
      BY <1>2
    <2>2. \A u \in Threads : \A w :
             Peeling(w, stack[u], keys[u], sns[u]) =>
                \/ Peeling(w, stack'[u], keys'[u], sns'[u])
                \/ \E m \in Opened(w, AllKeys(0)', AllTeams(0)') : OnItsWay(m.id)'
      BY <1>2, <1>9, <1>15
    <2> QED BY <1>12, <1>14, <1>16, <2>1, <2>2, Carried
  <1> QED BY <1>2, <1>14, <1>17 DEF Fine

\* What no key opens is no envelope that a thread is about to peel.
LEMMA PlainFine ==
    ASSUME EInv, Fine, NEW t \in Threads, Plain(t) PROVE Fine'
  <1> DEFINE f == [Top(t) EXCEPT !.done = TRUE]
             r == Front(stack[t]) \o <<f>>
             N == Len(stack[t])
             id == Top(t).note.id
             m == [type |-> "event", json |-> id.inside]
  <1>1. /\ stack[t] # <<>> /\ Inside(t) = {} /\ stack' = [stack EXCEPT ![t] = r]
        /\ UNCHANGED <<db, writer, keys, pns, sns, due>>
    BY DEF Plain, keyVars
  <1>2. Top(t) \in Frames /\ Sound(Top(t).note, registered)
    BY <1>1, TopTyped
  <1>3. f \in Frames /\ f.note = Top(t).note /\ f.store = Top(t).store
    BY <1>2 DEF Frames
  <1>4. stack \in [Threads -> Seq(Frames)]
    BY DEF EInv, Stacks
  <1>5. /\ r \in Seq(Frames) /\ Len(r) = N /\ N \in Nat \ {0}
        /\ r[N] = f /\ \A i \in 1..(N - 1) : r[i] = stack[t][i]
    <2> HIDE DEF f
    <2> QED BY <1>1, <1>3, StackReplaced
  <1>6. stack'[t] = r /\ \A u \in Threads : u # t => stack'[u] = stack[u]
    BY <1>1, <1>4
  <1> HIDE DEF f, r
  <1>7. ASSUME NEW x, Stacked(x, stack[t]) PROVE Stacked(x, stack'[t])
    <2>1. PICK i \in 1..N : stack[t][i].note.id = x /\ stack[t][i].store
      BY <1>7 DEF Stacked
    <2>2. r[i].note.id = x /\ r[i].store
      <3>1. CASE i = N
        BY <1>3, <1>5, <2>1, <3>1 DEF Top
      <3>2. CASE i # N
        BY <1>5, <2>1, <3>2
      <3> QED BY <3>1, <3>2
    <2> QED BY <1>5, <1>6, <2>2 DEF Stacked
  <1>8. \A x : OnItsWay(x) => OnItsWay(x)'
    <2>1. \A x : \A u \in Threads : Stacked(x, stack[u]) => Stacked(x, stack'[u])
      BY <1>6, <1>7
    <2> QED BY <1>1, <2>1 DEF OnItsWay
  <1>9. ASSUME NEW w PROVE ~Peeling(w, stack[t], keys[t], sns[t])
    <2> SUFFICES ASSUME Peeling(w, stack[t], keys[t], sns[t]) PROVE FALSE
      OBVIOUS
    <2>1. Top(t).note.id = w /\ Top(t).storage /\ Top(t).teams
      BY DEF Peeling, Top
    <2>2. Peeled(Top(t).note, keys[t], pns[t], sns[t]) = {}
      BY <1>1, <2>1 DEF Inside
    <2>3. keys[t] \in Seq(Secrets)
      BY ThreadTypes
    <2>4. Peeled(Top(t).note, keys[t], pns[t], sns[t]) =
             Inner(Top(t).note.id, Range(keys[t]), Range(pns[t]), Range(sns[t]))
      BY <2>3, PeeledIs
    <2>5. pns = keys
      BY DEF Fine, Agreed
    <2>6. Opened(w, Range(keys[t]), Range(sns[t])) = {}
      BY <2>1, <2>2, <2>4, <2>5 DEF Opened
    <2> QED BY <2>6 DEF Peeling
  <1>10. /\ Agreed'
         /\ AllKeys(0)' = AllKeys(0) /\ AllTeams(0)' = AllTeams(0)
         /\ \A u \in Threads : \A w :
               Waits(w, inbox[u], keys[u], sns[u]) => Waits(w, inbox'[u], keys'[u], sns'[u])
    <2>1. Agreed
      BY DEF Fine
    <2>2. CASE id.kind = "repost" /\ id.inside # Garbage
      <3>1. id.inside \in Jsons
        BY <1>2, <2>2 DEF Sound, Within
      <3>2. m \in Messages /\ m.type \notin {"key", "team"}
        BY <3>1 DEF Messages
      <3>3. turn' = Following(turn) /\ inbox' = Dispatched(inbox, turn', m)
        BY <2>2 DEF Plain
      <3>4. turn' \in Threads
        BY <3>3, FollowingType DEF EInv
      <3> HIDE DEF m
      <3> QED BY <1>1, <2>1, <3>2, <3>3, <3>4, OtherMessage
    <2>3. CASE ~(id.kind = "repost" /\ id.inside # Garbage)
      <3>1. inbox' = inbox
        BY <2>3 DEF Plain
      <3> QED BY <1>1, <2>1, <3>1 DEF Agreed, AllKeys, AllTeams
    <2> QED BY <2>2, <2>3
  <1>11. \A w \in due : Arrives(w)
    BY DEF Fine
  <1>12. \A u \in Threads : \A w :
            Peeling(w, stack[u], keys[u], sns[u]) => Peeling(w, stack'[u], keys'[u], sns'[u])
    BY <1>1, <1>6, <1>9
  <1>13. \A w \in due : Arrives(w)'
    BY <1>8, <1>10, <1>11, <1>12, Carried
  <1> QED BY <1>1, <1>10, <1>13 DEF Fine

\* The queue of the writer grows.
LEMMA PushedMore ==
    ASSUME NEW q \in Seq(Orders), NEW m \in Orders
    PROVE  /\ \A id : Pushed(id, q) => Pushed(id, Append(q, m))
           /\ Pushed(m.note.id, Append(q, m))
  <1> DEFINE r == Append(q, m)
  <1>1. Len(q) \in Nat /\ Len(r) = Len(q) + 1 /\ r[Len(q) + 1] = m /\ \A i \in 1..Len(q) : r[i] = q[i]
    OBVIOUS
  <1> HIDE DEF r
  <1>2. \A i \in 1..Len(q) : i \in 1..Len(r)
    BY <1>1
  <1>3. Len(q) + 1 \in 1..Len(r)
    BY <1>1
  <1>4. \A id : Pushed(id, q) => Pushed(id, r)
    BY <1>1, <1>2 DEF Pushed
  <1>5. Pushed(m.note.id, r)
    BY <1>1, <1>3 DEF Pushed
  <1> QED BY <1>4, <1>5 DEF r

\* A finished note goes from the stack to the writer, unless it is refused.
LEMMA PushFine ==
    ASSUME EInv, Fine, NEW t \in Threads, Push(t), ~dropped' PROVE Fine'
  <1> DEFINE f == Top(t)
             m == [note |-> f.note, unwrapped |-> MarkOf(f), over |-> FALSE]
             q == Front(stack[t])
             N == Len(stack[t])
  <1>1. /\ stack[t] # <<>> /\ f.done /\ stack' = [stack EXCEPT ![t] = q]
        /\ UNCHANGED <<db, inbox, keys, pns, sns, due>>
    BY DEF Push, keyVars
  <1>2. f \in Frames
    BY <1>1, TopTyped
  <1>3. m \in Orders /\ m.note.id = f.note.id
    <2> HIDE DEF f
    <2> QED BY <1>2 DEF Orders, Frames, MarkOf
  <1>4. stack \in [Threads -> Seq(Frames)] /\ writer \in Seq(Orders)
    BY DEF EInv, Stacks, Queue
  <1>5. writer' = Append(writer, m) \/ (writer' = writer /\ ~f.store)
    <2> HIDE DEF m
    <2>1. CASE f.store /\ Len(writer) < WriterInboxSize
      <3>1. writer' = Append(writer, m)
        BY <2>1 DEF Push, m
      <3> QED BY <3>1
    <2>2. CASE ~(f.store /\ Len(writer) < WriterInboxSize)
      <3>1. writer' = writer /\ dropped' = (dropped \/ f.store)
        BY <2>2 DEF Push
      <3>2. ~f.store
        BY <3>1, Zenon
      <3> QED BY <3>1, <3>2
    <2> QED BY <2>1, <2>2
  <1>6. Len(q) = N - 1 /\ N \in Nat \ {0} /\ \A i \in 1..(N - 1) : q[i] = stack[t][i]
    <2> DEFINE st == stack[t]
    <2>1. st \in Seq(Frames) /\ st # <<>>
      BY <1>1, <1>4
    <2>2. Len(Front(st)) = Len(st) - 1
      BY <1>1, TopTyped
    <2> HIDE DEF st
    <2>3. Len(st) \in Nat \ {0}
      BY <2>1
    <2>4. \A i \in 1..(Len(st) - 1) : Front(st)[i] = st[i]
      BY <2>1, <2>3 DEF Front
    <2> QED BY <2>2, <2>3, <2>4 DEF st
  <1>7. stack'[t] = q /\ \A u \in Threads : u # t => stack'[u] = stack[u]
    BY <1>1, <1>4
  <1> HIDE DEF m, q
  <1>8. \A id : Pushed(id, writer) => Pushed(id, writer')
    BY <1>3, <1>4, <1>5, PushedMore
  <1>9. ASSUME NEW id, Stacked(id, stack[t]) PROVE Stacked(id, stack'[t]) \/ Pushed(id, writer')
    <2>1. PICK i \in 1..N : stack[t][i].note.id = id /\ stack[t][i].store
      BY <1>9 DEF Stacked
    <2>2. CASE i = N
      <3>1. f.note.id = id /\ f.store
        BY <2>1, <2>2 DEF Top
      <3>2. writer' = Append(writer, m)
        BY <1>5, <3>1
      <3> QED BY <1>3, <1>4, <3>1, <3>2, PushedMore
    <2>3. CASE i # N
      <3>1. i \in 1..Len(stack'[t]) /\ stack'[t][i] = stack[t][i]
        BY <1>6, <1>7, <2>3
      <3> QED BY <2>1, <3>1 DEF Stacked
    <2> QED BY <2>2, <2>3
  <1>10. \A id : OnItsWay(id) => OnItsWay(id)'
    <2>1. \A id : \A u \in Threads : Stacked(id, stack[u]) => Stacked(id, stack'[u]) \/ Pushed(id, writer')
      BY <1>7, <1>9
    <2> QED BY <1>1, <1>8, <2>1 DEF OnItsWay
  <1>11. ASSUME NEW w PROVE ~Peeling(w, stack[t], keys[t], sns[t])
    BY <1>1 DEF Peeling, Top
  <1>12. Agreed' /\ AllKeys(0)' = AllKeys(0) /\ AllTeams(0)' = AllTeams(0)
    BY <1>1 DEF Fine, Agreed, AllKeys, AllTeams
  <1>13. \A w \in due : Arrives(w)
    BY DEF Fine
  <1>14. \A u \in Threads : \A w :
            /\ Waits(w, inbox[u], keys[u], sns[u]) => Waits(w, inbox'[u], keys'[u], sns'[u])
            /\ Peeling(w, stack[u], keys[u], sns[u]) => Peeling(w, stack'[u], keys'[u], sns'[u])
    BY <1>1, <1>7, <1>11
  <1>15. \A w \in due : Arrives(w)'
    BY <1>10, <1>12, <1>13, <1>14, Carried
  <1> QED BY <1>1, <1>12, <1>15 DEF Fine

\* What the writer takes from its inbox is stored, or was.
LEMMA WriteKeeps ==
    ASSUME EInv, Write
    PROVE  /\ Head(writer).note.id \in DOMAIN db'
           /\ DOMAIN db' = DOMAIN db \cup {Head(writer).note.id}
           /\ \A id : Pushed(id, writer) => id \in DOMAIN db' \/ Pushed(id, writer')
  <1> DEFINE m == Head(writer)
             q == Tail(writer)
             N == Len(writer)
  <1>1. writer # <<>> /\ writer \in Seq(Orders)
    BY DEF Write, EInv, Queue
  <1>2. N \in Nat \ {0} /\ q \in Seq(Orders) /\ Len(q) = N - 1 /\ m = writer[1]
        /\ \A i \in 1..(N - 1) : q[i] = writer[i + 1]
    BY <1>1
  <1>3. DOMAIN db' = DOMAIN db \cup {m.note.id}
    <2>1. CASE Writes(m)
      BY <2>1 DEF Write
    <2>2. CASE ~Writes(m)
      BY <2>2 DEF Write, Writes
    <2> QED BY <2>1, <2>2
  <1>4. \/ writer' = q
        \/ writer' = Append(q, Marking(m.note.wrap))
    BY DEF Write
  <1>5. \A id : Pushed(id, q) => Pushed(id, writer')
    <2>1. EInv'
      BY WriteStep
    <2>2. ASSUME NEW o, writer' = Append(q, o), NEW id, Pushed(id, q) PROVE Pushed(id, writer')
      <3>1. PICK i \in 1..Len(q) : q[i].note.id = id
        BY <2>2 DEF Pushed
      <3>2. i \in 1..Len(writer') /\ writer'[i] = q[i]
        <4> HIDE DEF q
        <4> QED BY <1>2, <2>2
      <3> QED BY <3>1, <3>2 DEF Pushed
    <2> QED BY <1>4, <2>2
  <1>6. ASSUME NEW id, Pushed(id, writer) PROVE id \in DOMAIN db' \/ Pushed(id, writer')
    <2>1. PICK i \in 1..N : writer[i].note.id = id
      BY <1>6 DEF Pushed
    <2>2. CASE i = 1
      BY <1>2, <1>3, <2>1, <2>2
    <2>3. CASE i # 1
      <3>1. i - 1 \in 1..Len(q) /\ q[i - 1] = writer[i]
        BY <1>2, <2>3
      <3>2. Pushed(id, q)
        <4> HIDE DEF q
        <4> QED BY <2>1, <3>1 DEF Pushed
      <3> QED BY <1>5, <3>2
    <2> QED BY <2>2, <2>3
  <1> QED BY <1>3, <1>6

\* What was on its way to the writer is stored.
LEMMA WriteFine ==
    ASSUME EInv, Fine, Write PROVE Fine'
  <1>1. UNCHANGED <<inbox, stack, keys, pns, sns, due>>
    BY DEF Write, keyVars
  <1>2. \A id : OnItsWay(id) => OnItsWay(id)'
    BY <1>1, WriteKeeps DEF OnItsWay
  <1>3. Agreed' /\ AllKeys(0)' = AllKeys(0) /\ AllTeams(0)' = AllTeams(0)
    BY <1>1 DEF Fine, Agreed, AllKeys, AllTeams
  <1>4. \A w \in due : Arrives(w)
    BY DEF Fine
  <1>5. \A u \in Threads : \A w :
           /\ Waits(w, inbox[u], keys[u], sns[u]) => Waits(w, inbox'[u], keys'[u], sns'[u])
           /\ Peeling(w, stack[u], keys[u], sns[u]) => Peeling(w, stack'[u], keys'[u], sns'[u])
    BY <1>1
  <1>6. \A w \in due : Arrives(w)'
    BY <1>2, <1>3, <1>4, <1>5, Carried
  <1> QED BY <1>1, <1>3, <1>6 DEF Fine

\* At a start no thread has a secret, and nothing is due.
LEMMA EmptyFine ==
    ASSUME inbox = Empty, keys = Empty, pns = Empty, sns = Empty, due = {} PROVE Fine
  <1>1. \A t \in Threads : Empty[t] = <<>>
    BY DEF Empty
  <1>2. \A t \in Threads : AllKeys(t) = AllKeys(0) /\ AllTeams(t) = AllTeams(0)
    BY <1>1, FirstThread DEF AllKeys, AllTeams
  <1> QED BY <1>2 DEF Fine, Agreed

\* A restart is a start.
LEMMA CrashFine ==
    ASSUME Crash PROVE Fine'
  <1>1. inbox' = Empty /\ keys' = Empty /\ pns' = Empty /\ sns' = Empty /\ due' = {}
    BY DEF Crash
  <1>2. \A t \in Threads : Empty[t] = <<>>
    BY DEF Empty
  <1>3. \A t \in Threads : AllKeys(t)' = AllKeys(0)' /\ AllTeams(t)' = AllTeams(0)'
    BY <1>1, <1>2, FirstThread DEF AllKeys, AllTeams
  <1> QED BY <1>1, <1>3 DEF Fine, Agreed

\* Every step of clients, threads, writer and restarts carries the envelopes on.
LEMMA NextDue == EInv /\ DueInv /\ [Next]_vars => DueInv'
  <1> SUFFICES ASSUME EInv, DueInv, [Next]_vars, ~dropped' PROVE Fine'
    BY DEF DueInv
  <1>f. ASSUME ~dropped PROVE Fine
    BY <1>f DEF DueInv
  <1>1. CASE Client
    <2>1. CASE \E j \in Events : ProcessEvent(j)
      <3>1. ~dropped
        BY <2>1 DEF ProcessEvent
      <3> QED BY <1>f, <2>1, <3>1, ProcessEventFine
    <2>2. CASE \E p \in Devices : AddSecret("key", p)
      <3>1. ~dropped
        BY <2>2 DEF AddSecret
      <3> QED BY <1>f, <2>2, <3>1, AddSecretFine DEF Secrets
    <2>3. CASE \E p \in Teams : AddSecret("team", p)
      <3>1. ~dropped
        BY <2>3 DEF AddSecret
      <3> QED BY <1>f, <2>3, <3>1, AddSecretFine DEF Secrets
    <2>4. CASE \E kind \in {"giftwrap", "pns", "sns"} : ScanBegin(kind)
      <3>1. UNCHANGED <<db, writer, inbox, stack, keys, pns, sns, due, dropped>>
        BY <2>4 DEF ScanBegin, keyVars
      <3> QED BY <1>f, <3>1, SameFine
    <2>5. CASE ScanDispatch
      <3>1. ~dropped
        BY <2>5 DEF ScanDispatch
      <3> QED BY <1>f, <2>5, <3>1, ScanDispatchFine
    <2> QED BY <1>1, <2>1, <2>2, <2>3, <2>4, <2>5 DEF Client
  <1>2. CASE \E t \in Threads : Ingester(t)
    <2>1. PICK t \in Threads : Ingester(t)
      BY <1>2
    <2>2. CASE TakeKey(t)
      <3>1. ~dropped
        BY <2>2 DEF TakeKey
      <3> QED BY <1>f, <2>2, <3>1, TakeKeyFine
    <2>3. CASE TakeTeamRoot(t)
      <3>1. ~dropped
        BY <2>3 DEF TakeTeamRoot
      <3> QED BY <1>f, <2>3, <3>1, TakeTeamRootFine
    <2>4. CASE TakeEvent(t)
      <3>1. ~dropped
        BY <2>4 DEF TakeEvent
      <3> QED BY <1>f, <2>4, <3>1, TakeEventFine
    <2>5. CASE TakePeel(t)
      <3>1. ~dropped
        BY <2>5 DEF TakePeel
      <3> QED BY <1>f, <2>5, <3>1, TakePeelFine
    <2>6. CASE Peel(t)
      <3>1. ~dropped
        BY <2>6 DEF Peel
      <3> QED BY <1>f, <2>6, <3>1, PeelFine
    <2>7. CASE Plain(t)
      <3>1. ~dropped
        BY <2>7 DEF Plain
      <3> QED BY <1>f, <2>7, <3>1, PlainFine
    <2>8. CASE Push(t)
      <3>1. ~dropped
        <4>1. \/ dropped' = dropped
              \/ dropped' = (dropped \/ Top(t).store)
          BY <2>8 DEF Push
        <4>2. ASSUME dropped' = (dropped \/ Top(t).store) PROVE ~dropped
          BY <4>2, Zenon
        <4> QED BY <4>1, <4>2
      <3> QED BY <1>f, <2>8, <3>1, PushFine
    <2> QED BY <2>1, <2>2, <2>3, <2>4, <2>5, <2>6, <2>7, <2>8 DEF Ingester
  <1>3. CASE Write
    <2>1. ~dropped
      BY <1>3 DEF Write
    <2> QED BY <1>3, <1>f, <2>1, WriteFine
  <1>4. CASE Crash
    BY <1>4, CrashFine
  <1>5. CASE UNCHANGED vars
    <2>1. UNCHANGED <<db, writer, inbox, stack, keys, pns, sns, due, dropped>>
      BY <1>5 DEF vars
    <2> QED BY <1>f, <2>1, SameFine
  <1> QED BY <1>1, <1>2, <1>3, <1>4, <1>5 DEF Next

\* A scan leaves nothing behind (NothingMissed; nostrdb.c:7362-7367): as long as no
\* queue and no key table refuses anything, every envelope it dispatches that the
\* secrets given open has its note in the store once all is processed, whichever
\* threads the envelopes, the keys and the plain events meet on.
THEOREM EnvelopesNothingMissed == Spec => []NothingMissed
  <1>1. Init => EInv /\ DueInv
    BY InitEInv, EmptyFine DEF Init, DueInv
  <1>2. (EInv /\ DueInv) /\ [Next]_vars => (EInv /\ DueInv)'
    BY NextEInv, NextDue
  <1>3. EInv /\ DueInv => NothingMissed
    <2> SUFFICES ASSUME EInv, DueInv, Idle, ~dropped, NEW w \in due
                 PROVE  \E m \in Peeled([id |-> w], keys[0], pns[0], sns[0]) : m.id \in DOMAIN db
      BY DEF NothingMissed
    <2>1. writer = <<>> /\ \A t \in Threads : inbox[t] = <<>> /\ stack[t] = <<>>
      BY DEF Idle
    <2>2. pns = keys /\ Arrives(w)
      BY DEF DueInv, Fine, Agreed
    <2>3. \A t \in Threads : ~Waits(w, inbox[t], keys[t], sns[t]) /\ ~Peeling(w, stack[t], keys[t], sns[t])
      <3>1. \A k, s : ~Waits(w, <<>>, k, s)
        BY DEF Waits
      <3> QED BY <2>1, <3>1, NotPeeling
    <2>4. PICK m \in Opened(w, AllKeys(0), AllTeams(0)) : OnItsWay(m.id)
      BY <2>2, <2>3 DEF Arrives
    <2>5. m.id \in DOMAIN db
      <3>1. ~Pushed(m.id, <<>>) /\ ~Stacked(m.id, <<>>)
        BY DEF Pushed, Stacked
      <3> QED BY <2>1, <2>4, <3>1 DEF OnItsWay
    <2>6. AllKeys(0) = Range(keys[0]) /\ AllTeams(0) = Range(sns[0])
      <3>1. \A type : Queued(<<>>, Len(<<>>), type) = {}
        BY DEF Queued
      <3> QED BY <2>1, <3>1, FirstThread DEF AllKeys, AllTeams, Known
    <2> DEFINE n == [id |-> w]
    <2>7. n.id = w
      OBVIOUS
    <2> HIDE DEF n
    <2>8. Peeled(n, keys[0], pns[0], sns[0]) = Inner(n.id, Range(keys[0]), Range(pns[0]), Range(sns[0]))
      <3>1. keys[0] \in Seq(Secrets)
        BY ThreadTypes, FirstThread
      <3> QED BY <3>1, PeeledIs
    <2>9. m \in Peeled(n, keys[0], pns[0], sns[0])
      BY <2>2, <2>4, <2>6, <2>7, <2>8 DEF Opened
    <2> QED BY <2>5, <2>9 DEF n
  <1> QED BY <1>1, <1>2, <1>3, PTL DEF Spec

-----------------------------------------------------------------------------
(* What is marked *)

\* What w holds for the secrets given.
Held(w, reg) == Inner(w, reg, reg, reg)

\* A rumor is what its envelope holds.
FromEnvelope(n, reg) == n.rumor => n \in Held(n.wrap, reg)

\* What a marked envelope in the store holds is stored;
StoreMarked(d, reg) ==
    \A w \in DOMAIN d :
       /\ FromEnvelope(NoteAt(d, w), reg)
       /\ d[w].unwrapped => \E m \in Held(w, reg) : m.id \in DOMAIN d

\* of one in the inbox of the writer, it is stored or goes before;
QueueMarked(q, ids, reg) ==
    \A i \in 1..Len(q) :
       /\ FromEnvelope(q[i].note, reg)
       /\ q[i].unwrapped =>
             \E m \in Held(q[i].note.id, reg) : m.id \in ids \/ \E j \in 1..(i - 1) : q[j].note.id = m.id

\* of one that a thread is processing, it is stored, pushed, or pushed before it.
StackMarked(st, q, ids, reg) ==
    \A i \in 1..Len(st) :
       /\ FromEnvelope(st[i].note, reg)
       /\ st[i].unwrapped =>
             \E m \in Held(st[i].note.id, reg) :
                \/ m.id \in ids
                \/ Pushed(m.id, q)
                \/ /\ i < Len(st)
                   /\ st[i + 1].note.id = m.id
                   /\ st[i + 1].store

MarkedInv ==
    /\ IsFiniteSet(registered)
    /\ StoreMarked(db, registered)
    /\ QueueMarked(writer, DOMAIN db, registered)
    /\ \A t \in Threads : StackMarked(stack[t], writer, DOMAIN db, registered)

\* What comes out of an envelope is a rumor that names it.
LEMMA InnerRumor ==
    \A w, K, P, T : \A m \in Inner(w, K, P, T) : m.wrap = w /\ m.rumor = TRUE /\ m.signed = FALSE
  <1>1. \A j, a, r, w : LET m == Rumor(j, a, r, w) IN m.wrap = w /\ m.rumor = TRUE /\ m.signed = FALSE
    BY DEF Rumor
  <1>2. \A s, r, w : \A m \in Seal(s, r, w) : m.wrap = w /\ m.rumor = TRUE /\ m.signed = FALSE
    BY <1>1 DEF Seal
  <1> QED BY <1>1, <1>2, InnerIs DEF Inmost

\* Registering another key takes nothing back.
LEMMA HeldMore == \A w, reg, more : reg \subseteq more => Held(w, reg) \subseteq Held(w, more)
  BY InnerMore DEF Held

\* So it keeps what is marked.
LEMMA MarkedMore ==
    ASSUME NEW reg, NEW more, reg \subseteq more
    PROVE  /\ \A d : StoreMarked(d, reg) => StoreMarked(d, more)
           /\ \A q, ids : QueueMarked(q, ids, reg) => QueueMarked(q, ids, more)
           /\ \A st, q, ids : StackMarked(st, q, ids, reg) => StackMarked(st, q, ids, more)
  <1>1. \A n : FromEnvelope(n, reg) => FromEnvelope(n, more)
    BY HeldMore DEF FromEnvelope
  <1>2. \A w : Held(w, reg) \subseteq Held(w, more)
    BY HeldMore
  <1>3. \A d : StoreMarked(d, reg) => StoreMarked(d, more)
    BY <1>1, <1>2 DEF StoreMarked
  <1>4. \A q, ids : QueueMarked(q, ids, reg) => QueueMarked(q, ids, more)
    BY <1>1, <1>2 DEF QueueMarked
  <1>5. \A st, q, ids : StackMarked(st, q, ids, reg) => StackMarked(st, q, ids, more)
    <2> SUFFICES ASSUME NEW st, NEW q, NEW ids, StackMarked(st, q, ids, reg), NEW i \in 1..Len(st)
                 PROVE  /\ FromEnvelope(st[i].note, more)
                        /\ st[i].unwrapped =>
                              \E m \in Held(st[i].note.id, more) :
                                 \/ m.id \in ids
                                 \/ Pushed(m.id, q)
                                 \/ /\ i < Len(st)
                                    /\ st[i + 1].note.id = m.id
                                    /\ st[i + 1].store
      BY DEF StackMarked
    <2> QED BY <1>1, <1>2 DEF StackMarked
  <1> QED BY <1>3, <1>4, <1>5

\* What is on the way of a stack's envelopes may come further.
LEMMA StackFurther ==
    ASSUME NEW st, NEW q, NEW ids, NEW q2, NEW ids2, NEW reg, StackMarked(st, q, ids, reg),
           \A id : id \in ids \/ Pushed(id, q) => id \in ids2 \/ Pushed(id, q2)
    PROVE  StackMarked(st, q2, ids2, reg)
  <1> SUFFICES ASSUME NEW i \in 1..Len(st)
               PROVE  /\ FromEnvelope(st[i].note, reg)
                      /\ st[i].unwrapped =>
                            \E m \in Held(st[i].note.id, reg) :
                               \/ m.id \in ids2
                               \/ Pushed(m.id, q2)
                               \/ /\ i < Len(st)
                                  /\ st[i + 1].note.id = m.id
                                  /\ st[i + 1].store
    BY DEF StackMarked
  <1>1. FromEnvelope(st[i].note, reg)
    BY DEF StackMarked
  <1>2. ASSUME st[i].unwrapped
        PROVE  \E m \in Held(st[i].note.id, reg) :
                  \/ m.id \in ids2
                  \/ Pushed(m.id, q2)
                  \/ /\ i < Len(st)
                     /\ st[i + 1].note.id = m.id
                     /\ st[i + 1].store
    <2>1. PICK m \in Held(st[i].note.id, reg) :
             \/ m.id \in ids
             \/ Pushed(m.id, q)
             \/ /\ i < Len(st)
                /\ st[i + 1].note.id = m.id
                /\ st[i + 1].store
      BY <1>2 DEF StackMarked
    <2> QED BY <2>1
  <1> QED BY <1>1, <1>2

\* A thread starts on a note that is not marked.
LEMMA StackOne ==
    ASSUME NEW n, NEW store, NEW q, NEW ids, NEW reg, FromEnvelope(n, reg)
    PROVE  StackMarked(<<Frame(n, store, TRUE)>>, q, ids, reg)
  <1> DEFINE f == Frame(n, store, TRUE)
             st == <<f>>
  <1>1. f.note = n /\ f.unwrapped = FALSE
    BY DEF Frame
  <1> HIDE DEF f
  <1>2. Len(st) = 1 /\ st[1] = f
    OBVIOUS
  <1> HIDE DEF st
  <1>3. \A i \in 1..Len(st) : st[i] = f
    BY <1>2
  <1>4. StackMarked(st, q, ids, reg)
    BY <1>1, <1>3 DEF StackMarked
  <1> QED BY <1>4 DEF st, f

\* Nothing is marked at a start.
LEMMA EmptyMarked == \A q, ids, reg : QueueMarked(<<>>, ids, reg) /\ StackMarked(<<>>, q, ids, reg)
  BY DEF QueueMarked, StackMarked

\* A client's secret.
LEMMA AddSecretMarked ==
    ASSUME MarkedInv, NEW type, NEW p, AddSecret(type, p) PROVE MarkedInv'
  <1>1. registered' = registered \cup {p} /\ UNCHANGED <<db, writer, stack>>
    BY DEF AddSecret
  <1> DEFINE more == registered'
  <1>2. registered \subseteq more /\ IsFiniteSet(more)
    BY <1>1, FS_AddElement DEF MarkedInv
  <1> HIDE DEF more
  <1>3. /\ StoreMarked(db, more) /\ QueueMarked(writer, DOMAIN db, more)
        /\ \A t \in Threads : StackMarked(stack[t], writer, DOMAIN db, more)
    BY <1>2, MarkedMore DEF MarkedInv
  <1>4. IsFiniteSet(registered') /\ StoreMarked(db', registered')
        /\ QueueMarked(writer', DOMAIN db', registered')
        /\ \A t \in Threads : StackMarked(stack'[t], writer', DOMAIN db', registered')
    BY <1>1, <1>2, <1>3 DEF more
  <1> QED BY <1>4 DEF MarkedInv

\* Nothing that is marked changes.
LEMMA SameMarked ==
    ASSUME MarkedInv, UNCHANGED <<db, writer, stack, registered>> PROVE MarkedInv'
  BY DEF MarkedInv

\* Only the stack of one thread changes.
LEMMA OneStackMarked ==
    ASSUME EInv, MarkedInv, NEW t \in Threads, UNCHANGED <<db, writer, registered>>,
           NEW st, stack' = [stack EXCEPT ![t] = st], StackMarked(st, writer, DOMAIN db, registered)
    PROVE  MarkedInv'
  <1>1. stack'[t] = st /\ \A u \in Threads : u # t => stack'[u] = stack[u]
    BY DEF EInv, Stacks
  <1>2. \A u \in Threads : StackMarked(stack'[u], writer, DOMAIN db, registered)
    BY <1>1 DEF MarkedInv
  <1>3. IsFiniteSet(registered) /\ StoreMarked(db, registered) /\ QueueMarked(writer, DOMAIN db, registered)
    BY DEF MarkedInv
  <1> QED BY <1>2, <1>3 DEF MarkedInv

\* An event is no rumor.
LEMMA TakeEventMarked ==
    ASSUME EInv, MarkedInv, NEW t \in Threads, TakeEvent(t) PROVE MarkedInv'
  <1> DEFINE n == NoteOf(Head(inbox[t]).json)
             f == Frame(n, TRUE, TRUE)
  <1>1. UNCHANGED <<db, writer, registered>> /\ (stack' = stack \/ stack' = [stack EXCEPT ![t] = <<f>>])
    BY DEF TakeEvent
  <1>2. FromEnvelope(n, registered)
    BY DEF FromEnvelope, NoteOf
  <1> HIDE DEF n
  <1>3. StackMarked(<<f>>, writer, DOMAIN db, registered)
    BY <1>2, StackOne
  <1> HIDE DEF f
  <1> QED BY <1>1, <1>3, OneStackMarked, SameMarked

\* A stored envelope is taken as it is stored.
LEMMA TakePeelMarked ==
    ASSUME EInv, MarkedInv, NEW t \in Threads, TakePeel(t) PROVE MarkedInv'
  <1> DEFINE id == Head(inbox[t]).note
             n == NoteAt(db, id)
             f == Frame(n, FALSE, TRUE)
  <1>1. UNCHANGED <<db, writer, registered>> /\ stack' = [stack EXCEPT ![t] = <<f>>]
    BY DEF TakePeel, NoteAt
  <1>2. id \in DOMAIN db
    <2>1. /\ Head(inbox[t]).type = "peel"
          /\ Refers(Head(inbox[t]), registered, DOMAIN db)
      BY Received DEF TakePeel
    <2> QED BY <2>1 DEF Refers
  <1>3. FromEnvelope(n, registered)
    BY <1>2 DEF MarkedInv, StoreMarked
  <1> HIDE DEF n
  <1>4. StackMarked(<<f>>, writer, DOMAIN db, registered)
    BY <1>3, StackOne
  <1> HIDE DEF f
  <1> QED BY <1>1, <1>4, OneStackMarked

\* What a thread finds inside is what the envelope holds.
LEMMA InsideHeld ==
    ASSUME EInv, NEW t \in Threads, stack[t] # <<>>, NEW n \in Inside(t)
    PROVE  n \in Held(Top(t).note.id, registered) /\ n.wrap = Top(t).note.id
  <1> DEFINE ks == keys[t]
             ps == IF Top(t).storage THEN pns[t] ELSE <<>>
             ss == IF Top(t).teams THEN sns[t] ELSE <<>>
             w == Top(t).note.id
  <1>1. n \in Peeled(Top(t).note, ks, ps, ss)
    BY DEF Inside
  <1>2. Table(<<>>, registered)
    BY EnvelopesAssumption DEF Table
  <1>3. Table(ks, registered) /\ Table(ps, registered) /\ Table(ss, registered)
    BY <1>2 DEF EInv, Tables
  <1>4. \A s : Table(s, registered) => Range(s) \subseteq registered
    <2> SUFFICES ASSUME NEW s, Table(s, registered) PROVE Range(s) \subseteq registered
      OBVIOUS
    <2>1. s \in Seq(Secrets) /\ \A i \in 1..Len(s) : s[i] \in registered
      BY DEF Table
    <2> QED BY <2>1, RangeIs
  <1>5. ks \in Seq(Secrets)
    BY <1>3 DEF Table
  <1>6. Peeled(Top(t).note, ks, ps, ss) = Inner(w, Range(ks), Range(ps), Range(ss))
    <2> HIDE DEF ks, ps, ss
    <2> QED BY <1>5, PeeledIs
  <1> HIDE DEF ks, ps, ss, w
  <1>7. n \in Held(w, registered) /\ n.wrap = w
    BY <1>1, <1>3, <1>4, <1>6, InnerMore, InnerRumor DEF Held
  <1> QED BY <1>7 DEF w

\* The mark of an envelope goes with the note that came out of it.
LEMMA PeelMarked ==
    ASSUME EInv, MarkedInv, NEW t \in Threads, Peel(t) PROVE MarkedInv'
  <1> DEFINE f == [Top(t) EXCEPT !.done = TRUE, !.unwrapped = TRUE]
             g(n) == [Frame(n, TRUE, FALSE) EXCEPT !.storage = Top(t).note.id.kind = "pns"]
             s == Front(stack[t]) \o <<f>>
             N == Len(stack[t])
             w == Top(t).note.id
  <1>1. PICK n \in Inside(t) : stack' = [stack EXCEPT ![t] = Append(s, g(n))]
    BY DEF Peel
  <1> DEFINE h == g(n)
             st == Append(s, h)
  <1>2. stack[t] # <<>> /\ UNCHANGED <<db, writer, registered>>
    BY DEF Peel
  <1>3. Top(t) \in Frames
    BY <1>2, TopTyped
  <1>4. f \in Frames /\ f.note = Top(t).note
    BY <1>3 DEF Frames
  <1>5. n \in Notes /\ n \in Held(w, registered) /\ n.wrap = w
    BY <1>2, InsideSound, InsideHeld
  <1>6. h \in Frames /\ h.note = n /\ h.store = TRUE /\ h.unwrapped = FALSE
    BY <1>5 DEF Frame, Frames
  <1>7. /\ s \in Seq(Frames) /\ Len(s) = N /\ N \in Nat \ {0}
        /\ s[N] = f /\ \A i \in 1..(N - 1) : s[i] = stack[t][i]
    <2> HIDE DEF f
    <2> QED BY <1>2, <1>4, StackReplaced
  <1>8. stack' = [stack EXCEPT ![t] = st]
    BY <1>1
  <1> HIDE DEF h, f, s
  <1>9. /\ Len(st) = N + 1 /\ st[N + 1] = h /\ st[N] = f
        /\ \A i \in 1..(N - 1) : st[i] = stack[t][i]
    BY <1>6, <1>7
  <1> HIDE DEF st
  <1>10. StackMarked(stack[t], writer, DOMAIN db, registered)
    BY DEF MarkedInv
  <1>11. ASSUME NEW i \in 1..Len(st)
         PROVE  /\ FromEnvelope(st[i].note, registered)
                /\ st[i].unwrapped =>
                      \E m \in Held(st[i].note.id, registered) :
                         \/ m.id \in DOMAIN db
                         \/ Pushed(m.id, writer)
                         \/ /\ i < Len(st)
                            /\ st[i + 1].note.id = m.id
                            /\ st[i + 1].store
    <2>1. CASE i = N + 1
      <3>1. FromEnvelope(n, registered)
        BY <1>5 DEF FromEnvelope
      <3> QED BY <1>6, <1>9, <2>1, <3>1
    <2>2. CASE i = N
      <3>1. FromEnvelope(Top(t).note, registered)
        BY <1>7, <1>10 DEF StackMarked, Top
      <3>2. st[i].note = Top(t).note /\ i < Len(st) /\ st[i + 1].note.id = n.id /\ st[i + 1].store
        BY <1>4, <1>6, <1>7, <1>9, <2>2
      <3> QED BY <1>5, <3>1, <3>2
    <2>3. CASE i \in 1..(N - 1)
      <3>1. st[i] = stack[t][i] /\ i \in 1..N /\ i < Len(st)
        BY <1>7, <1>9, <2>3
      <3>2. /\ i < Len(stack[t])
            /\ st[i + 1].note.id = stack[t][i + 1].note.id
            /\ stack[t][i + 1].store => st[i + 1].store
        <4>1. CASE i + 1 = N
          <5>1. f.store = Top(t).store
            BY <1>3 DEF f, Frames
          <5> QED BY <1>4, <1>7, <1>9, <2>3, <4>1, <5>1 DEF Top
        <4>2. CASE i + 1 # N
          <5>1. i + 1 \in 1..(N - 1)
            BY <1>7, <2>3, <4>2
          <5> QED BY <1>7, <1>9, <2>3, <5>1
        <4> QED BY <4>1, <4>2
      <3>3. /\ FromEnvelope(stack[t][i].note, registered)
            /\ stack[t][i].unwrapped =>
                  \E m \in Held(stack[t][i].note.id, registered) :
                     \/ m.id \in DOMAIN db
                     \/ Pushed(m.id, writer)
                     \/ /\ i < Len(stack[t])
                        /\ stack[t][i + 1].note.id = m.id
                        /\ stack[t][i + 1].store
        BY <1>10, <3>1 DEF StackMarked
      <3> QED BY <3>1, <3>2, <3>3
    <2> QED BY <1>7, <1>9, <2>1, <2>2, <2>3
  <1>12. StackMarked(st, writer, DOMAIN db, registered)
    BY <1>11 DEF StackMarked
  <1> QED BY <1>2, <1>8, <1>12, OneStackMarked

\* A note that holds nothing gets no mark.
LEMMA PlainMarked ==
    ASSUME EInv, MarkedInv, NEW t \in Threads, Plain(t) PROVE MarkedInv'
  <1> DEFINE f == [Top(t) EXCEPT !.done = TRUE]
             st == Front(stack[t]) \o <<f>>
             N == Len(stack[t])
  <1>1. stack[t] # <<>> /\ stack' = [stack EXCEPT ![t] = st] /\ UNCHANGED <<db, writer, registered>>
    BY DEF Plain
  <1>2. Top(t) \in Frames
    BY <1>1, TopTyped
  <1>3. f \in Frames /\ f.note = Top(t).note /\ f.store = Top(t).store /\ f.unwrapped = Top(t).unwrapped
    BY <1>2 DEF Frames
  <1>4. /\ Len(st) = N /\ N \in Nat \ {0} /\ st[N] = f
        /\ \A i \in 1..(N - 1) : st[i] = stack[t][i]
    <2> HIDE DEF f
    <2> QED BY <1>1, <1>3, StackReplaced
  <1> HIDE DEF f, st
  <1>5. \A i \in 1..N : /\ st[i].note = stack[t][i].note /\ st[i].store = stack[t][i].store
                        /\ st[i].unwrapped = stack[t][i].unwrapped
    <2> SUFFICES ASSUME NEW i \in 1..N
                 PROVE  /\ st[i].note = stack[t][i].note /\ st[i].store = stack[t][i].store
                        /\ st[i].unwrapped = stack[t][i].unwrapped
      OBVIOUS
    <2>1. CASE i = N
      BY <1>3, <1>4, <2>1 DEF Top
    <2>2. CASE i # N
      BY <1>4, <2>2
    <2> QED BY <2>1, <2>2
  <1>6. StackMarked(stack[t], writer, DOMAIN db, registered)
    BY DEF MarkedInv
  <1>7. ASSUME NEW i \in 1..Len(st)
        PROVE  /\ FromEnvelope(st[i].note, registered)
               /\ st[i].unwrapped =>
                     \E m \in Held(st[i].note.id, registered) :
                        \/ m.id \in DOMAIN db
                        \/ Pushed(m.id, writer)
                        \/ /\ i < Len(st)
                           /\ st[i + 1].note.id = m.id
                           /\ st[i + 1].store
    <2>1. i \in 1..N /\ (i < Len(st) => i + 1 \in 1..N)
      BY <1>4
    <2>2. /\ FromEnvelope(stack[t][i].note, registered)
          /\ stack[t][i].unwrapped =>
                \E m \in Held(stack[t][i].note.id, registered) :
                   \/ m.id \in DOMAIN db
                   \/ Pushed(m.id, writer)
                   \/ /\ i < Len(stack[t])
                      /\ stack[t][i + 1].note.id = m.id
                      /\ stack[t][i + 1].store
      BY <1>6, <2>1 DEF StackMarked
    <2> QED BY <1>4, <1>5, <2>1, <2>2
  <1>8. StackMarked(st, writer, DOMAIN db, registered)
    BY <1>7 DEF StackMarked
  <1> QED BY <1>1, <1>8, OneStackMarked

\* A note is pushed before the envelope it came in, unless it is refused.
LEMMA PushMarked ==
    ASSUME EInv, MarkedInv, NEW t \in Threads, Push(t), ~dropped' PROVE MarkedInv'
  <1> DEFINE f == Top(t)
             m == [note |-> f.note, unwrapped |-> MarkOf(f), over |-> FALSE]
             st == Front(stack[t])
             N == Len(stack[t])
             K == Len(writer)
             ids == DOMAIN db
  <1>1. stack[t] # <<>> /\ stack' = [stack EXCEPT ![t] = st] /\ UNCHANGED <<db, registered>>
    BY DEF Push
  <1>2. f \in Frames
    BY <1>1, TopTyped
  <1>3. m \in Orders /\ m.note = f.note /\ m.unwrapped = f.unwrapped
    <2> HIDE DEF f
    <2> QED BY <1>2 DEF Orders, Frames, MarkOf
  <1>4. stack \in [Threads -> Seq(Frames)] /\ writer \in Seq(Orders) /\ K \in Nat
    BY DEF EInv, Stacks, Queue
  <1>5. writer' = Append(writer, m) \/ (writer' = writer /\ ~f.store)
    <2> HIDE DEF m
    <2>1. CASE f.store /\ Len(writer) < WriterInboxSize
      <3>1. writer' = Append(writer, m)
        BY <2>1 DEF Push, m
      <3> QED BY <3>1
    <2>2. CASE ~(f.store /\ Len(writer) < WriterInboxSize)
      <3>1. writer' = writer /\ dropped' = (dropped \/ f.store)
        BY <2>2 DEF Push
      <3>2. ~f.store
        BY <3>1, Zenon
      <3> QED BY <3>1, <3>2
    <2> QED BY <2>1, <2>2
  <1>6. Len(st) = N - 1 /\ N \in Nat \ {0} /\ \A i \in 1..(N - 1) : st[i] = stack[t][i]
    <2> DEFINE s == stack[t]
    <2>1. s \in Seq(Frames) /\ s # <<>>
      BY <1>1, <1>4
    <2>2. Len(Front(s)) = Len(s) - 1
      BY <1>1, TopTyped
    <2> HIDE DEF s
    <2>3. Len(s) \in Nat \ {0}
      BY <2>1
    <2>4. \A i \in 1..(Len(s) - 1) : Front(s)[i] = s[i]
      BY <2>1, <2>3 DEF Front
    <2> QED BY <2>2, <2>3, <2>4 DEF s
  <1>7. f = stack[t][N]
    BY DEF Top
  <1> HIDE DEF m, st, f
  <1>8. \A id : Pushed(id, writer) => Pushed(id, writer')
    BY <1>3, <1>4, <1>5, PushedMore
  <1>9. f.store => Pushed(f.note.id, writer')
    BY <1>3, <1>4, <1>5, PushedMore
  <1>10. StackMarked(stack[t], writer, ids, registered)
    BY DEF MarkedInv
  <1>11. /\ FromEnvelope(f.note, registered)
         /\ f.unwrapped => \E n \in Held(f.note.id, registered) : n.id \in ids \/ Pushed(n.id, writer)
    <2>1. N \in 1..Len(stack[t]) /\ ~(N < Len(stack[t]))
      BY <1>6
    <2> HIDE DEF N
    <2> QED BY <1>7, <1>10, <2>1 DEF StackMarked
  <1>12. ASSUME NEW i \in 1..Len(st)
         PROVE  /\ FromEnvelope(st[i].note, registered)
                /\ st[i].unwrapped =>
                      \E n \in Held(st[i].note.id, registered) :
                         \/ n.id \in ids
                         \/ Pushed(n.id, writer')
                         \/ /\ i < Len(st)
                            /\ st[i + 1].note.id = n.id
                            /\ st[i + 1].store
    <2>1. i \in 1..N /\ st[i] = stack[t][i]
      BY <1>6
    <2>2. FromEnvelope(stack[t][i].note, registered)
      BY <1>10, <2>1 DEF StackMarked
    <2>3. ASSUME st[i].unwrapped
          PROVE  \E n \in Held(st[i].note.id, registered) :
                    \/ n.id \in ids
                    \/ Pushed(n.id, writer')
                    \/ /\ i < Len(st)
                       /\ st[i + 1].note.id = n.id
                       /\ st[i + 1].store
      <3>1. PICK n \in Held(stack[t][i].note.id, registered) :
               \/ n.id \in ids
               \/ Pushed(n.id, writer)
               \/ /\ i < Len(stack[t])
                  /\ stack[t][i + 1].note.id = n.id
                  /\ stack[t][i + 1].store
        BY <1>10, <2>1, <2>3 DEF StackMarked
      <3>2. CASE i + 1 = N
        BY <1>7, <1>8, <1>9, <2>1, <3>1, <3>2
      <3>3. CASE i + 1 # N
        <4>1. i + 1 \in 1..(N - 1) /\ i < Len(st)
          BY <1>6, <3>3
        <4> QED BY <1>6, <1>8, <2>1, <3>1, <4>1
      <3> QED BY <3>2, <3>3
    <2> QED BY <2>1, <2>2, <2>3
  <1>13. StackMarked(st, writer', ids, registered)
    BY <1>12 DEF StackMarked
  <1>14. ASSUME NEW u \in Threads PROVE StackMarked(stack'[u], writer', ids, registered)
    <2>1. CASE u = t
      BY <1>1, <1>4, <1>13, <2>1
    <2>2. CASE u # t
      <3>1. stack'[u] = stack[u] /\ StackMarked(stack[u], writer, ids, registered)
        BY <1>1, <1>4, <2>2 DEF MarkedInv
      <3>2. \A id : id \in ids \/ Pushed(id, writer) => id \in ids \/ Pushed(id, writer')
        BY <1>8
      <3> HIDE DEF ids
      <3>3. StackMarked(stack[u], writer', ids, registered)
        BY <3>1, <3>2, StackFurther
      <3> QED BY <3>1, <3>3
    <2> QED BY <2>1, <2>2
  <1>15. QueueMarked(writer', ids, registered)
    <2>1. QueueMarked(writer, ids, registered)
      BY DEF MarkedInv
    <2>2. CASE writer' = writer
      BY <2>1, <2>2
    <2>3. CASE writer' = Append(writer, m)
      <3>1. Len(writer') = K + 1 /\ writer'[K + 1] = m /\ \A i \in 1..K : writer'[i] = writer[i]
        BY <1>3, <1>4, <2>3
      <3>2. ASSUME NEW i \in 1..(K + 1)
            PROVE  /\ FromEnvelope(writer'[i].note, registered)
                   /\ writer'[i].unwrapped =>
                         \E n \in Held(writer'[i].note.id, registered) :
                            n.id \in ids \/ \E j \in 1..(i - 1) : writer'[j].note.id = n.id
        <4>1. CASE i = K + 1
          <5>1. \A id : Pushed(id, writer) => \E j \in 1..(i - 1) : writer'[j].note.id = id
            <6>1. i - 1 = K
              BY <1>4, <4>1
            <6> QED BY <3>1, <6>1 DEF Pushed
          <5> QED BY <1>3, <1>11, <3>1, <4>1, <5>1
        <4>2. CASE i \in 1..K
          <5>1. writer'[i] = writer[i] /\ \A j \in 1..(i - 1) : writer'[j] = writer[j]
            BY <1>4, <3>1, <4>2
          <5> QED BY <2>1, <4>2, <5>1 DEF QueueMarked
        <4> QED BY <1>4, <4>1, <4>2
      <3> QED BY <3>1, <3>2 DEF QueueMarked
    <2> QED BY <1>5, <2>2, <2>3
  <1>16. IsFiniteSet(registered) /\ StoreMarked(db, registered)
    BY DEF MarkedInv
  <1> QED BY <1>1, <1>14, <1>15, <1>16 DEF MarkedInv

\* The writer stores in the order of its inbox; it marks the stored envelope of a
\* rumor that it has stored.
LEMMA WriteMarked ==
    ASSUME EInv, MarkedInv, Write PROVE MarkedInv'
  <1> DEFINE m == Head(writer)
             n == m.note
             x == n.id
             w == n.wrap
             q == Tail(writer)
             N == Len(writer)
             reg == registered
             ids == DOMAIN db'
  <1>1. UNCHANGED <<stack, registered>> /\ writer # <<>> /\ writer \in Seq(Orders)
    BY DEF Write, EInv, Queue
  <1>2. /\ N \in Nat \ {0} /\ q \in Seq(Orders) /\ Len(q) = N - 1 /\ m = writer[1] /\ m \in Orders
        /\ \A i \in 1..(N - 1) : q[i] = writer[i + 1]
    BY <1>1
  <1>3. /\ x \in ids /\ ids = DOMAIN db \cup {x}
        /\ \A id : Pushed(id, writer) => id \in ids \/ Pushed(id, writer')
    BY WriteKeeps
  <1>4. QueueMarked(writer, DOMAIN db, reg) /\ StoreMarked(db, reg)
    BY DEF MarkedInv
  <1>5. /\ FromEnvelope(n, reg)
        /\ m.unwrapped => \E o \in Held(x, reg) : o.id \in DOMAIN db
    <2>1. 1 \in 1..N /\ 1..(1 - 1) = {}
      BY <1>2
    <2> HIDE DEF N
    <2>2. /\ FromEnvelope(writer[1].note, reg)
          /\ writer[1].unwrapped =>
                \E o \in Held(writer[1].note.id, reg) : o.id \in DOMAIN db \/ \E j \in 1..(1 - 1) : writer[j].note.id = o.id
      BY <1>4, <2>1 DEF QueueMarked, N
    <2> QED BY <1>2, <2>1, <2>2
  <1>6. ASSUME NEW id \in ids
        PROVE  /\ FromEnvelope(NoteAt(db', id), reg)
               /\ db'[id].unwrapped => \E o \in Held(id, reg) : o.id \in ids
    <2>1. CASE Writes(m) /\ id = x
      <3>1. db'[x] = Record(m)
        <4>1. db' = [i \in DOMAIN db \cup {x} |-> IF i = x THEN Record(m) ELSE db[i]]
          BY <2>1 DEF Write
        <4> HIDE DEF x, m
        <4> QED BY <4>1
      <3>2. /\ db'[x].rumor = n.rumor /\ db'[x].receiver = n.receiver /\ db'[x].wrap = n.wrap
            /\ db'[x].unwrapped = m.unwrapped
        BY <3>1 DEF Record
      <3>3. FromEnvelope(NoteAt(db', x), reg)
        <4>1. NoteAt(db', x) = [id |-> x, signed |-> FALSE, rumor |-> n.rumor, receiver |-> n.receiver, wrap |-> n.wrap]
          BY <3>2 DEF NoteAt
        <4>2. n \in Notes
          BY <1>2 DEF Orders
        <4>3. ASSUME n.rumor PROVE NoteAt(db', x) = n /\ n \in Held(n.wrap, reg)
          <5>1. n \in Held(n.wrap, reg)
            BY <1>5, <4>3 DEF FromEnvelope
          <5>2. n.signed = FALSE
            BY <5>1, InnerRumor DEF Held
          <5> DEFINE y == NoteAt(db', x)
          <5>3. y = [id |-> n.id, signed |-> n.signed, rumor |-> n.rumor, receiver |-> n.receiver, wrap |-> n.wrap]
            BY <4>1, <5>2
          <5> HIDE DEF y, n
          <5>4. y = n
            BY <4>2, <5>3 DEF Notes
          <5> QED BY <5>1, <5>4 DEF y
        <4>4. NoteAt(db', x).rumor = n.rumor
          BY <4>1
        <4> HIDE DEF n, x
        <4> QED BY <4>3, <4>4 DEF FromEnvelope
      <3> QED BY <1>3, <1>5, <2>1, <3>2, <3>3
    <2>2. CASE ~(Writes(m) /\ id = x)
      <3>1. id \in DOMAIN db /\ db'[id] = db[id]
        <4>1. CASE Writes(m)
          <5>1. db' = [i \in DOMAIN db \cup {x} |-> IF i = x THEN Record(m) ELSE db[i]]
            BY <4>1 DEF Write
          <5> HIDE DEF x, m
          <5> QED BY <2>2, <4>1, <5>1
        <4>2. CASE ~Writes(m)
          BY <4>2 DEF Write
        <4> QED BY <4>1, <4>2
      <3>2. NoteAt(db', id) = NoteAt(db, id)
        BY <3>1 DEF NoteAt
      <3>3. /\ FromEnvelope(NoteAt(db, id), reg)
            /\ db[id].unwrapped => \E o \in Held(id, reg) : o.id \in DOMAIN db
        BY <1>4, <3>1 DEF StoreMarked
      <3> QED BY <1>3, <3>1, <3>2, <3>3
    <2> QED BY <2>1, <2>2
  <1>7. StoreMarked(db', reg)
    BY <1>6 DEF StoreMarked
  <1>8. ASSUME NEW i \in 1..(N - 1)
        PROVE  /\ FromEnvelope(q[i].note, reg)
               /\ q[i].unwrapped =>
                     \E o \in Held(q[i].note.id, reg) : o.id \in ids \/ \E j \in 1..(i - 1) : q[j].note.id = o.id
    <2> DEFINE k == i + 1
    <2>1. k \in 1..N /\ q[i] = writer[k]
      BY <1>2
    <2>2. /\ FromEnvelope(writer[k].note, reg)
          /\ writer[k].unwrapped =>
                \E o \in Held(writer[k].note.id, reg) : o.id \in DOMAIN db \/ \E j \in 1..(k - 1) : writer[j].note.id = o.id
      <3> HIDE DEF k
      <3> QED BY <1>4, <2>1 DEF QueueMarked
    <2>3. ASSUME NEW id, NEW j \in 1..(k - 1), writer[j].note.id = id
          PROVE  id \in ids \/ \E l \in 1..(i - 1) : q[l].note.id = id
      <3>1. CASE j = 1
        BY <1>2, <1>3, <2>3, <3>1
      <3>2. CASE j # 1
        <4>1. j - 1 \in 1..(i - 1) /\ q[j - 1] = writer[j]
          BY <1>2, <3>2
        <4> QED BY <2>3, <4>1
      <3> QED BY <3>1, <3>2
    <2> HIDE DEF k, q, ids
    <2> QED BY <1>3, <2>1, <2>2, <2>3
  <1>9. QueueMarked(writer', ids, reg)
    <2>1. QueueMarked(q, ids, reg)
      BY <1>2, <1>8 DEF QueueMarked
    <2>2. \/ writer' = q
          \/ writer' = Append(q, Marking(w)) /\ ToMark(m) # {}
      BY DEF Write
    <2>3. ASSUME writer' = Append(q, Marking(w)), ToMark(m) # {} PROVE QueueMarked(writer', ids, reg)
      <3> DEFINE o == Marking(w)
      <3>1. n.rumor /\ w \in DOMAIN db
        BY <2>3 DEF ToMark
      <3>2. o.note = NoteAt(db, w) /\ o.note.id = w
        BY DEF Marking, NoteAt
      <3>3. FromEnvelope(o.note, reg)
        <4>1. FromEnvelope(NoteAt(db, w), reg)
          BY <1>4, <3>1 DEF StoreMarked
        <4> QED BY <3>2, <4>1
      <3>4. n \in Held(w, reg) /\ n.id \in ids
        BY <1>3, <1>5, <3>1 DEF FromEnvelope
      <3> HIDE DEF o
      <3>5. /\ Len(writer') = N /\ writer'[N] = o
            /\ \A i \in 1..(N - 1) : writer'[i] = q[i]
        <4>1. writer' = Append(q, o)
          BY <2>3 DEF o
        <4> HIDE DEF q
        <4> QED BY <1>2, <4>1
      <3>6. ASSUME NEW i \in 1..N
            PROVE  /\ FromEnvelope(writer'[i].note, reg)
                   /\ writer'[i].unwrapped =>
                         \E p \in Held(writer'[i].note.id, reg) :
                            p.id \in ids \/ \E j \in 1..(i - 1) : writer'[j].note.id = p.id
        <4>1. CASE i = N
          BY <3>2, <3>3, <3>4, <3>5, <4>1
        <4>2. CASE i # N
          <5>1. i \in 1..(N - 1) /\ writer'[i] = q[i] /\ \A j \in 1..(i - 1) : writer'[j] = q[j]
            BY <1>2, <3>5, <4>2
          <5> HIDE DEF q, ids
          <5> QED BY <1>8, <5>1
        <4> QED BY <4>1, <4>2
      <3> HIDE DEF ids, N
      <3> QED BY <3>5, <3>6 DEF QueueMarked
    <2> QED BY <2>1, <2>2, <2>3
  <1>10. ASSUME NEW t \in Threads PROVE StackMarked(stack[t], writer', ids, reg)
    <2>1. StackMarked(stack[t], writer, DOMAIN db, reg)
      BY DEF MarkedInv
    <2>2. \A id : id \in DOMAIN db \/ Pushed(id, writer) => id \in ids \/ Pushed(id, writer')
      BY <1>3
    <2> HIDE DEF ids
    <2> QED BY <2>1, <2>2, StackFurther
  <1>11. IsFiniteSet(reg)
    BY DEF MarkedInv
  <1> QED BY <1>1, <1>7, <1>9, <1>10, <1>11 DEF MarkedInv

\* A restart leaves the store.
LEMMA CrashMarked ==
    ASSUME MarkedInv, Crash PROVE MarkedInv'
  <1>1. writer' = <<>> /\ stack' = Empty /\ UNCHANGED <<db, registered>>
    BY DEF Crash
  <1>2. \A t \in Threads : stack'[t] = <<>>
    BY <1>1 DEF Empty
  <1> QED BY <1>1, <1>2, EmptyMarked DEF MarkedInv

\* At the start nothing is stored.
LEMMA InitMarked == Init => MarkedInv
  <1> SUFFICES ASSUME Init PROVE MarkedInv
    OBVIOUS
  <1>1. db = <<>> /\ registered = {} /\ writer = <<>> /\ stack = Empty
    BY DEF Init
  <1>2. \A t \in Threads : stack[t] = <<>>
    BY <1>1 DEF Empty
  <1>3. StoreMarked(db, registered)
    BY <1>1 DEF StoreMarked
  <1> QED BY <1>1, <1>2, <1>3, EmptyMarked, FS_EmptySet DEF MarkedInv

\* Nothing has been refused since the start.
NothingRefused == ~dropped

\* Every step that refuses nothing keeps what is marked.
LEMMA NextMarked == EInv /\ MarkedInv /\ [Next]_vars /\ NothingRefused' => MarkedInv'
  <1> SUFFICES ASSUME EInv, MarkedInv, [Next]_vars, ~dropped' PROVE MarkedInv'
    BY DEF NothingRefused
  <1>1. CASE Client
    <2>1. CASE \E j \in Events : ProcessEvent(j)
      BY <2>1, SameMarked DEF ProcessEvent
    <2>2. CASE \E p \in Devices : AddSecret("key", p)
      BY <2>2, AddSecretMarked
    <2>3. CASE \E p \in Teams : AddSecret("team", p)
      BY <2>3, AddSecretMarked
    <2>4. CASE \E kind \in {"giftwrap", "pns", "sns"} : ScanBegin(kind)
      BY <2>4, SameMarked DEF ScanBegin
    <2>5. CASE ScanDispatch
      BY <2>5, SameMarked DEF ScanDispatch
    <2> QED BY <1>1, <2>1, <2>2, <2>3, <2>4, <2>5 DEF Client
  <1>2. CASE \E t \in Threads : Ingester(t)
    <2>1. PICK t \in Threads : Ingester(t)
      BY <1>2
    <2>2. CASE TakeKey(t)
      BY <2>2, SameMarked DEF TakeKey
    <2>3. CASE TakeTeamRoot(t)
      BY <2>3, SameMarked DEF TakeTeamRoot
    <2>4. CASE TakeEvent(t)
      BY <2>4, TakeEventMarked
    <2>5. CASE TakePeel(t)
      BY <2>5, TakePeelMarked
    <2>6. CASE Peel(t)
      BY <2>6, PeelMarked
    <2>7. CASE Plain(t)
      BY <2>7, PlainMarked
    <2>8. CASE Push(t)
      BY <2>8, PushMarked
    <2> QED BY <2>1, <2>2, <2>3, <2>4, <2>5, <2>6, <2>7, <2>8 DEF Ingester
  <1>3. CASE Write
    BY <1>3, WriteMarked
  <1>4. CASE Crash
    BY <1>4, CrashMarked
  <1>5. CASE UNCHANGED vars
    BY <1>5, SameMarked DEF vars
  <1> QED BY <1>1, <1>2, <1>3, <1>4, <1>5 DEF Next

\* An envelope marked UNWRAPPED has its note in the store (MarkedHasRumor;
\* nostrdb.h:19), in whichever order envelopes, keys and scans come and however
\* often the process dies, as long as no queue is full: with a full inbox the
\* writer gets the mark of an envelope without the note that was inside.
THEOREM EnvelopesMarked == Spec /\ []NothingRefused => []MarkedHasRumor
  <1>1. Init => EInv /\ MarkedInv
    BY InitEInv, InitMarked
  <1>2. (EInv /\ MarkedInv) /\ [Next]_vars /\ NothingRefused' => (EInv /\ MarkedInv)'
    BY NextEInv, NextMarked
  <1>3. EInv /\ MarkedInv => MarkedHasRumor
    <2> SUFFICES ASSUME MarkedInv, NEW w \in DOMAIN db, db[w].unwrapped
                 PROVE  \E m \in Peeled([id |-> w], SetToSeq(registered), SetToSeq(registered),
                                        SetToSeq(registered)) : m.id \in DOMAIN db
      BY DEF MarkedHasRumor
    <2>1. PICK m \in Held(w, registered) : m.id \in DOMAIN db
      BY DEF MarkedInv, StoreMarked
    <2> DEFINE s == SetToSeq(registered)
               n == [id |-> w]
    <2>2. s \in Seq(registered) /\ Range(s) = registered
      BY SetToSeqIs DEF MarkedInv
    <2>3. n.id = w
      OBVIOUS
    <2> HIDE DEF s, n
    <2>4. Peeled(n, s, s, s) = Inner(n.id, Range(s), Range(s), Range(s))
      BY <2>2, PeeledIs
    <2>5. m \in Peeled(n, s, s, s)
      BY <2>1, <2>2, <2>3, <2>4 DEF Held
    <2> QED BY <2>1, <2>5 DEF s, n
  <1> QED BY <1>1, <1>2, <1>3, PTL DEF Spec

=============================================================================
