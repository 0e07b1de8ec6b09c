------------------------------ MODULE Envelopes ------------------------------
(***************************************************************************)
(* Gift wraps (kind 1059), private note storage (1080) and shared notes    *)
(* (1081): how the ingester threads peel an envelope with the keys they    *)
(* hold, whom the note inside is attributed to, and how an envelope that   *)
(* arrived before its key is peeled later.                                 *)
(*                                                                         *)
(* A note's json is a record; the id of a note is the record without its   *)
(* signature, which is what the hash covers.  A public key is <<role,      *)
(* name>>; the key of an ecdh lock is the pair of public keys, from either *)
(* secret, the key of a symmetric lock that of the secret it is made from. *)
(***************************************************************************)
EXTENDS Integers, Sequences, FiniteSets, SequencesExt

CONSTANTS Events,           \* the events a relay may send
          Jsons,            \* these and every json somewhere inside one
          Nesting,          \* Nesting[j]: how many more are inside j
          Devices,          \* public keys of the secrets ndb_add_key is given
          Teams,            \* public keys of the team roots
          RejectedKinds,    \* kinds the ingest filter rejects
          Garbage,          \* a content that is not the json of a note
          Nobody,           \* no public key, no envelope
          NumThreads,       \* ingester threads
          MaxKeys,          \* MAX_INGESTER_KEYS
          InboxSize,        \* the inbox of an ingester thread
          WriterInboxSize,  \* the inbox of the writer
          Depth,            \* the most that are inside an event
          MaxEvents,        \* bound: events handed in
          MaxScans,         \* bound: ndb_process_giftwraps, _pns, _sns calls
          MaxAdds,          \* bound: ndb_add_key, ndb_add_team_root calls
          MaxCrashes        \* bound: process deaths

ASSUME EnvelopesAssumption ==
    /\ {NumThreads, MaxKeys, InboxSize, WriterInboxSize} \subseteq Nat \ {0}
    /\ {Depth, MaxEvents, MaxScans, MaxAdds, MaxCrashes} \subseteq Nat
    /\ Events \subseteq Jsons
    /\ Nesting \in [Jsons -> 0..Depth]
    /\ \A j \in Jsons :
          j.inside # Garbage => j.inside \in Jsons /\ Nesting[j.inside] < Nesting[j]

Threads == 0..(NumThreads - 1)

VARIABLES db,           \* stored notes by id: flags and the rumor's provenance
          writer,       \* the writer's inbox
          inbox,        \* inbox[t]: messages of ingester thread t
          stack,        \* stack[t]: the notes t is processing, innermost last
          keys,         \* keys[t]: its keypairs
          pns,          \* pns[t]: its private storage keys
          sns,          \* sns[t]: its team keys
          turn,         \* next_thread of the pool
          registered,   \* public keys of the secrets the client ever gave
          scan,         \* the envelopes that a running scan has yet to dispatch
          due,          \* dispatched envelopes that the secrets given open
          dropped,      \* a full queue or key table refused something
          used          \* the bounded steps taken so far

vars == <<db, writer, inbox, stack, keys, pns, sns, turn, registered, scan, due, dropped, used>>

keyVars == <<keys, pns, sns>>

-----------------------------------------------------------------------------
(* Notes *)

\* ndb_calculate_id: everything but the signature.
Id(j) ==
    [kind |-> j.kind, text |-> j.text, at |-> j.at, author |-> j.author,
     lock |-> j.lock, inside |-> j.inside]

\* A parsed event.
NoteOf(j) ==
    [id |-> Id(j), signed |-> j.sig = j.author, rumor |-> FALSE,
     receiver |-> Nobody, wrap |-> Nobody]

\* ndb_ingest_rumor up to processing: the author is given, the signature field
\* names the receiver and the envelope, the id is calculated again.
Rumor(j, author, receiver, wrap) ==
    [id |-> [Id(j) EXCEPT !.author = author], signed |-> FALSE, rumor |-> TRUE,
     receiver |-> receiver, wrap |-> wrap]

PnsKey(device) == <<"pns", device[2]>>

Ecdh(p, k) == <<"ecdh", {p, k}>>

Symmetric(p) == <<"symmetric", {p}>>

\* nip44 checks the message's code before it decrypts: the right key or none.
Opens(lock, key) == lock = key

\* ndb_ingester_process_note goes on with a note the filter accepts, and whose
\* signature it verifies unless it is a rumor.
Accepts(n) == n.id.kind \notin RejectedKinds /\ (n.rumor \/ n.signed)

\* Mutant: the signature of the seal is not verified.
SealUnverified(seal, receiver, wrap) ==
    IF /\ seal # Garbage
       /\ seal.kind = "seal"
       /\ Opens(seal.lock, Ecdh(seal.author, receiver))
       /\ seal.inside # Garbage
    THEN {Rumor(seal.inside, seal.author, receiver, wrap)}
    ELSE {}

\* ndb_process_seal: the rumor in a seal addressed to the receiver, if any.
Seal(seal, receiver, wrap) ==
    IF /\ seal # Garbage
       /\ seal.kind = "seal"
       /\ seal.sig = seal.author
       /\ Opens(seal.lock, Ecdh(seal.author, receiver))
       /\ seal.inside # Garbage
    THEN {Rumor(seal.inside, seal.author, receiver, wrap)}
    ELSE {}

\* ndb_process_giftwrap: the first key that opens the wrap decides.
Giftwrap(w, ks) ==
    LET opens == {i \in 1..Len(ks) : Opens(w.lock, Ecdh(w.author, ks[i]))}
        first == {i \in opens : \A j \in opens : i <= j}
    IN  UNION {Seal(w.inside, ks[i], w) : i \in first}

\* ndb_process_pns_event: the derived public key picks the key; the note inside
\* keeps the author it names, and belongs to the device when it names none.
Pns(w, ps) ==
    {LET author == IF w.inside.author = Nobody THEN d ELSE w.inside.author
     IN  Rumor(w.inside, author, d, w) :
     d \in {d \in Range(ps) : /\ w.author = PnsKey(d)
                              /\ Opens(w.lock, Symmetric(PnsKey(d)))
                              /\ w.inside # Garbage}}

\* ndb_process_sns_event: the team is the recipient of the seal.
Sns(w, ss) ==
    UNION {Seal(w.inside, t, w) :
           t \in {t \in Range(ss) : w.author = t /\ Opens(w.lock, Symmetric(t))}}

\* The note inside the envelope n (none, or one) for the keys handed down.
Peeled(n, ks, ps, ss) ==
    {m \in CASE n.id.kind = "giftwrap" -> Giftwrap(n.id, ks)
             [] n.id.kind = "pns"      -> Pns(n.id, ps)
             [] n.id.kind = "sns"      -> Sns(n.id, ss)
             [] OTHER                  -> {} : Accepts(m)}

-----------------------------------------------------------------------------
Empty == [t \in Threads |-> <<>>]

Init ==
    /\ db = <<>>
    /\ registered = {}
    /\ used = [events |-> 0, scans |-> 0, adds |-> 0, crashes |-> 0]
    /\ writer = <<>>
    /\ inbox = Empty
    /\ stack = Empty
    /\ keys = Empty
    /\ pns = Empty
    /\ sns = Empty
    /\ turn = 0
    /\ scan = <<>>
    /\ due = {}
    /\ dropped = FALSE

Spend(what, max) ==
    /\ used[what] < max
    /\ used' = [used EXCEPT ![what] = @ + 1]

-----------------------------------------------------------------------------
(* The client *)

\* threadpool_next_thread
Following(t) == (t + 1) % NumThreads

\* threadpool_dispatch: the next thread in turn, if its inbox has room.
Dispatched(boxes, t, m) ==
    IF Len(boxes[t]) < InboxSize THEN [boxes EXCEPT ![t] = Append(@, m)] ELSE boxes

Fits(boxes, t) == Len(boxes[t]) < InboxSize

\* ndb_process_event
ProcessEvent(j) ==
    /\ Spend("events", MaxEvents)
    /\ turn' = Following(turn)
    /\ inbox' = Dispatched(inbox, turn', [type |-> "event", json |-> j])
    /\ UNCHANGED <<db, writer, stack, keyVars, registered, scan, due, dropped>>

\* threadpool_dispatch_all_threads: from the first thread on, up to one that has
\* no room.
ToAllThreads(m) ==
    [t \in Threads |-> IF \A s \in 0..t : Fits(inbox, s) THEN Append(inbox[t], m) ELSE inbox[t]]

\* ndb_add_key and ndb_add_team_root
AddSecret(type, p) ==
    /\ Spend("adds", MaxAdds)
    /\ inbox' = ToAllThreads([type |-> type, key |-> p])
    /\ registered' = registered \cup {p}
    /\ dropped' = (dropped \/ \E t \in Threads : ~Fits(inbox, t))
    /\ UNCHANGED <<db, writer, stack, keyVars, turn, scan, due>>

\* The secrets of a type that thread t holds in its table, or will have taken
\* before what is queued next.
Given(t, type, table) ==
    SetToSeq(Range(table[t]) \cup {m.key : m \in {n \in Range(inbox[t]) : n.type = type}})

\* The envelopes that these keys and team keys open.
Openable(ids, ks, ss) == {w \in ids : Peeled([id |-> w], ks, ks, ss) # {}}

\* The envelopes of a kind that are not marked.
Unpeeled(kind) == {id \in DOMAIN db : id.kind = kind /\ ~db[id].unwrapped}

\* ndb_process_giftwraps, ndb_process_pns and ndb_process_sns walk the index of
\* the client's transaction from the newest envelope of their kind on.
ScanBegin(kind) ==
    /\ Spend("scans", MaxScans)
    /\ scan = <<>>
    /\ \E todo \in SetToSeqs(Unpeeled(kind)) :
          /\ \A i, j \in 1..Len(todo) : i < j => todo[i].at >= todo[j].at
          /\ scan' = todo
    /\ UNCHANGED <<db, writer, inbox, stack, keyVars, turn, registered, due, dropped>>

\* Mutant: only the newest envelope is dispatched.
ScanDispatchFirst ==
    /\ scan # <<>>
    /\ turn' = Following(turn)
    /\ inbox' = Dispatched(inbox, turn', [type |-> "peel", note |-> Head(scan)])
    /\ scan' = <<>>
    /\ due' = due \cup Openable(Range(scan), Given(0, "key", keys), Given(0, "team", sns))
    /\ dropped' = (dropped \/ ~Fits(inbox, turn'))
    /\ UNCHANGED <<db, writer, stack, keyVars, registered, used>>

\* One turn of their loop: it ends with an envelope that does not fit; the pool's
\* turn moves on even then.
ScanDispatch ==
    /\ scan # <<>>
    /\ turn' = Following(turn)
    /\ inbox' = Dispatched(inbox, turn', [type |-> "peel", note |-> Head(scan)])
    /\ scan' = IF Fits(inbox, turn') THEN Tail(scan) ELSE <<>>
    /\ due' = due \cup Openable({Head(scan)}, Given(0, "key", keys), Given(0, "team", sns))
    /\ dropped' = (dropped \/ ~Fits(inbox, turn'))
    /\ UNCHANGED <<db, writer, stack, keyVars, registered, used>>

-----------------------------------------------------------------------------
(* An ingester thread *)

Frame(n, store, teams) ==
    [note |-> n, store |-> store, teams |-> teams, storage |-> TRUE,
     done |-> FALSE, unwrapped |-> FALSE]

\* The next message of thread t.
Receives(t, type) ==
    /\ stack[t] = <<>>
    /\ inbox[t] # <<>>
    /\ Head(inbox[t]).type = type

Consume(t) == inbox' = [inbox EXCEPT ![t] = Tail(@)]

\* ndb_ingester_add_keypair, _add_pns_key and _add_sns_key: no room, no key; a
\* key that is there already is added again.
WithKey(table, p) == IF Len(table) < MaxKeys THEN Append(table, p) ELSE table

\* NDB_INGEST_ADD_KEY
TakeKey(t) ==
    /\ Receives(t, "key")
    /\ LET p == Head(inbox[t]).key
       IN  /\ keys' = [keys EXCEPT ![t] = WithKey(@, p)]
           /\ pns' = [pns EXCEPT ![t] = WithKey(@, p)]
    /\ dropped' = (dropped \/ Len(keys[t]) = MaxKeys)
    /\ Consume(t)
    /\ UNCHANGED <<db, writer, stack, sns, turn, registered, scan, due, used>>

\* NDB_INGEST_ADD_TEAM_ROOT
TakeTeamRoot(t) ==
    /\ Receives(t, "team")
    /\ sns' = [sns EXCEPT ![t] = WithKey(@, Head(inbox[t]).key)]
    /\ dropped' = (dropped \/ Len(sns[t]) = MaxKeys)
    /\ Consume(t)
    /\ UNCHANGED <<db, writer, stack, keys, pns, turn, registered, scan, due, used>>

\* NDB_INGEST_EVENT: a note that is stored, or that is not accepted, goes no
\* further.
TakeEvent(t) ==
    /\ Receives(t, "event")
    /\ LET n == NoteOf(Head(inbox[t]).json)
       IN  stack' = IF n.id \in DOMAIN db \/ ~Accepts(n) THEN stack
                    ELSE [stack EXCEPT ![t] = <<Frame(n, TRUE, TRUE)>>]
    /\ Consume(t)
    /\ UNCHANGED <<db, writer, keyVars, turn, registered, scan, due, dropped, used>>

\* ndb_ingester_reprocess_giftwrap, _pns and _sns: a copy of the stored envelope
\* is peeled; the copy is not stored.
TakePeel(t) ==
    /\ Receives(t, "peel")
    /\ LET id  == Head(inbox[t]).note
           rec == db[id]
           n   == [id |-> id, signed |-> FALSE, rumor |-> rec.rumor,
                   receiver |-> rec.receiver, wrap |-> rec.wrap]
       IN  stack' = [stack EXCEPT ![t] = <<Frame(n, FALSE, TRUE)>>]
    /\ Consume(t)
    /\ UNCHANGED <<db, writer, keyVars, turn, registered, scan, due, dropped, used>>

Top(t) == stack[t][Len(stack[t])]

\* The keys at hand for the innermost note: a rumor is processed without storage
\* and team keys, the inside of private storage without team keys.
Inside(t) ==
    Peeled(Top(t).note, keys[t],
           IF Top(t).storage THEN pns[t] ELSE <<>>,
           IF Top(t).teams THEN sns[t] ELSE <<>>)

\* The envelope is opened and the note inside is processed next, before the
\* envelope itself is pushed.
Peel(t) ==
    /\ stack[t] # <<>>
    /\ ~Top(t).done
    /\ \E n \in Inside(t) :
          stack' = [stack EXCEPT ![t] =
              Append(Front(@) \o <<[Top(t) EXCEPT !.done = TRUE, !.unwrapped = TRUE]>>,
                     [Frame(n, TRUE, FALSE) EXCEPT !.storage = Top(t).note.id.kind = "pns"])]
    /\ UNCHANGED <<db, writer, inbox, keyVars, turn, registered, scan, due, dropped, used>>

\* A note that holds nothing to peel; a repost's content is dispatched as an
\* event of its own.
Plain(t) ==
    /\ stack[t] # <<>>
    /\ ~Top(t).done
    /\ Inside(t) = {}
    /\ stack' = [stack EXCEPT ![t] = Front(@) \o <<[Top(t) EXCEPT !.done = TRUE]>>]
    /\ LET id == Top(t).note.id
       IN  IF id.kind = "repost" /\ id.inside # Garbage
           THEN /\ turn' = Following(turn)
                /\ inbox' = Dispatched(inbox, turn', [type |-> "event", json |-> id.inside])
           ELSE UNCHANGED <<turn, inbox>>
    /\ UNCHANGED <<db, writer, keyVars, registered, scan, due, dropped, used>>

\* Mutant: the mark is set before the envelope is opened.
MarkOfEarly(f) == f.note.id.kind \in {"giftwrap", "pns", "sns"}

\* The UNWRAPPED flag of a note when it is pushed.
MarkOf(f) == f.unwrapped

\* The end of ndb_ingester_process_note: the note goes to the writer, whose inbox
\* drops it when full; an envelope that was only peeled again goes nowhere.
Push(t) ==
    /\ stack[t] # <<>>
    /\ Top(t).done
    /\ LET f == Top(t)
           m == [note |-> f.note, unwrapped |-> MarkOf(f), over |-> FALSE]
       IN  IF f.store /\ Len(writer) < WriterInboxSize
           THEN writer' = Append(writer, m) /\ UNCHANGED dropped
           ELSE writer' = writer /\ dropped' = (dropped \/ f.store)
    /\ stack' = [stack EXCEPT ![t] = Front(@)]
    /\ UNCHANGED <<db, inbox, keyVars, turn, registered, scan, due, used>>

-----------------------------------------------------------------------------
(* The writer *)

\* ndb_write_note writes a new note, one it is told to overwrite, and a rumor
\* whose plaintext is stored.
Writes(m) ==
    \/ m.over
    \/ m.note.id \notin DOMAIN db
    \/ m.note.rumor /\ ~db[m.note.id].rumor

Record(m) ==
    [rumor |-> m.note.rumor, receiver |-> m.note.receiver, wrap |-> m.note.wrap,
     unwrapped |-> m.unwrapped]

\* handle_reprocessed_giftwrap: the stored envelope of the rumor that is not
\* marked yet.
ToMark(m) ==
    {w \in DOMAIN db : m.note.rumor /\ w = m.note.wrap /\ ~db[w].unwrapped}

Marking(w) ==
    [note |-> [id |-> w, signed |-> FALSE, rumor |-> db[w].rumor,
               receiver |-> db[w].receiver, wrap |-> db[w].wrap],
     unwrapped |-> TRUE, over |-> TRUE]

\* One message of a writer's batch, and its commit.
Write ==
    /\ writer # <<>>
    /\ LET m    == Head(writer)
           room == Len(writer) - 1 < WriterInboxSize
           mark == IF Writes(m) THEN ToMark(m) ELSE {}
       IN  /\ db' = IF Writes(m)
                    THEN [id \in DOMAIN db \cup {m.note.id} |->
                             IF id = m.note.id THEN Record(m) ELSE db[id]]
                    ELSE db
           /\ writer' = IF mark # {} /\ room
                        THEN Append(Tail(writer), Marking(m.note.wrap))
                        ELSE Tail(writer)
           /\ dropped' = (dropped \/ (mark # {} /\ ~room))
    /\ UNCHANGED <<inbox, stack, keyVars, turn, registered, scan, due, used>>

\* The process dies and starts again: the database is what is left.
Crash ==
    /\ Spend("crashes", MaxCrashes)
    /\ writer' = <<>>
    /\ inbox' = Empty
    /\ stack' = Empty
    /\ keys' = Empty
    /\ pns' = Empty
    /\ sns' = Empty
    /\ turn' = 0
    /\ scan' = <<>>
    /\ due' = {}
    /\ dropped' = FALSE
    /\ UNCHANGED <<db, registered>>

Client ==
    \/ \E j \in Events : ProcessEvent(j)
    \/ \E p \in Devices : AddSecret("key", p)
    \/ \E p \in Teams : AddSecret("team", p)
    \/ \E kind \in {"giftwrap", "pns", "sns"} : ScanBegin(kind)
    \/ ScanDispatch

Ingester(t) ==
    \/ TakeKey(t)
    \/ TakeTeamRoot(t)
    \/ TakeEvent(t)
    \/ TakePeel(t)
    \/ Peel(t)
    \/ Plain(t)
    \/ Push(t)

Next ==
    \/ Client
    \/ \E t \in Threads : Ingester(t)
    \/ Write
    \/ Crash

Spec == Init /\ [][Next]_vars

-----------------------------------------------------------------------------
(* Properties *)

Idle == writer = <<>> /\ scan = <<>> /\ \A t \in Threads : inbox[t] = <<>> /\ stack[t] = <<>>

\* The state is well-formed: queues and key tables stay in their bounds, and
\* stored notes carry the id they are stored under (nostrdb.c:8146, 8190, 8254).
TypeOK ==
    /\ \A id \in DOMAIN db : db[id].unwrapped \in BOOLEAN /\ db[id].rumor \in BOOLEAN
    /\ Len(writer) <= WriterInboxSize
    /\ turn \in Threads
    /\ \A t \in Threads :
          /\ Len(inbox[t]) <= InboxSize
          /\ {Len(keys[t]), Len(pns[t]), Len(sns[t])} \subseteq 0..MaxKeys
          /\ Len(stack[t]) <= Depth + 1

\* Every stored note has an author who stands for it: a plain note was signed by
\* its author, a rumor is attributed to the signer of the seal it came in, and
\* what comes out of private storage to whom the owner says (nostrdb.c:7215-7230,
\* "We don't trust the pubkey or sig on rumors").
AuthorsVouched ==
    \A id \in DOMAIN db :
       LET w == db[id].wrap
       IN  IF ~db[id].rumor THEN \E j \in Jsons : Id(j) = id /\ j.sig = j.author
           ELSE \/ /\ w.kind \in {"giftwrap", "sns"}
                   /\ w.inside # Garbage
                   /\ w.inside.kind = "seal"
                   /\ w.inside.sig = w.inside.author
                   /\ [Id(w.inside.inside) EXCEPT !.author = w.inside.author] = id
                \/ /\ w.kind = "pns"
                   /\ w.author = PnsKey(db[id].receiver)
                   /\ id.author \in {w.inside.author, db[id].receiver}
                   /\ [Id(w.inside) EXCEPT !.author = id.author] = id

\* A rumor in the store names a receiver whose secret the client gave, and who is
\* party to the lock it was under: nothing is stored decrypted for anyone else
\* (nostrdb.c:7230-7242, 7545-7600).
ReceiversRegistered ==
    \A id \in DOMAIN db :
       db[id].rumor =>
          /\ db[id].receiver \in registered
          /\ LET lock == db[id].wrap.lock
             IN  {db[id].receiver, PnsKey(db[id].receiver)} \cap lock[2] # {}

\* Both: who wrote a stored note and for whom it was opened are right.
RumorsVouched == TypeOK /\ AuthorsVouched /\ ReceiversRegistered

\* An envelope marked UNWRAPPED has its note in the store: nostrdb.h:19, "we have
\* processed this giftwrap and have ingested the rumor".
MarkedHasRumor ==
    \A w \in DOMAIN db :
       db[w].unwrapped =>
          \E m \in Peeled([id |-> w], SetToSeq(registered), SetToSeq(registered),
                          SetToSeq(registered)) : m.id \in DOMAIN db

\* A scan leaves nothing behind: once everything has been processed and nothing
\* was refused, every envelope the scan found and a registered key opens has its
\* note in the store, although keys and envelopes reach each thread by a queue of
\* its own (nostrdb.c:7362-7367, "Dispatch *every* not-yet-unwrapped gift wrap").
NothingMissed ==
    Idle /\ ~dropped =>
       \A w \in due :
          \E m \in Peeled([id |-> w], keys[0], pns[0], sns[0]) : m.id \in DOMAIN db

=============================================================================
