---------------------------- MODULE IngesterPool ----------------------------
(***************************************************************************)
(* The pool of ingester threads (threadpool.h and ndb_ingester_thread):    *)
(* clients dispatch events and register keys, threads drain their inboxes  *)
(* in batches, a kind-6 repost dispatches the event embedded in it onto    *)
(* the pool again, and threadpool_destroy quits, joins and frees.          *)
(*                                                                         *)
(* An inbox is a bounded sequence here; ProtQueue justifies it.  What an   *)
(* event means to the database is left to NoteWriter: processing ends in   *)
(* "rejected" (unparsable, already stored, filtered, bad signature) or in  *)
(* a hand-over to the writer.                                              *)
(***************************************************************************)
EXTENDS Integers, Sequences, FiniteSets

CONSTANTS N,                \* config->ingester_threads
          Events,           \* event JSON texts
          None,             \* no event embedded, no key being registered
          Embedded,         \* Embedded[e]: the event a repost e carries
          Keys,             \* secret keys a client registers
          InboxSize,        \* DEFAULT_QUEUE_SIZE
          BatchSize,        \* THREAD_QUEUE_BATCH
          MaxKeys,          \* MAX_INGESTER_KEYS
          MaxTxnFailures,   \* bound on failing mdb_txn_begin calls
          MaxLost           \* bound on failing allocations of note buffers

ASSUME PoolAssumption ==
    /\ N \in Nat \ {0}
    /\ InboxSize \in Nat \ {0}
    /\ BatchSize \in Nat \ {0}
    /\ MaxKeys \in Nat \ {0}
    /\ MaxTxnFailures \in Nat /\ MaxLost \in Nat
    /\ None \notin Events \cup Keys
    /\ Embedded \in [Events -> Events \cup {None}]

VARIABLES inbox,        \* inbox[t]: thread t's queue
          batch,        \* batch[t]: popped messages not yet processed
          stage,        \* stage[t]: where the loop of t is
          quitting,     \* quitting[t]: t has seen a quit message
          known,        \* known[t]: the keys t can unwrap with, in order
          unsent,       \* events no client has submitted yet
          registering,  \* a running ndb_add_key: its key and next thread
          registered,   \* keys whose ndb_add_key returned 1
          destroying,   \* phase of threadpool_destroy, and its loop index
          quitPushed,   \* quitPushed[t]: the quit message fitted
          freed,        \* threads whose queue memory was freed
          live,         \* json copies allocated and not yet freed
          lost,         \* json copies that nothing refers to any more
          failures      \* mdb_txn_begin failures so far

vars == <<inbox, batch, stage, quitting, known, unsent, registering, registered,
          destroying, quitPushed, freed, live, lost, failures>>

threadVars == <<batch, stage, quitting, known>>

clientVars == <<unsent, registering, registered>>

destroyVars == <<destroying, quitPushed, freed>>

Threads == 1..N

\* Stands for a client where the sender of an event is a thread otherwise.
Client == 0

\* A message of an inbox.  An event also carries, for the properties only, who
\* dispatched it and the keys whose registration had returned by then.
EventMsg(e, from) == [type |-> "event", ev |-> e, from |-> from, after |-> registered]
KeyMsg(k) == [type |-> "key", key |-> k]
QuitMsg == [type |-> "quit"]

Message ==
    [type : {"event"}, ev : Events, from : Threads \cup {Client}, after : SUBSET Keys]
        \cup [type : {"key"}, key : Keys]
        \cup {QuitMsg}

Idle == [key |-> None, next |-> 1]

\* threadpool_init
Init ==
    /\ inbox = [t \in Threads |-> <<>>]
    /\ batch = [t \in Threads |-> <<>>]
    /\ stage = [t \in Threads |-> "pop"]
    /\ quitting = [t \in Threads |-> FALSE]
    /\ known = [t \in Threads |-> <<>>]
    /\ unsent = Events
    /\ registering = Idle
    /\ registered = {}
    /\ destroying = [phase |-> "open", next |-> 1]
    /\ quitPushed = [t \in Threads |-> FALSE]
    /\ freed = {}
    /\ live = 0
    /\ lost = 0
    /\ failures = 0

Full(t) == Len(inbox[t]) = InboxSize

\* prot_queue_push
Enqueue(t, m) == inbox' = [inbox EXCEPT ![t] = Append(@, m)]

\* ndb_ingest_event: copy the json and dispatch it.  The copy is freed again if the
\* inbox is full, and there is none if memory is short: nothing has changed then.
\* next_thread is advanced without a lock by clients and by ingester threads at
\* once, so the pick t is any thread of the pool.
Ingest(e, t) ==
    \/ /\ ~Full(t)
       /\ Enqueue(t, EventMsg(e, Client))
       /\ live' = live + 1
    \/ UNCHANGED <<inbox, live>>

-----------------------------------------------------------------------------
(* Clients *)

\* ndb_process_event and its variants.
ProcessEvent(e, t) ==
    /\ destroying.phase = "open"
    /\ e \in unsent
    /\ unsent' = unsent \ {e}
    /\ Ingest(e, t)
    /\ UNCHANGED <<threadVars, registering, registered, destroyVars, lost, failures>>

\* ndb_add_key starts: threadpool_dispatch_all_threads visits every inbox.
AddKeyBegin(k) ==
    /\ destroying.phase = "open"
    /\ registering.key = None
    /\ k \notin registered
    /\ registering' = [key |-> k, next |-> 1]
    /\ UNCHANGED <<inbox, threadVars, unsent, registered, destroyVars, live, lost, failures>>

\* Mutant: the key goes to the thread of the next event only.
AddKeyPushOne ==
    /\ registering.key # None
    /\ LET t == registering.next
       IN  /\ ~Full(t)
           /\ Enqueue(t, KeyMsg(registering.key))
           /\ registering' = Idle
           /\ registered' = registered \cup {registering.key}
    /\ UNCHANGED <<threadVars, unsent, destroyVars, live, lost, failures>>

\* One turn of its loop.  The first full inbox ends the pushing (ok && push) and
\* the call returns 0; after the last push it returns 1.
AddKeyPush ==
    /\ registering.key # None
    /\ LET t == registering.next
       IN  \/ /\ ~Full(t)
              /\ Enqueue(t, KeyMsg(registering.key))
              /\ IF t < N
                 THEN /\ registering' = [registering EXCEPT !.next = t + 1]
                      /\ UNCHANGED registered
                 ELSE /\ registering' = Idle
                      /\ registered' = registered \cup {registering.key}
           \/ /\ Full(t)
              /\ registering' = Idle
              /\ UNCHANGED <<inbox, registered>>
    /\ UNCHANGED <<threadVars, unsent, destroyVars, live, lost, failures>>

-----------------------------------------------------------------------------
(* ndb_ingester_thread *)

IsEvent(m) == m.type = "event"

\* The places of the events in a sequence of messages.
EventsIn(msgs) == {i \in 1..Len(msgs) : IsEvent(msgs[i])}

\* prot_queue_pop_all: one or more of the oldest messages; fewer than there are
\* when the batch is full or the ring wraps.
Pop(t) ==
    /\ stage[t] = "pop"
    /\ \E n \in 1..Len(inbox[t]) :
          /\ n <= BatchSize
          /\ batch' = [batch EXCEPT ![t] = SubSeq(inbox[t], 1, n)]
          /\ inbox' = [inbox EXCEPT ![t] = SubSeq(@, n + 1, Len(@))]
          /\ stage' = [stage EXCEPT ![t] = "begin"]
    /\ UNCHANGED <<quitting, known, clientVars, destroyVars, live, lost, failures>>

\* Mutant: the dropped batch is not freed.
TxnBeginFailsLeaky(t) ==
    /\ stage[t] = "begin"
    /\ failures < MaxTxnFailures
    /\ EventsIn(batch[t]) # {}
    /\ failures' = failures + 1
    /\ batch' = [batch EXCEPT ![t] = <<>>]
    /\ stage' = [stage EXCEPT ![t] = "pop"]
    /\ UNCHANGED <<inbox, quitting, known, live, lost, clientVars, destroyVars>>

\* The read transaction of a batch with events cannot begin: the batch is freed
\* and dropped, a quit in it is remembered, and the loop continues at the pop.
TxnBeginFails(t) ==
    /\ stage[t] = "begin"
    /\ failures < MaxTxnFailures
    /\ EventsIn(batch[t]) # {}
    /\ failures' = failures + 1
    /\ live' = live - Cardinality(EventsIn(batch[t]))
    /\ quitting' = [quitting EXCEPT ![t] = @ \/ \E i \in 1..Len(batch[t]) :
                                                   batch[t][i].type = "quit"]
    /\ batch' = [batch EXCEPT ![t] = <<>>]
    /\ stage' = [stage EXCEPT ![t] = "pop"]
    /\ UNCHANGED <<inbox, known, lost, clientVars, destroyVars>>

\* The transaction is open (or not needed): the batch will be processed.
TxnBegin(t) ==
    /\ stage[t] = "begin"
    /\ stage' = [stage EXCEPT ![t] = "process"]
    /\ UNCHANGED <<inbox, batch, quitting, known, clientVars, destroyVars, live, lost, failures>>

Consume(t) == batch' = [batch EXCEPT ![t] = Tail(@)]

\* Mutant: the quit message jumps to the next turn of the loop.
TakeQuitContinue(t) ==
    /\ stage[t] = "process"
    /\ batch[t] # <<>>
    /\ Head(batch[t]).type = "quit"
    /\ quitting' = [quitting EXCEPT ![t] = TRUE]
    /\ batch' = [batch EXCEPT ![t] = <<>>]
    /\ stage' = [stage EXCEPT ![t] = "pop"]
    /\ UNCHANGED <<inbox, known, clientVars, destroyVars, live, lost, failures>>

\* NDB_INGEST_QUIT
TakeQuit(t) ==
    /\ stage[t] = "process"
    /\ batch[t] # <<>>
    /\ Head(batch[t]).type = "quit"
    /\ quitting' = [quitting EXCEPT ![t] = TRUE]
    /\ Consume(t)
    /\ UNCHANGED <<inbox, stage, known, clientVars, destroyVars, live, lost, failures>>

\* NDB_INGEST_ADD_KEY: a key past the table's size is ignored.
TakeKey(t) ==
    /\ stage[t] = "process"
    /\ batch[t] # <<>>
    /\ Head(batch[t]).type = "key"
    /\ known' = IF Len(known[t]) = MaxKeys
                THEN known
                ELSE [known EXCEPT ![t] = Append(@, Head(batch[t]).key)]
    /\ Consume(t)
    /\ UNCHANGED <<inbox, stage, quitting, clientVars, destroyVars, live, lost, failures>>

\* NDB_INGEST_EVENT, not handed on.  Unparsable, stored, filtered or unverified: the
\* copy is freed.  No memory for the note: ndb_ingester_process_event returns
\* before it can free anything.
RejectEvent(t) ==
    /\ stage[t] = "process"
    /\ batch[t] # <<>>
    /\ IsEvent(Head(batch[t]))
    /\ \/ live' = live - 1 /\ UNCHANGED lost
       \/ lost < MaxLost /\ lost' = lost + 1 /\ UNCHANGED live
    /\ Consume(t)
    /\ UNCHANGED <<inbox, stage, quitting, known, clientVars, destroyVars, failures>>

\* NDB_INGEST_EVENT, handed to the writer; a repost first dispatches the event
\* it carries, to any thread of the pool, and its own copy is freed at the end;
\* that dispatch may fail as any other.
AcceptEvent(t) ==
    /\ stage[t] = "process"
    /\ batch[t] # <<>>
    /\ IsEvent(Head(batch[t]))
    /\ LET inner == Embedded[Head(batch[t]).ev]
       IN  \/ /\ inner = None
              /\ live' = live - 1
              /\ UNCHANGED inbox
           \/ /\ inner # None
              /\ \E u \in Threads :
                    \/ /\ ~Full(u)
                       /\ Enqueue(u, EventMsg(inner, t))
                       /\ UNCHANGED live
                    \/ /\ live' = live - 1
                       /\ UNCHANGED inbox
    /\ Consume(t)
    /\ UNCHANGED <<stage, quitting, known, clientVars, destroyVars, lost, failures>>

\* Mutant: a quit takes effect at the end of its batch, whatever waits.
LoopTestEager(t) ==
    /\ stage[t] = "process"
    /\ batch[t] = <<>>
    /\ stage' = [stage EXCEPT ![t] = IF quitting[t] THEN "exit" ELSE "pop"]
    /\ UNCHANGED <<inbox, batch, quitting, known, clientVars, destroyVars, live, lost, failures>>

\* The end of the loop body: done once quitting and prot_queue_empty.
LoopTest(t) ==
    /\ stage[t] = "process"
    /\ batch[t] = <<>>
    /\ stage' = [stage EXCEPT ![t] =
                    IF quitting[t] /\ inbox[t] = <<>> THEN "exit" ELSE "pop"]
    /\ UNCHANGED <<inbox, batch, quitting, known, clientVars, destroyVars, live, lost, failures>>

-----------------------------------------------------------------------------
(* threadpool_destroy, called once no client uses the database any more *)

Goto(phase, i) == destroying' = [phase |-> phase, next |-> i]

DestroyBegin ==
    /\ destroying.phase = "open"
    /\ registering.key = None
    /\ Goto("quit", 1)
    /\ UNCHANGED <<inbox, threadVars, clientVars, quitPushed, freed, live, lost, failures>>

\* First loop: push the quit message to every inbox that has room.
DestroyQuit ==
    /\ destroying.phase = "quit"
    /\ LET t == destroying.next
       IN  /\ IF Full(t) THEN UNCHANGED inbox ELSE Enqueue(t, QuitMsg)
           /\ quitPushed' = [quitPushed EXCEPT ![t] = ~Full(t)]
           /\ IF t < N THEN Goto("quit", t + 1) ELSE Goto("join", 1)
    /\ UNCHANGED <<threadVars, clientVars, freed, live, lost, failures>>

\* Mutant: each queue is freed as soon as its own thread is joined.
DestroyJoinFree ==
    /\ destroying.phase = "join"
    /\ LET t == destroying.next
       IN  /\ quitPushed[t]
           /\ stage[t] = "exit"
           /\ freed' = freed \cup {t}
           /\ IF t < N THEN Goto("join", t + 1) ELSE Goto("done", 1)
    /\ UNCHANGED <<inbox, threadVars, clientVars, quitPushed, live, lost, failures>>

\* Second loop: join the threads that got the message.  THREAD_TERMINATE is
\* pthread_exit on POSIX: it ends the thread that runs threadpool_destroy.
DestroyJoin ==
    /\ destroying.phase = "join"
    /\ LET t == destroying.next
       IN  \/ /\ quitPushed[t]
              /\ stage[t] = "exit"
              /\ IF t < N THEN Goto("join", t + 1) ELSE Goto("free", 1)
           \/ /\ ~quitPushed[t]
              /\ Goto("gone", t)
    /\ UNCHANGED <<inbox, threadVars, clientVars, quitPushed, freed, live, lost, failures>>

\* Third loop: destroy and free the queues, then the pool.
DestroyFree ==
    /\ destroying.phase = "free"
    /\ LET t == destroying.next
       IN  /\ freed' = freed \cup {t}
           /\ IF t < N THEN Goto("free", t + 1) ELSE Goto("done", 1)
    /\ UNCHANGED <<inbox, threadVars, clientVars, quitPushed, live, lost, failures>>

ThreadStep(t) ==
    \/ Pop(t)
    \/ TxnBegin(t)
    \/ TakeQuit(t)
    \/ TakeKey(t)
    \/ RejectEvent(t)
    \/ AcceptEvent(t)
    \/ LoopTest(t)

DestroyStep == DestroyQuit \/ DestroyJoin \/ DestroyFree

Next ==
    \/ \E e \in Events : \E t \in Threads : ProcessEvent(e, t)
    \/ \E k \in Keys : AddKeyBegin(k)
    \/ AddKeyPush
    \/ \E t \in Threads : ThreadStep(t)
    \/ \E t \in Threads : TxnBeginFails(t)
    \/ DestroyBegin
    \/ DestroyStep

\* The scheduler runs every runnable thread, and threadpool_destroy.  No client
\* call is promised, and neither is a failure.
Spec ==
    /\ Init
    /\ [][Next]_vars
    /\ \A t \in Threads : WF_vars(ThreadStep(t))
    /\ WF_vars(DestroyStep)

-----------------------------------------------------------------------------
(* Properties *)

TypeOK ==
    /\ inbox \in [Threads -> Seq(Message)]
    /\ batch \in [Threads -> Seq(Message)]
    /\ \A t \in Threads : Len(inbox[t]) <= InboxSize /\ Len(batch[t]) <= BatchSize
    /\ stage \in [Threads -> {"pop", "begin", "process", "exit"}]
    /\ quitting \in [Threads -> BOOLEAN]
    /\ known \in [Threads -> Seq(Keys)]
    /\ unsent \subseteq Events
    /\ registering \in [key : Keys \cup {None}, next : Threads]
    /\ registered \subseteq Keys
    /\ destroying \in [phase : {"open", "quit", "join", "free", "done", "gone"},
                       next : Threads]
    /\ quitPushed \in [Threads -> BOOLEAN]
    /\ freed \subseteq Threads
    /\ live \in Int
    /\ lost \in 0..MaxLost
    /\ failures \in 0..MaxTxnFailures

\* "tearing them down one at a time would let a live thread push into freed
\* queue memory": while any thread can still dispatch a repost, no queue of the
\* pool has been freed.
NoFreeUnderThreads == freed # {} => \A t \in Threads : stage[t] = "exit"

\* No read transaction has failed to begin.
Healthy == failures = 0

\* A thread that has seen its quit never goes back to wait on an empty inbox,
\* where nobody would wake it and the join would not return.
QuitHonored ==
    \A t \in Threads : quitting[t] /\ stage[t] = "pop" => inbox[t] # <<>>

\* The same as long as every read transaction begins.
QuitHonoredHealthy == Healthy => QuitHonored

\* Accepted events are not stranded in a queue that is freed: whatever a repost
\* dispatched while the pool was shutting down is processed before that.
NothingStranded ==
    freed # {} => \A t \in Threads : \A i \in 1..Len(inbox[t]) : ~IsEvent(inbox[t][i])

\* A quit takes effect once the inbox is empty: an event left in a freed queue
\* was put there by another thread of the pool, never by a client or by the
\* thread itself while it drained.
OwnWorkDrained ==
    freed # {} =>
        \A t \in Threads : \A i \in 1..Len(inbox[t]) :
            IsEvent(inbox[t][i]) => inbox[t][i].from \notin {t, Client}

\* The events in flight.
InFlight == UNION {{t} \X EventsIn(inbox[t]) : t \in Threads}

InHand == UNION {{t} \X EventsIn(batch[t]) : t \in Threads}

\* Each json copy has one owner: the queue or the thread that popped it.  None is
\* freed twice, and none leaks when an inbox is full or a batch is dropped; the only
\* copies without an owner are those of events whose note buffer malloc refused.
\* (What is stranded in a freed queue counts as its queue's: OwnWorkDrained is
\* about that.)
CopiesOwned == live = Cardinality(InFlight) + Cardinality(InHand) + lost

\* Each json copy that is not freed has an owner, memory short or not ("the ingester
\* thread owns these once queued").
CopiesFreed == live = Cardinality(InFlight) + Cardinality(InHand)

\* An event dispatched after ndb_add_key returned 1 is processed by a thread that
\* knows the key, whichever thread it lands on, unless that thread's table is full
\* or a batch was dropped.
KeysKnown ==
    Healthy => \A t \in Threads :
        (stage[t] = "process" /\ batch[t] # <<>> /\ IsEvent(Head(batch[t])))
            => \A k \in Head(batch[t]).after :
                  \/ \E i \in 1..Len(known[t]) : known[t][i] = k
                  \/ Len(known[t]) = MaxKeys

\* ndb_destroy gets past the pool: all threads join, or the quit message did not
\* fit and the destroying thread ended itself, or a batch was dropped.
DestroyReturns ==
    destroying.phase = "quit" ~> (destroying.phase \in {"done", "gone"} \/ ~Healthy)
=============================================================================
