------------------------------ MODULE Monitor ------------------------------
(***************************************************************************)
(* Subscriptions: the table of ndb_monitor behind one mutex and one        *)
(* condition variable.  Clients subscribe, query, poll, wait and           *)
(* unsubscribe; the writer thread commits a batch and then, holding the    *)
(* mutex, offers its notes to every subscription.                          *)
(*                                                                         *)
(* A client call takes the mutex once, so it is one step that needs the    *)
(* mutex free; only the writer, which may run the client's callback, and a *)
(* waiter, which gives the mutex up to sleep, take several.  A filter group*)
(* is the set of notes that match it.                                      *)
(***************************************************************************)
EXTENDS Integers, SequencesExt

CONSTANTS Notes,            \* note keys
          Filters,          \* filter groups
          Matches,          \* Matches[f]: the notes that match f
          Waiters,          \* client threads that call ndb_wait_for_notes
          MaxSubscriptions, \* MAX_SUBSCRIPTIONS
          InboxSize,        \* DEFAULT_QUEUE_SIZE of a subscription's inbox
          PollSize,         \* note_id_capacity of a poll or wait
          BatchSize,        \* most notes of one commit
          HasCallback,      \* config->sub_cb is set
          CallbackPolls,    \* and it calls ndb_poll_for_notes
          MaxSubscribes,    \* bound: calls of ndb_subscribe
          MaxEmpty          \* bound: commits without a new note

ASSUME MonitorAssumption ==
    /\ Matches \in [Filters -> SUBSET Notes]
    /\ {MaxSubscriptions, InboxSize, PollSize, BatchSize} \subseteq Nat \ {0}
    /\ {MaxSubscribes, MaxEmpty} \subseteq Nat
    /\ {HasCallback, CallbackPolls} \subseteq BOOLEAN

VARIABLES subs,         \* the subscriptions, in table order
          subids,       \* the static counter of ndb_subscribe
          held,         \* the writer holds the mutex
          writer,       \* the writer's stage, batch and loop variables
          waiter,       \* waiter[c]: asleep, woken or not in the call; for which id
          log,          \* committed notes, in commit order
          calls,        \* calls of ndb_subscribe and empty commits so far
          \* What clients know, for the properties:
          asked,        \* asked[id]: the filter of each subscription not given up
          got,          \* got[id]: the notes handed out, in order
          seen,         \* seen[id]: what a query after subscribing found
          dropped       \* dropped[id]: the notes a full inbox lost

vars == <<subs, subids, held, writer, waiter, log, calls, asked, got, seen, dropped>>

clientVars == <<asked, got, seen, dropped>>

SubIds == 1..MaxSubscribes

Away == [state |-> "away", sub |-> 0]

\* The part of a query's result that subscriptions care about, before any query.
NoQuery == [ran |-> FALSE, found |-> {}]

\* ndb_monitor_init
Init ==
    /\ subs = <<>>
    /\ subids = 0
    /\ held = FALSE
    /\ writer = [stage |-> "idle", batch |-> <<>>, next |-> 1, note |-> 1, pushed |-> FALSE]
    /\ waiter = [c \in Waiters |-> Away]
    /\ log = <<>>
    /\ calls = [subscribe |-> 0, empty |-> 0]
    /\ asked = <<>>
    /\ got = [id \in SubIds |-> <<>>]
    /\ seen = [id \in SubIds |-> NoQuery]
    /\ dropped = [id \in SubIds |-> {}]

\* ndb_monitor_find_subscription: the place of id in the table, 0 when absent.
Find(id) == SelectInSeq(subs, LAMBDA s : s.subid = id)

-----------------------------------------------------------------------------
(* Clients *)

\* ndb_subscribe.  The test refuses the last slot of the table.  A call that
\* cannot clone its filters has used up an id.
Subscribe(f) ==
    /\ ~held
    /\ calls.subscribe < MaxSubscribes
    /\ calls' = [calls EXCEPT !.subscribe = @ + 1]
    /\ \/ /\ Len(subs) + 1 >= MaxSubscriptions
          /\ UNCHANGED <<subs, subids, asked>>
       \/ /\ Len(subs) + 1 < MaxSubscriptions
          /\ subids' = subids + 1
          /\ \/ UNCHANGED <<subs, asked>>
             \/ /\ subs' = Append(subs, [subid |-> subids + 1, filter |-> f, inbox |-> <<>>])
                /\ asked' = [id \in DOMAIN asked \cup {subids + 1} |->
                                IF id = subids + 1 THEN f ELSE asked[id]]
    /\ UNCHANGED <<held, writer, waiter, log, got, seen, dropped>>

\* ndb_unsubscribe: the entry is destroyed, the ones after it move down.  Threads
\* that wait for this id are not woken.
Unsubscribe(id) ==
    /\ ~held
    /\ Find(id) # 0
    /\ subs' = RemoveAt(subs, Find(id))
    /\ asked' = Restrict(asked, DOMAIN asked \ {id})
    /\ UNCHANGED <<subids, held, writer, waiter, log, calls, got, seen, dropped>>

\* A client that has subscribed reads the database (outside this component):
\* it sees what is committed.
Query(id) ==
    /\ id \in DOMAIN asked
    /\ ~seen[id].ran
    /\ seen' = [seen EXCEPT ![id] = [ran |-> TRUE, found |-> ToSet(log)]]
    /\ UNCHANGED <<subs, subids, held, writer, waiter, log, calls, asked, got, dropped>>

\* prot_queue_try_pop_all on the inbox at place i: one or more of the oldest
\* notes, fewer than there are when the ring wraps.
TryPopAll(i) ==
    \E n \in 1..Len(subs[i].inbox) :
        /\ n <= PollSize
        /\ subs' = [subs EXCEPT ![i].inbox = SubSeq(@, n + 1, Len(@))]
        /\ got' = [got EXCEPT ![subs[i].subid] = @ \o SubSeq(subs[i].inbox, 1, n)]

\* ndb_poll_for_notes
Poll(id) ==
    /\ ~held
    /\ Find(id) # 0
    /\ TryPopAll(Find(id))
    /\ UNCHANGED <<subids, held, writer, waiter, log, calls, asked, seen, dropped>>

Become(c, state, id) == waiter' = [waiter EXCEPT ![c] = [state |-> state, sub |-> id]]

\* Mutant: a subscription that is gone is waited for all the same.
TurnNoFind(c, id) ==
    \/ /\ Find(id) # 0
       /\ TryPopAll(Find(id))
       /\ Become(c, "away", 0)
    \/ /\ Find(id) # 0 => subs[Find(id)].inbox = <<>>
       /\ Become(c, "asleep", id)
       /\ UNCHANGED <<subs, got>>

\* One turn of the loop of ndb_wait_for_notes, with the mutex: return 0 for an
\* id that is gone, return notes, or sleep.
Turn(c, id) ==
    \/ /\ Find(id) = 0
       /\ Become(c, "away", 0)
       /\ UNCHANGED <<subs, got>>
    \/ /\ Find(id) # 0
       /\ TryPopAll(Find(id))
       /\ Become(c, "away", 0)
    \/ /\ Find(id) # 0
       /\ subs[Find(id)].inbox = <<>>
       /\ Become(c, "asleep", id)
       /\ UNCHANGED <<subs, got>>

\* ndb_wait_for_notes is called.
Wait(c, id) ==
    /\ ~held
    /\ waiter[c] = Away
    /\ Turn(c, id)
    /\ UNCHANGED <<subids, held, writer, log, calls, asked, seen, dropped>>

\* pthread_cond_wait returns with the mutex.
Resume(c) ==
    /\ ~held
    /\ waiter[c].state = "woken"
    /\ Turn(c, waiter[c].sub)
    /\ UNCHANGED <<subids, held, writer, log, calls, asked, seen, dropped>>

\* pthread_cond_wait may also wake without a broadcast.
SpuriousWakeup(c) ==
    /\ waiter[c].state = "asleep"
    /\ Become(c, "woken", waiter[c].sub)
    /\ UNCHANGED <<subs, subids, held, writer, log, calls, clientVars>>

-----------------------------------------------------------------------------
(* The writer thread *)

\* The writer is at subscription next, with none of its notes offered to it.
At(stage, next) ==
    writer' = [writer EXCEPT !.stage = stage, !.next = next, !.note = 1, !.pushed = FALSE]

\* The writer commits a batch with new notes; readers see them from here on.
Commit ==
    /\ writer.stage = "idle"
    /\ \E n \in 0..BatchSize : \E b \in [1..n -> Notes \ ToSet(log)] :
          /\ IsInjective(b)
          /\ n = 0 => calls.empty < MaxEmpty
          /\ calls' = IF n = 0 THEN [calls EXCEPT !.empty = @ + 1] ELSE calls
          /\ log' = log \o b
          /\ writer' = [stage |-> "committed", batch |-> b, next |-> 1, note |-> 1,
                        pushed |-> FALSE]
    /\ UNCHANGED <<subs, subids, held, waiter, clientVars>>

\* ndb_notify_subscriptions takes the mutex.
NotifyBegin ==
    /\ writer.stage = "committed"
    /\ ~held
    /\ held' = TRUE
    /\ At("notify", 1)
    /\ UNCHANGED <<subs, subids, waiter, log, calls, clientVars>>

\* Mutant: the filter is not asked.
OffersAll(i, n) == TRUE

\* ndb_filter_group_matches for the subscription at place i.
Offers(i, n) == n \in Matches[subs[i].filter]

\* The inner loop: the next note of the batch is pushed if it matches, and lost
\* if it does not fit.
NotifyNote ==
    /\ writer.stage = "notify"
    /\ writer.next <= Len(subs)
    /\ writer.note <= Len(writer.batch)
    /\ LET i == writer.next
           n == writer.batch[writer.note]
           fits == Offers(i, n) /\ Len(subs[i].inbox) < InboxSize
       IN  /\ subs' = IF fits THEN [subs EXCEPT ![i].inbox = Append(@, n)] ELSE subs
           /\ dropped' = IF Offers(i, n) /\ ~fits
                         THEN [dropped EXCEPT ![subs[i].subid] = @ \cup {n}] ELSE dropped
           /\ writer' = [writer EXCEPT !.note = @ + 1, !.pushed = @ \/ fits]
    /\ UNCHANGED <<subids, held, waiter, log, calls, asked, got, seen>>

\* Mutant: the loop steps over the entry after one that had notes.
NotifySubSkip ==
    /\ writer.stage = "notify"
    /\ writer.next <= Len(subs)
    /\ writer.note > Len(writer.batch)
    /\ At("notify", IF writer.pushed THEN writer.next + 2 ELSE writer.next + 1)
    /\ UNCHANGED <<subs, subids, held, waiter, log, calls, clientVars>>

\* The end of one turn of the outer loop: the callback, if anything was pushed.
NotifySub ==
    /\ writer.stage = "notify"
    /\ writer.next <= Len(subs)
    /\ writer.note > Len(writer.batch)
    /\ IF HasCallback /\ writer.pushed
       THEN At("callback", writer.next)
       ELSE At("notify", writer.next + 1)
    /\ UNCHANGED <<subs, subids, held, waiter, log, calls, clientVars>>

\* The client's callback returns to the loop.  To poll the subscription it would
\* have to lock the mutex, which is not recursive.
CallbackReturns ==
    /\ writer.stage = "callback"
    /\ IF CallbackPolls
       THEN ~held /\ TryPopAll(writer.next)
       ELSE UNCHANGED <<subs, got>>
    /\ At("notify", writer.next + 1)
    /\ UNCHANGED <<subids, held, waiter, log, calls, asked, seen, dropped>>

Wake(w) == IF w.state = "asleep" THEN [w EXCEPT !.state = "woken"] ELSE w

\* Mutant: the waiting threads are not woken.
NotifyDoneSilent ==
    /\ writer.stage = "notify"
    /\ writer.next > Len(subs)
    /\ held' = FALSE
    /\ At("idle", 1)
    /\ UNCHANGED <<subs, subids, waiter, log, calls, clientVars>>

\* pthread_cond_broadcast, then the mutex is released.
NotifyDone ==
    /\ writer.stage = "notify"
    /\ writer.next > Len(subs)
    /\ waiter' = [c \in Waiters |-> Wake(waiter[c])]
    /\ held' = FALSE
    /\ At("idle", 1)
    /\ UNCHANGED <<subs, subids, log, calls, clientVars>>

\* ndb_monitor_destroy: the writer thread has been joined and, as for any call
\* on a database that is being destroyed, no client is inside one.  Nobody can
\* lock the destroyed mutex.
Destroy ==
    /\ writer.stage = "idle"
    /\ \A c \in Waiters : waiter[c] = Away
    /\ subs' = <<>>
    /\ asked' = <<>>
    /\ At("destroyed", 1)
    /\ held' = TRUE
    /\ UNCHANGED <<subids, waiter, log, calls, got, seen, dropped>>

WriterStep == NotifyBegin \/ NotifyNote \/ NotifySub \/ CallbackReturns \/ NotifyDone

Next ==
    \/ \E f \in Filters : Subscribe(f)
    \/ \E id \in SubIds : Unsubscribe(id) \/ Query(id) \/ Poll(id)
    \/ \E c \in Waiters : \/ \E id \in SubIds : Wait(c, id)
                          \/ Resume(c)
                          \/ SpuriousWakeup(c)
    \/ Commit
    \/ WriterStep
    \/ Destroy

Spec == Init /\ [][Next]_vars

\* The writer thread finishes a notification it began, and a woken thread gets
\* the mutex once the writer no longer asks for it (commits are bounded).  No
\* client call, commit or spurious wakeup is promised.
FairSpec ==
    /\ Spec
    /\ WF_vars(WriterStep)
    /\ \A c \in Waiters : WF_vars(Resume(c))

-----------------------------------------------------------------------------
(* Properties *)

TypeOK ==
    /\ subs \in Seq([subid : SubIds, filter : Filters, inbox : Seq(Notes)])
    /\ Len(subs) < MaxSubscriptions
    /\ \A i \in 1..Len(subs) : Len(subs[i].inbox) <= InboxSize
    /\ subids \in 0..MaxSubscribes
    /\ held \in BOOLEAN
    /\ writer.stage \in {"idle", "committed", "notify", "callback", "destroyed"}
    /\ writer.batch \in Seq(Notes)
    /\ {writer.next, writer.note} \subseteq Nat
    /\ writer.pushed \in BOOLEAN
    /\ waiter \in [Waiters -> [state : {"away", "asleep", "woken"},
                               sub : SubIds \cup {0}]]
    /\ log \in Seq(Notes)

\* The inbox of subscription id.
Inbox(id) == subs[Find(id)].inbox

\* Everything subscription id was sent, in order.
Stream(id) == got[id] \o Inbox(id)

\* A live subscription of a client is in the table under its id, with its filter,
\* however the table was compacted by other clients' calls.
TableMatches ==
    /\ \A id \in DOMAIN asked : Find(id) # 0 /\ subs[Find(id)].filter = asked[id]
    /\ Len(subs) = Cardinality(DOMAIN asked)

\* A subscription hears of matching notes only, each once, in commit order,
\* whatever slot its entry of the table has moved to.
StreamsInOrder ==
    /\ TypeOK
    /\ TableMatches
    /\ \A id \in DOMAIN asked :
           LET place(i) == SelectInSeq(log, LAMBDA n : n = Stream(id)[i])
           IN  /\ ToSet(Stream(id)) \subseteq Matches[asked[id]] \cap ToSet(log)
               /\ \A i, j \in 1..Len(Stream(id)) : i < j => place(i) < place(j)

\* Subscribe, then query: between them the client learns of every matching note,
\* wherever the commit and the notification fell, unless its inbox was full.
NoNoteMissed ==
    writer.stage = "idle" =>
        \A id \in DOMAIN asked :
            seen[id].ran =>
                ToSet(log) \cap Matches[asked[id]]
                    \subseteq seen[id].found \cup ToSet(Stream(id)) \cup dropped[id]

\* A thread in ndb_wait_for_notes whose subscription was given up by another
\* returns after the next notification at the latest.
OrphansLeave ==
    \A c \in Waiters :
        (waiter[c].state # "away" /\ Find(waiter[c].sub) = 0 /\ writer.stage = "notify")
            ~> waiter[c].state = "away"

\* A thread in ndb_wait_for_notes whose subscription has notes returns, unless
\* another call takes them or gives the subscription up.
WaitersServed ==
    \A c \in Waiters : \A id \in SubIds :
        (waiter[c].sub = id /\ Find(id) # 0 /\ Inbox(id) # <<>>)
            ~> (waiter[c].state = "away" \/ Find(id) = 0 \/ Inbox(id) = <<>>)

\* The notification ends, whatever the callback does with its subscription.
NotifyReturns == writer.stage = "committed" ~> writer.stage = "idle"
=============================================================================
