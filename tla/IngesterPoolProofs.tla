------------------------- MODULE IngesterPoolProofs -------------------------
(***************************************************************************)
(* Proofs about IngesterPool, for every number of threads, inbox and batch *)
(* size, set of events and set of keys.                                    *)
(***************************************************************************)
EXTENDS IngesterPool, FiniteSetTheorems, SequenceTheorems, TLAPS

-----------------------------------------------------------------------------
(* Types *)

\* An event message is a message.
LEMMA EventMsgType ==
    ASSUME TypeOK, NEW e \in Events, NEW from \in Threads \cup {Client}
    PROVE  EventMsg(e, from) \in Message
  BY DEF TypeOK, EventMsg, Message

\* Key and quit messages are messages.
LEMMA OtherMsgType ==
    /\ \A k \in Keys : KeyMsg(k) \in Message
    /\ QuitMsg \in Message
  BY DEF KeyMsg, QuitMsg, Message

\* A message fits where an inbox is not full.
LEMMA EnqueueType ==
    ASSUME TypeOK, NEW t \in Threads, NEW m \in Message, ~Full(t), Enqueue(t, m)
    PROVE  /\ inbox' \in [Threads -> Seq(Message)]
           /\ \A u \in Threads : Len(inbox'[u]) <= InboxSize
           /\ inbox'[t] = Append(inbox[t], m)
           /\ \A u \in Threads \ {t} : inbox'[u] = inbox[u]
  BY PoolAssumption DEF TypeOK, Full, Enqueue

\* What Ingest leaves behind, whichever way it goes.
LEMMA IngestType ==
    ASSUME TypeOK, NEW e \in Events, NEW t \in Threads, Ingest(e, t)
    PROVE  /\ inbox' \in [Threads -> Seq(Message)]
           /\ \A u \in Threads : Len(inbox'[u]) <= InboxSize
           /\ live' \in Int
  <1>1. CASE ~Full(t) /\ Enqueue(t, EventMsg(e, Client)) /\ live' = live + 1
    <2>1. EventMsg(e, Client) \in Message
      BY EventMsgType
    <2>2. live' \in Int
      BY <1>1 DEF TypeOK
    <2> QED BY <1>1, <2>1, <2>2, EnqueueType
  <1>2. CASE UNCHANGED <<inbox, live>>
    BY <1>2 DEF TypeOK
  <1> QED BY <1>1, <1>2 DEF Ingest

\* Consuming takes the first message of one thread's batch and leaves the others alone.
LEMMA ConsumeType ==
    ASSUME TypeOK, NEW t \in Threads, batch[t] # <<>>, Consume(t)
    PROVE  /\ batch' \in [Threads -> Seq(Message)]
           /\ \A u \in Threads : Len(batch'[u]) <= BatchSize
           /\ batch'[t] = Tail(batch[t])
           /\ \A u \in Threads \ {t} : batch'[u] = batch[u]
           /\ Head(batch[t]) \in Message
           /\ Head(batch[t]) = batch[t][1]
  BY PoolAssumption DEF TypeOK, Consume

\* A sequence of messages holds finitely many events.
LEMMA EventsInFinite ==
    ASSUME NEW s \in Seq(Message)
    PROVE  IsFiniteSet(EventsIn(s)) /\ Cardinality(EventsIn(s)) \in Nat
  <1>1. IsFiniteSet(1..Len(s))
    BY FS_Interval
  <1>2. EventsIn(s) \in SUBSET (1..Len(s))
    BY DEF EventsIn
  <1> QED BY <1>1, <1>2, FS_Subset, FS_CardinalityType

PhaseType(d) ==
    d \in [phase : {"open", "quit", "join", "free", "done", "gone"}, next : Threads]

\* The loops of threadpool_destroy stay within the pool.
LEMMA GotoType ==
    ASSUME NEW phase \in {"open", "quit", "join", "free", "done", "gone"}
    PROVE  /\ Goto(phase, 1) => PhaseType(destroying')
           /\ \A t \in Threads : Goto(phase, t) => PhaseType(destroying')
           /\ \A t \in Threads : t < N /\ Goto(phase, t + 1) => PhaseType(destroying')
  BY PoolAssumption DEF Goto, PhaseType, Threads

\* The pool starts with its types.
LEMMA InitType == Init => TypeOK
  BY PoolAssumption DEF Init, TypeOK, Idle, Threads

\* Every step keeps the types.
LEMMA NextType == TypeOK /\ [Next]_vars => TypeOK'
  <1> SUFFICES ASSUME TypeOK, [Next]_vars PROVE TypeOK'
    OBVIOUS
  <1> USE PoolAssumption
  <1>1. ASSUME NEW e \in Events, NEW t \in Threads, ProcessEvent(e, t) PROVE TypeOK'
    <2>1. /\ inbox' \in [Threads -> Seq(Message)]
          /\ \A u \in Threads : Len(inbox'[u]) <= InboxSize
          /\ live' \in Int
      BY <1>1, IngestType DEF ProcessEvent
    <2> QED BY <1>1, <2>1 DEF ProcessEvent, TypeOK, threadVars, destroyVars
  <1>2. ASSUME NEW k \in Keys, AddKeyBegin(k) PROVE TypeOK'
    <2>1. registering' \in [key : Keys \cup {None}, next : Threads]
      BY <1>2 DEF AddKeyBegin, Threads
    <2> QED BY <1>2, <2>1 DEF AddKeyBegin, TypeOK, threadVars, destroyVars
  <1>3. CASE AddKeyPush
    <2> DEFINE t == registering.next
    <2>1. t \in Threads /\ registering.key \in Keys
      BY <1>3 DEF TypeOK, AddKeyPush
    <2>2. CASE ~Full(t) /\ Enqueue(t, KeyMsg(registering.key))
      <3>1. /\ inbox' \in [Threads -> Seq(Message)]
            /\ \A u \in Threads : Len(inbox'[u]) <= InboxSize
        BY <2>1, <2>2, EnqueueType, OtherMsgType
      <3>2. t + 1 \in Threads \/ ~(t < N)
        BY <2>1 DEF Threads
      <3>3. registering' \in [key : Keys \cup {None}, next : Threads]
        <4>1. CASE registering' = [registering EXCEPT !.next = t + 1] /\ t < N
          BY <3>2, <4>1 DEF TypeOK
        <4>2. CASE registering' = Idle
          BY <4>2 DEF Idle, Threads
        <4> QED BY <1>3, <2>2, <4>1, <4>2 DEF AddKeyPush
      <3>4. registered' \subseteq Keys
        BY <1>3, <2>1, <2>2 DEF AddKeyPush, TypeOK
      <3> QED BY <1>3, <3>1, <3>3, <3>4 DEF AddKeyPush, TypeOK, threadVars, destroyVars
    <2>3. CASE Full(t)
      <3>1. UNCHANGED <<inbox, registered>> /\ registering' = Idle
        BY <1>3, <2>3 DEF AddKeyPush
      <3>2. Idle \in [key : Keys \cup {None}, next : Threads]
        BY DEF Idle, Threads
      <3> QED BY <1>3, <3>1, <3>2 DEF AddKeyPush, TypeOK, threadVars, destroyVars
    <2> QED BY <1>3, <2>2, <2>3 DEF AddKeyPush
  <1>4. ASSUME NEW t \in Threads, Pop(t) PROVE TypeOK'
    <2>1. PICK n \in 1..Len(inbox[t]) :
              /\ n <= BatchSize
              /\ batch' = [batch EXCEPT ![t] = SubSeq(inbox[t], 1, n)]
              /\ inbox' = [inbox EXCEPT ![t] = SubSeq(@, n + 1, Len(@))]
              /\ stage' = [stage EXCEPT ![t] = "begin"]
      BY <1>4 DEF Pop
    <2>0. inbox[t] \in Seq(Message)
      BY DEF TypeOK
    <2>2. /\ SubSeq(inbox[t], 1, n) \in Seq(Message)
          /\ Len(SubSeq(inbox[t], 1, n)) = n
          /\ SubSeq(inbox[t], n + 1, Len(inbox[t])) \in Seq(Message)
          /\ Len(SubSeq(inbox[t], n + 1, Len(inbox[t]))) <= Len(inbox[t])
      BY <2>0
    <2>3. /\ inbox' \in [Threads -> Seq(Message)]
          /\ \A u \in Threads : Len(inbox'[u]) <= InboxSize
      <3> DEFINE rest == SubSeq(inbox[t], n + 1, Len(inbox[t]))
      <3>1. inbox' = [inbox EXCEPT ![t] = rest] /\ Len(rest) <= InboxSize
        BY <2>0, <2>1, <2>2 DEF TypeOK
      <3>2. rest \in Seq(Message)
        BY <2>2
      <3> HIDE DEF rest
      <3> QED BY <3>1, <3>2 DEF TypeOK
    <2>4. /\ batch' \in [Threads -> Seq(Message)]
          /\ \A u \in Threads : Len(batch'[u]) <= BatchSize
      BY <2>1, <2>2 DEF TypeOK
    <2>5. stage' \in [Threads -> {"pop", "begin", "process", "exit"}]
      BY <2>1 DEF TypeOK
    <2> QED BY <1>4, <2>3, <2>4, <2>5 DEF Pop, TypeOK, clientVars, destroyVars
  <1>5. ASSUME NEW t \in Threads, TxnBeginFails(t) PROVE TypeOK'
    <2>1. live' \in Int
      BY <1>5, EventsInFinite DEF TxnBeginFails, TypeOK
    <2>2. failures' \in 0..MaxTxnFailures
      BY <1>5, SMTT(40) DEF TxnBeginFails, TypeOK
    <2>3. /\ batch' \in [Threads -> Seq(Message)]
          /\ \A u \in Threads : Len(batch'[u]) <= BatchSize
      BY <1>5 DEF TxnBeginFails, TypeOK
    <2>4. stage' \in [Threads -> {"pop", "begin", "process", "exit"}]
      BY <1>5 DEF TxnBeginFails, TypeOK
    <2>5. quitting' \in [Threads -> BOOLEAN]
      BY <1>5, Zenon DEF TxnBeginFails, TypeOK
    <2> QED BY <1>5, <2>1, <2>2, <2>3, <2>4, <2>5
            DEF TxnBeginFails, TypeOK, clientVars, destroyVars
  <1>6. ASSUME NEW t \in Threads, TxnBegin(t) PROVE TypeOK'
    BY <1>6 DEF TxnBegin, TypeOK, clientVars, destroyVars
  <1> DEFINE BatchType == /\ batch' \in [Threads -> Seq(Message)]
                          /\ \A u \in Threads : Len(batch'[u]) <= BatchSize
  <1>7. ASSUME NEW t \in Threads, TakeQuit(t) PROVE TypeOK'
    <2>1. BatchType
      BY <1>7, ConsumeType DEF TakeQuit
    <2>2. quitting' \in [Threads -> BOOLEAN]
      BY <1>7 DEF TakeQuit, TypeOK
    <2> QED BY <1>7, <2>1, <2>2 DEF TakeQuit, TypeOK, clientVars, destroyVars
  <1>8. ASSUME NEW t \in Threads, TakeKey(t) PROVE TypeOK'
    <2>1. Head(batch[t]) \in Message /\ Head(batch[t]).type = "key"
      BY <1>8, ConsumeType DEF TakeKey
    <2>2. Head(batch[t]).key \in Keys
      BY <2>1 DEF Message, QuitMsg
    <2>3. known' \in [Threads -> Seq(Keys)]
      BY <1>8, <2>2 DEF TakeKey, TypeOK
    <2>4. BatchType
      BY <1>8, ConsumeType DEF TakeKey
    <2> QED BY <1>8, <2>3, <2>4 DEF TakeKey, TypeOK, clientVars, destroyVars
  <1>9. ASSUME NEW t \in Threads, RejectEvent(t) PROVE TypeOK'
    <2>1. BatchType
      BY <1>9, ConsumeType DEF RejectEvent
    <2>2. live' \in Int /\ lost' \in 0..MaxLost
      BY <1>9, SMTT(30) DEF RejectEvent, TypeOK
    <2> QED BY <1>9, <2>1, <2>2 DEF RejectEvent, TypeOK, clientVars, destroyVars
  <1>10. ASSUME NEW t \in Threads, AcceptEvent(t) PROVE TypeOK'
    <2>1. Head(batch[t]) \in Message /\ IsEvent(Head(batch[t]))
      BY <1>10, ConsumeType DEF AcceptEvent
    <2>2. Head(batch[t]).ev \in Events
      BY <2>1 DEF Message, QuitMsg, IsEvent
    <2> DEFINE inner == Embedded[Head(batch[t]).ev]
    <2>3. inner # None => inner \in Events
      BY <2>2
    <2>4. /\ inbox' \in [Threads -> Seq(Message)]
          /\ \A u \in Threads : Len(inbox'[u]) <= InboxSize
          /\ live' \in Int
      <3>1. CASE UNCHANGED inbox /\ live' = live - 1
        BY <3>1 DEF TypeOK
      <3>2. ASSUME NEW u \in Threads, inner # None, ~Full(u),
                   Enqueue(u, EventMsg(inner, t)), UNCHANGED live
            PROVE  /\ inbox' \in [Threads -> Seq(Message)]
                   /\ \A v \in Threads : Len(inbox'[v]) <= InboxSize
                   /\ live' \in Int
        BY <2>3, <3>2, EnqueueType, EventMsgType DEF TypeOK
      <3> QED BY <1>10, <3>1, <3>2 DEF AcceptEvent
    <2>5. BatchType
      BY <1>10, ConsumeType DEF AcceptEvent
    <2> QED BY <1>10, <2>4, <2>5 DEF AcceptEvent, TypeOK, clientVars, destroyVars
  <1>11. ASSUME NEW t \in Threads, LoopTest(t) PROVE TypeOK'
    BY <1>11 DEF LoopTest, TypeOK, clientVars, destroyVars
  <1>12. CASE DestroyBegin
    <2>1. PhaseType(destroying')
      BY <1>12, GotoType DEF DestroyBegin
    <2> QED BY <1>12, <2>1 DEF DestroyBegin, PhaseType, TypeOK, threadVars, clientVars
  <1>13. CASE DestroyQuit
    <2> DEFINE t == destroying.next
    <2>1. t \in Threads
      BY DEF TypeOK
    <2>2. /\ inbox' \in [Threads -> Seq(Message)]
          /\ \A u \in Threads : Len(inbox'[u]) <= InboxSize
      <3>1. CASE Full(t)
        BY <1>13, <3>1 DEF DestroyQuit, TypeOK
      <3>2. CASE ~Full(t)
        BY <1>13, <2>1, <3>2, EnqueueType, OtherMsgType DEF DestroyQuit
      <3> QED BY <3>1, <3>2
    <2>3. quitPushed' \in [Threads -> BOOLEAN]
      BY <1>13 DEF DestroyQuit, TypeOK, Full
    <2>4. PhaseType(destroying')
      BY <1>13, <2>1, GotoType DEF DestroyQuit
    <2> QED BY <1>13, <2>2, <2>3, <2>4 DEF DestroyQuit, PhaseType, TypeOK, threadVars, clientVars
  <1>14. CASE DestroyJoin
    <2>1. PhaseType(destroying')
      BY <1>14, GotoType DEF DestroyJoin, TypeOK
    <2> QED BY <1>14, <2>1 DEF DestroyJoin, PhaseType, TypeOK, threadVars, clientVars
  <1>15. CASE DestroyFree
    <2>1. PhaseType(destroying')
      BY <1>15, GotoType DEF DestroyFree, TypeOK
    <2>2. freed' \subseteq Threads
      BY <1>15 DEF DestroyFree, TypeOK
    <2> QED BY <1>15, <2>1, <2>2 DEF DestroyFree, PhaseType, TypeOK, threadVars, clientVars
  <1>16. CASE UNCHANGED vars
    BY <1>16 DEF vars, TypeOK
  <1> QED BY <1>1, <1>2, <1>3, <1>4, <1>5, <1>6, <1>7, <1>8, <1>9, <1>10, <1>11,
             <1>12, <1>13, <1>14, <1>15, <1>16
          DEF Next, ThreadStep, DestroyStep

\* Every thread's inbox stays within DEFAULT_QUEUE_SIZE and its batch within
\* THREAD_QUEUE_BATCH, and the pool's state keeps its types, in every schedule.
THEOREM PoolTypeCorrect == Spec => []TypeOK
  BY InitType, NextType, PTL DEF Spec

-----------------------------------------------------------------------------
(* What a step can do to one thread *)

\* A message that some step may push now.
Sent(m) ==
    \/ destroying.phase = "open" /\ \E e \in Events : m = EventMsg(e, Client)
    \/ \E e \in Events : \E t \in Threads : stage[t] = "process" /\ m = EventMsg(e, t)
    \/ registering.key \in Keys /\ m = KeyMsg(registering.key)
    \/ destroying.phase = "quit" /\ m = QuitMsg

\* The inbox of u gets a message.
Receives(u) == \E m \in Message : Sent(m) /\ inbox'[u] = Append(inbox[u], m)

\* Everything else about thread u stays.
Rests(u) ==
    /\ batch'[u] = batch[u]
    /\ stage'[u] = stage[u]
    /\ quitting'[u] = quitting[u]
    /\ known'[u] = known[u]

\* A thread changes by its own steps only, except that anybody may push to it.
LEMMA ThreadFrame ==
    ASSUME TypeOK, Next, NEW u \in Threads
    PROVE  /\ inbox'[u] = inbox[u] \/ Receives(u) \/ Pop(u)
           /\ Rests(u) \/ ThreadStep(u) \/ TxnBeginFails(u)
  <1> DEFINE Framed == /\ inbox'[u] = inbox[u] \/ Receives(u) \/ Pop(u)
                       /\ Rests(u) \/ ThreadStep(u) \/ TxnBeginFails(u)
  <1>1. ASSUME NEW e \in Events, NEW t \in Threads, ProcessEvent(e, t) PROVE Framed
    <2>1. Rests(u)
      BY <1>1 DEF ProcessEvent, threadVars, Rests
    <2>2. inbox'[u] = inbox[u] \/ Receives(u)
      <3>1. CASE ~Full(t) /\ Enqueue(t, EventMsg(e, Client))
        <4>1. EventMsg(e, Client) \in Message /\ Sent(EventMsg(e, Client))
          BY <1>1, EventMsgType DEF ProcessEvent, Sent
        <4> QED BY <3>1, <4>1, EnqueueType DEF Receives
      <3> QED BY <1>1, <3>1 DEF ProcessEvent, Ingest
    <2> QED BY <2>1, <2>2
  <1>2. ASSUME NEW k \in Keys, AddKeyBegin(k) PROVE Framed
    BY <1>2 DEF AddKeyBegin, threadVars, Rests
  <1>3. CASE AddKeyPush
    <2>1. Rests(u)
      BY <1>3 DEF AddKeyPush, threadVars, Rests
    <2>2. registering.key \in Keys /\ registering.next \in Threads
      BY <1>3 DEF AddKeyPush, TypeOK
    <2>3. KeyMsg(registering.key) \in Message /\ Sent(KeyMsg(registering.key))
      BY <2>2, OtherMsgType DEF Sent
    <2>4. inbox'[u] = inbox[u] \/ Receives(u)
      <3>1. CASE ~Full(registering.next) /\ Enqueue(registering.next, KeyMsg(registering.key))
        BY <2>2, <2>3, <3>1, EnqueueType DEF Receives
      <3> QED BY <1>3, <3>1 DEF AddKeyPush
    <2> QED BY <2>1, <2>4
  <1>4. ASSUME NEW t \in Threads, ThreadStep(t) PROVE Framed
    <2>1. Rests(u) \/ ThreadStep(u)
      <3>1. CASE t = u
        BY <1>4, <3>1
      <3>2. CASE t # u
        BY <1>4, <3>2 DEF ThreadStep, Pop, TxnBegin, TakeQuit, TakeKey, RejectEvent,
                          AcceptEvent, LoopTest, Consume, Rests, TypeOK
      <3> QED BY <3>1, <3>2
    <2>2. CASE Pop(t)
      BY <2>1, <2>2 DEF Pop, TypeOK
    <2>3. CASE AcceptEvent(t)
      <3>1. CASE UNCHANGED inbox
        BY <2>1, <3>1
      <3>2. CASE \E v \in Threads :
                    /\ Embedded[Head(batch[t]).ev] # None
                    /\ ~Full(v)
                    /\ Enqueue(v, EventMsg(Embedded[Head(batch[t]).ev], t))
        <4>1. PICK v \in Threads :
                    /\ Embedded[Head(batch[t]).ev] # None
                    /\ ~Full(v)
                    /\ Enqueue(v, EventMsg(Embedded[Head(batch[t]).ev], t))
          BY <3>2
        <4>2. Head(batch[t]) \in Message /\ IsEvent(Head(batch[t])) /\ stage[t] = "process"
          BY <2>3, ConsumeType DEF AcceptEvent
        <4>3. Head(batch[t]).ev \in Events
          BY <4>2 DEF Message, QuitMsg, IsEvent
        <4>4. Embedded[Head(batch[t]).ev] \in Events
          BY <4>1, <4>3, PoolAssumption
        <4> DEFINE m == EventMsg(Embedded[Head(batch[t]).ev], t)
        <4>5. m \in Message /\ Sent(m)
          BY <4>2, <4>4, EventMsgType DEF Sent
        <4> HIDE DEF m
        <4>6. inbox'[u] = inbox[u] \/ inbox'[u] = Append(inbox[u], m)
          BY <4>1, <4>5, EnqueueType DEF m
        <4> QED BY <2>1, <4>5, <4>6 DEF Receives
      <3> QED BY <2>3, <3>1, <3>2 DEF AcceptEvent
    <2>4. CASE UNCHANGED inbox
      BY <2>1, <2>4
    <2> QED BY <1>4, <2>2, <2>3, <2>4
            DEF ThreadStep, TxnBegin, TakeQuit, TakeKey, RejectEvent, LoopTest
  <1>5. ASSUME NEW t \in Threads, TxnBeginFails(t) PROVE Framed
    <2>1. CASE t = u
      BY <1>5, <2>1 DEF TxnBeginFails
    <2>2. CASE t # u
      BY <1>5, <2>2 DEF TxnBeginFails, Rests, TypeOK
    <2> QED BY <2>1, <2>2
  <1>6. CASE DestroyQuit
    <2>1. Rests(u)
      BY <1>6 DEF DestroyQuit, threadVars, Rests
    <2>2. QuitMsg \in Message /\ Sent(QuitMsg) /\ destroying.next \in Threads
      BY <1>6, OtherMsgType DEF Sent, DestroyQuit, TypeOK
    <2>3. inbox'[u] = inbox[u] \/ Receives(u)
      <3>1. CASE ~Full(destroying.next) /\ Enqueue(destroying.next, QuitMsg)
        BY <2>2, <3>1, EnqueueType DEF Receives
      <3> QED BY <1>6, <3>1 DEF DestroyQuit
    <2> QED BY <2>1, <2>3
  <1>7. CASE DestroyBegin \/ DestroyJoin \/ DestroyFree
    BY <1>7 DEF DestroyBegin, DestroyJoin, DestroyFree, threadVars, Rests
  <1> QED BY <1>1, <1>2, <1>3, <1>4, <1>5, <1>6, <1>7 DEF Next, DestroyStep

\* Steps of threads and clients leave threadpool_destroy alone.
LEMMA DestroyFrame ==
    ASSUME Next
    PROVE  \/ UNCHANGED destroyVars
           \/ UNCHANGED threadVars /\ (DestroyBegin \/ DestroyStep)
  BY DEF Next, ThreadStep, ProcessEvent, AddKeyBegin, AddKeyPush, Pop, TxnBegin, TakeQuit,
         TakeKey, RejectEvent, AcceptEvent, LoopTest, TxnBeginFails, DestroyBegin,
         DestroyStep, DestroyQuit, DestroyJoin, DestroyFree

\* A thread that has exited does not run again.
LEMMA ExitIsFinal ==
    ASSUME TypeOK, Next, NEW u \in Threads, stage[u] = "exit"
    PROVE  stage'[u] = "exit"
  <1>1. ~ThreadStep(u) /\ ~TxnBeginFails(u)
    BY DEF ThreadStep, Pop, TxnBegin, TakeQuit, TakeKey, RejectEvent, AcceptEvent,
           LoopTest, TxnBeginFails
  <1> QED BY <1>1, ThreadFrame DEF Rests

-----------------------------------------------------------------------------
(* Tearing the pool down *)

\* What each loop of threadpool_destroy has established: the join loop has seen
\* the threads before its index exit, and memory is freed after that loop only.
TeardownInv ==
    /\ destroying.phase = "join" =>
          \A u \in Threads : u < destroying.next => stage[u] = "exit"
    /\ destroying.phase \in {"free", "done"} => \A u \in Threads : stage[u] = "exit"
    /\ freed # {} => destroying.phase \in {"free", "done"}

\* Every step keeps the order of the teardown.
LEMMA TeardownStep == TypeOK /\ TeardownInv /\ [Next]_vars => TeardownInv'
  <1> SUFFICES ASSUME TypeOK, TeardownInv, [Next]_vars PROVE TeardownInv'
    OBVIOUS
  <1>1. CASE UNCHANGED vars
    BY <1>1 DEF vars, TeardownInv
  <1>2. CASE Next /\ UNCHANGED destroyVars
    BY <1>2, ExitIsFinal DEF TeardownInv, destroyVars
  <1>3. CASE UNCHANGED threadVars /\ DestroyBegin
    BY <1>3 DEF TeardownInv, DestroyBegin, Goto
  <1>4. CASE UNCHANGED threadVars /\ DestroyQuit
    BY <1>4, PoolAssumption DEF TeardownInv, DestroyQuit, Goto, Threads
  <1>5. CASE UNCHANGED threadVars /\ DestroyJoin
    <2>1. stage' = stage
      BY <1>5 DEF threadVars
    <2>2. destroying.next \in 1..N
      BY DEF TypeOK, Threads
    <2>3. freed = {} /\ freed' = {}
      BY <1>5 DEF TeardownInv, DestroyJoin
    <2>4. CASE stage[destroying.next] = "exit"
      <3>1. \A u \in Threads : u < destroying.next + 1 => stage[u] = "exit"
        BY <1>5, <2>2, <2>4 DEF TeardownInv, DestroyJoin, Threads
      <3> QED BY <1>5, <2>1, <2>2, <2>3, <3>1, PoolAssumption
              DEF TeardownInv, DestroyJoin, Goto, Threads
    <2>5. CASE Goto("gone", destroying.next)
      BY <2>3, <2>5 DEF TeardownInv, Goto
    <2> QED BY <1>5, <2>4, <2>5 DEF DestroyJoin
  <1>6. CASE UNCHANGED threadVars /\ DestroyFree
    BY <1>6 DEF TeardownInv, DestroyFree, Goto, threadVars
  <1> QED BY <1>1, <1>2, <1>3, <1>4, <1>5, <1>6, DestroyFrame DEF DestroyStep

\* No queue of the pool is freed while a thread of it can still push a repost
\* into it, whatever the number of threads and however they interleave.
THEOREM TeardownSafe == Spec => []NoFreeUnderThreads
  <1>1. Init => TeardownInv
    BY DEF Init, TeardownInv
  <1>2. TeardownInv => NoFreeUnderThreads
    BY DEF TeardownInv, NoFreeUnderThreads
  <1> QED BY <1>1, <1>2, TeardownStep, PoolTypeCorrect, PTL DEF Spec

-----------------------------------------------------------------------------
(* Quitting *)

\* Appending never makes an inbox empty.
LEMMA ReceivesSome ==
    ASSUME TypeOK, NEW u \in Threads, Receives(u)
    PROVE  inbox'[u] # <<>>
  <1>1. PICK m \in Message : inbox'[u] = Append(inbox[u], m)
    BY DEF Receives
  <1>2. inbox[u] \in Seq(Message)
    BY DEF TypeOK
  <1>3. Append(inbox[u], m) # <<>>
    BY <1>2, AppendProperties
  <1> QED BY <1>1, <1>3

\* If no transaction has failed after a step, none had before it and the step was no
\* failure.
LEMMA HealthyBack ==
    ASSUME TypeOK, [Next]_vars, Healthy'
    PROVE  Healthy /\ \A t \in Threads : ~TxnBeginFails(t)
  <1>1. ASSUME NEW t \in Threads, TxnBeginFails(t) PROVE FALSE
    BY <1>1 DEF TxnBeginFails, Healthy, TypeOK
  <1>2. CASE UNCHANGED failures
    BY <1>1, <1>2 DEF Healthy
  <1> QED BY <1>1, <1>2
          DEF Next, ThreadStep, ProcessEvent, AddKeyBegin, AddKeyPush, Pop, TxnBegin,
              TakeQuit, TakeKey, RejectEvent, AcceptEvent, LoopTest, DestroyBegin,
              DestroyStep, DestroyQuit, DestroyJoin, DestroyFree, vars

\* A thread that knows it must quit does not block on an empty inbox as long as
\* every read transaction begins: whoever joins it is not left waiting.
THEOREM QuitReached == Spec => []QuitHonoredHealthy
  <1>1. Init => QuitHonoredHealthy
    BY DEF Init, QuitHonoredHealthy, QuitHonored
  <1>2. TypeOK /\ QuitHonoredHealthy /\ [Next]_vars => QuitHonoredHealthy'
    <2> SUFFICES ASSUME TypeOK, QuitHonoredHealthy, [Next]_vars, Healthy',
                        NEW u \in Threads, quitting'[u], stage'[u] = "pop"
                 PROVE  inbox'[u] # <<>>
      BY DEF QuitHonoredHealthy, QuitHonored
    <2>1. Healthy /\ ~TxnBeginFails(u)
      BY HealthyBack
    <2>2. CASE UNCHANGED vars
      BY <2>1, <2>2 DEF vars, QuitHonoredHealthy, QuitHonored
    <2>3. CASE Next /\ Rests(u)
      <3>1. inbox[u] # <<>> /\ stage[u] = "pop"
        BY <2>1, <2>3 DEF Rests, QuitHonoredHealthy, QuitHonored
      <3>2. ~Pop(u)
        BY <2>3, <3>1 DEF Pop, Rests, TypeOK
      <3> QED BY <2>3, <3>1, <3>2, ThreadFrame, ReceivesSome
    <2>4. CASE Next /\ ThreadStep(u)
      <3>1. LoopTest(u)
        BY <2>4 DEF ThreadStep, Pop, TxnBegin, TakeQuit, TakeKey, RejectEvent,
                    AcceptEvent, TypeOK
      <3> QED BY <3>1 DEF LoopTest, TypeOK
    <2> QED BY <2>1, <2>2, <2>3, <2>4, ThreadFrame
  <1> QED BY <1>1, <1>2, PoolTypeCorrect, PTL DEF Spec

-----------------------------------------------------------------------------
(* Draining *)

NoQuit(msgs) == \A i \in 1..Len(msgs) : msgs[i].type # "quit"

\* Events that neither a client nor thread t dispatched.
Foreign(t, msgs) ==
    \A i \in 1..Len(msgs) : IsEvent(msgs[i]) => msgs[i].from \notin {t, Client}

\* A thread exits only after its quit message, which is sent once no client calls
\* any more; its inbox was empty then, and only other threads add to it after.
DrainInv ==
    /\ destroying.phase = "open" =>
          \A t \in Threads : ~quitting[t] /\ NoQuit(inbox[t]) /\ NoQuit(batch[t])
    /\ \A t \in Threads : stage[t] = "exit" => quitting[t] /\ Foreign(t, inbox[t])

\* How the predicates on messages carry over to what the steps make of a queue.
LEMMA AppendOK ==
    ASSUME NEW s \in Seq(Message), NEW m \in Message, NEW t \in Threads
    PROVE  /\ NoQuit(s) /\ m.type # "quit" => NoQuit(Append(s, m))
           /\ Foreign(t, s) /\ (IsEvent(m) => m.from \notin {t, Client})
                 => Foreign(t, Append(s, m))
  <1>1. /\ Len(Append(s, m)) = Len(s) + 1
        /\ \A i \in 1..Len(s) : Append(s, m)[i] = s[i]
        /\ Append(s, m)[Len(s) + 1] = m
        /\ Len(s) \in Nat
    OBVIOUS
  <1>2. \A i \in 1..Len(Append(s, m)) : i \in 1..Len(s) \/ i = Len(s) + 1
    BY <1>1
  <1> QED BY <1>1, <1>2 DEF NoQuit, Foreign

\* The parts of a sequence without a quit have none.
LEMMA CutOK ==
    ASSUME NEW s \in Seq(Message), NEW n \in 1..Len(s), NoQuit(s)
    PROVE  NoQuit(SubSeq(s, 1, n)) /\ NoQuit(SubSeq(s, n + 1, Len(s))) /\ NoQuit(Tail(s))
  BY DEF NoQuit

\* Until threadpool_destroy starts, no thread sees a quit message.
LEMMA OpenStep ==
    ASSUME TypeOK, DrainInv, Next, destroying.phase = "open", NEW u \in Threads
    PROVE  ~quitting'[u] /\ NoQuit(inbox'[u]) /\ NoQuit(batch'[u])
  <1>1. ~quitting[u] /\ NoQuit(inbox[u]) /\ NoQuit(batch[u])
    BY DEF DrainInv
  <1>2. inbox[u] \in Seq(Message) /\ batch[u] \in Seq(Message)
    BY DEF TypeOK
  <1>3. ASSUME Pop(u) PROVE NoQuit(inbox'[u]) /\ NoQuit(batch'[u]) /\ ~quitting'[u]
    <2>1. PICK n \in 1..Len(inbox[u]) :
              /\ batch' = [batch EXCEPT ![u] = SubSeq(inbox[u], 1, n)]
              /\ inbox' = [inbox EXCEPT ![u] = SubSeq(@, n + 1, Len(@))]
      BY <1>3 DEF Pop
    <2>2. /\ batch'[u] = SubSeq(inbox[u], 1, n)
          /\ inbox'[u] = SubSeq(inbox[u], n + 1, Len(inbox[u]))
          /\ quitting' = quitting
      BY <1>3, <2>1 DEF TypeOK, Pop
    <2> QED BY <1>1, <1>2, <2>2, CutOK
  <1>4. NoQuit(inbox'[u])
    <2>1. CASE Receives(u)
      <3>1. PICK m \in Message : Sent(m) /\ inbox'[u] = Append(inbox[u], m)
        BY <2>1 DEF Receives
      <3>2. m.type # "quit"
        BY <3>1 DEF Sent, EventMsg, KeyMsg
      <3> QED BY <1>1, <1>2, <3>1, <3>2, AppendOK
    <2> QED BY <1>1, <1>3, <2>1, ThreadFrame
  <1>5. CASE Rests(u)
    BY <1>1, <1>4, <1>5 DEF Rests
  <1>6. CASE TxnBeginFails(u)
    <2>1. batch'[u] = <<>>
      BY <1>6 DEF TxnBeginFails, TypeOK
    <2>2. ~quitting'[u]
      BY <1>1, <1>6, Zenon DEF TxnBeginFails, NoQuit, TypeOK
    <2> QED BY <1>4, <2>1, <2>2 DEF NoQuit
  <1>7. CASE ThreadStep(u)
    <2>1. CASE UNCHANGED <<batch, quitting>>
      BY <1>1, <1>4, <2>1
    <2>2. CASE batch[u] # <<>> /\ Consume(u)
      <3>1. batch'[u] = Tail(batch[u]) /\ Head(batch[u]) = batch[u][1]
        BY <2>2, ConsumeType
      <3>2. Len(batch[u]) \in 1..Len(batch[u])
        BY <1>2, <2>2
      <3>3. NoQuit(batch'[u]) /\ Head(batch[u]).type # "quit"
        BY <1>1, <1>2, <3>1, <3>2, CutOK DEF NoQuit
      <3>4. ~quitting'[u]
        BY <1>1, <1>7, <3>3 DEF ThreadStep, Pop, TxnBegin, TakeQuit, TakeKey,
                                RejectEvent, AcceptEvent, LoopTest
      <3> QED BY <1>4, <3>3, <3>4
    <2> QED BY <1>3, <1>7, <2>1, <2>2 DEF ThreadStep, TxnBegin, TakeQuit, TakeKey,
                                     RejectEvent, AcceptEvent, LoopTest
  <1> QED BY <1>5, <1>6, <1>7, ThreadFrame

\* An inbox whose thread has exited fills with other threads' reposts only.
LEMMA ExitStep ==
    ASSUME TypeOK, DrainInv, Next, NEW u \in Threads, stage'[u] = "exit"
    PROVE  quitting'[u] /\ Foreign(u, inbox'[u])
  <1>1. inbox[u] \in Seq(Message)
    BY DEF TypeOK
  <1>2. CASE stage[u] = "exit"
    <2>1. quitting[u] /\ Foreign(u, inbox[u]) /\ destroying.phase # "open"
      BY <1>2 DEF DrainInv
    <2>2. ~ThreadStep(u) /\ ~TxnBeginFails(u) /\ ~Pop(u)
      BY <1>2 DEF ThreadStep, Pop, TxnBegin, TakeQuit, TakeKey, RejectEvent, AcceptEvent,
                  LoopTest, TxnBeginFails
    <2>3. quitting'[u]
      BY <2>1, <2>2, ThreadFrame DEF Rests
    <2>4. CASE Receives(u)
      <3>1. PICK m \in Message : Sent(m) /\ inbox'[u] = Append(inbox[u], m)
        BY <2>4 DEF Receives
      <3>2. IsEvent(m) => m.from \notin {u, Client}
        BY <1>2, <2>1, <3>1 DEF Sent, EventMsg, KeyMsg, QuitMsg, IsEvent, Client, Threads
      <3> QED BY <1>1, <2>1, <2>3, <3>1, <3>2, AppendOK
    <2> QED BY <2>1, <2>2, <2>3, <2>4, ThreadFrame
  <1>3. CASE stage[u] # "exit"
    <2>1. LoopTest(u)
      BY <1>3, ThreadFrame DEF Rests, ThreadStep, Pop, TxnBegin, TakeQuit, TakeKey,
                               RejectEvent, AcceptEvent, TxnBeginFails, TypeOK
    <2>2. inbox'[u] = <<>> /\ quitting'[u]
      BY <2>1 DEF LoopTest, TypeOK
    <2> QED BY <2>2 DEF Foreign
  <1> QED BY <1>2, <1>3

\* Every step keeps the drain invariant.
LEMMA DrainStep == TypeOK /\ DrainInv /\ [Next]_vars => DrainInv'
  <1>1. ASSUME TypeOK, DrainInv, Next PROVE DrainInv'
    <2>1. destroying'.phase = "open" => destroying.phase = "open"
      BY <1>1, DestroyFrame DEF DestroyBegin, DestroyStep, DestroyQuit, DestroyJoin,
                                DestroyFree, Goto, destroyVars
    <2> QED BY <1>1, <2>1, OpenStep, ExitStep DEF DrainInv
  <1>2. ASSUME DrainInv, UNCHANGED vars PROVE DrainInv'
    BY <1>2 DEF DrainInv, vars
  <1> QED BY <1>1, <1>2

\* Nothing a client submitted, and nothing a thread dispatched to itself while it
\* drained, is left in a queue that is freed.
THEOREM PoolDrains == Spec => []OwnWorkDrained
  <1>1. Init => DrainInv /\ TeardownInv
    BY DEF Init, DrainInv, TeardownInv, NoQuit
  <1>2. DrainInv /\ TeardownInv => OwnWorkDrained
    BY DEF DrainInv, TeardownInv, OwnWorkDrained, Foreign
  <1> QED BY <1>1, <1>2, DrainStep, TeardownStep, PoolTypeCorrect, PTL DEF Spec

-----------------------------------------------------------------------------
(* Keys *)

\* What thread t has still to process, in the order it will.
Pending(t) == batch[t] \o inbox[t]

\* A table of keys holds k, or is full.
Has(table, k) == (\E i \in 1..Len(table) : table[i] = k) \/ Len(table) = MaxKeys

KeyAt(msgs, i, k) == msgs[i].type = "key" /\ msgs[i].key = k

\* The key is in the table or on its way.
Reaches(msgs, table, k) == Has(table, k) \/ \E i \in 1..Len(msgs) : KeyAt(msgs, i, k)

\* Every event comes after the keys registered before it.
Covered(msgs, table) ==
    \A i \in 1..Len(msgs) : IsEvent(msgs[i]) =>
        \A k \in msgs[i].after :
            Has(table, k) \/ \E j \in 1..(i - 1) : KeyAt(msgs, j, k)

\* A registered key has reached every thread, one being registered the threads
\* that its loop has passed, and each queue keeps keys ahead of later events.
KeysInv ==
    Healthy =>
        /\ \A t \in Threads : stage[t] = "pop" => batch[t] = <<>>
        /\ \A t \in Threads : \A k \in registered : Reaches(Pending(t), known[t], k)
        /\ registering.key # None =>
              \A t \in Threads : t < registering.next =>
                  Reaches(Pending(t), known[t], registering.key)
        /\ \A t \in Threads : Covered(Pending(t), known[t])

\* Appending a message loses no key and keeps events after the keys they need.
LEMMA AppendKeys ==
    ASSUME NEW s \in Seq(Message), NEW m \in Message, NEW table
    PROVE  /\ \A k : Reaches(s, table, k) => Reaches(Append(s, m), table, k)
           /\ \A k : m = KeyMsg(k) => Reaches(Append(s, m), table, k)
           /\ Covered(s, table) /\ (IsEvent(m) => \A k \in m.after : Reaches(s, table, k))
                 => Covered(Append(s, m), table)
  <1> DEFINE q == Append(s, m)
  <1>1. /\ Len(q) = Len(s) + 1
        /\ \A i \in 1..Len(s) : q[i] = s[i]
        /\ q[Len(s) + 1] = m
        /\ Len(s) \in Nat
    OBVIOUS
  <1> HIDE DEF q
  <1>2. \A i \in 1..Len(s) : \A k : KeyAt(q, i, k) <=> KeyAt(s, i, k)
    BY <1>1 DEF KeyAt
  <1>3. ASSUME NEW k, Reaches(s, table, k) PROVE Reaches(q, table, k)
    BY <1>1, <1>2, <1>3 DEF Reaches
  <1>4. ASSUME NEW k, m = KeyMsg(k) PROVE Reaches(q, table, k)
    BY <1>1, <1>4 DEF Reaches, KeyAt, KeyMsg
  <1>5. ASSUME Covered(s, table), IsEvent(m) => \A k \in m.after : Reaches(s, table, k),
               NEW i \in 1..Len(q), IsEvent(q[i]), NEW k \in q[i].after
        PROVE  Has(table, k) \/ \E j \in 1..(i - 1) : KeyAt(q, j, k)
    <2>1. CASE i \in 1..Len(s)
      <3>1. Has(table, k) \/ \E j \in 1..(i - 1) : KeyAt(s, j, k)
        BY <1>1, <1>5, <2>1 DEF Covered
      <3>2. \A j \in 1..(i - 1) : j \in 1..Len(s)
        BY <1>1, <2>1
      <3> QED BY <1>2, <3>1, <3>2
    <2>2. CASE i = Len(s) + 1
      <3>1. Reaches(s, table, k) /\ i - 1 = Len(s)
        BY <1>1, <1>5, <2>2
      <3> QED BY <1>2, <3>1 DEF Reaches
    <2> QED BY <1>1, <1>5, <2>1, <2>2
  <1>6. Covered(s, table) /\ (IsEvent(m) => \A k \in m.after : Reaches(s, table, k))
            => Covered(q, table)
    BY <1>5 DEF Covered
  <1> QED BY <1>3, <1>4, <1>6 DEF q

\* The table takes in what the head of the queue brings.
Advances(msgs, old, new) ==
    /\ \A k : Has(old, k) => Has(new, k)
    /\ Head(msgs).type = "key" => Has(new, Head(msgs).key)

\* Consuming a message moves its key, if it has one, to the table.
LEMMA TailKeys ==
    ASSUME NEW s \in Seq(Message), s # <<>>, NEW old, NEW new, Advances(s, old, new)
    PROVE  /\ \A k : Reaches(s, old, k) => Reaches(Tail(s), new, k)
           /\ Covered(s, old) => Covered(Tail(s), new)
  <1> DEFINE q == Tail(s)
  <1>1. /\ Len(q) = Len(s) - 1
        /\ \A i \in 1..Len(q) : q[i] = s[i + 1]
        /\ Head(s) = s[1]
        /\ Len(s) \in Nat /\ Len(s) > 0
    BY HeadTailProperties
  <1> HIDE DEF q
  <1>2. \A j \in 1..Len(s) : j = 1 \/ j - 1 \in 1..Len(q)
    BY <1>1
  <1>3. ASSUME NEW j \in 1..Len(s), NEW k, KeyAt(s, j, k)
        PROVE  Has(new, k) \/ (j > 1 /\ j - 1 \in 1..Len(q) /\ KeyAt(q, j - 1, k))
    <2>1. CASE j = 1
      <3>1. Head(s).type = "key" /\ Head(s).key = k
        BY <1>1, <1>3, <2>1, Zenon DEF KeyAt
      <3>2. Has(new, Head(s).key)
        BY <3>1 DEF Advances
      <3> QED BY <3>1, <3>2
    <2>2. CASE j - 1 \in 1..Len(q)
      BY <1>1, <1>3, <2>2 DEF KeyAt
    <2> QED BY <1>2, <2>1, <2>2
  <1>4. ASSUME NEW k, Reaches(s, old, k) PROVE Reaches(q, new, k)
    BY <1>3, <1>4 DEF Reaches, Advances
  <1>5. ASSUME Covered(s, old), NEW i \in 1..Len(q), IsEvent(q[i]), NEW k \in q[i].after
        PROVE  Has(new, k) \/ \E j \in 1..(i - 1) : KeyAt(q, j, k)
    <2>1. i + 1 \in 1..Len(s) /\ q[i] = s[i + 1] /\ i + 1 - 1 = i
      BY <1>1
    <2>2. Has(old, k) \/ \E j \in 1..i : KeyAt(s, j, k)
      BY <1>5, <2>1 DEF Covered
    <2>3. ASSUME NEW j \in 1..i, KeyAt(s, j, k)
          PROVE  Has(new, k) \/ \E h \in 1..(i - 1) : KeyAt(q, h, k)
      <3>1. j \in 1..Len(s)
        BY <2>1
      <3>2. Has(new, k) \/ (j > 1 /\ KeyAt(q, j - 1, k))
        BY <1>3, <2>3, <3>1
      <3>3. j > 1 => j - 1 \in 1..(i - 1)
        BY <2>1
      <3> QED BY <3>2, <3>3
    <2> QED BY <2>2, <2>3 DEF Advances
  <1>6. Covered(s, old) => Covered(q, new)
    BY <1>5 DEF Covered
  <1> QED BY <1>4, <1>6 DEF q

\* Appending to the inbox appends to the batch followed by the inbox.
LEMMA AppendAtEnd ==
    ASSUME NEW b \in Seq(Message), NEW q \in Seq(Message), NEW m \in Message
    PROVE  b \o Append(q, m) = Append(b \o q, m)
  <1>1. b \o q \in Seq(Message) /\ <<m>> \in Seq(Message)
    OBVIOUS
  <1>2. Append(q, m) = q \o <<m>> /\ Append(b \o q, m) = (b \o q) \o <<m>>
    BY <1>1, AppendIsConcat
  <1> QED BY <1>1, <1>2, ConcatAssociative

\* A queue and the batch before it, as one sequence.
LEMMA ConcatSteps ==
    ASSUME NEW b \in Seq(Message), NEW q \in Seq(Message)
    PROVE  /\ b \o q \in Seq(Message)
           /\ b # <<>> => /\ b \o q # <<>>
                          /\ Tail(b) \in Seq(Message)
                          /\ Tail(b) \o q = Tail(b \o q)
                          /\ Head(b \o q) = Head(b)
           /\ \A n \in 1..Len(q) : SubSeq(q, 1, n) \o SubSeq(q, n + 1, Len(q)) = <<>> \o q
  <1>1. b \o q \in Seq(Message)
    OBVIOUS
  <1>2. ASSUME b # <<>>
        PROVE  /\ b \o q # <<>>
               /\ Tail(b) \in Seq(Message)
               /\ Tail(b) \o q = Tail(b \o q)
               /\ Head(b \o q) = Head(b)
    <2>1. b \o q # <<>>
      BY <1>2, ConcatEqualIffEmpty
    <2>2. /\ Tail(b) \in Seq(Message)
          /\ Tail(b \o q) \in Seq(Message)
          /\ Tail(b) \o q \in Seq(Message)
      BY <1>1, <1>2, <2>1, HeadTailProperties, ConcatProperties
    <2>3. Len(b) \in Nat /\ Len(b) > 0 /\ Len(q) \in Nat
      BY <1>2
    <2>4. Len(Tail(b) \o q) = Len(Tail(b \o q))
      BY <1>1, <1>2, <2>1, <2>2, <2>3, HeadTailProperties, ConcatProperties
    <2>5. ASSUME NEW i \in 1..Len(Tail(b) \o q)
          PROVE  (Tail(b) \o q)[i] = Tail(b \o q)[i]
      <3>1. /\ Len(Tail(b)) = Len(b) - 1
            /\ \A j \in 1..Len(Tail(b)) : Tail(b)[j] = b[j + 1]
            /\ Len(b \o q) = Len(b) + Len(q)
            /\ Len(Tail(b) \o q) = Len(b) - 1 + Len(q)
        BY <1>2, <2>2, <2>3, HeadTailProperties, ConcatProperties
      <3>2. Tail(b \o q)[i] = (b \o q)[i + 1]
        BY <1>1, <2>1, <2>4, <2>5, HeadTailProperties
      <3>3. (b \o q)[i + 1] = IF i + 1 <= Len(b) THEN b[i + 1] ELSE q[i + 1 - Len(b)]
        BY <2>3, <3>1, ConcatProperties
      <3>4. (Tail(b) \o q)[i] = IF i <= Len(b) - 1 THEN Tail(b)[i] ELSE q[i - (Len(b) - 1)]
        BY <2>2, <2>3, <3>1, ConcatProperties
      <3> QED BY <2>3, <3>1, <3>2, <3>3, <3>4
    <2>6. Tail(b) \o q = Tail(b \o q)
      BY <2>2, <2>4, <2>5, SeqEqual
    <2>7. Head(b \o q) = Head(b)
      BY <1>2, <2>1
    <2> QED BY <2>1, <2>2, <2>6, <2>7
  <1>3. ASSUME NEW n \in 1..Len(q)
        PROVE  SubSeq(q, 1, n) \o SubSeq(q, n + 1, Len(q)) = <<>> \o q
    <2>1. Len(q) \in Nat
      OBVIOUS
    <2>2. 1 \in 1..Len(q) + 1 /\ n \in 1 - 1..Len(q) /\ Len(q) \in n..Len(q)
      BY <1>3, <2>1
    <2>3. SubSeq(q, 1, n) \o SubSeq(q, n + 1, Len(q)) = SubSeq(q, 1, Len(q))
      BY <2>2, ConcatAdjacentSubSeq
    <2> QED BY <2>3, SubSeqFull, ConcatEmptySeq
  <1> QED BY <1>1, <1>2, <1>3

\* A table with room holds the key that is added.
LEMMA AppendHas ==
    ASSUME NEW table \in Seq(Keys), NEW k \in Keys, Len(table) # MaxKeys
    PROVE  /\ \A x : Has(table, x) => Has(Append(table, k), x)
           /\ Has(Append(table, k), k)
  <1>1. /\ Len(Append(table, k)) = Len(table) + 1
        /\ \A i \in 1..Len(table) : Append(table, k)[i] = table[i]
        /\ Append(table, k)[Len(table) + 1] = k
        /\ Len(table) \in Nat
    OBVIOUS
  <1> QED BY <1>1 DEF Has

\* What a step makes of the messages and the keys of thread u: it may consume the
\* first message, and a message that is sent may be added at the end.
PendingMove(u, q) ==
    /\ q \in Seq(Message)
    /\ \/ q = Pending(u) /\ known'[u] = known[u]
       \/ /\ Pending(u) # <<>>
          /\ q = Tail(Pending(u))
          /\ Advances(Pending(u), known[u], known'[u])
    /\ \/ Pending(u)' = q
       \/ \E m \in Message : Sent(m) /\ Pending(u)' = Append(q, m)

\* What a step does to a thread's batch followed by its inbox: nothing, one message less
\* or one more.
LEMMA PendingStep ==
    ASSUME TypeOK, Next, NEW u \in Threads, ~TxnBeginFails(u),
           stage[u] = "pop" => batch[u] = <<>>
    PROVE  \E q : PendingMove(u, q)
  <1>1. inbox[u] \in Seq(Message) /\ batch[u] \in Seq(Message)
    BY DEF TypeOK
  <1>2. CASE Pop(u)
    <2>1. PICK n \in 1..Len(inbox[u]) :
              /\ batch' = [batch EXCEPT ![u] = SubSeq(inbox[u], 1, n)]
              /\ inbox' = [inbox EXCEPT ![u] = SubSeq(@, n + 1, Len(@))]
      BY <1>2 DEF Pop
    <2>2. /\ batch'[u] = SubSeq(inbox[u], 1, n)
          /\ inbox'[u] = SubSeq(inbox[u], n + 1, Len(inbox[u]))
          /\ batch[u] = <<>>
          /\ known' = known
      BY <1>2, <2>1 DEF TypeOK, Pop
    <2>3. Pending(u)' = Pending(u) /\ Pending(u) \in Seq(Message)
      BY <1>1, <2>2, ConcatSteps DEF Pending
    <2> QED BY <2>2, <2>3 DEF PendingMove
  <1>3. CASE ~Pop(u)
    <2> DEFINE b == batch'[u]
               q == b \o inbox[u]
    <2>1. /\ b \in Seq(Message)
          /\ q \in Seq(Message)
          /\ \/ q = Pending(u) /\ known'[u] = known[u]
             \/ /\ Pending(u) # <<>>
                /\ q = Tail(Pending(u))
                /\ Advances(Pending(u), known[u], known'[u])
      <3>1. CASE b = batch[u] /\ known'[u] = known[u]
        BY <1>1, <3>1, ConcatSteps DEF Pending
      <3>2. CASE TakeQuit(u) \/ TakeKey(u) \/ RejectEvent(u) \/ AcceptEvent(u)
        <4>0. batch[u] # <<>> /\ Consume(u)
          BY <3>2 DEF TakeQuit, TakeKey, RejectEvent, AcceptEvent
        <4>1. b = Tail(batch[u]) /\ Head(batch[u]) \in Message
          BY <4>0, ConsumeType
        <4>2. /\ b \in Seq(Message)
              /\ Pending(u) # <<>>
              /\ q = Tail(Pending(u))
              /\ Head(Pending(u)) = Head(batch[u])
          <5>1. /\ batch[u] \o inbox[u] # <<>>
                /\ Tail(batch[u]) \in Seq(Message)
                /\ Tail(batch[u]) \o inbox[u] = Tail(batch[u] \o inbox[u])
                /\ Head(batch[u] \o inbox[u]) = Head(batch[u])
            BY <1>1, <4>0, ConcatSteps
          <5> QED BY <4>1, <5>1, Zenon DEF Pending
        <4>3. Advances(Pending(u), known[u], known'[u])
          <5>1. CASE TakeKey(u)
            <6>1. known[u] \in Seq(Keys) /\ Head(batch[u]).type = "key"
              BY <5>1 DEF TypeOK, TakeKey
            <6>2. Head(batch[u]).key \in Keys
              BY <4>1, <6>1 DEF Message, QuitMsg
            <6>3. CASE Len(known[u]) = MaxKeys
              BY <5>1, <6>3 DEF TakeKey, Advances, Has
            <6>4. CASE /\ Len(known[u]) # MaxKeys
                       /\ known'[u] = Append(known[u], Head(batch[u]).key)
              BY <4>2, <6>1, <6>2, <6>4, AppendHas DEF Advances
            <6> QED BY <5>1, <6>3, <6>4 DEF TakeKey, TypeOK
          <5>2. CASE known' = known /\ Head(batch[u]).type # "key"
            BY <4>2, <5>2 DEF Advances
          <5> QED BY <3>2, <5>1, <5>2 DEF TakeQuit, RejectEvent, AcceptEvent, IsEvent
        <4>4. q \in Seq(Message)
          BY <1>1, <4>2, ConcatSteps
        <4> QED BY <4>2, <4>3, <4>4
      <3> QED BY <1>3, <3>1, <3>2, ThreadFrame DEF ThreadStep, TxnBegin, LoopTest, Rests
    <2>2. \/ Pending(u)' = q
          \/ \E m \in Message : Sent(m) /\ Pending(u)' = Append(q, m)
      <3>1. CASE inbox'[u] = inbox[u]
        BY <3>1 DEF Pending
      <3>2. CASE Receives(u)
        <4>1. PICK m \in Message : Sent(m) /\ inbox'[u] = Append(inbox[u], m)
          BY <3>2 DEF Receives
        <4>2. b \o Append(inbox[u], m) = Append(q, m)
          BY <1>1, <2>1, AppendAtEnd
        <4>3. Pending(u)' = Append(q, m)
          BY <4>1, <4>2 DEF Pending
        <4> HIDE DEF q
        <4> QED BY <4>1, <4>3
      <3> QED BY <1>3, <3>1, <3>2, ThreadFrame
    <2> QED BY <2>1, <2>2 DEF PendingMove
  <1> QED BY <1>2, <1>3

\* Keys stay reached and queues stay covered, whatever the step.
LEMMA KeysMove ==
    ASSUME TypeOK, Next, NEW u \in Threads, ~TxnBeginFails(u),
           stage[u] = "pop" => batch[u] = <<>>,
           \A k \in registered : Reaches(Pending(u), known[u], k),
           Covered(Pending(u), known[u])
    PROVE  /\ \A k : Reaches(Pending(u), known[u], k) => Reaches(Pending(u)', known'[u], k)
           /\ Covered(Pending(u)', known'[u])
  <1>1. PICK q : PendingMove(u, q)
    BY PendingStep
  <1>2. Pending(u) \in Seq(Message) /\ q \in Seq(Message)
    BY <1>1, ConcatSteps DEF PendingMove, Pending, TypeOK
  <1>3. /\ \A k : Reaches(Pending(u), known[u], k) => Reaches(q, known'[u], k)
        /\ Covered(q, known'[u])
    <2>1. CASE q = Pending(u) /\ known'[u] = known[u]
      BY <2>1
    <2>2. CASE /\ Pending(u) # <<>>
               /\ q = Tail(Pending(u))
               /\ Advances(Pending(u), known[u], known'[u])
      BY <1>2, <2>2, TailKeys
    <2> QED BY <1>1, <2>1, <2>2 DEF PendingMove
  <1>4. CASE Pending(u)' = q
    BY <1>3, <1>4
  <1>5. ASSUME NEW m \in Message, Sent(m), Pending(u)' = Append(q, m)
        PROVE  /\ \A k : Reaches(q, known'[u], k) => Reaches(Pending(u)', known'[u], k)
               /\ Covered(Pending(u)', known'[u])
    <2>1. IsEvent(m) => m.after = registered
      BY <1>5 DEF Sent, EventMsg, KeyMsg, QuitMsg, IsEvent
    <2>2. IsEvent(m) => \A k \in m.after : Reaches(q, known'[u], k)
      BY <1>3, <2>1
    <2> QED BY <1>2, <1>3, <1>5, <2>2, AppendKeys
  <1> QED BY <1>1, <1>3, <1>4, <1>5 DEF PendingMove

\* The turn of ndb_add_key's loop that pushes to u brings the key there.
LEMMA PushReaches ==
    ASSUME TypeOK, AddKeyPush, NEW u \in Threads, u = registering.next, ~Full(u)
    PROVE  Reaches(Pending(u)', known'[u], registering.key)
  <1>1. registering.key \in Keys
    BY DEF AddKeyPush, TypeOK
  <1>2. KeyMsg(registering.key) \in Message
    BY <1>1, OtherMsgType
  <1>3. inbox[u] \in Seq(Message) /\ batch[u] \in Seq(Message)
    BY DEF TypeOK
  <1>4. /\ inbox'[u] = Append(inbox[u], KeyMsg(registering.key))
        /\ batch' = batch
    BY <1>2, EnqueueType DEF AddKeyPush, threadVars
  <1>5. Pending(u)' = Append(Pending(u), KeyMsg(registering.key))
    <2>1. batch[u] \o Append(inbox[u], KeyMsg(registering.key))
              = Append(batch[u] \o inbox[u], KeyMsg(registering.key))
      BY <1>2, <1>3, AppendAtEnd
    <2> QED BY <1>4, <2>1, Zenon DEF Pending
  <1>6. Pending(u) \in Seq(Message)
    BY <1>3, ConcatSteps DEF Pending
  <1> QED BY <1>2, <1>5, <1>6, AppendKeys

\* Every step keeps the keys invariant.
LEMMA KeysStep == TypeOK /\ KeysInv /\ [Next]_vars => KeysInv'
  <1>1. ASSUME KeysInv, UNCHANGED vars PROVE KeysInv'
    BY <1>1 DEF KeysInv, Pending, vars, Healthy
  <1>2. ASSUME TypeOK, KeysInv, Next, Healthy'
        PROVE  /\ \A t \in Threads : stage'[t] = "pop" => batch'[t] = <<>>
               /\ \A t \in Threads : \A k \in registered' :
                     Reaches(Pending(t)', known'[t], k)
               /\ registering'.key # None =>
                     \A t \in Threads : t < registering'.next =>
                         Reaches(Pending(t)', known'[t], registering'.key)
               /\ \A t \in Threads : Covered(Pending(t)', known'[t])
    <2>1. Healthy /\ \A t \in Threads : ~TxnBeginFails(t)
      BY <1>2, HealthyBack
    <2>2. ASSUME NEW t \in Threads, stage'[t] = "pop" PROVE batch'[t] = <<>>
      <3>1. stage[t] = "pop" => batch[t] = <<>>
        BY <1>2, <2>1 DEF KeysInv
      <3>2. CASE Rests(t)
        BY <2>2, <3>1, <3>2 DEF Rests
      <3>3. CASE ThreadStep(t)
        <4>1. LoopTest(t)
          <5>1. stage[t] # "pop"
            BY <2>2, <3>3, <1>2 DEF ThreadStep, Pop, TxnBegin, TakeQuit, TakeKey, RejectEvent,
                               AcceptEvent, LoopTest, TypeOK
          <5> QED BY <2>2, <3>3, <5>1, <1>2 DEF ThreadStep, Pop, TxnBegin, TakeQuit, TakeKey,
                               RejectEvent, AcceptEvent, TypeOK
        <4> QED BY <4>1 DEF LoopTest
      <3> QED BY <1>2, <2>1, <3>2, <3>3, ThreadFrame
    <2>3. \A t \in Threads :
             /\ \A k : Reaches(Pending(t), known[t], k) => Reaches(Pending(t)', known'[t], k)
             /\ Covered(Pending(t)', known'[t])
      BY <1>2, <2>1, KeysMove DEF KeysInv
    <2>4. \A t \in Threads : \A k \in registered : Reaches(Pending(t)', known'[t], k)
      BY <1>2, <2>1, <2>3 DEF KeysInv
    <2>5. registering.key # None =>
             \A t \in Threads : t < registering.next =>
                 Reaches(Pending(t)', known'[t], registering.key)
      BY <1>2, <2>1, <2>3 DEF KeysInv
    <2>6. CASE UNCHANGED <<registering, registered>>
      BY <2>2, <2>3, <2>4, <2>5, <2>6
    <2>7. ASSUME NEW k \in Keys, AddKeyBegin(k)
          PROVE  registered' = registered /\ registering'.next = 1
      BY <2>7 DEF AddKeyBegin
    <2>8. CASE AddKeyPush
      <3>1. registering.next \in 1..N /\ registering.key # None
        BY <1>2, <2>8 DEF TypeOK, Threads, AddKeyPush
      <3>2. CASE Full(registering.next)
        BY <2>2, <2>3, <2>4, <2>8, <3>2 DEF AddKeyPush, Idle
      <3>3. CASE ~Full(registering.next)
        <4>1. \A t \in Threads : t <= registering.next =>
                 Reaches(Pending(t)', known'[t], registering.key)
          BY <1>2, <2>5, <2>8, <3>1, <3>3, PushReaches DEF Threads
        <4>2. CASE registering.next < N
          <5>1. registering' = [registering EXCEPT !.next = registering.next + 1]
                /\ registered' = registered
            BY <2>8, <3>3, <4>2 DEF AddKeyPush
          <5>2. registering'.key = registering.key /\ registering'.next = registering.next + 1
            BY <1>2, <5>1 DEF TypeOK
          <5>3. \A t \in Threads : t < registering.next + 1 => t <= registering.next
            BY <3>1 DEF Threads
          <5> QED BY <2>2, <2>3, <2>4, <4>1, <5>1, <5>2, <5>3
        <4>3. CASE ~(registering.next < N)
          <5>1. registering' = Idle /\ registered' = registered \cup {registering.key}
            BY <2>8, <3>3, <4>3 DEF AddKeyPush
          <5>2. \A t \in Threads : t <= registering.next
            BY <3>1, <4>3, PoolAssumption DEF Threads
          <5> QED BY <2>2, <2>3, <2>4, <4>1, <5>1, <5>2 DEF Idle
        <4> QED BY <4>2, <4>3
      <3> QED BY <3>2, <3>3
    <2>9. CASE \E k \in Keys : AddKeyBegin(k)
      <3>1. registered' = registered /\ registering'.next = 1
        BY <2>7, <2>9
      <3>2. \A t \in Threads : ~(t < 1)
        BY DEF Threads
      <3> QED BY <2>2, <2>3, <2>4, <3>1, <3>2
    <2> QED BY <1>2, <2>6, <2>8, <2>9
            DEF Next, ThreadStep, ProcessEvent, Pop, TxnBegin, TakeQuit, TakeKey,
                RejectEvent, AcceptEvent, LoopTest, TxnBeginFails, DestroyBegin,
                DestroyStep, DestroyQuit, DestroyJoin, DestroyFree, clientVars
  <1>3. ASSUME TypeOK, KeysInv, Next PROVE KeysInv'
    BY <1>2, <1>3 DEF KeysInv
  <1> QED BY <1>1, <1>3

\* While every read transaction begins, an event dispatched after ndb_add_key
\* returned 1 finds the key in the table of the thread that processes it, whichever
\* that is, or finds that table full.
THEOREM KeysReachEvents == Spec => []KeysKnown
  <1>1. Init => KeysInv
    BY DEF Init, KeysInv, Idle, Pending, Covered
  <1>2. TypeOK /\ KeysInv => KeysKnown
    <2> SUFFICES ASSUME TypeOK, KeysInv, Healthy, NEW t \in Threads, batch[t] # <<>>,
                        IsEvent(Head(batch[t])), NEW k \in Head(batch[t]).after
                 PROVE  Has(known[t], k)
      BY DEF KeysKnown, Has
    <2>1. inbox[t] \in Seq(Message) /\ batch[t] \in Seq(Message)
      BY DEF TypeOK
    <2>2. /\ Pending(t) # <<>>
          /\ Pending(t) \in Seq(Message)
          /\ Head(Pending(t)) = Head(batch[t])
      BY <2>1, ConcatSteps DEF Pending
    <2>3. Head(batch[t]) = Pending(t)[1] /\ 1 \in 1..Len(Pending(t))
      BY <2>2
    <2>4. Covered(Pending(t), known[t])
      BY DEF KeysInv
    <2>5. Has(known[t], k) \/ \E j \in 1..(1 - 1) : KeyAt(Pending(t), j, k)
      BY <2>3, <2>4 DEF Covered
    <2> QED BY <2>5
  <1> QED BY <1>1, <1>2, KeysStep, PoolTypeCorrect, PTL DEF Spec

-----------------------------------------------------------------------------
(* Owners of the json copies *)

\* The events in queues q of all threads.
Kept(q) == UNION {{t} \X EventsIn(q[t]) : t \in Threads}

NumEvents(msgs) == Cardinality(EventsIn(msgs))

\* Queues of messages, none longer than c.
Queues(q, c) == q \in [Threads -> Seq(Message)] /\ \A t \in Threads : Len(q[t]) <= c

\* The events of a concatenation are those of its parts.
LEMMA EventsConcat ==
    ASSUME NEW a \in Seq(Message), NEW z \in Seq(Message)
    PROVE  NumEvents(a \o z) = NumEvents(a) + NumEvents(z)
  <1> DEFINE s == a \o z
             T == EventsIn(s) \ EventsIn(a)
             h == [i \in EventsIn(z) |-> i + Len(a)]
  <1>1. /\ Len(a) \in Nat /\ Len(z) \in Nat
        /\ s \in Seq(Message) /\ Len(s) = Len(a) + Len(z)
        /\ \A i \in 1..(Len(a) + Len(z)) : s[i] = IF i <= Len(a) THEN a[i] ELSE z[i - Len(a)]
    BY ConcatProperties, LenProperties
  <1> HIDE DEF s
  <1>2. EventsIn(a) \subseteq EventsIn(s)
    <2> SUFFICES ASSUME NEW i \in EventsIn(a) PROVE i \in EventsIn(s)
      OBVIOUS
    <2>1. i \in 1..Len(a) /\ IsEvent(a[i])
      BY DEF EventsIn
    <2>2. i \in 1..Len(s) /\ s[i] = a[i]
      BY <1>1, <2>1
    <2> QED BY <2>1, <2>2 DEF EventsIn
  <1>3. \A i \in EventsIn(z) : i + Len(a) \in T /\ i \in Nat
    <2> TAKE i \in EventsIn(z)
    <2>1. i \in 1..Len(z) /\ IsEvent(z[i])
      BY DEF EventsIn
    <2>2. i + Len(a) \in 1..Len(s) /\ i + Len(a) \notin 1..Len(a) /\ (i + Len(a)) - Len(a) = i
      BY <1>1, <2>1
    <2>3. s[i + Len(a)] = z[i]
      BY <1>1, <2>1, <2>2
    <2> QED BY <2>1, <2>2, <2>3 DEF EventsIn
  <1>4. ASSUME NEW k \in T PROVE \E i \in EventsIn(z) : h[i] = k
    <2>1. k \in 1..Len(s) /\ IsEvent(s[k]) /\ k \notin EventsIn(a)
      BY DEF EventsIn
    <2>2. ~(k <= Len(a))
      BY <1>1, <2>1 DEF EventsIn
    <2>3. k - Len(a) \in 1..Len(z) /\ s[k] = z[k - Len(a)] /\ (k - Len(a)) + Len(a) = k
      BY <1>1, <2>1, <2>2
    <2>4. k - Len(a) \in EventsIn(z)
      BY <2>1, <2>3 DEF EventsIn
    <2> QED BY <2>3, <2>4
  <1>5. h \in Bijection(EventsIn(z), T)
    <2>1. h \in [EventsIn(z) -> T]
      BY <1>3
    <2>2. \A i, j \in EventsIn(z) : h[i] = h[j] => i = j
      BY <1>1, <1>3
    <2> HIDE DEF h
    <2> QED BY <1>4, <2>1, <2>2 DEF Bijection, Injection, Surjection, IsInjective
  <1>6. IsFiniteSet(T) /\ Cardinality(T) = NumEvents(z)
    BY <1>5, EventsInFinite, FS_Bijection DEF ExistsBijection, NumEvents
  <1>7. EventsIn(s) = EventsIn(a) \cup T /\ EventsIn(a) \cap T = {}
    BY <1>2
  <1> HIDE DEF T
  <1>8. Cardinality(EventsIn(a) \cup T) = NumEvents(a) + NumEvents(z) - Cardinality(EventsIn(a) \cap T)
    BY <1>6, EventsInFinite, FS_Union DEF NumEvents
  <1>9. Cardinality(EventsIn(a) \cap T) = 0
    BY <1>7, FS_EmptySet
  <1>10. NumEvents(a) \in Nat /\ NumEvents(z) \in Nat
    BY EventsInFinite DEF NumEvents
  <1> QED BY <1>7, <1>8, <1>9, <1>10 DEF s, NumEvents

\* One message is one event or none.
LEMMA EventsOne ==
    ASSUME NEW m \in Message
    PROVE  NumEvents(<<m>>) = IF IsEvent(m) THEN 1 ELSE 0
  <1>1. EventsIn(<<m>>) = IF IsEvent(m) THEN {1} ELSE {}
    BY DEF EventsIn
  <1> QED BY <1>1, FS_EmptySet, FS_Singleton DEF NumEvents

\* Pushing an event, popping some messages, and consuming the first.
LEMMA EventsMove ==
    ASSUME NEW s \in Seq(Message)
    PROVE  /\ NumEvents(s) \in Nat
           /\ \A m \in Message :
                 NumEvents(Append(s, m)) = NumEvents(s) + (IF IsEvent(m) THEN 1 ELSE 0)
           /\ \A n \in 1..Len(s) :
                 NumEvents(s) = NumEvents(SubSeq(s, 1, n)) + NumEvents(SubSeq(s, n + 1, Len(s)))
           /\ s # <<>> => NumEvents(s) = NumEvents(Tail(s)) + (IF IsEvent(Head(s)) THEN 1 ELSE 0)
  <1>0. \A i \in 1..Len(s) : s[i] \in Message
    BY ElementOfSeq
  <1>1. NumEvents(s) \in Nat
    BY EventsInFinite DEF NumEvents
  <1>2. ASSUME NEW m \in Message
        PROVE  NumEvents(Append(s, m)) = NumEvents(s) + (IF IsEvent(m) THEN 1 ELSE 0)
    <2>1. Append(s, m) = s \o <<m>> /\ <<m>> \in Seq(Message)
      BY AppendIsConcat
    <2>2. NumEvents(s \o <<m>>) = NumEvents(s) + NumEvents(<<m>>)
      BY <2>1, EventsConcat
    <2> QED BY <2>1, <2>2, EventsOne
  <1>3. ASSUME NEW n \in 1..Len(s)
        PROVE  NumEvents(s) = NumEvents(SubSeq(s, 1, n)) + NumEvents(SubSeq(s, n + 1, Len(s)))
    <2> DEFINE a == SubSeq(s, 1, n)
               z == SubSeq(s, n + 1, Len(s))
    <2>1. a \in Seq(Message) /\ z \in Seq(Message)
      BY <1>0, SubSeqProperties, LenProperties
    <2>2. a \o z = s
      BY ConcatAdjacentSubSeq, SubSeqFull, LenProperties
    <2> HIDE DEF a, z
    <2>3. NumEvents(a \o z) = NumEvents(a) + NumEvents(z)
      BY <2>1, EventsConcat
    <2> QED BY <2>2, <2>3 DEF a, z
  <1>4. ASSUME s # <<>>
        PROVE  NumEvents(s) = NumEvents(Tail(s)) + (IF IsEvent(Head(s)) THEN 1 ELSE 0)
    <2>1. Head(s) \in Message /\ Tail(s) \in Seq(Message) /\ <<Head(s)>> \in Seq(Message)
      BY <1>4
    <2>2. s = <<Head(s)>> \o Tail(s)
      BY <1>4, HeadTailProperties, ConcatProperties, <2>1
    <2>3. NumEvents(<<Head(s)>> \o Tail(s)) = NumEvents(<<Head(s)>>) + NumEvents(Tail(s))
      BY <2>1, EventsConcat
    <2>4. NumEvents(Tail(s)) \in Nat
      BY <2>1, EventsInFinite DEF NumEvents
    <2>5. NumEvents(<<Head(s)>>) = IF IsEvent(Head(s)) THEN 1 ELSE 0
      BY <2>1, EventsOne
    <2>6. NumEvents(s) = NumEvents(<<Head(s)>>) + NumEvents(Tail(s))
      BY <2>2, <2>3
    <2> QED BY <2>4, <2>5, <2>6
  <1> QED BY <1>1, <1>2, <1>3, <1>4

\* The queues of all but one thread count the same before and after.
LEMMA KeptMove ==
    ASSUME NEW q, NEW r, NEW c \in Nat, NEW d \in Nat, Queues(q, c), Queues(r, d),
           NEW t \in Threads, \A u \in Threads : u # t => r[u] = q[u]
    PROVE  /\ Cardinality(Kept(q)) \in Nat /\ Cardinality(Kept(r)) \in Nat
           /\ Cardinality(Kept(r)) - NumEvents(r[t]) = Cardinality(Kept(q)) - NumEvents(q[t])
  <1> DEFINE Others(f) == UNION {{u} \X EventsIn(f[u]) : u \in Threads \ {t}}
  <1>1. ASSUME NEW f, NEW e \in Nat, Queues(f, e)
        PROVE  /\ IsFiniteSet(Others(f))
               /\ Cardinality(Kept(f)) = Cardinality(Others(f)) + NumEvents(f[t])
               /\ NumEvents(f[t]) \in Nat
    <2>1. IsFiniteSet(Threads \X (1..e))
      <3>1. IsFiniteSet(1..N) /\ IsFiniteSet(1..e)
        BY FS_Interval, PoolAssumption
      <3> QED BY <3>1, FS_Product DEF Threads
    <2>2. Others(f) \in SUBSET (Threads \X (1..e))
      <3>1. \A u \in Threads : EventsIn(f[u]) \subseteq 1..e
        <4> TAKE u \in Threads
        <4>1. Len(f[u]) \in Nat /\ Len(f[u]) <= e
          BY <1>1, LenProperties DEF Queues
        <4>2. 1..Len(f[u]) \subseteq 1..e
          BY <4>1
        <4> QED BY <4>2 DEF EventsIn
      <3> QED BY <3>1
    <2>3. IsFiniteSet(Others(f))
      BY <2>1, <2>2, FS_Subset
    <2>4. f[t] \in Seq(Message)
      BY <1>1 DEF Queues
    <2> DEFINE M == {t} \X EventsIn(f[t])
    <2>5. IsFiniteSet(EventsIn(f[t])) /\ NumEvents(f[t]) \in Nat
      BY <2>4, EventsInFinite DEF NumEvents
    <2>6. IsFiniteSet({t}) /\ Cardinality({t}) = 1
      BY FS_Singleton
    <2>7. IsFiniteSet(M) /\ Cardinality(M) = 1 * NumEvents(f[t])
      BY <2>5, <2>6, FS_Product DEF NumEvents
    <2>8. Kept(f) = Others(f) \cup M /\ Others(f) \cap M = {}
      BY DEF Kept
    <2> HIDE DEF M, Others
    <2>9. Cardinality(Others(f) \cup M) = Cardinality(Others(f)) + Cardinality(M) - Cardinality(Others(f) \cap M)
      BY <2>3, <2>7, FS_Union
    <2>10. Cardinality(Others(f) \cap M) = 0 /\ Cardinality(Others(f)) \in Nat
      BY <2>3, <2>8, FS_EmptySet, FS_CardinalityType
    <2> QED BY <2>3, <2>5, <2>7, <2>8, <2>9, <2>10
  <1>2. Others(q) = Others(r)
    OBVIOUS
  <1> HIDE DEF Others
  <1>3. Cardinality(Others(q)) \in Nat
    BY <1>1, FS_CardinalityType
  <1> QED BY <1>1, <1>2, <1>3

\* A push adds one json copy to the inboxes if the message is an event.
LEMMA PushCounts ==
    ASSUME TypeOK, TypeOK', NEW t \in Threads, NEW m \in Message, ~Full(t), Enqueue(t, m)
    PROVE  /\ Cardinality(Kept(inbox)) \in Nat
           /\ Cardinality(Kept(inbox')) = Cardinality(Kept(inbox)) + (IF IsEvent(m) THEN 1 ELSE 0)
  <1>1. inbox'[t] = Append(inbox[t], m) /\ \A u \in Threads : u # t => inbox'[u] = inbox[u]
    BY EnqueueType
  <1>2. Queues(inbox, InboxSize) /\ Queues(inbox', InboxSize) /\ InboxSize \in Nat
    BY PoolAssumption DEF TypeOK, Queues
  <1>3. /\ Cardinality(Kept(inbox)) \in Nat /\ Cardinality(Kept(inbox')) \in Nat
        /\ Cardinality(Kept(inbox')) - NumEvents(inbox'[t]) = Cardinality(Kept(inbox)) - NumEvents(inbox[t])
    BY <1>1, <1>2, KeptMove
  <1>4. NumEvents(inbox[t]) \in Nat /\ inbox[t] \in Seq(Message)
    BY EventsMove DEF TypeOK
  <1>5. NumEvents(Append(inbox[t], m)) = NumEvents(inbox[t]) + (IF IsEvent(m) THEN 1 ELSE 0)
    BY <1>4, EventsMove
  <1> QED BY <1>1, <1>3, <1>4, <1>5

\* The events of all batches change by those of the one batch that changes.
LEMMA BatchCounts ==
    ASSUME TypeOK, TypeOK', NEW t \in Threads, \A u \in Threads : u # t => batch'[u] = batch[u]
    PROVE  /\ Cardinality(Kept(batch)) \in Nat /\ Cardinality(Kept(batch')) \in Nat
           /\ NumEvents(batch[t]) \in Nat /\ NumEvents(batch'[t]) \in Nat
           /\ Cardinality(Kept(batch')) - NumEvents(batch'[t]) = Cardinality(Kept(batch)) - NumEvents(batch[t])
  <1>1. Queues(batch, BatchSize) /\ Queues(batch', BatchSize) /\ BatchSize \in Nat
    BY PoolAssumption DEF TypeOK, Queues
  <1>2. NumEvents(batch[t]) \in Nat /\ NumEvents(batch'[t]) \in Nat
    BY EventsMove DEF TypeOK
  <1> QED BY <1>1, <1>2, KeptMove

\* The first message of the batch is done with.
LEMMA ConsumeCounts ==
    ASSUME TypeOK, TypeOK', NEW t \in Threads, batch[t] # <<>>, Consume(t)
    PROVE  /\ Cardinality(Kept(batch')) \in Nat
           /\ Cardinality(Kept(batch)) = Cardinality(Kept(batch')) + (IF IsEvent(Head(batch[t])) THEN 1 ELSE 0)
  <1>1. batch'[t] = Tail(batch[t]) /\ \A u \in Threads : u # t => batch'[u] = batch[u]
    BY ConsumeType
  <1>2. NumEvents(batch[t]) = NumEvents(Tail(batch[t])) + (IF IsEvent(Head(batch[t])) THEN 1 ELSE 0)
    BY EventsMove DEF TypeOK
  <1>3. /\ Cardinality(Kept(batch)) \in Nat /\ Cardinality(Kept(batch')) \in Nat
        /\ NumEvents(batch[t]) \in Nat /\ NumEvents(batch'[t]) \in Nat
        /\ Cardinality(Kept(batch')) - NumEvents(batch'[t]) = Cardinality(Kept(batch)) - NumEvents(batch[t])
    BY <1>1, BatchCounts
  <1> QED BY <1>1, <1>2, <1>3

\* A thread that is back at its inbox has nothing in hand.
CopiesInv ==
    /\ live = Cardinality(Kept(inbox)) + Cardinality(Kept(batch)) + lost
    /\ \A t \in Threads : stage[t] = "pop" => batch[t] = <<>>

\* Finitely many json copies are under way.
LEMMA KeptFinite ==
    ASSUME TypeOK
    PROVE  Cardinality(Kept(inbox)) \in Nat /\ Cardinality(Kept(batch)) \in Nat
  <1>1. Queues(inbox, InboxSize) /\ Queues(batch, BatchSize) /\ InboxSize \in Nat /\ BatchSize \in Nat
    BY PoolAssumption DEF TypeOK, Queues
  <1>2. 1 \in Threads
    BY PoolAssumption DEF Threads
  <1> QED BY <1>1, <1>2, KeptMove

\* Copies that leave or join the inboxes and the batches balance.
LEMMA Balance ==
    ASSUME NEW l \in Int, NEW l1 \in Int, NEW o \in Int, NEW o1 \in Int, NEW x \in Int, NEW e \in Int,
           NEW i \in Int, NEW i1 \in Int, NEW b \in Int, NEW b1 \in Int,
           l = i + b + o, l1 - o1 = l - o + x, i1 = i + x + e, b = b1 + e
    PROVE  l1 = i1 + b1 + o1
  OBVIOUS

\* Every step keeps the count of json copies.
LEMMA CopiesStep == TypeOK /\ TypeOK' /\ CopiesInv /\ [Next]_vars => CopiesInv'
  <1> SUFFICES ASSUME TypeOK, TypeOK', CopiesInv, [Next]_vars PROVE CopiesInv'
    OBVIOUS
  <1>0. /\ Cardinality(Kept(inbox)) \in Nat /\ Cardinality(Kept(batch)) \in Nat
        /\ live \in Int /\ lost \in Nat /\ live' \in Int /\ lost' \in Nat
    <2>1. Cardinality(Kept(inbox)) \in Nat /\ Cardinality(Kept(batch)) \in Nat
      BY KeptFinite
    <2>2. live \in Int /\ lost \in Nat
      BY PoolAssumption DEF TypeOK
    <2>3. live' \in Int /\ lost' \in Nat
      BY PoolAssumption DEF TypeOK
    <2> QED BY <2>1, <2>2, <2>3
  <1>1. CASE UNCHANGED <<inbox, batch, live, lost, stage>>
    BY <1>1 DEF CopiesInv
  <1>2. ASSUME NEW e \in Events, NEW t \in Threads, ProcessEvent(e, t) PROVE CopiesInv'
    <2>1. UNCHANGED <<batch, stage, lost>>
      BY <1>2 DEF ProcessEvent, threadVars
    <2>2. CASE ~Full(t) /\ Enqueue(t, EventMsg(e, Client)) /\ live' = live + 1
      <3>1. EventMsg(e, Client) \in Message /\ IsEvent(EventMsg(e, Client))
        BY EventMsgType DEF EventMsg, IsEvent
      <3>2. Cardinality(Kept(inbox')) = Cardinality(Kept(inbox)) + 1
        BY <2>2, <3>1, PushCounts
      <3> QED BY <1>0, <2>1, <2>2, <3>2 DEF CopiesInv
    <2> QED BY <1>1, <1>2, <2>1, <2>2 DEF ProcessEvent, Ingest
  <1>3. ASSUME NEW t \in Threads, NEW m \in Message, ~Full(t), Enqueue(t, m), ~IsEvent(m),
               UNCHANGED <<batch, live, lost, stage>>
        PROVE  CopiesInv'
    <2>1. Cardinality(Kept(inbox')) = Cardinality(Kept(inbox))
      BY <1>0, <1>3, PushCounts
    <2> QED BY <1>3, <2>1 DEF CopiesInv
  <1>4. CASE AddKeyPush
    <2>1. registering.next \in Threads /\ registering.key \in Keys
      BY <1>4 DEF AddKeyPush, TypeOK
    <2>2. KeyMsg(registering.key) \in Message /\ ~IsEvent(KeyMsg(registering.key))
      BY <2>1, OtherMsgType DEF KeyMsg, IsEvent
    <2>3. UNCHANGED <<batch, live, lost, stage>>
      BY <1>4 DEF AddKeyPush, threadVars
    <2>4. inbox' = inbox \/ (~Full(registering.next) /\ Enqueue(registering.next, KeyMsg(registering.key)))
      BY <1>4 DEF AddKeyPush
    <2> QED BY <1>1, <1>3, <2>1, <2>2, <2>3, <2>4
  <1>5. CASE DestroyQuit
    <2>1. destroying.next \in Threads
      BY DEF TypeOK
    <2>2. QuitMsg \in Message /\ ~IsEvent(QuitMsg)
      BY OtherMsgType DEF QuitMsg, IsEvent
    <2>3. UNCHANGED <<batch, live, lost, stage>>
      BY <1>5 DEF DestroyQuit, threadVars
    <2>4. inbox' = inbox \/ (~Full(destroying.next) /\ Enqueue(destroying.next, QuitMsg))
      BY <1>5 DEF DestroyQuit
    <2> QED BY <1>1, <1>3, <2>1, <2>2, <2>3, <2>4
  <1>6. ASSUME NEW t \in Threads, Pop(t) PROVE CopiesInv'
    <2>1. PICK n \in 1..Len(inbox[t]) :
              /\ batch' = [batch EXCEPT ![t] = SubSeq(inbox[t], 1, n)]
              /\ inbox' = [inbox EXCEPT ![t] = SubSeq(inbox[t], n + 1, Len(inbox[t]))]
      BY <1>6 DEF Pop
    <2>2. stage[t] = "pop" /\ stage' = [stage EXCEPT ![t] = "begin"] /\ live' = live /\ lost' = lost
      BY <1>6 DEF Pop
    <2>3. /\ batch'[t] = SubSeq(inbox[t], 1, n)
          /\ inbox'[t] = SubSeq(inbox[t], n + 1, Len(inbox[t]))
          /\ \A u \in Threads : u # t => batch'[u] = batch[u] /\ inbox'[u] = inbox[u]
      BY <2>1 DEF TypeOK
    <2>4. /\ NumEvents(inbox[t]) = NumEvents(batch'[t]) + NumEvents(inbox'[t])
          /\ NumEvents(inbox[t]) \in Nat /\ NumEvents(inbox'[t]) \in Nat
      <3>1. inbox[t] \in Seq(Message) /\ inbox'[t] \in Seq(Message)
        BY DEF TypeOK
      <3>2. NumEvents(inbox[t]) \in Nat /\ NumEvents(inbox'[t]) \in Nat
        BY <3>1, EventsMove
      <3>3. NumEvents(inbox[t]) = NumEvents(SubSeq(inbox[t], 1, n)) + NumEvents(SubSeq(inbox[t], n + 1, Len(inbox[t])))
        BY <3>1, EventsMove
      <3> QED BY <2>3, <3>2, <3>3
    <2>5. Queues(inbox, InboxSize) /\ Queues(inbox', InboxSize) /\ InboxSize \in Nat
      BY PoolAssumption DEF TypeOK, Queues
    <2>6. /\ Cardinality(Kept(inbox')) \in Nat
          /\ Cardinality(Kept(inbox')) - NumEvents(inbox'[t]) = Cardinality(Kept(inbox)) - NumEvents(inbox[t])
      BY <2>3, <2>5, KeptMove
    <2>7. /\ Cardinality(Kept(batch')) \in Nat /\ NumEvents(batch'[t]) \in Nat
          /\ Cardinality(Kept(batch')) - NumEvents(batch'[t]) = Cardinality(Kept(batch)) - NumEvents(batch[t])
          /\ NumEvents(batch[t]) = 0
      <3>1. batch[t] = <<>>
        BY <2>2 DEF CopiesInv
      <3>2. EventsIn(<<>>) = {}
        BY DEF EventsIn
      <3> QED BY <2>3, <3>1, <3>2, BatchCounts, FS_EmptySet DEF NumEvents
    <2>8. live' = Cardinality(Kept(inbox')) + Cardinality(Kept(batch')) + lost'
      <3>1. live = Cardinality(Kept(inbox)) + Cardinality(Kept(batch)) + lost
        BY DEF CopiesInv
      <3>2. Cardinality(Kept(batch')) = Cardinality(Kept(batch)) + NumEvents(batch'[t])
        BY <1>0, <2>7
      <3>3. Cardinality(Kept(inbox)) = Cardinality(Kept(inbox')) + NumEvents(batch'[t])
        <4> DEFINE i == Cardinality(Kept(inbox))
                   ip == Cardinality(Kept(inbox'))
                   n0 == NumEvents(inbox[t])
                   n1 == NumEvents(inbox'[t])
                   m  == NumEvents(batch'[t])
        <4>1. i \in Nat /\ ip \in Nat /\ n0 \in Nat /\ n1 \in Nat /\ m \in Nat
          BY <1>0, <2>4, <2>6, <2>7
        <4>2. n0 = m + n1 /\ ip - n1 = i - n0
          BY <2>4, <2>6
        <4> HIDE DEF i, ip, n0, n1, m
        <4>3. i = ip + m
          BY <4>1, <4>2
        <4> QED BY <4>3 DEF i, ip, m
      <3>4. live' = live /\ lost' = lost
        BY <2>2
      <3> QED BY <1>0, <2>6, <2>7, <3>1, <3>2, <3>3, <3>4
    <2>9. \A u \in Threads : stage'[u] = "pop" => batch'[u] = <<>>
      BY <2>2, <2>3 DEF CopiesInv, TypeOK
    <2> QED BY <2>8, <2>9 DEF CopiesInv
  <1>7. ASSUME NEW t \in Threads, TxnBeginFails(t) PROVE CopiesInv'
    <2>1. /\ batch' = [batch EXCEPT ![t] = <<>>] /\ inbox' = inbox
          /\ stage' = [stage EXCEPT ![t] = "pop"]
          /\ live' = live - NumEvents(batch[t]) /\ lost' = lost
      BY <1>7 DEF TxnBeginFails, NumEvents
    <2>2. batch'[t] = <<>> /\ \A u \in Threads : u # t => batch'[u] = batch[u] /\ stage'[u] = stage[u]
      BY <2>1 DEF TypeOK
    <2>3. NumEvents(<<>>) = 0
      <3>1. EventsIn(<<>>) = {}
        BY DEF EventsIn
      <3> QED BY <3>1, FS_EmptySet DEF NumEvents
    <2>4. /\ Cardinality(Kept(batch')) \in Nat /\ NumEvents(batch[t]) \in Nat
          /\ Cardinality(Kept(batch')) - 0 = Cardinality(Kept(batch)) - NumEvents(batch[t])
      BY <2>2, <2>3, BatchCounts
    <2>5. live' = Cardinality(Kept(inbox')) + Cardinality(Kept(batch')) + lost'
      BY <1>0, <2>1, <2>4 DEF CopiesInv
    <2>6. \A u \in Threads : stage'[u] = "pop" => batch'[u] = <<>>
      BY <2>2 DEF CopiesInv
    <2> QED BY <2>5, <2>6 DEF CopiesInv
  <1>8. ASSUME NEW t \in Threads, stage[t] = "process", batch[t] # <<>>, Consume(t), UNCHANGED stage,
               NEW x \in Int, live' - lost' = live - lost + x,
               Cardinality(Kept(inbox')) = Cardinality(Kept(inbox)) + x +
                                           (IF IsEvent(Head(batch[t])) THEN 1 ELSE 0)
        PROVE  CopiesInv'
    <2>1. /\ Cardinality(Kept(batch')) \in Nat
          /\ Cardinality(Kept(batch)) = Cardinality(Kept(batch')) + (IF IsEvent(Head(batch[t])) THEN 1 ELSE 0)
      BY <1>8, ConsumeCounts
    <2>2. live' = Cardinality(Kept(inbox')) + Cardinality(Kept(batch')) + lost'
      <3> DEFINE event == IF IsEvent(Head(batch[t])) THEN 1 ELSE 0
                 i  == Cardinality(Kept(inbox))
                 b  == Cardinality(Kept(batch))
                 i1 == Cardinality(Kept(inbox'))
                 b1 == Cardinality(Kept(batch'))
      <3>1. i \in Int /\ b \in Int /\ i1 \in Int /\ b1 \in Int /\ event \in Int
        BY <1>0, <1>8, <2>1
      <3>2. live \in Int /\ lost \in Int /\ live' \in Int /\ lost' \in Int /\ x \in Int
        BY <1>0, <1>8
      <3>3. live = i + b + lost
        BY DEF CopiesInv
      <3>4. live' - lost' = live - lost + x /\ i1 = i + x + event
        BY <1>8
      <3>5. b = b1 + event
        BY <2>1
      <3> HIDE DEF event, i, b, i1, b1
      <3> QED BY <3>1, <3>2, <3>3, <3>4, <3>5, Balance DEF i1, b1
    <2>3. \A u \in Threads : u # t => batch'[u] = batch[u]
      BY <1>8, ConsumeType
    <2>4. \A u \in Threads : stage'[u] = "pop" => batch'[u] = <<>>
      BY <1>8, <2>3 DEF CopiesInv
    <2> QED BY <2>2, <2>4 DEF CopiesInv
  <1>9. ASSUME NEW t \in Threads, TakeQuit(t) \/ TakeKey(t) PROVE CopiesInv'
    <2>1. /\ stage[t] = "process" /\ batch[t] # <<>> /\ Consume(t) /\ UNCHANGED <<stage, inbox, live, lost>>
          /\ ~IsEvent(Head(batch[t]))
      BY <1>9 DEF TakeQuit, TakeKey, IsEvent
    <2>2. live' - lost' = live - lost + 0 /\ Cardinality(Kept(inbox')) = Cardinality(Kept(inbox)) + 0 + 0
      BY <1>0, <2>1
    <2> QED BY <1>8, <2>1, <2>2
  <1>10. ASSUME NEW t \in Threads, stage[t] = "process", batch[t] # <<>>, Consume(t), UNCHANGED <<stage, inbox>>,
                IsEvent(Head(batch[t])), live' - lost' = live - lost - 1
         PROVE  CopiesInv'
    <2>1. live' - lost' = live - lost + (-1)
      BY <1>0, <1>10
    <2>3. Cardinality(Kept(inbox')) = Cardinality(Kept(inbox)) + (-1) + 1
      <3>1. Kept(inbox') = Kept(inbox)
        BY <1>10
      <3> QED BY <1>0, <3>1
    <2>2. -1 \in Int
      OBVIOUS
    <2> QED BY <1>8, <1>10, <2>1, <2>2, <2>3
  <1>11. ASSUME NEW t \in Threads, AcceptEvent(t) PROVE CopiesInv'
    <2> DEFINE inner == Embedded[Head(batch[t]).ev]
    <2>1. stage[t] = "process" /\ batch[t] # <<>> /\ Consume(t) /\ UNCHANGED <<stage, lost>> /\ IsEvent(Head(batch[t]))
      BY <1>11 DEF AcceptEvent
    <2>2. CASE UNCHANGED inbox /\ live' = live - 1
      <3>1. live' - lost' = live - lost - 1
        BY <1>0, <2>1, <2>2
      <3> QED BY <1>10, <2>1, <2>2, <3>1
    <2>3. ASSUME NEW u \in Threads, ~Full(u), Enqueue(u, EventMsg(inner, t)), UNCHANGED live, inner # None
          PROVE  CopiesInv'
      <3>1. Head(batch[t]) \in Message
        BY <2>1, ConsumeType
      <3>2. Head(batch[t]).ev \in Events
        BY <2>1, <3>1 DEF Message, IsEvent, QuitMsg
      <3>3. inner \in Events
        BY <2>3, <3>2, PoolAssumption
      <3>4. EventMsg(inner, t) \in Message /\ IsEvent(EventMsg(inner, t))
        BY <3>3, EventMsgType DEF EventMsg, IsEvent
      <3>5. Cardinality(Kept(inbox')) = Cardinality(Kept(inbox)) + 1
        BY <2>3, <3>4, PushCounts
      <3>6. live' - lost' = live - lost + 0 /\ Cardinality(Kept(inbox')) = Cardinality(Kept(inbox)) + 0 + 1
        BY <1>0, <2>1, <2>3, <3>5
      <3> QED BY <1>8, <2>1, <3>6
    <2> QED BY <1>11, <2>2, <2>3 DEF AcceptEvent
  <1>12. ASSUME NEW t \in Threads, RejectEvent(t) PROVE CopiesInv'
    <2>1. /\ stage[t] = "process" /\ batch[t] # <<>> /\ IsEvent(Head(batch[t])) /\ Consume(t)
          /\ UNCHANGED <<stage, inbox>>
      BY <1>12 DEF RejectEvent
    <2>2. \/ live' = live - 1 /\ lost' = lost
          \/ lost' = lost + 1 /\ live' = live
      BY <1>12 DEF RejectEvent
    <2>3. live' - lost' = live - lost - 1
      <3>1. live \in Int /\ lost \in Int
        BY <1>0
      <3> HIDE <1>0, <1>12
      <3>2. CASE live' = live - 1 /\ lost' = lost
        BY <3>1, <3>2
      <3>3. CASE lost' = lost + 1 /\ live' = live
        BY <3>1, <3>3
      <3> QED BY <2>2, <3>2, <3>3
    <2> QED BY <1>10, <2>1, <2>3
  <1>13. ASSUME NEW t \in Threads, TxnBegin(t) \/ LoopTest(t) PROVE CopiesInv'
    <2>1. UNCHANGED <<inbox, batch, live, lost>>
      BY <1>13 DEF TxnBegin, LoopTest
    <2>2. \A u \in Threads : stage'[u] = "pop" => batch'[u] = <<>>
      BY <1>13 DEF CopiesInv, TxnBegin, LoopTest, TypeOK
    <2> QED BY <2>1, <2>2 DEF CopiesInv
  <1>14. ASSUME NEW k \in Keys, AddKeyBegin(k) PROVE CopiesInv'
    BY <1>1, <1>14 DEF AddKeyBegin, threadVars
  <1>15. CASE DestroyBegin \/ DestroyJoin \/ DestroyFree
    BY <1>1, <1>15 DEF DestroyBegin, DestroyJoin, DestroyFree, threadVars
  <1>16. CASE UNCHANGED vars
    BY <1>1, <1>16 DEF vars
  <1> QED BY <1>2, <1>4, <1>5, <1>6, <1>7, <1>9, <1>11, <1>12, <1>13, <1>14, <1>15, <1>16
          DEF Next, ThreadStep, DestroyStep

\* A json copy made by ndb_ingest_event is always in one inbox or in the batch of
\* one thread, or has been freed, or belonged to an event whose note buffer could not
\* be allocated: full inboxes, reposts dispatched by the threads themselves and
\* batches dropped for want of a transaction leak none, and none is freed twice,
\* however many threads there are.
THEOREM PoolCopiesOwned == Spec => []CopiesOwned
  <1>1. Init => CopiesInv
    <2> SUFFICES ASSUME Init PROVE CopiesInv
      OBVIOUS
    <2>1. EventsIn(<<>>) = {}
      BY DEF EventsIn
    <2>2. Kept(inbox) = {} /\ Kept(batch) = {}
      BY <2>1 DEF Init, Kept
    <2>3. Cardinality(Kept(inbox)) = 0 /\ Cardinality(Kept(batch)) = 0 /\ live = 0 /\ lost = 0
      BY <2>2, FS_EmptySet DEF Init
    <2>4. live = Cardinality(Kept(inbox)) + Cardinality(Kept(batch)) + lost
      BY <2>3
    <2>5. \A t \in Threads : batch[t] = <<>>
      BY DEF Init
    <2> QED BY <2>4, <2>5 DEF CopiesInv
  <1>2. CopiesInv => CopiesOwned
    BY DEF CopiesInv, CopiesOwned, InFlight, InHand, Kept
  <1> QED BY <1>1, <1>2, CopiesStep, PoolTypeCorrect, PTL DEF Spec
=============================================================================
