---------------------------- MODULE MonitorProofs ----------------------------
(***************************************************************************)
(* Proofs about Monitor, for any notes, filters, clients, queue sizes and  *)
(* number of subscriptions: what a subscription hears, and that with a     *)
(* query after subscribing its client misses nothing.                      *)
(*                                                                         *)
(* The invariant says, for the subscription at each place of the table,    *)
(* how far in the log of committed notes the writer is through with it     *)
(* (Through), and what it has heard of that part of the log (GoodStream).  *)
(***************************************************************************)
EXTENDS Monitor, FiniteSetTheorems, SequenceTheorems, TLAPS

-----------------------------------------------------------------------------
(* Streams in the order of a log *)

Distinct(l) == \A p, q \in 1..Len(l) : l[p] = l[q] => p = q

\* The notes of s are among the first b of l, in the order of l.
Ordered(s, l, b) ==
    /\ \A i \in 1..Len(s) : \E p \in 1..b : l[p] = s[i]
    /\ \A i, j \in 1..Len(s) : \A p, q \in 1..Len(l) :
          (i < j /\ l[p] = s[i] /\ l[q] = s[j]) => p < q

\* A note is pushed behind those of earlier commits and earlier in the batch.
LEMMA OrderedAppend ==
    ASSUME NEW s \in Seq(Notes), NEW l \in Seq(Notes), Distinct(l),
           NEW b \in Nat, b + 1 <= Len(l), Ordered(s, l, b)
    PROVE  Ordered(Append(s, l[b + 1]), l, b + 1)
  <1> DEFINE t == Append(s, l[b + 1])
  <1>0. Len(l) \in Nat /\ Len(s) \in Nat /\ b + 1 \in 1..Len(l)
    BY LenProperties
  <1>1. l[b + 1] \in Notes
    BY <1>0, ElementOfSeq
  <1>2. /\ Len(t) = Len(s) + 1
        /\ \A i \in 1..Len(s) : t[i] = s[i]
        /\ t[Len(s) + 1] = l[b + 1]
    BY <1>1, AppendProperties
  <1> HIDE DEF t
  <1>3. \A i \in 1..Len(t) : \E p \in 1..(b + 1) : l[p] = t[i]
    <2> TAKE i \in 1..Len(t)
    <2>1. CASE i \in 1..Len(s)
      <3>1. PICK p \in 1..b : l[p] = s[i]
        BY <2>1 DEF Ordered
      <3>2. p \in 1..(b + 1) /\ l[p] = t[i]
        BY <1>2, <2>1, <3>1
      <3> QED BY <3>2
    <2>2. CASE i = Len(s) + 1
      BY <1>2, <2>2
    <2> QED BY <1>0, <1>2, <2>1, <2>2
  <1>4. ASSUME NEW i \in 1..Len(t), NEW j \in 1..Len(t), NEW p \in 1..Len(l), NEW q \in 1..Len(l),
               i < j, l[p] = t[i], l[q] = t[j]
        PROVE  p < q
    <2>1. CASE j \in 1..Len(s)
      <3>1. i \in 1..Len(s)
        BY <1>0, <1>4, <2>1
      <3> QED BY <1>2, <1>4, <2>1, <3>1 DEF Ordered
    <2>2. CASE j = Len(s) + 1
      <3>1. q = b + 1
        BY <1>0, <1>2, <1>4, <2>2 DEF Distinct
      <3>2. i \in 1..Len(s)
        BY <1>0, <1>4, <2>2
      <3>3. PICK r \in 1..b : l[r] = s[i]
        BY <3>2 DEF Ordered
      <3>4. r = p
        BY <1>0, <1>2, <1>4, <3>2, <3>3 DEF Distinct
      <3> QED BY <3>1, <3>3, <3>4
    <2> QED BY <1>0, <1>2, <2>1, <2>2
  <1> QED BY <1>3, <1>4 DEF Ordered, t

\* A stream that is in order below a position is so below a later one.
LEMMA OrderedWider ==
    ASSUME NEW s, NEW l, NEW b \in Nat, NEW c \in Nat, b <= c, Ordered(s, l, b)
    PROVE  Ordered(s, l, c)
  <1>1. 1..b \subseteq 1..c
    OBVIOUS
  <1> QED BY <1>1 DEF Ordered

\* A commit puts notes behind what was heard so far.
LEMMA OrderedLonger ==
    ASSUME NEW s \in Seq(Notes), NEW l \in Seq(Notes), NEW m \in Seq(Notes), NEW b \in Nat,
           b <= Len(l), Len(l) <= Len(m), Distinct(m), \A p \in 1..Len(l) : m[p] = l[p],
           Ordered(s, l, b)
    PROVE  Ordered(s, m, b)
  <1>0. Len(l) \in Nat /\ Len(m) \in Nat /\ Len(s) \in Nat
    BY LenProperties
  <1>1. \A i \in 1..Len(s) : \E p \in 1..b : m[p] = s[i] /\ l[p] = s[i]
    <2> TAKE i \in 1..Len(s)
    <2>1. PICK p \in 1..b : l[p] = s[i]
      BY DEF Ordered
    <2>2. p \in 1..Len(l)
      BY <1>0
    <2> QED BY <2>1, <2>2
  <1>2. ASSUME NEW i \in 1..Len(s), NEW j \in 1..Len(s), NEW p \in 1..Len(m), NEW q \in 1..Len(m),
               i < j, m[p] = s[i], m[q] = s[j]
        PROVE  p < q
    <2>1. PICK x \in 1..b : m[x] = s[i] /\ l[x] = s[i]
      BY <1>1
    <2>2. PICK y \in 1..b : m[y] = s[j] /\ l[y] = s[j]
      BY <1>1
    <2>3. x = p /\ y = q
      BY <1>0, <1>2, <2>1, <2>2 DEF Distinct
    <2>4. x \in 1..Len(l) /\ y \in 1..Len(l)
      BY <1>0
    <2> QED BY <1>2, <2>1, <2>2, <2>3, <2>4 DEF Ordered
  <1> QED BY <1>1, <1>2 DEF Ordered

\* What a subscription with filter f has heard in stream s of the first b notes
\* of log l: matching ones, in order, and if its client looked (k), all of them
\* but those the client found (k.found) and those that were lost (d).
GoodStream(s, f, l, b, k, d) ==
    /\ Ordered(s, l, b)
    /\ \A i \in 1..Len(s) : s[i] \in Matches[f]
    /\ k.ran => \A p \in 1..b : l[p] \in Matches[f] => l[p] \in k.found \cup ToSet(s) \cup d

\* Appending adds one element to the set of a sequence.
LEMMA ToSetAppend ==
    ASSUME NEW s \in Seq(Notes), NEW n \in Notes
    PROVE  ToSet(Append(s, n)) = ToSet(s) \cup {n}
  <1>1. /\ Append(s, n) \in Seq(Notes)
        /\ Len(Append(s, n)) = Len(s) + 1
        /\ \A i \in 1..Len(s) : Append(s, n)[i] = s[i]
        /\ Append(s, n)[Len(s) + 1] = n
    BY AppendProperties
  <1>2. DOMAIN s = 1..Len(s) /\ Len(s) \in Nat /\ DOMAIN Append(s, n) = 1..(Len(s) + 1)
    BY <1>1, LenProperties
  <1>3. ToSet(s) = {s[i] : i \in 1..Len(s)} /\ ToSet(Append(s, n)) = {Append(s, n)[i] : i \in 1..(Len(s) + 1)}
    BY <1>2 DEF ToSet
  <1> DEFINE t == Append(s, n)
  <1> HIDE DEF t
  <1>4. \A i \in 1..(Len(s) + 1) : i \in 1..Len(s) \/ i = Len(s) + 1
    BY <1>2
  <1>5. \A i \in 1..Len(s) : i \in 1..(Len(s) + 1)
    BY <1>2
  <1>6. Len(s) + 1 \in 1..(Len(s) + 1)
    BY <1>2
  <1> QED BY <1>1, <1>3, <1>4, <1>5, <1>6

\* One note of the batch further: it was pushed, lost, or did not match.
LEMMA GoodStep ==
    ASSUME NEW s \in Seq(Notes), NEW f, NEW l \in Seq(Notes), Distinct(l), NEW b \in Nat,
           b + 1 <= Len(l), NEW k, NEW d, GoodStream(s, f, l, b, k, d)
    PROVE  /\ l[b + 1] \in Matches[f] => GoodStream(Append(s, l[b + 1]), f, l, b + 1, k, d)
           /\ l[b + 1] \in Matches[f] => GoodStream(s, f, l, b + 1, k, d \cup {l[b + 1]})
           /\ l[b + 1] \notin Matches[f] => GoodStream(s, f, l, b + 1, k, d)
  <1>0. Len(l) \in Nat /\ b + 1 \in 1..Len(l) /\ l[b + 1] \in Notes /\ Len(s) \in Nat
    BY LenProperties, ElementOfSeq
  <1>1. \A p \in 1..(b + 1) : p \in 1..b \/ p = b + 1
    OBVIOUS
  <1>2. Ordered(s, l, b + 1)
    BY OrderedWider DEF GoodStream
  <1>3. ASSUME l[b + 1] \in Matches[f]
        PROVE  GoodStream(Append(s, l[b + 1]), f, l, b + 1, k, d)
    <2> DEFINE t == Append(s, l[b + 1])
    <2>1. Ordered(t, l, b + 1)
      BY OrderedAppend DEF GoodStream
    <2>2. ToSet(t) = ToSet(s) \cup {l[b + 1]}
      BY <1>0, ToSetAppend
    <2>3. /\ Len(t) = Len(s) + 1
          /\ \A i \in 1..Len(s) : t[i] = s[i]
          /\ t[Len(s) + 1] = l[b + 1]
      BY <1>0, AppendProperties
    <2> HIDE DEF t
    <2>4. \A i \in 1..Len(t) : i \in 1..Len(s) \/ i = Len(s) + 1
      BY <1>0, <2>3
    <2>5. \A i \in 1..Len(t) : t[i] \in Matches[f]
      BY <1>3, <2>3, <2>4 DEF GoodStream
    <2>6. k.ran => \A p \in 1..(b + 1) : l[p] \in Matches[f] => l[p] \in k.found \cup ToSet(t) \cup d
      BY <1>1, <2>2 DEF GoodStream
    <2> QED BY <2>1, <2>5, <2>6 DEF GoodStream, t
  <1>4. l[b + 1] \in Matches[f] => GoodStream(s, f, l, b + 1, k, d \cup {l[b + 1]})
    BY <1>1, <1>2 DEF GoodStream
  <1>5. l[b + 1] \notin Matches[f] => GoodStream(s, f, l, b + 1, k, d)
    BY <1>1, <1>2 DEF GoodStream
  <1> QED BY <1>3, <1>4, <1>5

-----------------------------------------------------------------------------
(* The invariant *)

Entry == [subid : SubIds, filter : Filters, inbox : Seq(Notes)]

StreamOf(e, g) == g[e.subid] \o e.inbox

\* The table: one entry per subscription a client has, under an id given once.
TableInv ==
    /\ subs \in Seq(Entry)
    /\ Len(subs) < MaxSubscriptions
    /\ \A i \in 1..Len(subs) : Len(subs[i].inbox) <= InboxSize
    /\ \A i \in 1..Len(subs) : subs[i].subid <= subids
    /\ \A i, j \in 1..Len(subs) : subs[i].subid = subs[j].subid => i = j
    /\ subids \in Nat
    /\ calls \in [subscribe : 0..MaxSubscribes, empty : Nat]
    /\ subids <= calls.subscribe
    /\ DOMAIN asked = {subs[i].subid : i \in 1..Len(subs)}
    /\ \A i \in 1..Len(subs) : asked[subs[i].subid] = subs[i].filter

\* What clients know, of ids not given out nothing.
ClientInv ==
    /\ got \in [SubIds -> Seq(Notes)]
    /\ seen \in [SubIds -> [ran : BOOLEAN, found : SUBSET Notes]]
    /\ dropped \in [SubIds -> SUBSET Notes]
    /\ \A id \in SubIds : id > subids => got[id] = <<>> /\ seen[id] = NoQuery
    /\ waiter \in [Waiters -> [state : {"away", "asleep", "woken"}, sub : SubIds \cup {0}]]

Stages == {"idle", "committed", "notify", "callback", "destroyed"}

\* The writer's batch is the end of the log, and it holds the mutex from the
\* begin of a notification to its end.
WriterInv ==
    /\ writer \in [stage : Stages, batch : Seq(Notes), next : Nat, note : Nat, pushed : BOOLEAN]
    /\ log \in Seq(Notes)
    /\ Distinct(log)
    /\ Len(writer.batch) <= Len(log)
    /\ \A k \in 1..Len(writer.batch) :
          writer.batch[k] = log[Len(log) - Len(writer.batch) + k]
    /\ writer.note \in 1..(Len(writer.batch) + 1)
    /\ writer.next >= 1
    /\ held \in BOOLEAN
    /\ held <=> writer.stage \in {"notify", "callback", "destroyed"}

\* The log before the writer's batch.
Base == Len(log) - Len(writer.batch)

\* How much of the log the writer is through with for the entry at place i.
Through(i) ==
    IF \/ writer.stage \in {"idle", "destroyed"}
       \/ writer.stage = "notify" /\ i < writer.next
       \/ writer.stage = "callback" /\ i <= writer.next
    THEN Len(log)
    ELSE IF writer.stage = "notify" /\ i = writer.next THEN Base + writer.note - 1
    ELSE Base

StreamInv ==
    \A i \in 1..Len(subs) :
        GoodStream(StreamOf(subs[i], got), subs[i].filter, log, Through(i),
                   seen[subs[i].subid], dropped[subs[i].subid])

MInv == TableInv /\ ClientInv /\ WriterInv /\ StreamInv

\* The invariant holds with an empty table and no client.
LEMMA InitMInv == Init => MInv
  <1> SUFFICES ASSUME Init PROVE MInv
    OBVIOUS
  <1>1. TableInv
    BY MonitorAssumption DEF Init, TableInv
  <1>2. ClientInv
    BY DEF Init, ClientInv, NoQuery, Away
  <1>3. WriterInv
    <2>1. /\ writer.stage = "idle" /\ writer.batch = <<>> /\ writer.note = 1 /\ writer.next = 1 /\ writer.next >= 1
          /\ writer \in [stage : Stages, batch : Seq(Notes), next : Nat, note : Nat, pushed : BOOLEAN]
      BY DEF Init, Stages
    <2>2. log = <<>> /\ held = FALSE
      BY DEF Init
    <2>3. log \in Seq(Notes) /\ Distinct(log) /\ Len(log) = 0 /\ Len(writer.batch) = 0
      BY <2>1, <2>2 DEF Distinct
    <2>4. writer.note \in 1..(Len(writer.batch) + 1)
      BY <2>1, <2>3
    <2>5. held \in BOOLEAN /\ (held <=> writer.stage \in {"notify", "callback", "destroyed"})
      BY <2>1, <2>2
    <2>6. Len(writer.batch) <= Len(log) /\ 1..Len(writer.batch) = {}
      BY <2>3
    <2> QED BY <2>1, <2>3, <2>4, <2>5, <2>6, Zenon DEF WriterInv
  <1>4. StreamInv
    BY DEF Init, StreamInv
  <1> QED BY <1>1, <1>2, <1>3, <1>4 DEF MInv

\* The writer is through with part of the log.
LEMMA ThroughType ==
    ASSUME WriterInv, NEW i \in Nat
    PROVE  Through(i) \in Nat /\ Through(i) <= Len(log)
  BY DEF WriterInv, Through, Base

\* The fields of a table entry and the stream it stands for have their types.
LEMMA StreamType ==
    ASSUME TableInv, ClientInv, NEW i \in 1..Len(subs)
    PROVE  /\ subs[i] \in Entry
           /\ subs[i].subid \in SubIds
           /\ subs[i].filter \in Filters
           /\ subs[i].inbox \in Seq(Notes)
           /\ got[subs[i].subid] \in Seq(Notes)
           /\ StreamOf(subs[i], got) \in Seq(Notes)
  <1>1. subs[i] \in Entry
    BY ElementOfSeq DEF TableInv
  <1>2. subs[i].subid \in SubIds /\ subs[i].filter \in Filters /\ subs[i].inbox \in Seq(Notes)
    BY <1>1 DEF Entry
  <1>3. got[subs[i].subid] \in Seq(Notes)
    BY <1>2 DEF ClientInv
  <1> QED BY <1>1, <1>2, <1>3, ConcatProperties DEF StreamOf

-----------------------------------------------------------------------------
(* Finding an entry, and changing its inbox *)

\* The lookup by id returns the one entry that has it.
LEMMA FindIs ==
    ASSUME TableInv, NEW i \in 1..Len(subs)
    PROVE  Find(subs[i].subid) = i
  <1> DEFINE I == {j \in 1..Len(subs) : subs[j].subid = subs[i].subid}
  <1>1. I = {i}
    BY DEF TableInv
  <1>2. Find(subs[i].subid) = IF I # {} THEN Min(I) ELSE 0
    BY DEF Find, SelectInSeq
  <1>3. Min({i}) = i
    BY DEF Min
  <1> QED BY <1>1, <1>2, <1>3

\* ndb_monitor_find_subscription finds the entry, wherever it has moved.
LEMMA FindFinds ==
    ASSUME TableInv, NEW id, Find(id) # 0
    PROVE  Find(id) \in 1..Len(subs) /\ subs[Find(id)].subid = id
  <1> DEFINE I == {j \in 1..Len(subs) : subs[j].subid = id}
  <1>1. Find(id) = IF I # {} THEN Min(I) ELSE 0
    BY DEF Find, SelectInSeq
  <1>2. PICK i \in I : TRUE
    BY <1>1
  <1>3. subs[i].subid = id
    BY <1>2
  <1>4. Find(id) = i
    BY <1>2, <1>3, FindIs
  <1> QED BY <1>2, <1>3, <1>4

\* Only the inbox at place i has changed, to q.
Refilled(i, q) ==
    /\ subs' \in Seq(Entry)
    /\ Len(subs') = Len(subs)
    /\ \A j \in 1..Len(subs) :
          /\ subs'[j].subid = subs[j].subid
          /\ subs'[j].filter = subs[j].filter
          /\ subs'[j].inbox = IF j = i THEN q ELSE subs[j].inbox

\* Replacing the inbox of one entry leaves ids and filters alone.
LEMMA RefilledBy ==
    ASSUME TableInv, NEW i \in 1..Len(subs), NEW q \in Seq(Notes),
           subs' = [subs EXCEPT ![i] = [subs[i] EXCEPT !.inbox = q]]
    PROVE  Refilled(i, q)
  <1> DEFINE e == [subs[i] EXCEPT !.inbox = q]
  <1>1. subs \in Seq(Entry) /\ subs[i] \in Entry
    BY ElementOfSeq DEF TableInv
  <1>2. e \in Entry /\ e.subid = subs[i].subid /\ e.filter = subs[i].filter /\ e.inbox = q
    BY <1>1 DEF Entry
  <1>3. subs' = [subs EXCEPT ![i] = e]
    OBVIOUS
  <1> HIDE DEF e
  <1>4. /\ subs' \in Seq(Entry)
        /\ Len(subs') = Len(subs)
        /\ \A j \in 1..Len(subs) : subs'[j] = IF j = i THEN e ELSE subs[j]
    BY <1>1, <1>2, <1>3, ExceptSeq
  <1> QED BY <1>2, <1>4 DEF Refilled

\* A table in which one inbox changed, within its bound, is still consistent.
LEMMA RefilledKeeps ==
    ASSUME TableInv, NEW i, NEW q, Refilled(i, q), Len(q) <= InboxSize,
           UNCHANGED <<subids, calls, asked>>
    PROVE  TableInv'
  <1>1. \A j \in 1..Len(subs) : Len(subs'[j].inbox) <= InboxSize
    BY DEF TableInv, Refilled
  <1>2. {subs'[j].subid : j \in 1..Len(subs)} = {subs[j].subid : j \in 1..Len(subs)}
    BY DEF Refilled
  <1>3. /\ subs' \in Seq(Entry)
        /\ Len(subs') = Len(subs)
        /\ \A j \in 1..Len(subs) : subs'[j].subid = subs[j].subid /\ subs'[j].filter = subs[j].filter
    BY DEF Refilled
  <1>4. \A j \in 1..Len(subs') : subs'[j].subid <= subids
    BY <1>3 DEF TableInv
  <1>5. \A j, k \in 1..Len(subs') : subs'[j].subid = subs'[k].subid => j = k
    BY <1>3 DEF TableInv
  <1>6. \A j \in 1..Len(subs') : asked[subs'[j].subid] = subs'[j].filter
    BY <1>3 DEF TableInv
  <1> QED BY <1>1, <1>2, <1>3, <1>4, <1>5, <1>6 DEF TableInv

\* A step that leaves the streams alone, wherever it moves their entries.
LEMMA SameStreams ==
    ASSUME StreamInv, UNCHANGED <<log, seen, dropped>>,
           \A i \in 1..Len(subs') : \E j \in 1..Len(subs) :
              /\ StreamOf(subs'[i], got') = StreamOf(subs[j], got)
              /\ subs'[i].filter = subs[j].filter
              /\ subs'[i].subid = subs[j].subid
              /\ Through(i)' = Through(j)
    PROVE  StreamInv'
  <1> SUFFICES ASSUME NEW i \in 1..Len(subs')
               PROVE  GoodStream(StreamOf(subs'[i], got'), subs'[i].filter, log', Through(i)',
                                 seen'[subs'[i].subid], dropped'[subs'[i].subid])
    BY DEF StreamInv
  <1>1. PICK j \in 1..Len(subs) :
              /\ StreamOf(subs'[i], got') = StreamOf(subs[j], got)
              /\ subs'[i].filter = subs[j].filter
              /\ subs'[i].subid = subs[j].subid
              /\ Through(i)' = Through(j)
    OBVIOUS
  <1> QED BY <1>1 DEF StreamInv

\* prot_queue_try_pop_all moves notes from the inbox to the client, in order.
LEMMA TryPopAllKeeps ==
    ASSUME TableInv, ClientInv, StreamInv, NEW i \in 1..Len(subs), TryPopAll(i),
           UNCHANGED <<subids, writer, log, calls, asked, seen, dropped>>
    PROVE  /\ TableInv' /\ StreamInv'
           /\ got' \in [SubIds -> Seq(Notes)]
           /\ \A id \in SubIds : id > subids => got'[id] = got[id]
  <1> DEFINE e == subs[i]
  <1>1. PICK n \in 1..Len(e.inbox) :
          /\ subs' = [subs EXCEPT ![i].inbox = SubSeq(@, n + 1, Len(@))]
          /\ got' = [got EXCEPT ![e.subid] = @ \o SubSeq(e.inbox, 1, n)]
    BY DEF TryPopAll
  <1>2. /\ e.subid \in SubIds /\ e.inbox \in Seq(Notes) /\ got[e.subid] \in Seq(Notes)
        /\ Len(e.inbox) \in Nat
    BY StreamType, LenProperties
  <1>3. \A k \in 1..Len(e.inbox) : e.inbox[k] \in Notes
    BY <1>2, ElementOfSeq
  <1> DEFINE a == SubSeq(e.inbox, 1, n)
             z == SubSeq(e.inbox, n + 1, Len(e.inbox))
             g == got[e.subid] \o a
  <1>4. a \in Seq(Notes) /\ z \in Seq(Notes) /\ Len(z) <= Len(e.inbox)
    <2>1. a \in Seq(Notes)
      BY <1>2, <1>3, SubSeqProperties
    <2>2. /\ z \in Seq(Notes)
          /\ Len(z) = IF n + 1 <= Len(e.inbox) THEN Len(e.inbox) - (n + 1) + 1 ELSE 0
      BY <1>2, <1>3, SubSeqProperties
    <2> QED BY <1>2, <2>1, <2>2
  <1>5. a \o z = e.inbox
    BY <1>2, ConcatAdjacentSubSeq, SubSeqFull
  <1>6. subs' = [subs EXCEPT ![i] = [subs[i] EXCEPT !.inbox = z]]
    BY <1>1
  <1> HIDE DEF a, z
  <1>7. Refilled(i, z)
    BY <1>4, <1>6, RefilledBy
  <1>8. Len(z) <= InboxSize
    BY <1>2, <1>4, MonitorAssumption, LenProperties DEF TableInv
  <1>9. TableInv'
    BY <1>7, <1>8, RefilledKeeps
  <1>10. g \in Seq(Notes) /\ g \o z = got[e.subid] \o e.inbox
    <2>1. g \in Seq(Notes)
      BY <1>2, <1>4, ConcatProperties
    <2>2. \A x, y, w \in Seq(Notes) : (x \o y) \o w = x \o (y \o w)
      BY ConcatAssociative
    <2>3. (got[e.subid] \o a) \o z = got[e.subid] \o (a \o z)
      BY <1>2, <1>4, <2>2
    <2> QED BY <1>5, <2>1, <2>3
  <1>11. got' = [got EXCEPT ![e.subid] = g]
    BY <1>1 DEF a
  <1> HIDE DEF g
  <1>12. got' \in [SubIds -> Seq(Notes)]
    BY <1>10, <1>11 DEF ClientInv
  <1>13. \A id \in SubIds : id > subids => got'[id] = got[id]
    BY <1>11, MonitorAssumption DEF TableInv, ClientInv, SubIds
  <1>14. ASSUME NEW j \in 1..Len(subs')
         PROVE  /\ j \in 1..Len(subs)
                /\ StreamOf(subs'[j], got') = StreamOf(subs[j], got)
                /\ subs'[j].filter = subs[j].filter
                /\ subs'[j].subid = subs[j].subid
                /\ Through(j)' = Through(j)
    <2>1. /\ j \in 1..Len(subs) /\ subs'[j].subid = subs[j].subid /\ subs'[j].filter = subs[j].filter
          /\ subs'[j].inbox = IF j = i THEN z ELSE subs[j].inbox
      BY <1>7 DEF Refilled
    <2>2. subs[j].subid \in SubIds
      BY <2>1, StreamType
    <2>3. CASE j = i
      BY <1>2, <1>10, <1>11, <2>1, <2>3 DEF StreamOf, ClientInv, Through, Base
    <2>4. CASE j # i
      <3>1. subs[j].subid # e.subid
        BY <2>1, <2>4 DEF TableInv
      <3> QED BY <1>11, <2>1, <2>2, <2>4, <3>1 DEF StreamOf, ClientInv, Through, Base
    <2> QED BY <2>3, <2>4
  <1>15. StreamInv'
    BY <1>14, SameStreams
  <1> QED BY <1>9, <1>12, <1>13, <1>15

-----------------------------------------------------------------------------
(* Client calls *)

\* Without the mutex taken, every entry is equally far.
LEMMA ThroughFree ==
    ASSUME WriterInv, ~held, NEW i, NEW j
    PROVE  Through(i) = Through(j)
  BY DEF WriterInv, Through

\* ndb_subscribe appends an entry with a fresh id and an empty inbox.
LEMMA SubscribeKeeps ==
    ASSUME MInv, NEW f \in Filters, Subscribe(f)
    PROVE  MInv'
  <1> USE DEF MInv
  <1>1. /\ ~held /\ calls.subscribe < MaxSubscribes
        /\ calls' = [calls EXCEPT !.subscribe = @ + 1]
        /\ UNCHANGED <<held, writer, waiter, log, got, seen, dropped>>
    BY DEF Subscribe
  <1>2. /\ calls' \in [subscribe : 0..MaxSubscribes, empty : Nat]
        /\ calls'.subscribe = calls.subscribe + 1 /\ calls.subscribe \in Nat
        /\ subids \in Nat /\ subids <= calls.subscribe
    BY <1>1, MonitorAssumption DEF TableInv
  <1>3. WriterInv'
    BY <1>1 DEF WriterInv
  <1>4. CASE UNCHANGED <<subs, asked>> /\ (subids' = subids \/ subids' = subids + 1)
    <2>1. subids' \in Nat /\ subids <= subids' /\ subids' <= calls'.subscribe
      BY <1>2, <1>4
    <2>2. TableInv'
      <3>1. \A i \in 1..Len(subs) : subs[i].subid \in Nat /\ subs[i].subid <= subids
        BY StreamType DEF TableInv, SubIds
      <3>2. \A i \in 1..Len(subs) : subs[i].subid <= subids'
        BY <1>2, <2>1, <3>1
      <3> QED BY <1>2, <1>4, <2>1, <3>2 DEF TableInv
    <2>3. ClientInv'
      <3>1. \A id \in SubIds : id > subids' => id > subids
        BY <1>2, <2>1 DEF SubIds
      <3> QED BY <1>1, <3>1 DEF ClientInv
    <2>4. StreamInv'
      <3>1. \A i : Through(i)' = Through(i)
        BY <1>1 DEF Through, Base
      <3> QED BY <1>1, <1>4, <3>1 DEF StreamInv
    <2> QED BY <1>3, <2>2, <2>3, <2>4
  <1>5. CASE /\ Len(subs) + 1 < MaxSubscriptions /\ subids' = subids + 1
             /\ subs' = Append(subs, [subid |-> subids + 1, filter |-> f, inbox |-> <<>>])
             /\ asked' = [id \in DOMAIN asked \cup {subids + 1} |->
                             IF id = subids + 1 THEN f ELSE asked[id]]
    <2> DEFINE n == subids + 1
               e == [subid |-> n, filter |-> f, inbox |-> <<>>]
               N == Len(subs) + 1
    <2>1. n \in SubIds /\ n \in Nat
      BY <1>1, <1>2, MonitorAssumption DEF SubIds, TableInv
    <2>2. e \in Entry /\ e.subid = n /\ e.filter = f /\ e.inbox = <<>>
      BY <2>1 DEF Entry
    <2> HIDE DEF e
    <2>3. subs \in Seq(Entry) /\ Len(subs) \in Nat
      BY LenProperties DEF TableInv
    <2>4. /\ subs' \in Seq(Entry) /\ Len(subs') = N
          /\ \A i \in 1..Len(subs) : subs'[i] = subs[i]
          /\ subs'[N] = e
      BY <1>5, <2>2, <2>3, AppendProperties DEF e
    <2>5. \A i \in 1..N : i \in 1..Len(subs) \/ i = N
      BY <2>3
    <2>6. 1..Len(subs) \subseteq 1..N /\ N \in 1..N /\ N \notin 1..Len(subs)
      BY <2>3
    <2>7. \A i \in 1..Len(subs) : subs[i].subid \in Nat /\ subs[i].subid <= subids /\ subs[i].subid # n
      BY StreamType DEF TableInv, SubIds
    <2>8. TableInv'
      <3>1. Len(subs') < MaxSubscriptions
        BY <1>5, <2>4
      <3>2. \A i \in 1..Len(subs') : Len(subs'[i].inbox) <= InboxSize
        <4>1. Len(<<>>) <= InboxSize
          BY MonitorAssumption
        <4>2. \A i \in 1..Len(subs) : Len(subs'[i].inbox) <= InboxSize
          BY <2>4 DEF TableInv
        <4> QED BY <2>2, <2>4, <2>5, <4>1, <4>2
      <3>3. \A i \in 1..Len(subs') : subs'[i].subid <= subids'
        BY <1>5, <2>1, <2>2, <2>4, <2>5, <2>7, <1>2
      <3>4. \A i, j \in 1..Len(subs') : subs'[i].subid = subs'[j].subid => i = j
        BY <2>2, <2>4, <2>5, <2>7 DEF TableInv
      <3>5. subids' \in Nat /\ subids' <= calls'.subscribe
        BY <1>2, <1>5
      <3>6. DOMAIN asked' = {subs'[i].subid : i \in 1..Len(subs')}
        <4>1. DOMAIN asked = {subs[i].subid : i \in 1..Len(subs)}
          BY DEF TableInv
        <4>2. DOMAIN asked' = DOMAIN asked \cup {n}
          BY <1>5
        <4> QED BY <2>2, <2>4, <2>5, <2>6, <4>1, <4>2
      <3>7. \A i \in 1..Len(subs') : asked'[subs'[i].subid] = subs'[i].filter
        <4>1. asked'[n] = f
          BY <1>5
        <4>2. \A i \in 1..Len(subs) : asked'[subs[i].subid] = asked[subs[i].subid]
          BY <1>5, <2>7 DEF TableInv
        <4> QED BY <2>2, <2>4, <2>5, <4>1, <4>2 DEF TableInv
      <3> QED BY <1>2, <2>4, <3>1, <3>2, <3>3, <3>4, <3>5, <3>6, <3>7 DEF TableInv
    <2>9. ClientInv'
      <3>1. \A id \in SubIds : id > subids' => id > subids
        BY <1>2, <1>5 DEF SubIds
      <3> QED BY <1>1, <3>1 DEF ClientInv
    <2>10. StreamInv'
      <3> SUFFICES ASSUME NEW i \in 1..N
                   PROVE  GoodStream(StreamOf(subs'[i], got), subs'[i].filter, log, Through(i),
                                     seen[subs'[i].subid], dropped[subs'[i].subid])
        <4>1. \A i : Through(i)' = Through(i)
          BY <1>1 DEF Through, Base
        <4> QED BY <1>1, <2>4, <4>1 DEF StreamInv
      <3>1. CASE i \in 1..Len(subs)
        BY <2>4, <3>1 DEF StreamInv
      <3>2. CASE i = N
        <4>1. got[n] = <<>> /\ seen[n] = NoQuery
          BY <1>2, <2>1 DEF ClientInv
        <4>2. StreamOf(e, got) = <<>>
          BY <2>2, <4>1 DEF StreamOf
        <4>3. ~seen[n].ran /\ Len(<<>>) = 0
          BY <4>1 DEF NoQuery
        <4>4. GoodStream(<<>>, f, log, Through(i), seen[n], dropped[n])
          BY <4>3 DEF GoodStream, Ordered
        <4> QED BY <2>2, <2>4, <3>2, <4>2, <4>4
      <3> QED BY <2>5, <3>1, <3>2
    <2> QED BY <1>3, <2>8, <2>9, <2>10
  <1> QED BY <1>4, <1>5 DEF Subscribe

\* The entries behind the one given up move down by one place.
Moved(k, i) == IF i < k THEN i ELSE i + 1

\* What the table holds after the entries behind a removed one moved up.
LEMMA RemoveAtIs ==
    ASSUME TableInv, NEW k \in 1..Len(subs), subs' = RemoveAt(subs, k)
    PROVE  /\ subs' \in Seq(Entry)
           /\ Len(subs') = Len(subs) - 1
           /\ \A i \in 1..Len(subs') : Moved(k, i) \in 1..Len(subs) /\ subs'[i] = subs[Moved(k, i)]
  <1> DEFINE a == SubSeq(subs, 1, k - 1)
             z == SubSeq(subs, k + 1, Len(subs))
  <1>1. subs \in Seq(Entry) /\ Len(subs) \in Nat /\ \A i \in 1..Len(subs) : subs[i] \in Entry
    BY ElementOfSeq, LenProperties DEF TableInv
  <1>2. a \in Seq(Entry) /\ Len(a) = k - 1 /\ \A i \in 1..(k - 1) : a[i] = subs[i]
    <2>1. /\ a \in Seq(Entry)
          /\ Len(a) = IF 1 <= k - 1 THEN (k - 1) - 1 + 1 ELSE 0
          /\ \A i \in 1..((k - 1) - 1 + 1) : a[i] = subs[1 + i - 1]
      BY <1>1, SubSeqProperties
    <2> HIDE DEF a
    <2> QED BY <1>1, <2>1
  <1>3. z \in Seq(Entry) /\ Len(z) = Len(subs) - k /\ \A i \in 1..(Len(subs) - k) : z[i] = subs[k + i]
    <2>1. /\ z \in Seq(Entry)
          /\ Len(z) = IF k + 1 <= Len(subs) THEN Len(subs) - (k + 1) + 1 ELSE 0
          /\ \A i \in 1..(Len(subs) - (k + 1) + 1) : z[i] = subs[(k + 1) + i - 1]
      BY <1>1, SubSeqProperties
    <2> HIDE DEF z
    <2> QED BY <1>1, <2>1
  <1>4. subs' = a \o z
    BY DEF RemoveAt
  <1> HIDE DEF a, z
  <1>5. /\ subs' \in Seq(Entry)
        /\ Len(subs') = Len(a) + Len(z)
        /\ \A i \in 1..(Len(a) + Len(z)) : subs'[i] = IF i <= Len(a) THEN a[i] ELSE z[i - Len(a)]
    <2>1. a \in Seq(Entry) /\ z \in Seq(Entry)
      BY <1>2, <1>3
    <2>2. /\ a \o z \in Seq(Entry)
          /\ Len(a \o z) = Len(a) + Len(z)
          /\ \A i \in 1..(Len(a) + Len(z)) : (a \o z)[i] = IF i <= Len(a) THEN a[i] ELSE z[i - Len(a)]
      BY <2>1, ConcatProperties
    <2> QED BY <1>4, <2>2
  <1>6. Len(subs') = Len(subs) - 1
    BY <1>1, <1>2, <1>3, <1>5
  <1>7. ASSUME NEW i \in 1..Len(subs')
        PROVE  Moved(k, i) \in 1..Len(subs) /\ subs'[i] = subs[Moved(k, i)]
    <2>1. subs'[i] = IF i <= k - 1 THEN a[i] ELSE z[i - (k - 1)]
      BY <1>1, <1>2, <1>3, <1>5
    <2>2. CASE i < k
      BY <1>1, <1>2, <1>6, <2>1, <2>2 DEF Moved
    <2>3. CASE ~(i < k)
      <3>1. i - (k - 1) \in 1..(Len(subs) - k) /\ k + (i - (k - 1)) = i + 1
        BY <1>1, <1>6, <2>3
      <3>2. z[i - (k - 1)] = subs[i + 1]
        BY <1>3, <3>1
      <3> QED BY <1>1, <1>6, <2>1, <2>3, <3>2 DEF Moved
    <2> QED BY <2>2, <2>3
  <1> QED BY <1>5, <1>6, <1>7

\* Compacting the table loses no other entry and no note in its inbox.
LEMMA UnsubscribeKeeps ==
    ASSUME MInv, NEW id \in SubIds, Unsubscribe(id)
    PROVE  MInv'
  <1> USE DEF MInv
  <1> DEFINE k == Find(id)
  <1>1. /\ ~held /\ subs' = RemoveAt(subs, k) /\ asked' = Restrict(asked, DOMAIN asked \ {id})
        /\ UNCHANGED <<subids, held, writer, waiter, log, calls, got, seen, dropped>>
    BY DEF Unsubscribe
  <1>2. k \in 1..Len(subs) /\ subs[k].subid = id /\ Len(subs) \in Nat
    BY FindFinds, LenProperties DEF Unsubscribe, TableInv
  <1> HIDE DEF k
  <1>3. /\ subs' \in Seq(Entry)
        /\ Len(subs') = Len(subs) - 1
        /\ \A i \in 1..Len(subs') : Moved(k, i) \in 1..Len(subs) /\ subs'[i] = subs[Moved(k, i)]
    BY <1>1, <1>2, RemoveAtIs
  <1>4. /\ \A i \in 1..Len(subs') : Moved(k, i) # k
        /\ \A i, j \in 1..Len(subs') : Moved(k, i) = Moved(k, j) => i = j
        /\ \A j \in 1..Len(subs) : j # k => \E i \in 1..Len(subs') : Moved(k, i) = j
    <2>1. /\ \A i \in 1..Len(subs') : Moved(k, i) # k
          /\ \A i, j \in 1..Len(subs') : Moved(k, i) = Moved(k, j) => i = j
      BY <1>2, <1>3 DEF Moved
    <2>2. ASSUME NEW j \in 1..Len(subs), j # k
          PROVE  \E i \in 1..Len(subs') : Moved(k, i) = j
      <3>1. CASE j < k
        <4>1. j \in 1..Len(subs') /\ Moved(k, j) = j
          BY <1>2, <1>3, <3>1 DEF Moved
        <4> QED BY <4>1
      <3>2. CASE j > k
        <4>1. j - 1 \in 1..Len(subs') /\ Moved(k, j - 1) = j
          BY <1>2, <1>3, <3>2 DEF Moved
        <4> QED BY <4>1
      <3> QED BY <1>2, <2>2, <3>1, <3>2
    <2> QED BY <2>1, <2>2
  <1>5. \A j \in 1..Len(subs) : subs[j].subid = id => j = k
    BY <1>2 DEF TableInv
  <1>6. TableInv'
    <2>1. Len(subs') < MaxSubscriptions
      BY <1>2, <1>3, MonitorAssumption DEF TableInv
    <2>2. DOMAIN asked' = {subs'[i].subid : i \in 1..Len(subs')}
      <3>1. DOMAIN asked' = {subs[i].subid : i \in 1..Len(subs)} \ {id}
        BY <1>1 DEF Restrict, TableInv
      <3>2. ASSUME NEW i \in 1..Len(subs')
            PROVE  subs'[i].subid \in DOMAIN asked'
        <4>1. Moved(k, i) \in 1..Len(subs) /\ Moved(k, i) # k /\ subs'[i] = subs[Moved(k, i)]
          BY <1>3, <1>4
        <4>2. subs[Moved(k, i)].subid # id
          BY <1>5, <4>1
        <4> QED BY <3>1, <4>1, <4>2
      <3>3. ASSUME NEW x \in DOMAIN asked'
            PROVE  \E i \in 1..Len(subs') : x = subs'[i].subid
        <4>1. PICK j \in 1..Len(subs) : x = subs[j].subid /\ j # k
          BY <1>2, <3>1
        <4>2. PICK i \in 1..Len(subs') : Moved(k, i) = j
          BY <1>4, <4>1
        <4> QED BY <1>3, <4>1, <4>2
      <3> QED BY <3>2, <3>3
    <2>3. \A i \in 1..Len(subs') : asked'[subs'[i].subid] = subs'[i].filter
      <3> TAKE i \in 1..Len(subs')
      <3>1. subs'[i].subid \in DOMAIN asked'
        BY <2>2
      <3>2. asked'[subs'[i].subid] = asked[subs'[i].subid]
        BY <1>1, <3>1 DEF Restrict
      <3>3. Moved(k, i) \in 1..Len(subs) /\ subs'[i] = subs[Moved(k, i)]
        BY <1>3
      <3>4. \A j \in 1..Len(subs) : asked[subs[j].subid] = subs[j].filter
        BY DEF TableInv
      <3> QED BY <3>2, <3>3, <3>4
    <2>4. /\ \A i \in 1..Len(subs') : Len(subs'[i].inbox) <= InboxSize
          /\ \A i \in 1..Len(subs') : subs'[i].subid <= subids
          /\ \A i, j \in 1..Len(subs') : subs'[i].subid = subs'[j].subid => i = j
      BY <1>3, <1>4 DEF TableInv
    <2> QED BY <1>1, <1>3, <2>1, <2>2, <2>3, <2>4 DEF TableInv
  <1>7. ClientInv' /\ WriterInv'
    BY <1>1 DEF ClientInv, WriterInv
  <1>8. StreamInv'
    <2>1. \A i : Through(i)' = Through(i)
      BY <1>1 DEF Through, Base
    <2>2. \A i, j : Through(i)' = Through(j)
      BY <1>1, <2>1, ThroughFree
    <2>3. ASSUME NEW i \in 1..Len(subs')
          PROVE  \E j \in 1..Len(subs) :
                    /\ StreamOf(subs'[i], got') = StreamOf(subs[j], got)
                    /\ subs'[i].filter = subs[j].filter
                    /\ subs'[i].subid = subs[j].subid
                    /\ Through(i)' = Through(j)
      <3>1. Moved(k, i) \in 1..Len(subs) /\ subs'[i] = subs[Moved(k, i)]
        BY <1>3
      <3>2. Through(i)' = Through(Moved(k, i)) /\ got' = got
        BY <1>1, <2>2
      <3>3. StreamOf(subs'[i], got') = StreamOf(subs[Moved(k, i)], got)
        BY <3>1, <3>2
      <3> QED BY <3>1, <3>2, <3>3
    <2> QED BY <1>1, <2>3, SameStreams
  <1> QED BY <1>6, <1>7, <1>8

\* A client's query sees every note committed so far.
LEMMA QueryKeeps ==
    ASSUME MInv, NEW id \in SubIds, Query(id)
    PROVE  MInv'
  <1> USE DEF MInv
  <1>1. /\ id \in DOMAIN asked
        /\ seen' = [seen EXCEPT ![id] = [ran |-> TRUE, found |-> ToSet(log)]]
        /\ UNCHANGED <<subs, subids, held, writer, waiter, log, calls, asked, got, dropped>>
    BY DEF Query
  <1>2. TableInv' /\ WriterInv'
    BY <1>1 DEF TableInv, WriterInv
  <1>3. ToSet(log) = {log[p] : p \in 1..Len(log)} /\ ToSet(log) \subseteq Notes
    <2>1. log \in Seq(Notes)
      BY DEF WriterInv
    <2>2. DOMAIN log = 1..Len(log) /\ \A p \in 1..Len(log) : log[p] \in Notes
      BY <2>1, LenProperties, ElementOfSeq
    <2> QED BY <2>2 DEF ToSet
  <1>4. ClientInv'
    <2>1. id <= subids /\ id \in Nat
      BY <1>1 DEF TableInv, SubIds
    <2>2. seen' \in [SubIds -> [ran : BOOLEAN, found : SUBSET Notes]]
      BY <1>1, <1>3 DEF ClientInv
    <2>3. \A x \in SubIds : x > subids => seen'[x] = seen[x]
      BY <1>1, <2>1 DEF ClientInv, TableInv, SubIds
    <2> QED BY <1>1, <2>2, <2>3 DEF ClientInv
  <1>5. StreamInv'
    <2> SUFFICES ASSUME NEW i \in 1..Len(subs)
                 PROVE  GoodStream(StreamOf(subs[i], got), subs[i].filter, log, Through(i),
                                   seen'[subs[i].subid], dropped[subs[i].subid])
      <3>1. \A i : Through(i)' = Through(i)
        BY <1>1 DEF Through, Base
      <3> QED BY <1>1, <3>1 DEF StreamInv
    <2>1. GoodStream(StreamOf(subs[i], got), subs[i].filter, log, Through(i),
                     seen[subs[i].subid], dropped[subs[i].subid])
      BY DEF StreamInv
    <2>2. subs[i].subid \in SubIds
      BY StreamType
    <2>3. CASE subs[i].subid # id
      BY <1>1, <2>1, <2>2, <2>3 DEF ClientInv
    <2>4. CASE subs[i].subid = id
      <3>1. seen'[id].found = ToSet(log)
        BY <1>1 DEF ClientInv
      <3>2. Through(i) \in Nat /\ Through(i) <= Len(log) /\ Len(log) \in Nat
        BY ThroughType, LenProperties DEF WriterInv
      <3>3. \A p \in 1..Through(i) : log[p] \in ToSet(log)
        BY <1>3, <3>2
      <3> QED BY <2>1, <2>4, <3>1, <3>3 DEF GoodStream
    <2> QED BY <2>3, <2>4
  <1> QED BY <1>2, <1>4, <1>5

\* A call that takes notes, and a waiting thread that may have taken them.
LEMMA TakesKeeps ==
    ASSUME MInv, NEW id, Find(id) # 0, TryPopAll(Find(id)),
           waiter' \in [Waiters -> [state : {"away", "asleep", "woken"}, sub : SubIds \cup {0}]],
           UNCHANGED <<subids, held, writer, log, calls, asked, seen, dropped>>
    PROVE  MInv'
  <1> USE DEF MInv
  <1>1. Find(id) \in 1..Len(subs)
    BY FindFinds
  <1>2. /\ TableInv' /\ StreamInv'
        /\ got' \in [SubIds -> Seq(Notes)]
        /\ \A x \in SubIds : x > subids => got'[x] = got[x]
    BY <1>1, TryPopAllKeeps
  <1>3. ClientInv'
    BY <1>2 DEF ClientInv
  <1>4. WriterInv'
    BY DEF WriterInv
  <1> QED BY <1>2, <1>3, <1>4

\* A step that only concerns the waiting threads.
LEMMA WaiterKeeps ==
    ASSUME MInv,
           waiter' \in [Waiters -> [state : {"away", "asleep", "woken"}, sub : SubIds \cup {0}]],
           UNCHANGED <<subs, subids, held, writer, log, calls, asked, got, seen, dropped>>
    PROVE  MInv'
  <1> USE DEF MInv
  <1>1. TableInv' /\ WriterInv' /\ ClientInv'
    BY DEF TableInv, WriterInv, ClientInv
  <1>2. \A i : Through(i)' = Through(i)
    BY DEF Through, Base
  <1>3. StreamInv'
    BY <1>2 DEF StreamInv
  <1> QED BY <1>1, <1>3

\* A waiter that takes its turn moves notes from its inbox to what it was told.
LEMMA TurnKeeps ==
    ASSUME MInv, NEW c \in Waiters, NEW id \in SubIds \cup {0}, Turn(c, id),
           UNCHANGED <<subids, held, writer, log, calls, asked, seen, dropped>>
    PROVE  MInv'
  <1>1. waiter' \in [Waiters -> [state : {"away", "asleep", "woken"}, sub : SubIds \cup {0}]]
    <2>1. \/ waiter' = [waiter EXCEPT ![c] = [state |-> "away", sub |-> 0]]
          \/ waiter' = [waiter EXCEPT ![c] = [state |-> "asleep", sub |-> id]]
      BY DEF Turn, Become
    <2>2. waiter \in [Waiters -> [state : {"away", "asleep", "woken"}, sub : SubIds \cup {0}]]
      BY DEF MInv, ClientInv
    <2> QED BY <2>1, <2>2
  <1>2. CASE UNCHANGED <<subs, got>>
    BY <1>1, <1>2, WaiterKeeps
  <1>3. CASE Find(id) # 0 /\ TryPopAll(Find(id))
    BY <1>1, <1>3, TakesKeeps
  <1> QED BY <1>2, <1>3 DEF Turn

-----------------------------------------------------------------------------
(* The writer thread *)

\* The notes of a commit go behind the log.
LEMMA CommitKeeps ==
    ASSUME MInv, Commit
    PROVE  MInv'
  <1> USE DEF MInv
  <1>1. PICK n \in 0..BatchSize : \E b \in [1..n -> Notes \ ToSet(log)] :
          /\ IsInjective(b)
          /\ calls' = IF n = 0 THEN [calls EXCEPT !.empty = @ + 1] ELSE calls
          /\ log' = log \o b
          /\ writer' = [stage |-> "committed", batch |-> b, next |-> 1, note |-> 1, pushed |-> FALSE]
    BY DEF Commit
  <1>2. PICK b \in [1..n -> Notes \ ToSet(log)] :
          /\ IsInjective(b)
          /\ calls' = IF n = 0 THEN [calls EXCEPT !.empty = @ + 1] ELSE calls
          /\ log' = log \o b
          /\ writer' = [stage |-> "committed", batch |-> b, next |-> 1, note |-> 1, pushed |-> FALSE]
    BY <1>1
  <1>3. /\ writer.stage = "idle"
        /\ UNCHANGED <<subs, subids, held, waiter, asked, got, seen, dropped>>
    BY DEF Commit, clientVars
  <1>4. n \in Nat /\ b \in Seq(Notes) /\ Len(b) = n
    <2>1. n \in Nat
      BY <1>1, MonitorAssumption
    <2>2. b \in [1..n -> Notes]
      OBVIOUS
    <2> QED BY <2>1, <2>2
  <1>5. log \in Seq(Notes) /\ Len(log) \in Nat /\ DOMAIN log = 1..Len(log) /\ Distinct(log)
    BY LenProperties DEF WriterInv
  <1>6. /\ log' \in Seq(Notes)
        /\ Len(log') = Len(log) + n
        /\ \A i \in 1..(Len(log) + n) : log'[i] = IF i <= Len(log) THEN log[i] ELSE b[i - Len(log)]
    BY <1>2, <1>4, <1>5, ConcatProperties
  <1>7. \A i \in 1..Len(log) : log'[i] = log[i]
    BY <1>4, <1>5, <1>6
  <1>8. \A k \in 1..n : log'[Len(log) + k] = b[k]
    BY <1>4, <1>5, <1>6
  <1>9. Distinct(log')
    <2> SUFFICES ASSUME NEW p \in 1..Len(log'), NEW q \in 1..Len(log'), log'[p] = log'[q]
                 PROVE  p = q
      BY DEF Distinct
    <2>0. \A k \in 1..n : \A i \in 1..Len(log) : b[k] # log[i]
      BY <1>5 DEF ToSet
    <2>1. CASE p <= Len(log) /\ q <= Len(log)
      BY <1>4, <1>5, <1>6, <1>7, <2>1 DEF Distinct
    <2>2. CASE p <= Len(log) /\ q > Len(log)
      <3>1. q - Len(log) \in 1..n /\ log'[q] = b[q - Len(log)] /\ p \in 1..Len(log)
        BY <1>4, <1>5, <1>6, <2>2
      <3> QED BY <1>7, <2>0, <3>1
    <2>3. CASE p > Len(log) /\ q <= Len(log)
      <3>1. p - Len(log) \in 1..n /\ log'[p] = b[p - Len(log)] /\ q \in 1..Len(log)
        BY <1>4, <1>5, <1>6, <2>3
      <3> QED BY <1>7, <2>0, <3>1
    <2>4. CASE p > Len(log) /\ q > Len(log)
      <3>1. /\ p - Len(log) \in 1..n /\ q - Len(log) \in 1..n
            /\ b[p - Len(log)] = b[q - Len(log)]
        BY <1>4, <1>5, <1>6, <2>4
      <3>2. p - Len(log) = q - Len(log)
        BY <1>2, <3>1 DEF IsInjective
      <3> QED BY <1>5, <1>6, <3>2
    <2> QED BY <1>4, <1>5, <1>6, <2>1, <2>2, <2>3, <2>4
  <1>10. /\ writer'.stage = "committed" /\ writer'.batch = b /\ writer'.note = 1 /\ writer'.next = 1
         /\ writer' \in [stage : Stages, batch : Seq(Notes), next : Nat, note : Nat, pushed : BOOLEAN]
    BY <1>2, <1>4 DEF Stages
  <1>15. Len(log') - Len(writer'.batch) = Len(log) /\ Len(log) <= Len(log') /\ Len(writer'.batch) = n
    <2>1. Len(writer'.batch) = n
      BY <1>4, <1>10
    <2>2. n \in Nat /\ Len(log) \in Nat /\ Len(log') = Len(log) + n
      BY <1>4, <1>5, <1>6
    <2> QED BY <2>1, <2>2
  <1>11. TableInv'
    <2>1. /\ calls' \in [subscribe : 0..MaxSubscribes, empty : Nat]
          /\ calls'.subscribe = calls.subscribe
      BY <1>2 DEF TableInv
    <2> QED BY <1>3, <2>1 DEF TableInv
  <1>12. ClientInv'
    BY <1>3 DEF ClientInv
  <1>13. WriterInv'
    <2>1. /\ Len(writer'.batch) <= Len(log') /\ writer'.note \in 1..(Len(writer'.batch) + 1)
          /\ writer'.next >= 1
      BY <1>4, <1>5, <1>6, <1>10
    <2>2. \A k \in 1..Len(writer'.batch) : writer'.batch[k] = log'[Len(log') - Len(writer'.batch) + k]
      BY <1>8, <1>10, <1>15
    <2>3. held' \in BOOLEAN /\ (held' <=> writer'.stage \in {"notify", "callback", "destroyed"})
      BY <1>3, <1>10 DEF WriterInv
    <2> QED BY <1>6, <1>9, <1>10, <2>1, <2>2, <2>3 DEF WriterInv
  <1>14. StreamInv'
    <2> SUFFICES ASSUME NEW i \in 1..Len(subs)
                 PROVE  GoodStream(StreamOf(subs[i], got), subs[i].filter, log', Len(log),
                                   seen[subs[i].subid], dropped[subs[i].subid])
      <3>1. \A i : Through(i)' = Len(log)
        BY <1>10, <1>15 DEF Through, Base
      <3> QED BY <1>3, <3>1 DEF StreamInv
    <2>1. GoodStream(StreamOf(subs[i], got), subs[i].filter, log, Len(log),
                     seen[subs[i].subid], dropped[subs[i].subid])
      BY <1>3 DEF StreamInv, Through
    <2>2. StreamOf(subs[i], got) \in Seq(Notes)
      BY StreamType
    <2>3. Ordered(StreamOf(subs[i], got), log', Len(log))
      <3>1. Ordered(StreamOf(subs[i], got), log, Len(log)) /\ Len(log) <= Len(log)
        BY <1>5, <2>1 DEF GoodStream
      <3> QED BY <1>5, <1>6, <1>7, <1>9, <1>15, <2>2, <3>1, OrderedLonger
    <2> QED BY <1>7, <2>1, <2>3 DEF GoodStream
  <1> QED BY <1>11, <1>12, <1>13, <1>14

\* Where At takes the writer.
LEMMA AtIs ==
    ASSUME WriterInv, NEW stage \in Stages, NEW next \in Nat, next >= 1, At(stage, next)
    PROVE  /\ writer' \in [stage : Stages, batch : Seq(Notes), next : Nat, note : Nat, pushed : BOOLEAN]
           /\ writer'.stage = stage /\ writer'.next = next /\ writer'.note = 1
           /\ writer'.batch = writer.batch
           /\ writer'.note \in 1..(Len(writer.batch) + 1)
  <1>1. /\ writer' \in [stage : Stages, batch : Seq(Notes), next : Nat, note : Nat, pushed : BOOLEAN]
        /\ writer'.stage = stage /\ writer'.next = next /\ writer'.note = 1
        /\ writer'.batch = writer.batch
    BY DEF At, WriterInv
  <1>2. Len(writer.batch) \in Nat
    BY LenProperties DEF WriterInv
  <1> QED BY <1>1, <1>2

\* A step of the loop that only moves the writer on.
LEMMA MovesKeeps ==
    ASSUME MInv, NEW stage \in Stages, NEW next \in Nat, next >= 1, At(stage, next),
           held' \in BOOLEAN, held' <=> stage \in {"notify", "callback", "destroyed"},
           waiter' \in [Waiters -> [state : {"away", "asleep", "woken"}, sub : SubIds \cup {0}]],
           UNCHANGED <<subs, subids, log, calls, asked, got, seen, dropped>>,
           \A i \in 1..Len(subs) : Through(i)' = Through(i)
    PROVE  MInv'
  <1> USE DEF MInv
  <1>1. TableInv' /\ ClientInv'
    BY DEF TableInv, ClientInv
  <1>2. WriterInv'
    <2>1. /\ writer' \in [stage : Stages, batch : Seq(Notes), next : Nat, note : Nat, pushed : BOOLEAN]
          /\ writer'.stage = stage /\ writer'.next = next
          /\ writer'.batch = writer.batch /\ writer'.note \in 1..(Len(writer.batch) + 1)
      BY AtIs
    <2>2. log' = log /\ (held' <=> writer'.stage \in {"notify", "callback", "destroyed"})
      BY <2>1
    <2> QED BY <2>1, <2>2 DEF WriterInv
  <1>3. StreamInv'
    BY DEF StreamInv
  <1> QED BY <1>1, <1>2, <1>3

\* The writer's loops, in numbers.
LEMMA LoopNumbers ==
    ASSUME MInv
    PROVE  /\ writer.next \in Nat /\ writer.next >= 1 /\ writer.note \in Nat /\ writer.note >= 1
           /\ Len(writer.batch) \in Nat /\ Len(log) \in Nat /\ Len(subs) \in Nat
           /\ Base \in Nat /\ Base = Len(log) - Len(writer.batch)
           /\ writer.note <= Len(writer.batch) + 1
           /\ held \in BOOLEAN
           /\ held <=> writer.stage \in {"notify", "callback", "destroyed"}
           /\ waiter \in [Waiters -> [state : {"away", "asleep", "woken"}, sub : SubIds \cup {0}]]
  <1>1. Len(writer.batch) \in Nat /\ Len(log) \in Nat /\ Len(subs) \in Nat
    BY LenProperties DEF MInv, TableInv, WriterInv
  <1>2. Base \in Nat /\ Base = Len(log) - Len(writer.batch)
    BY <1>1 DEF Base, MInv, WriterInv
  <1> QED BY <1>1, <1>2 DEF MInv, WriterInv, ClientInv

\* The writer takes the mutex with a batch it has just committed.
LEMMA NotifyBeginKeeps ==
    ASSUME MInv, NotifyBegin
    PROVE  MInv'
  <1>1. /\ writer.stage = "committed" /\ At("notify", 1) /\ held' = TRUE
        /\ UNCHANGED <<subs, subids, waiter, log, calls, asked, got, seen, dropped>>
    BY DEF NotifyBegin, clientVars
  <1>2. writer'.stage = "notify" /\ writer'.next = 1 /\ writer'.note = 1 /\ writer'.batch = writer.batch
    BY <1>1, AtIs DEF MInv, Stages
  <1>3. Base' = Base /\ Base + 1 - 1 = Base
    BY <1>1, <1>2, LoopNumbers DEF Base
  <1>4. \A i \in 1..Len(subs) : Through(i)' = Through(i)
    BY <1>1, <1>2, <1>3, LoopNumbers DEF Through
  <1> QED BY <1>1, <1>4, MovesKeeps, LoopNumbers DEF Stages

\* Going on to the next subscription, through its callback or not, starts at the first
\* note of the batch.
LEMMA NotifySubKeeps ==
    ASSUME MInv, NotifySub
    PROVE  MInv'
  <1>1. /\ writer.stage = "notify" /\ writer.next <= Len(subs) /\ writer.note > Len(writer.batch)
        /\ At("callback", writer.next) \/ At("notify", writer.next + 1)
        /\ UNCHANGED <<subs, subids, held, waiter, log, calls, asked, got, seen, dropped>>
    BY DEF NotifySub, clientVars
  <1>2. /\ Base + writer.note - 1 = Len(log)
        /\ writer.next \in Nat /\ writer.next + 1 \in Nat /\ writer.next + 1 >= 1
    BY <1>1, LoopNumbers
  <1>3. CASE At("callback", writer.next)
    <2>1. /\ writer'.stage = "callback" /\ writer'.next = writer.next /\ writer'.note = 1
          /\ writer'.batch = writer.batch
      BY <1>3, AtIs, LoopNumbers DEF MInv, Stages
    <2>2. Base' = Base
      BY <1>1, <2>1 DEF Base
    <2>3. \A i \in 1..Len(subs) : Through(i)' = Through(i)
      BY <1>1, <1>2, <2>1, <2>2, LoopNumbers DEF Through
    <2> QED BY <1>1, <1>3, <2>3, MovesKeeps, LoopNumbers DEF Stages
  <1>4. CASE At("notify", writer.next + 1)
    <2>1. /\ writer'.stage = "notify" /\ writer'.next = writer.next + 1 /\ writer'.note = 1
          /\ writer'.batch = writer.batch
      BY <1>2, <1>4, AtIs DEF MInv, Stages
    <2>2. Base' = Base
      BY <1>1, <2>1 DEF Base
    <2>3. \A i \in 1..Len(subs) : Through(i)' = Through(i)
      BY <1>1, <1>2, <2>1, <2>2, LoopNumbers DEF Through
    <2> QED BY <1>1, <1>2, <1>4, <2>3, MovesKeeps, LoopNumbers DEF Stages
  <1> QED BY <1>1, <1>3, <1>4

\* A callback that polls never returns: the thread holds the mutex.
LEMMA CallbackReturnsKeeps ==
    ASSUME MInv, CallbackReturns
    PROVE  MInv'
  <1>1. writer.stage = "callback" /\ held
    BY LoopNumbers DEF CallbackReturns
  <1>2. /\ At("notify", writer.next + 1)
        /\ UNCHANGED <<subs, subids, held, waiter, log, calls, asked, got, seen, dropped>>
    BY <1>1 DEF CallbackReturns
  <1>3. /\ writer'.stage = "notify" /\ writer'.next = writer.next + 1 /\ writer'.note = 1
        /\ writer'.batch = writer.batch /\ writer.next + 1 \in Nat /\ writer.next + 1 >= 1
    BY <1>2, AtIs, LoopNumbers DEF MInv, Stages
  <1>4. Base' = Base
    BY <1>2, <1>3 DEF Base
  <1>5. \A i \in 1..Len(subs) : Through(i)' = Through(i)
    BY <1>1, <1>2, <1>3, <1>4, LoopNumbers DEF Through
  <1> QED BY <1>1, <1>2, <1>3, <1>5, MovesKeeps, LoopNumbers DEF Stages

\* When the writer lets go of the mutex every subscription has been offered the batch.
LEMMA NotifyDoneKeeps ==
    ASSUME MInv, NotifyDone
    PROVE  MInv'
  <1>1. /\ writer.stage = "notify" /\ writer.next > Len(subs) /\ At("idle", 1) /\ held' = FALSE
        /\ waiter' = [c \in Waiters |-> Wake(waiter[c])]
        /\ UNCHANGED <<subs, subids, log, calls, asked, got, seen, dropped>>
    BY DEF NotifyDone, clientVars
  <1>2. writer'.stage = "idle"
    BY <1>1, AtIs DEF MInv, Stages
  <1>3. waiter' \in [Waiters -> [state : {"away", "asleep", "woken"}, sub : SubIds \cup {0}]]
    BY <1>1, LoopNumbers DEF Wake
  <1>4. \A i \in 1..Len(subs) : Through(i)' = Through(i)
    BY <1>1, <1>2, LoopNumbers DEF Through
  <1>5. held' \in BOOLEAN /\ (held' <=> "idle" \in {"notify", "callback", "destroyed"}) /\ "idle" \in Stages
    BY <1>1 DEF Stages
  <1> QED BY <1>1, <1>3, <1>4, <1>5, MovesKeeps

\* Destroying the monitor empties the table.
LEMMA DestroyKeeps ==
    ASSUME MInv, Destroy
    PROVE  MInv'
  <1> USE DEF MInv
  <1>1. /\ subs' = <<>> /\ asked' = <<>> /\ At("destroyed", 1) /\ held' = TRUE
        /\ UNCHANGED <<subids, waiter, log, calls, got, seen, dropped>>
    BY DEF Destroy
  <1>2. Len(subs') = 0 /\ DOMAIN asked' = {} /\ subs' \in Seq(Entry) /\ 1..Len(subs') = {}
    BY <1>1
  <1>3. TableInv'
    BY <1>1, <1>2, MonitorAssumption DEF TableInv
  <1>4. ClientInv'
    BY <1>1 DEF ClientInv
  <1>5. WriterInv'
    <2>1. /\ writer' \in [stage : Stages, batch : Seq(Notes), next : Nat, note : Nat, pushed : BOOLEAN]
          /\ writer'.stage = "destroyed" /\ writer'.next = 1
          /\ writer'.batch = writer.batch /\ writer'.note \in 1..(Len(writer.batch) + 1)
      BY <1>1, AtIs DEF Stages
    <2>2. held' \in BOOLEAN /\ (held' <=> writer'.stage \in {"notify", "callback", "destroyed"})
      BY <1>1, <2>1
    <2> QED BY <1>1, <2>1, <2>2 DEF WriterInv
  <1>6. StreamInv'
    BY <1>2 DEF StreamInv
  <1> QED BY <1>3, <1>4, <1>5, <1>6

\* Appending to the second part of a concatenation appends to the whole.
LEMMA ConcatAppend ==
    ASSUME NEW x \in Seq(Notes), NEW y \in Seq(Notes), NEW z \in Notes
    PROVE  x \o Append(y, z) = Append(x \o y, z)
  BY AppendIsConcat, ConcatAssociative, ConcatProperties

\* The inner loop takes the subscription one note further through the log.
LEMMA NotifyNoteKeeps ==
    ASSUME MInv, NotifyNote
    PROVE  MInv'
  <1> USE DEF MInv
  <1> DEFINE i == writer.next
             n == writer.batch[writer.note]
             e == subs[i]
             b == Base + writer.note - 1
             fits == Offers(i, n) /\ Len(e.inbox) < InboxSize
  <1>1. /\ writer.stage = "notify" /\ i <= Len(subs) /\ writer.note <= Len(writer.batch)
        /\ subs' = IF fits THEN [subs EXCEPT ![i].inbox = Append(@, n)] ELSE subs
        /\ dropped' = IF Offers(i, n) /\ ~fits
                      THEN [dropped EXCEPT ![e.subid] = @ \cup {n}] ELSE dropped
        /\ writer' = [writer EXCEPT !.note = @ + 1, !.pushed = @ \/ fits]
        /\ UNCHANGED <<subids, held, waiter, log, calls, asked, got, seen>>
    BY DEF NotifyNote
  <1>2. i \in 1..Len(subs) /\ b \in Nat /\ b + 1 <= Len(log) /\ b + 1 = Base + writer.note
    <2>1. i \in 1..Len(subs)
      BY <1>1, LoopNumbers
    <2>2. b \in Nat /\ b + 1 = Base + writer.note
      BY LoopNumbers
    <2>3. Base + writer.note <= Len(log)
      BY <1>1, LoopNumbers
    <2> QED BY <2>1, <2>2, <2>3
  <1>3. /\ e.subid \in SubIds /\ e.filter \in Filters /\ e.inbox \in Seq(Notes)
        /\ got[e.subid] \in Seq(Notes) /\ StreamOf(e, got) \in Seq(Notes)
    BY <1>2, StreamType
  <1>4. n = log[b + 1] /\ n \in Notes /\ writer.batch \in Seq(Notes)
    <2>1. writer.note \in 1..Len(writer.batch) /\ writer.batch \in Seq(Notes)
      BY <1>1, LoopNumbers DEF WriterInv
    <2>2. n = log[Len(log) - Len(writer.batch) + writer.note]
      BY <2>1 DEF WriterInv
    <2> QED BY <1>2, <2>1, <2>2, ElementOfSeq, LoopNumbers
  <1>5. fits \in BOOLEAN /\ (Offers(i, n) <=> n \in Matches[e.filter])
    BY DEF Offers
  <1>6. /\ writer' \in [stage : Stages, batch : Seq(Notes), next : Nat, note : Nat, pushed : BOOLEAN]
        /\ writer'.stage = "notify" /\ writer'.next = i /\ writer'.note = writer.note + 1
        /\ writer'.batch = writer.batch
    <2>1. writer.pushed \in BOOLEAN /\ (writer.pushed \/ fits) \in BOOLEAN
      BY <1>5 DEF WriterInv
    <2>2. writer.note + 1 \in Nat
      BY LoopNumbers
    <2> DEFINE p == writer.pushed \/ fits
               m == writer.note + 1
    <2>3. writer' = [writer EXCEPT !.note = m, !.pushed = p]
      BY <1>1
    <2>4. p \in BOOLEAN /\ m \in Nat
      BY <2>1, <2>2
    <2> HIDE DEF p, m
    <2>5. /\ writer' \in [stage : Stages, batch : Seq(Notes), next : Nat, note : Nat, pushed : BOOLEAN]
          /\ writer'.stage = writer.stage /\ writer'.next = i /\ writer'.note = m
          /\ writer'.batch = writer.batch
      BY <2>3, <2>4 DEF WriterInv
    <2> QED BY <1>1, <2>5 DEF m
  <1> HIDE DEF fits, n
  <1>7. WriterInv'
    <2>1. writer'.note \in 1..(Len(writer'.batch) + 1)
      BY <1>1, <1>6, LoopNumbers
    <2> QED BY <1>1, <1>6, <2>1 DEF WriterInv
  <1>8. dropped' \in [SubIds -> SUBSET Notes]
    BY <1>1, <1>3, <1>4 DEF ClientInv
  <1>9. ClientInv'
    BY <1>1, <1>8 DEF ClientInv
  <1>10. \A j \in 1..Len(subs) : Through(j)' = IF j = i THEN b + 1 ELSE Through(j)
    <2>1. Base' = Base
      BY <1>1, <1>6 DEF Base
    <2>2. Base + (writer.note + 1) - 1 = b + 1
      BY LoopNumbers
    <2> QED BY <1>1, <1>6, <2>1, <2>2, LoopNumbers DEF Through
  <1>11. Through(i) = b
    BY <1>1, LoopNumbers DEF Through
  <1>12. GoodStream(StreamOf(e, got), e.filter, log, b, seen[e.subid], dropped[e.subid])
    BY <1>2, <1>11 DEF StreamInv
  <1>13. log \in Seq(Notes) /\ Distinct(log)
    BY DEF WriterInv
  <1>14. /\ n \in Matches[e.filter] =>
                GoodStream(Append(StreamOf(e, got), n), e.filter, log, b + 1, seen[e.subid], dropped[e.subid])
         /\ n \in Matches[e.filter] =>
                GoodStream(StreamOf(e, got), e.filter, log, b + 1, seen[e.subid], dropped[e.subid] \cup {n})
         /\ n \notin Matches[e.filter] =>
                GoodStream(StreamOf(e, got), e.filter, log, b + 1, seen[e.subid], dropped[e.subid])
    <2>1. n = log[b + 1] /\ StreamOf(e, got) \in Seq(Notes)
      BY <1>3, <1>4
    <2> HIDE DEF b, e
    <2> QED BY <1>2, <1>12, <1>13, <2>1, GoodStep
  <1>15. \A j \in 1..Len(subs) : j # i => subs[j].subid # e.subid /\ subs[j].subid \in SubIds
    BY <1>2, StreamType DEF TableInv
  <1>16. CASE fits
    <2>1. n \in Matches[e.filter] /\ Len(e.inbox) < InboxSize
      BY <1>5, <1>16 DEF fits
    <2> DEFINE q == Append(e.inbox, n)
    <2>2. q \in Seq(Notes) /\ Len(q) <= InboxSize
      BY <1>3, <1>4, <2>1, AppendProperties, LenProperties, MonitorAssumption
    <2>3. subs' = [subs EXCEPT ![i] = [subs[i] EXCEPT !.inbox = q]]
      BY <1>1, <1>16
    <2>4. got[e.subid] \o q = Append(StreamOf(e, got), n)
      BY <1>3, <1>4, ConcatAppend DEF StreamOf
    <2> HIDE DEF q
    <2>5. Refilled(i, q)
      BY <1>2, <2>2, <2>3, RefilledBy
    <2>6. TableInv'
      BY <1>1, <2>2, <2>5, RefilledKeeps
    <2>7. dropped' = dropped
      BY <1>1, <1>16
    <2>8. ASSUME NEW j \in 1..Len(subs)
          PROVE  GoodStream(StreamOf(subs'[j], got), subs'[j].filter, log, Through(j)',
                            seen[subs'[j].subid], dropped[subs'[j].subid])
      <3>1. /\ subs'[j].subid = subs[j].subid /\ subs'[j].filter = subs[j].filter
            /\ subs'[j].inbox = IF j = i THEN q ELSE subs[j].inbox
        BY <2>5 DEF Refilled
      <3>2. CASE j = i
        <4>1. StreamOf(subs'[j], got) = Append(StreamOf(e, got), n)
          BY <2>4, <3>1, <3>2 DEF StreamOf
        <4>2. subs'[j].subid = e.subid /\ subs'[j].filter = e.filter /\ Through(j)' = b + 1
          BY <1>10, <3>1, <3>2
        <4> HIDE DEF b, e
        <4> QED BY <1>14, <2>1, <4>1, <4>2
      <3>3. CASE j # i
        <4>1. StreamOf(subs'[j], got) = StreamOf(subs[j], got)
          BY <3>1, <3>3 DEF StreamOf
        <4>2. Through(j)' = Through(j)
          BY <1>10, <3>3
        <4> QED BY <3>1, <4>1, <4>2 DEF StreamInv
      <3> QED BY <3>2, <3>3
    <2>9. StreamInv'
      <3>1. Len(subs') = Len(subs)
        BY <2>5 DEF Refilled
      <3> QED BY <1>1, <2>7, <2>8, <3>1 DEF StreamInv
    <2> QED BY <1>7, <1>9, <2>6, <2>9
  <1>17. CASE ~fits
    <2>1. subs' = subs
      BY <1>1, <1>17
    <2>2. TableInv'
      <3>1. UNCHANGED <<subs, subids, calls, asked>>
        BY <1>1, <2>1
      <3> QED BY <3>1 DEF TableInv
    <2>3. dropped'[e.subid] = IF n \in Matches[e.filter] THEN dropped[e.subid] \cup {n} ELSE dropped[e.subid]
      BY <1>1, <1>3, <1>5, <1>17 DEF ClientInv
    <2>4. \A j \in 1..Len(subs) : j # i => dropped'[subs[j].subid] = dropped[subs[j].subid]
      BY <1>1, <1>15 DEF ClientInv
    <2>5. ASSUME NEW j \in 1..Len(subs)
          PROVE  GoodStream(StreamOf(subs[j], got), subs[j].filter, log, Through(j)',
                            seen[subs[j].subid], dropped'[subs[j].subid])
      <3>1. CASE j = i
        <4>1. Through(j)' = b + 1 /\ subs[j] = e
          BY <1>10, <3>1
        <4> HIDE DEF b, e
        <4> QED BY <1>14, <2>3, <4>1
      <3>2. CASE j # i
        BY <1>10, <2>4, <3>2 DEF StreamInv
      <3> QED BY <3>1, <3>2
    <2>6. StreamInv'
      BY <1>1, <2>1, <2>5 DEF StreamInv
    <2> QED BY <1>7, <1>9, <2>2, <2>6
  <1> QED BY <1>5, <1>16, <1>17

-----------------------------------------------------------------------------
(* The specification *)

\* Every step of clients, waiters and writer keeps the invariant.
LEMMA NextMInv == MInv /\ [Next]_vars => MInv'
  <1> SUFFICES ASSUME MInv, [Next]_vars PROVE MInv'
    OBVIOUS
  <1>0. waiter \in [Waiters -> [state : {"away", "asleep", "woken"}, sub : SubIds \cup {0}]]
    BY DEF MInv, ClientInv
  <1>1. CASE UNCHANGED vars
    <2>1. UNCHANGED <<subs, subids, held, writer, log, calls, asked, got, seen, dropped>> /\ waiter' = waiter
      BY <1>1 DEF vars
    <2> QED BY <1>0, <2>1, WaiterKeeps
  <1>2. ASSUME NEW f \in Filters, Subscribe(f) PROVE MInv'
    BY <1>2, SubscribeKeeps
  <1>3. ASSUME NEW id \in SubIds, Unsubscribe(id) PROVE MInv'
    BY <1>3, UnsubscribeKeeps
  <1>4. ASSUME NEW id \in SubIds, Query(id) PROVE MInv'
    BY <1>4, QueryKeeps
  <1>5. ASSUME NEW id \in SubIds, Poll(id) PROVE MInv'
    BY <1>0, <1>5, TakesKeeps DEF Poll
  <1>6. ASSUME NEW c \in Waiters, NEW id \in SubIds, Wait(c, id) PROVE MInv'
    BY <1>6, TurnKeeps DEF Wait
  <1>7. ASSUME NEW c \in Waiters, Resume(c) PROVE MInv'
    <2>1. waiter[c].sub \in SubIds \cup {0}
      BY <1>0
    <2> QED BY <1>7, <2>1, TurnKeeps DEF Resume
  <1>8. ASSUME NEW c \in Waiters, SpuriousWakeup(c) PROVE MInv'
    <2>1. waiter' \in [Waiters -> [state : {"away", "asleep", "woken"}, sub : SubIds \cup {0}]]
      BY <1>0, <1>8 DEF SpuriousWakeup, Become
    <2>2. UNCHANGED <<subs, subids, held, writer, log, calls, asked, got, seen, dropped>>
      BY <1>8 DEF SpuriousWakeup, clientVars
    <2> QED BY <2>1, <2>2, WaiterKeeps
  <1>9. CASE WriterStep
    BY <1>9, NotifyBeginKeeps, NotifyNoteKeeps, NotifySubKeeps, CallbackReturnsKeeps, NotifyDoneKeeps
       DEF WriterStep
  <1> QED BY <1>1, <1>2, <1>3, <1>4, <1>5, <1>6, <1>7, <1>8, <1>9, CommitKeeps, DestroyKeeps DEF Next

\* The invariant holds along every behaviour of the monitor, the clients and the
\* writer thread.
THEOREM MonitorInvariant == Spec => []MInv
  BY InitMInv, NextMInv, PTL DEF Spec

\* The place of a note in the log, the first one, is its only place.
LEMMA PlaceIs ==
    ASSUME NEW l \in Seq(Notes), Distinct(l), NEW n, NEW p \in 1..Len(l), l[p] = n
    PROVE  SelectInSeq(l, LAMBDA x : x = n) = p
  <1> DEFINE I == {j \in 1..Len(l) : l[j] = n}
  <1>1. I = {p}
    BY DEF Distinct
  <1>2. SelectInSeq(l, LAMBDA x : x = n) = IF I # {} THEN Min(I) ELSE 0
    BY DEF SelectInSeq
  <1>3. Min({p}) = p
    BY DEF Min
  <1> QED BY <1>1, <1>2, <1>3

\* As many clients' subscriptions as entries: ids are not given twice.
LEMMA TableCounts ==
    ASSUME TableInv
    PROVE  Len(subs) = Cardinality(DOMAIN asked)
  <1> DEFINE S == 1..Len(subs)
             h == [i \in S |-> subs[i].subid]
  <1>1. Len(subs) \in Nat
    BY LenProperties DEF TableInv
  <1>2. h \in [S -> DOMAIN asked]
    BY DEF TableInv
  <1>3. IsInjective(h)
    BY DEF IsInjective, TableInv
  <1>4. h \in Surjection(S, DOMAIN asked)
    BY <1>2 DEF Surjection, TableInv
  <1>5. h \in Injection(S, DOMAIN asked)
    BY <1>2, <1>3 DEF Injection, IsInjective
  <1>6. h \in Bijection(S, DOMAIN asked)
    BY <1>4, <1>5 DEF Bijection
  <1>7. ExistsBijection(S, DOMAIN asked)
    BY <1>6 DEF ExistsBijection
  <1>8. IsFiniteSet(S) /\ Cardinality(S) = Len(subs)
    BY <1>1, FS_Interval
  <1> QED BY <1>7, <1>8, FS_Bijection

\* The invariant contains the type invariant.
LEMMA TypeFollows ==
    ASSUME MInv
    PROVE  TypeOK
  <1> USE DEF MInv
  <1>1. subids \in 0..MaxSubscribes
    BY MonitorAssumption DEF TableInv
  <1>2. /\ writer.stage \in Stages /\ writer.batch \in Seq(Notes)
        /\ writer.next \in Nat /\ writer.note \in Nat /\ writer.pushed \in BOOLEAN
    BY DEF WriterInv
  <1>3. log \in Seq(Notes) /\ held \in BOOLEAN
    BY DEF WriterInv
  <1> QED BY <1>1, <1>2, <1>3 DEF TypeOK, TableInv, ClientInv, Stages, Entry

\* A client's subscription is the entry Find finds, and what it heard is good.
LEMMA EntryOf ==
    ASSUME MInv, NEW id \in DOMAIN asked
    PROVE  /\ Find(id) \in 1..Len(subs) /\ Find(id) # 0
           /\ subs[Find(id)].subid = id
           /\ subs[Find(id)].filter = asked[id]
           /\ Stream(id) \in Seq(Notes)
           /\ GoodStream(Stream(id), asked[id], log, Through(Find(id)), seen[id], dropped[id])
  <1> USE DEF MInv
  <1>1. PICK i \in 1..Len(subs) : subs[i].subid = id
    BY DEF TableInv
  <1>2. Find(id) = i /\ i # 0
    BY <1>1, FindIs
  <1>3. subs[i].filter = asked[id]
    BY <1>1 DEF TableInv
  <1>4. Stream(id) = StreamOf(subs[i], got)
    BY <1>1, <1>2 DEF Stream, Inbox, StreamOf
  <1>5. StreamOf(subs[i], got) \in Seq(Notes)
    BY StreamType
  <1>6. GoodStream(StreamOf(subs[i], got), subs[i].filter, log, Through(i),
                   seen[subs[i].subid], dropped[subs[i].subid])
    BY DEF StreamInv
  <1> QED BY <1>1, <1>2, <1>3, <1>4, <1>5, <1>6

\* The invariant implies that no client hears a note twice, out of order or unasked.
LEMMA InOrder ==
    ASSUME MInv
    PROVE  StreamsInOrder
  <1> USE DEF MInv
  <1>1. TableMatches
    BY EntryOf, TableCounts DEF TableMatches
  <1>2. ASSUME NEW id \in DOMAIN asked
        PROVE  ToSet(Stream(id)) \subseteq Matches[asked[id]] \cap ToSet(log)
    <2> DEFINE s == Stream(id)
    <2>1. /\ s \in Seq(Notes) /\ log \in Seq(Notes)
          /\ GoodStream(s, asked[id], log, Through(Find(id)), seen[id], dropped[id])
          /\ Find(id) \in Nat
      BY EntryOf DEF WriterInv
    <2>2. Through(Find(id)) \in Nat /\ Through(Find(id)) <= Len(log) /\ Len(log) \in Nat
      BY <2>1, ThroughType, LenProperties
    <2>3. DOMAIN s = 1..Len(s) /\ DOMAIN log = 1..Len(log)
      BY <2>1, LenProperties
    <2> HIDE DEF s
    <2>4. ASSUME NEW i \in 1..Len(s)
          PROVE  s[i] \in Matches[asked[id]] /\ s[i] \in ToSet(log)
      <3>1. s[i] \in Matches[asked[id]]
        BY <2>1 DEF GoodStream
      <3>2. PICK p \in 1..Through(Find(id)) : log[p] = s[i]
        BY <2>1 DEF GoodStream, Ordered
      <3>3. p \in 1..Len(log)
        BY <2>2
      <3> QED BY <2>3, <3>1, <3>2, <3>3 DEF ToSet
    <2>5. ToSet(s) = {s[i] : i \in 1..Len(s)}
      BY <2>3 DEF ToSet
    <2>6. ToSet(s) \subseteq Matches[asked[id]] \cap ToSet(log)
      BY <2>4, <2>5
    <2> QED BY <2>6 DEF s
  <1>3. ASSUME NEW id \in DOMAIN asked, NEW i \in 1..Len(Stream(id)), NEW j \in 1..Len(Stream(id)), i < j
        PROVE  SelectInSeq(log, LAMBDA n : n = Stream(id)[i]) < SelectInSeq(log, LAMBDA n : n = Stream(id)[j])
    <2> DEFINE s == Stream(id)
    <2>1. /\ Ordered(s, log, Through(Find(id))) /\ log \in Seq(Notes) /\ Distinct(log)
          /\ Find(id) \in Nat
      BY EntryOf DEF WriterInv, GoodStream
    <2>2. Through(Find(id)) \in Nat /\ Through(Find(id)) <= Len(log) /\ Len(log) \in Nat
      BY <2>1, ThroughType, LenProperties
    <2>3. PICK p \in 1..Len(log) : log[p] = s[i]
      BY <2>1, <2>2 DEF Ordered
    <2>4. PICK q \in 1..Len(log) : log[q] = s[j]
      BY <2>1, <2>2 DEF Ordered
    <2>5. p < q
      BY <1>3, <2>1, <2>3, <2>4 DEF Ordered
    <2>6. SelectInSeq(log, LAMBDA n : n = s[i]) = p
      BY <2>1, <2>3, PlaceIs
    <2>7. SelectInSeq(log, LAMBDA n : n = s[j]) = q
      BY <2>1, <2>4, PlaceIs
    <2> QED BY <2>5, <2>6, <2>7
  <1> QED BY <1>1, <1>2, <1>3, TypeFollows DEF StreamsInOrder

\* The invariant implies that subscribing and then querying misses no note.
LEMMA NoneMissed ==
    ASSUME MInv
    PROVE  NoNoteMissed
  <1> USE DEF MInv
  <1> SUFFICES ASSUME writer.stage = "idle", NEW id \in DOMAIN asked, seen[id].ran
               PROVE  ToSet(log) \cap Matches[asked[id]]
                         \subseteq seen[id].found \cup ToSet(Stream(id)) \cup dropped[id]
    BY DEF NoNoteMissed
  <1>1. Through(Find(id)) = Len(log)
    BY DEF Through
  <1>2. GoodStream(Stream(id), asked[id], log, Len(log), seen[id], dropped[id])
    BY <1>1, EntryOf
  <1>3. ToSet(log) = {log[p] : p \in 1..Len(log)}
    BY LenProperties DEF WriterInv, ToSet
  <1> QED BY <1>2, <1>3 DEF GoodStream

\* What ndb_notify_subscriptions pushes: a subscription hears of matching notes
\* only, each once and in commit order, and ndb_monitor_find_subscription finds
\* its entry however ndb_unsubscribe compacted the table - for any number of
\* clients and notes, and any sizes of the table, the inboxes and the batches.
THEOREM MonitorStreamsInOrder == Spec => []StreamsInOrder
  BY MonitorInvariant, InOrder, PTL

\* Subscribing and then querying leaves no gap: once the notification is over,
\* every matching committed note was found by the query, sent to the
\* subscription, or lost to a full inbox.
THEOREM MonitorNoNoteMissed == Spec => []NoNoteMissed
  BY MonitorInvariant, NoneMissed, PTL
=============================================================================
