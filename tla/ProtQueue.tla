----------------------------- MODULE ProtQueue -----------------------------
(***************************************************************************)
(* The thread-safe ring buffer of protected_queue.h: the inbox of every    *)
(* ingester thread and of the writer, and the mailbox of a subscription.   *)
(* Every function of the header holds q->mutex from its first read to its  *)
(* last write, so one critical section is one action.  A blocking pop that *)
(* finds the queue empty releases the mutex in pthread_cond_wait and runs  *)
(* a second critical section once it is woken: by the one signal of a      *)
(* successful push, or spuriously.                                         *)
(***************************************************************************)
EXTENDS Integers, Sequences, FiniteSets

CONSTANTS Item,         \* the messages pushed
          Capacity,     \* prot_queue_capacity: buflen / elem_size
          Consumers,    \* the threads that pop
          MaxItems,     \* largest max_items a consumer asks for
          PushSizes,    \* the counts prot_queue_push_all is called with
          NoItem        \* the content of a slot nothing was copied to

\* A push_all signals one waiter however many elements it adds, so two
\* consumers may not share a queue that is filled by larger batches.  In the
\* program every queue has one consumer.
ASSUME QueueAssumption ==
    /\ Capacity \in Nat \ {0}
    /\ MaxItems \in Nat \ {0}
    /\ PushSizes \subseteq Nat \ {0}
    /\ IsFiniteSet(Consumers)
    /\ NoItem \notin Item
    /\ PushSizes \subseteq {1} \/ \E c \in Consumers : Consumers = {c}

VARIABLES buf,          \* slot -> element
          head,         \* next slot to pop
          tail,         \* next slot to fill
          count,        \* elements held
          call,         \* call[c]: "idle", or inside a pop: "waiting", "woken"
          want,         \* want[c]: max_items of the pop c is inside
          dest,         \* dest[c]: what the last pop of c copied out
          data          \* the argument of the last push that was accepted

vars == <<buf, head, tail, count, call, want, dest, data>>

Slot == 0..(Capacity - 1)

\* An index of the ring: everything that runs over the end starts again.
At(i) == i % Capacity

\* prot_queue_init
Init ==
    /\ buf = [i \in Slot |-> NoItem]
    /\ head = 0
    /\ tail = 0
    /\ count = 0
    /\ call = [c \in Consumers |-> "idle"]
    /\ want = [c \in Consumers |-> 1]
    /\ dest = [c \in Consumers |-> <<>>]
    /\ data = <<>>

Waiting == {c \in Consumers : call[c] = "waiting"}

Woken == {c \in Consumers : call[c] = "woken"}

\* The contents, oldest first.
Contents == [i \in 1..count |-> buf[At(head + i - 1)]]

Least(a, b) == IF a <= b THEN a ELSE b

\* Mutant: the signal is forgotten.
SignalNobody == UNCHANGED call

\* pthread_cond_signal: one waiter, if there is any, leaves the wait.
Signal ==
    \/ Waiting = {} /\ UNCHANGED call
    \/ \E c \in Waiting : call' = [call EXCEPT ![c] = "woken"]

\* prot_queue_push; a full queue is left alone and nobody is signalled.
Push(d) ==
    /\ count # Capacity
    /\ buf' = [buf EXCEPT ![tail] = d]
    /\ tail' = At(tail + 1)
    /\ count' = count + 1
    /\ data' = <<d>>
    /\ Signal
    /\ UNCHANGED <<head, want, dest>>

\* Mutant: the second copy starts again at the first element of the batch.
PushAllRestart(batch) ==
    LET n     == Len(batch)
        first == Least(n, Capacity - tail)
    IN  /\ count + n <= Capacity
        /\ buf' = [i \in Slot |->
                      IF i \in tail..(tail + first - 1) THEN batch[i - tail + 1]
                      ELSE IF i < n - first THEN batch[i + 1] ELSE buf[i]]
        /\ tail' = At(tail + n)
        /\ count' = count + n
        /\ data' = batch
        /\ Signal
        /\ UNCHANGED <<head, want, dest>>

\* Mutant: the second copy does not move the tail.
PushAllTailLost(batch) ==
    LET n     == Len(batch)
        first == Least(n, Capacity - tail)
    IN  /\ count + n <= Capacity
        /\ buf' = [i \in Slot |->
                      IF i \in tail..(tail + first - 1) THEN batch[i - tail + 1]
                      ELSE IF i < n - first THEN batch[first + i + 1] ELSE buf[i]]
        /\ tail' = At(tail + first)
        /\ count' = count + n
        /\ data' = batch
        /\ Signal
        /\ UNCHANGED <<head, want, dest>>

\* prot_queue_push_all: the elements up to the end of the buffer, then the rest
\* from its start; one signal for the whole batch.
PushAll(batch) ==
    LET n     == Len(batch)
        first == Least(n, Capacity - tail)
        mid   == At(tail + first)
        rest  == n - first
    IN  /\ count + n <= Capacity
        /\ buf' = [i \in Slot |->
                      IF i \in tail..(tail + first - 1) THEN batch[i - tail + 1]
                      ELSE IF i \in mid..(mid + rest - 1)
                           THEN batch[first + (i - mid) + 1]
                           ELSE buf[i]]
        /\ tail' = At(mid + rest)
        /\ count' = count + n
        /\ data' = batch
        /\ Signal
        /\ UNCHANGED <<head, want, dest>>

\* The number of elements one pop copies: never past the end of the buffer.
ItemsToPop(max) == Least(Least(count, max), Capacity - head)

\* The tail of every pop: copy out, advance the head, shrink the count.
Remove(c, max) ==
    LET n == ItemsToPop(max)
    IN  /\ dest' = [dest EXCEPT ![c] = [i \in 1..n |-> buf[head + i - 1]]]
        /\ head' = At(head + n)
        /\ count' = count - n
        /\ UNCHANGED <<buf, tail, data>>

\* prot_queue_try_pop_all: an empty queue is a return of 0 that changes nothing.
TryPopAll(c, max) ==
    /\ call[c] = "idle"
    /\ count # 0
    /\ Remove(c, max)
    /\ UNCHANGED <<call, want>>

\* The loop test of a blocking pop, after the lock or after a wake-up.
PopOrWait(c, max) ==
    \/ /\ count = 0
       /\ call' = [call EXCEPT ![c] = "waiting"]
       /\ want' = [want EXCEPT ![c] = max]
       /\ UNCHANGED <<buf, head, tail, count, dest, data>>
    \/ /\ count # 0
       /\ call' = [call EXCEPT ![c] = "idle"]
       /\ Remove(c, max)
       /\ UNCHANGED want

\* prot_queue_pop_all; with max = 1 it is also prot_queue_pop.
PopAll(c, max) == call[c] = "idle" /\ PopOrWait(c, max)

\* pthread_cond_wait returned: test the count again.
Resume(c) == call[c] = "woken" /\ PopOrWait(c, want[c])

\* pthread_cond_wait may return with nobody having signalled.
SpuriousWakeup(c) ==
    /\ call[c] = "waiting"
    /\ call' = [call EXCEPT ![c] = "woken"]
    /\ UNCHANGED <<buf, head, tail, count, want, dest, data>>

Next ==
    \/ \E d \in Item : Push(d)
    \/ \E n \in PushSizes : \E batch \in [1..n -> Item] : PushAll(batch)
    \/ \E c \in Consumers :
          \/ \E max \in 1..MaxItems : TryPopAll(c, max) \/ PopAll(c, max)
          \/ Resume(c)
          \/ SpuriousWakeup(c)

\* A consumer thread loops on its blocking pop, so it always calls again, and a
\* woken one gets the mutex back.  No push is ever promised.
Fairness ==
    \A c \in Consumers :
        /\ WF_vars(\E max \in 1..MaxItems : PopAll(c, max))
        /\ WF_vars(Resume(c))

Spec == Init /\ [][Next]_vars

FairSpec == Spec /\ Fairness

-----------------------------------------------------------------------------
(* Properties *)

\* The indices stay inside the buffer, the count inside its capacity, and a pop
\* only ever hands out elements that were pushed.
TypeOK ==
    /\ buf \in [Slot -> Item \cup {NoItem}]
    /\ head \in Slot
    /\ tail \in Slot
    /\ count \in 0..Capacity
    /\ call \in [Consumers -> {"idle", "waiting", "woken"}]
    /\ want \in [Consumers -> 1..MaxItems]
    /\ dest \in [Consumers -> Seq(Item)]
    /\ data \in Seq(Item)

\* The indices agree with the count (tail is where the next element belongs,
\* also after a batch that wraps), and every slot in use holds a pushed element.
RingOK ==
    /\ tail = At(head + count)
    /\ \A i \in 1..count : Contents[i] \in Item

\* No lost wake-up: a consumer sleeping in pthread_cond_wait while the queue
\* holds elements is never the only hope, somebody already woken will take them.
NoLostWakeup == (Waiting # {} /\ count > 0) => Woken # {}

\* The counting argument behind NoLostWakeup: while anybody sleeps, there are at
\* least as many woken consumers as elements.
WakeupsCoverCount == Waiting # {} => Cardinality(Woken) >= count

\* The ring implements the bounded queue of BoundedFifo: order kept, nothing
\* lost, nothing duplicated, across wrap-around and partial pops.
Fifo == INSTANCE BoundedFifo WITH items <- Contents

ImplementsFifo == Fifo!FifoSpec

\* Every element pushed is handed to some consumer.
Delivered ==
    \A d \in Item :
        (\E i \in 1..count : Contents[i] = d)
            ~> (\E c \in Consumers : \E i \in 1..Len(dest[c]) : dest[c][i] = d)
=============================================================================
