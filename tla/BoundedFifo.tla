---------------------------- MODULE BoundedFifo ----------------------------
(***************************************************************************)
(* What a queue of protected_queue.h promises to the threads that share it:*)
(* a bounded first-in first-out buffer.  An accepted push appends at the   *)
(* end, a pop hands a non-empty prefix to one consumer, and nothing else   *)
(* touches the contents.  There is no ring, no mutex and no condition      *)
(* variable here; module ProtQueue has them and implements this one.       *)
(***************************************************************************)
EXTENDS Naturals, Sequences

CONSTANTS Item,         \* the messages a queue may hold
          Capacity,     \* most messages it may hold at once
          Consumers     \* the threads that pop from it

VARIABLES items,        \* the messages in the queue, oldest first
          dest,         \* dest[c]: what the last pop of c returned
          data          \* the batch of the last accepted push

fifoVars == <<items, dest, data>>

FifoInit ==
    /\ items = <<>>
    /\ dest = [c \in Consumers |-> <<>>]
    /\ data = <<>>

\* Accept the messages of batch, all of them or none.
Put(batch) ==
    /\ items' = items \o batch
    /\ data' = batch
    /\ UNCHANGED dest

\* Hand the n oldest messages to consumer c.
Take(c, n) ==
    /\ dest' = [dest EXCEPT ![c] = SubSeq(items, 1, n)]
    /\ items' = SubSeq(items, n + 1, Len(items))
    /\ UNCHANGED data

FifoNext ==
    \/ \E n \in 1..(Capacity - Len(items)) : \E batch \in [1..n -> Item] : Put(batch)
    \/ \E c \in Consumers : \E n \in 1..Len(items) : Take(c, n)

FifoSpec == FifoInit /\ [][FifoNext]_fifoVars
=============================================================================
