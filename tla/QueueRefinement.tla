-------------------------- MODULE QueueRefinement --------------------------
(***************************************************************************)
(* PersistentQueue as an implementation of FifoQueue: the abstract queue   *)
(* is the stored items in key order.                                       *)
(***************************************************************************)
EXTENDS PersistentQueue, Sequences

(* The position of key k among the keys S. *)
Rank(S, k) == Cardinality({j \in S : j <= k})

(* The key at position i, as an iterator over S meets it. *)
KeyAt(S, i) == CHOOSE k \in S : Rank(S, k) = i

Contents == [i \in 1 .. QueueLen |-> db[KeyAt(Live, i)]]

Fifo == INSTANCE FifoQueue WITH q <- Contents

(* The Badger queue of queue.go, read in key order, behaves as a FIFO      *)
(* queue for as long as one process has the directory open.                *)
ImplementsFifo == Fifo!FifoSpec
=============================================================================
