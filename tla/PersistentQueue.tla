-------------------------- MODULE PersistentQueue --------------------------
(***************************************************************************)
(* The disk-backed queue of internal/persistence/queue.go: a Badger        *)
(* database whose keys are a uint64 sequence number written big-endian, so *)
(* that the byte order in which Badger iterates is the numeric order.      *)
(* Enqueue, Dequeue and Len hold the queue's mutex for their whole body,   *)
(* so each is one atomic step.                                             *)
(***************************************************************************)
EXTENDS Integers, FiniteSets

CONSTANTS
    Item,            \* what callers enqueue
    NoItem,          \* the value of a key that is not in the database
    Unserializable,  \* items json.Marshal rejects (they hold a NaN, an infinity, ...)
    Undecodable,     \* items whose JSON does not decode into the caller's type
    SeqSpace,        \* number of sequence values, 2^64 in the code
    MaxReopen,       \* bound on how often the directory is reopened
    DiskErrors       \* operations that may fail on an open database

ASSUME QueueAssumption ==
    /\ NoItem \notin Item
    /\ Unserializable \subseteq Item
    /\ Undecodable \subseteq Item
    /\ SeqSpace \in Nat \ {0, 1}
    /\ MaxReopen \in Nat
    /\ DiskErrors \subseteq {"enqueue", "dequeue", "len"}

VARIABLES
    db,       \* the Badger database: survives the process
    seq,      \* q.seq: in memory only
    open,     \* the database has not been closed
    reopens   \* how often the directory has been reopened

qvars == <<db, seq, open, reopens>>

Key == 0 .. SeqSpace - 1

Live == {k \in Key : db[k] # NoItem}

IsOldest(k) == k \in Live /\ \A j \in Live : k <= j

(* Len: the number of keys in the database. *)
QueueLen == Cardinality(Live)

(* q.seq++ on a uint64. *)
NextSeq == IF seq = SeqSpace - 1 THEN 0 ELSE seq + 1

QueueTypeOK ==
    /\ db \in [Key -> Item \cup {NoItem}]
    /\ seq \in Key
    /\ open \in BOOLEAN
    /\ reopens \in 0 .. MaxReopen

(* NewPersistentQueue on a directory that holds nothing yet. *)
QueueInit ==
    /\ db = [k \in Key |-> NoItem]
    /\ seq = 0
    /\ open = TRUE
    /\ reopens = 0

-----------------------------------------------------------------------------
(* A bug: the increment is left out, every item goes to the next key. *)
BugEnqueueSameKey(x) ==
    /\ open
    /\ x \notin Unserializable
    /\ db' = [db EXCEPT ![NextSeq] = x]
    /\ UNCHANGED <<seq, open, reopens>>

(* Enqueue returns nil: the item is stored under the new sequence number,  *)
(* whatever that key held before (txn.Set overwrites).                     *)
EnqueueOk(x) ==
    /\ open
    /\ x \notin Unserializable
    /\ seq' = NextSeq
    /\ db' = [db EXCEPT ![NextSeq] = x]
    /\ UNCHANGED <<open, reopens>>

(* A transaction returns an error. *)
TxnFails(op) == ~open \/ op \in DiskErrors

(* Enqueue returns an error (json.Marshal's or the transaction's): the     *)
(* sequence number has been consumed, nothing is stored.                   *)
EnqueueErr(x) ==
    /\ x \in Unserializable \/ TxnFails("enqueue")
    /\ seq' = NextSeq
    /\ UNCHANGED <<db, open, reopens>>

Enqueue(x) == EnqueueOk(x) \/ EnqueueErr(x)

(* A bug: the iterator is opened with Reverse set. *)
BugDequeueNewest(x) ==
    /\ open
    /\ x \notin Undecodable
    /\ \E k \in Live :
          /\ \A j \in Live : j <= k
          /\ db[k] = x
          /\ db' = [db EXCEPT ![k] = NoItem]
    /\ UNCHANGED <<seq, open, reopens>>

(* Dequeue deletes the smallest key and hands its item out. *)
DequeueOk(x) ==
    /\ open
    /\ x \notin Undecodable
    /\ \E k \in Key :
          /\ IsOldest(k)
          /\ db[k] = x
          /\ db' = [db EXCEPT ![k] = NoItem]
    /\ UNCHANGED <<seq, open, reopens>>

(* The delete is committed before json.Unmarshal runs: an item that does   *)
(* not decode is gone although the caller gets an error.                   *)
DequeueUndecodable ==
    /\ open
    /\ \E k \in Key :
          /\ IsOldest(k)
          /\ db[k] \in Undecodable
          /\ db' = [db EXCEPT ![k] = NoItem]
    /\ UNCHANGED <<seq, open, reopens>>

(* Dequeue returns an error and changes nothing: the queue is empty        *)
(* (ErrKeyNotFound) or the transaction failed.                             *)
DequeueErr ==
    /\ Live = {} \/ TxnFails("dequeue")
    /\ UNCHANGED qvars

(* Close: later transactions fail. *)
Close ==
    /\ open
    /\ open' = FALSE
    /\ UNCHANGED <<db, seq, reopens>>

(* The process ends, cleanly or not, and a new one opens the directory:    *)
(* NewPersistentQueue starts again from seq 0 whatever the keys on disk.   *)
Reopen ==
    /\ reopens < MaxReopen
    /\ reopens' = reopens + 1
    /\ seq' = 0
    /\ open' = TRUE
    /\ UNCHANGED db

-----------------------------------------------------------------------------
(* The queue in one process, driven by arbitrary callers. A process makes  *)
(* fewer than SeqSpace - 1 = 2^64 - 1 Enqueue calls: the first conjunct is *)
(* that bound.                                                             *)
LifeNext ==
    \/ seq < SeqSpace - 1 /\ \E x \in Item : Enqueue(x)
    \/ \E x \in Item : DequeueOk(x)
    \/ DequeueUndecodable
    \/ DequeueErr
    \/ Close

LifeSpec == QueueInit /\ [][LifeNext]_qvars

(* The queue over a sequence of processes, without that bound: an Enqueue  *)
(* at q.seq = 2^64 - 1 goes on from key 0.                                 *)
QueueNext ==
    \/ LifeNext
    \/ \E x \in Item : Enqueue(x)
    \/ Reopen

QueueSpec == QueueInit /\ [][QueueNext]_qvars

-----------------------------------------------------------------------------
(* Every step that changes the disk either removes the oldest item or adds *)
(* one item behind all the others: nothing is overwritten, nothing jumps   *)
(* the queue ("Monotonically increasing sequence for FIFO", queue.go:16).  *)
FifoStep ==
    \/ db' = db
    \/ \E k \in Key : IsOldest(k) /\ db' = [db EXCEPT ![k] = NoItem]
    \/ \E k \in Key \ Live, x \in Item :
          /\ \A j \in Live : j < k
          /\ db' = [db EXCEPT ![k] = x]

(* The action property [][FifoStep] of the queue of queue.go, as a formula. *)
FifoOrder == [][FifoStep]_qvars

(* No key on disk is ahead of q.seq, so that the next Enqueue takes a      *)
(* fresh key behind all others: what makes FifoStep hold.                  *)
KeysBehindSeq == \A k \in Live : k <= seq
=============================================================================
