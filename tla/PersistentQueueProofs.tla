------------------------ MODULE PersistentQueueProofs ------------------------
(***************************************************************************)
(* Proofs about PersistentQueue: its type invariant for any number of      *)
(* reopenings, FIFO order for one process lifetime, and the refinement of  *)
(* FifoQueue.                                                              *)
(***************************************************************************)
EXTENDS QueueRefinement, FiniteSetTheorems, SequenceTheorems, TLAPS

USE QueueAssumption

-----------------------------------------------------------------------------
(* Enqueue, Dequeue, Close and the reopening of NewPersistentQueue keep    *)
(* the database a map from keys to items and the counter a uint64, for any *)
(* number of calls: q.seq++ at 2^64 - 1 gives 0, an Enqueue of QueueNext.  *)
THEOREM QueueTypeCorrect == QueueSpec => []QueueTypeOK
<1>1. QueueInit => QueueTypeOK
  BY DEF QueueInit, QueueTypeOK, Key
<1>2. QueueTypeOK /\ [QueueNext]_qvars => QueueTypeOK'
  <2> SUFFICES ASSUME QueueTypeOK, [QueueNext]_qvars
               PROVE  QueueTypeOK'
    OBVIOUS
  <2> USE DEF QueueTypeOK, Key
  <2>1. NextSeq \in Key
    BY DEF NextSeq
  <2>2. ASSUME NEW x \in Item, Enqueue(x) PROVE QueueTypeOK'
    BY <2>1, <2>2 DEF Enqueue, EnqueueOk, EnqueueErr
  <2>3. ASSUME NEW x \in Item, DequeueOk(x) PROVE QueueTypeOK'
    BY <2>3 DEF DequeueOk
  <2>4. CASE DequeueUndecodable
    BY <2>4 DEF DequeueUndecodable
  <2>5. CASE DequeueErr
    BY <2>5 DEF DequeueErr, qvars
  <2>6. CASE Close
    BY <2>6 DEF Close
  <2>7. CASE Reopen
    BY <2>7 DEF Reopen
  <2>8. CASE UNCHANGED qvars
    BY <2>8 DEF qvars
  <2> QED
    BY <2>2, <2>3, <2>4, <2>5, <2>6, <2>7, <2>8 DEF LifeNext, QueueNext
<1> QED
  BY <1>1, <1>2, PTL DEF QueueSpec

-----------------------------------------------------------------------------
(* One process lifetime is a behaviour of the queue without reopenings. *)
LEMMA LifeTypeCorrect == LifeSpec => []QueueTypeOK
<1>1. [LifeNext]_qvars => [QueueNext]_qvars
  BY DEF QueueNext
<1>2. LifeSpec => QueueSpec
  BY <1>1, PTL DEF LifeSpec, QueueSpec
<1> QED
  BY <1>2, QueueTypeCorrect

(* Within one process lifetime no Enqueue meets a key at or ahead of its   *)
(* own: q.seq is never behind the database.                                *)
THEOREM QueueKeysBehindSeq == LifeSpec => []KeysBehindSeq
<1>1. QueueInit => KeysBehindSeq
  BY DEF QueueInit, KeysBehindSeq, Live
<1>2. QueueTypeOK /\ KeysBehindSeq /\ [LifeNext]_qvars => KeysBehindSeq'
  <2> SUFFICES ASSUME QueueTypeOK, KeysBehindSeq, [LifeNext]_qvars
               PROVE  KeysBehindSeq'
    OBVIOUS
  <2> USE DEF QueueTypeOK, KeysBehindSeq, Live, Key
  <2>1. ASSUME NEW x \in Item, seq < SeqSpace - 1, Enqueue(x)
        PROVE  KeysBehindSeq'
    BY <2>1 DEF Enqueue, EnqueueOk, EnqueueErr, NextSeq
  <2>2. ASSUME NEW x \in Item, DequeueOk(x) PROVE KeysBehindSeq'
    BY <2>2 DEF DequeueOk, IsOldest
  <2>3. CASE DequeueUndecodable
    BY <2>3 DEF DequeueUndecodable, IsOldest
  <2>4. CASE DequeueErr \/ Close \/ UNCHANGED qvars
    BY <2>4 DEF DequeueErr, Close, qvars
  <2> QED
    BY <2>1, <2>2, <2>3, <2>4 DEF LifeNext
<1> QED
  BY <1>1, <1>2, LifeTypeCorrect, PTL DEF LifeSpec

-----------------------------------------------------------------------------
(* Within one process lifetime every change of the disk is FIFO: Dequeue   *)
(* removes the oldest item, Enqueue adds behind the newest and overwrites  *)
(* nothing.                                                                *)
THEOREM QueueIsFifo == LifeSpec => FifoOrder
<1>1. QueueTypeOK /\ KeysBehindSeq /\ [LifeNext]_qvars => [FifoStep]_qvars
  <2> SUFFICES ASSUME QueueTypeOK, KeysBehindSeq, LifeNext
               PROVE  FifoStep
    OBVIOUS
  <2>1. ASSUME NEW x \in Item, seq < SeqSpace - 1, EnqueueOk(x)
        PROVE  FifoStep
    <3>1. seq + 1 \in Key \ Live /\ \A j \in Live : j < seq + 1
      BY <2>1 DEF QueueTypeOK, KeysBehindSeq, Live, Key
    <3>2. NextSeq = seq + 1
      BY <2>1 DEF NextSeq, QueueTypeOK, Key
    <3>3. NextSeq \in Key \ Live /\ \A j \in Live : j < NextSeq
      BY <3>1, <3>2
    <3> QED
      BY <2>1, <3>3 DEF EnqueueOk, FifoStep
  <2>2. ASSUME NEW x \in Item, EnqueueErr(x) PROVE FifoStep
    BY <2>2 DEF EnqueueErr, FifoStep
  <2>3. ASSUME NEW x \in Item, DequeueOk(x) PROVE FifoStep
    BY <2>3 DEF DequeueOk, FifoStep
  <2>4. CASE DequeueUndecodable
    BY <2>4 DEF DequeueUndecodable, FifoStep
  <2>5. CASE DequeueErr \/ Close
    BY <2>5 DEF DequeueErr, Close, FifoStep, qvars
  <2> QED
    BY <2>1, <2>2, <2>3, <2>4, <2>5 DEF LifeNext, Enqueue
<1> QED
  BY <1>1, LifeTypeCorrect, QueueKeysBehindSeq, PTL DEF LifeSpec, FifoOrder

-----------------------------------------------------------------------------
(* The refinement mapping. Every position of a set of keys is taken:       *)
(* KeyAt is defined on 1 .. Cardinality(S).                                *)
Ranked(S) == \A i \in 1 .. Cardinality(S) : \E k \in S : Rank(S, k) = i

LEMMA RankType ==
    ASSUME NEW S \in SUBSET Nat, IsFiniteSet(S), NEW k \in Nat
    PROVE  /\ Rank(S, k) \in Nat
           /\ Rank(S, k) <= Cardinality(S)
<1>1. {j \in S : j <= k} \in SUBSET S
  OBVIOUS
<1> QED
  BY <1>1, FS_Subset, FS_CardinalityType DEF Rank

(* Two keys have different positions. *)
LEMMA RankInjective ==
    ASSUME NEW S \in SUBSET Nat, IsFiniteSet(S), NEW k \in S, NEW j \in S,
           Rank(S, k) = Rank(S, j)
    PROVE  k = j
<1> DEFINE Upto(x) == {i \in S : i <= x}
<1>1. ASSUME NEW x \in S, NEW y \in S, x < y, Rank(S, x) = Rank(S, y)
      PROVE  FALSE
  <2>0. ASSUME NEW i \in S, i <= x PROVE i <= y
    <3>1. i \in Nat /\ x \in Nat /\ y \in Nat
      OBVIOUS
    <3> QED
      BY <1>1, <2>0, <3>1
  <2>1. Upto(x) \in SUBSET Upto(y) /\ Upto(y) \in SUBSET S
    BY <2>0
  <2>2. IsFiniteSet(Upto(y))
    BY <2>1, FS_Subset
  <2>3. Upto(y) = Upto(x)
    BY <1>1, <2>1, <2>2, FS_Subset DEF Rank
  <2>4. y \in Upto(y) /\ y \notin Upto(x)
    BY <1>1
  <2> QED
    BY <2>3, <2>4
<1>2. k \in Nat /\ j \in Nat
  OBVIOUS
<1>3. ~(k < j) /\ ~(j < k)
  BY <1>1
<1> QED
  BY <1>2, <1>3

(* Hence the key at a position is the one key of that rank. *)
LEMMA KeyAtIs ==
    ASSUME NEW S \in SUBSET Nat, IsFiniteSet(S), NEW k \in S
    PROVE  KeyAt(S, Rank(S, k)) = k
<1> DEFINE j == KeyAt(S, Rank(S, k))
<1>1. j \in S /\ Rank(S, j) = Rank(S, k)
  BY DEF KeyAt
<1> HIDE DEF j
<1>2. j = k
  BY <1>1, RankInjective
<1> QED
  BY <1>2 DEF j

(* A key behind all the others leaves their positions and takes the next.  *)
LEMMA RankAdded ==
    ASSUME NEW S \in SUBSET Nat, IsFiniteSet(S), Ranked(S),
           NEW k \in Nat \ S, \A j \in S : j < k
    PROVE  /\ IsFiniteSet(S \cup {k})
           /\ Cardinality(S \cup {k}) = Cardinality(S) + 1
           /\ Ranked(S \cup {k})
           /\ \A i \in 1 .. Cardinality(S) :
                 KeyAt(S \cup {k}, i) = KeyAt(S, i)
           /\ KeyAt(S \cup {k}, Cardinality(S) + 1) = k
<1> DEFINE T == S \cup {k}
<1>1. IsFiniteSet(T) /\ Cardinality(T) = Cardinality(S) + 1
  BY FS_AddElement
<1>2. T \in SUBSET Nat /\ Cardinality(S) \in Nat
  BY FS_CardinalityType
<1>3. ASSUME NEW j \in S PROVE Rank(T, j) = Rank(S, j)
  <2>1. {i \in T : i <= j} = {i \in S : i <= j}
    OBVIOUS
  <2> QED
    BY <2>1 DEF Rank
<1>4. Rank(T, k) = Cardinality(S) + 1
  <2>0. \A i \in T : i <= k
    OBVIOUS
  <2>1. {i \in T : i <= k} = T
    BY <2>0
  <2> QED
    BY <1>1, <2>1 DEF Rank
<1>5. ASSUME NEW i \in 1 .. Cardinality(S)
      PROVE  KeyAt(T, i) = KeyAt(S, i) /\ \E j \in T : Rank(T, j) = i
  <2>1. PICK j \in S : Rank(S, j) = i
    BY DEF Ranked
  <2>2. KeyAt(S, i) = j
    BY <2>1, KeyAtIs
  <2>3. KeyAt(T, i) = j
    BY <1>1, <1>2, <1>3, <2>1, KeyAtIs
  <2> QED
    BY <1>3, <2>1, <2>2, <2>3
<1>6. KeyAt(T, Cardinality(S) + 1) = k
  <2>1. k \in T
    OBVIOUS
  <2> QED
    BY <1>1, <1>2, <1>4, <2>1, KeyAtIs
<1>7. Ranked(T)
  <2> SUFFICES ASSUME NEW i \in 1 .. Cardinality(T)
               PROVE  \E j \in T : Rank(T, j) = i
    BY DEF Ranked
  <2>1. i \in 1 .. Cardinality(S) \/ i = Cardinality(S) + 1
    BY <1>1, <1>2
  <2> QED
    BY <1>4, <1>5, <2>1
<1> QED
  BY <1>1, <1>5, <1>6, <1>7

(* Without its least key every other key moves up by one position.         *)
LEMMA RankRemoved ==
    ASSUME NEW S \in SUBSET Nat, IsFiniteSet(S), Ranked(S),
           NEW k \in S, \A j \in S : k <= j
    PROVE  /\ IsFiniteSet(S \ {k})
           /\ Cardinality(S \ {k}) = Cardinality(S) - 1
           /\ Cardinality(S) >= 1
           /\ Ranked(S \ {k})
           /\ \A i \in 1 .. Cardinality(S) - 1 :
                 KeyAt(S \ {k}, i) = KeyAt(S, i + 1)
<1> DEFINE T == S \ {k}
<1>1. IsFiniteSet(T) /\ Cardinality(T) = Cardinality(S) - 1
  BY FS_RemoveElement
<1>2. /\ T \in SUBSET Nat /\ Cardinality(S) \in Nat
      /\ Cardinality(S) >= 1
  BY <1>1, FS_CardinalityType
<1>3. Rank(S, k) = 1
  <2>0. \A i \in S : i <= k <=> i = k
    <3> SUFFICES ASSUME NEW i \in S PROVE i <= k <=> i = k
      OBVIOUS
    <3>1. i \in Nat /\ k \in Nat /\ k <= i
      OBVIOUS
    <3> QED
      BY <3>1
  <2>1. {i \in S : i <= k} = {k}
    BY <2>0
  <2> QED
    BY <2>1, FS_Singleton DEF Rank
<1>4. ASSUME NEW j \in T PROVE Rank(T, j) = Rank(S, j) - 1
  <2> DEFINE U == {i \in S : i <= j}
  <2>1. U \in SUBSET S /\ k \in U
    OBVIOUS
  <2>2. IsFiniteSet(U)
    BY <2>1, FS_Subset
  <2>3. Cardinality(U \ {k}) = Cardinality(U) - 1
    BY <2>1, <2>2, FS_RemoveElement
  <2>4. {i \in T : i <= j} = U \ {k}
    OBVIOUS
  <2> QED
    BY <2>3, <2>4 DEF Rank
<1>5. ASSUME NEW i \in 1 .. Cardinality(S) - 1
      PROVE  KeyAt(T, i) = KeyAt(S, i + 1) /\ \E j \in T : Rank(T, j) = i
  <2>1. i + 1 \in 1 .. Cardinality(S) /\ i + 1 # 1 /\ i + 1 - 1 = i
    BY <1>2
  <2>2. PICK j \in S : Rank(S, j) = i + 1
    BY <2>1 DEF Ranked
  <2>3. j \in T
    BY <1>3, <2>1, <2>2
  <2>4. Rank(T, j) = i
    BY <1>4, <2>1, <2>2, <2>3
  <2>5. KeyAt(S, i + 1) = j
    BY <2>2, KeyAtIs
  <2>6. KeyAt(T, i) = j
    BY <1>1, <1>2, <2>3, <2>4, KeyAtIs
  <2> QED
    BY <2>3, <2>4, <2>5, <2>6
<1>6. Ranked(T)
  BY <1>1, <1>5 DEF Ranked
<1> QED
  BY <1>1, <1>2, <1>5, <1>6

-----------------------------------------------------------------------------
LEMMA LiveFinite ==
    /\ Live \in SUBSET Nat /\ IsFiniteSet(Live)
    /\ QueueLen \in Nat
<1>1. IsFiniteSet(Key) /\ Key \in SUBSET Nat
  BY FS_Interval DEF Key
<1>2. Live \in SUBSET Key
  BY DEF Live
<1>3. IsFiniteSet(Live)
  BY <1>1, <1>2, FS_Subset
<1> QED
  BY <1>1, <1>2, <1>3, FS_CardinalityType DEF QueueLen

LEMMA KeyAtLive ==
    ASSUME Ranked(Live), NEW i \in 1 .. QueueLen
    PROVE  KeyAt(Live, i) \in Live
<1>1. \E k \in Live : Rank(Live, k) = i
  BY DEF Ranked, QueueLen
<1> QED
  BY <1>1 DEF KeyAt

LEMMA ContentsType ==
    ASSUME QueueTypeOK, Ranked(Live)
    PROVE  /\ Contents \in Seq(Item)
           /\ Len(Contents) = QueueLen
           /\ \A i \in 1 .. QueueLen : Contents[i] = db[KeyAt(Live, i)]
<1>1. ASSUME NEW i \in 1 .. QueueLen PROVE db[KeyAt(Live, i)] \in Item
  BY KeyAtLive DEF QueueTypeOK, Live
<1>2. Contents \in [1 .. QueueLen -> Item]
  BY <1>1 DEF Contents
<1> QED
  BY <1>2, LiveFinite DEF Contents

(* A sequence is determined by its length and its elements. *)
LEMMA SeqAsFunction ==
    ASSUME NEW S, NEW s \in Seq(S)
    PROVE  s = [i \in 1 .. Len(s) |-> s[i]]
  OBVIOUS

(* An item stored under a key behind all others is appended. *)
LEMMA PutStep ==
    ASSUME QueueTypeOK, Ranked(Live), NEW k \in Key \ Live, NEW x \in Item,
           \A j \in Live : j < k, db' = [db EXCEPT ![k] = x]
    PROVE  /\ Ranked(Live)'
           /\ Contents' = Append(Contents, x)
<1>1. Live' = Live \cup {k}
  BY DEF Live, QueueTypeOK
<1>2. k \in Nat
  BY DEF Key
<1>3. /\ Ranked(Live') /\ Cardinality(Live') = QueueLen + 1
      /\ \A i \in 1 .. QueueLen : KeyAt(Live', i) = KeyAt(Live, i)
      /\ KeyAt(Live', QueueLen + 1) = k
  <2>1. k \in Nat \ Live
    BY <1>2
  <2> QED
    BY <1>1, <2>1, LiveFinite, RankAdded DEF QueueLen
<1>4. Contents' = [i \in 1 .. QueueLen + 1 |-> db'[KeyAt(Live', i)]]
  BY <1>3 DEF Contents, QueueLen
<1>5. \A i \in 1 .. QueueLen : db'[KeyAt(Live', i)] = Contents[i]
  BY <1>3, KeyAtLive, ContentsType DEF QueueTypeOK, Live
<1>6. db'[KeyAt(Live', QueueLen + 1)] = x
  BY <1>3 DEF QueueTypeOK
<1>7. Append(Contents, x) = [i \in 1 .. QueueLen + 1 |->
                               IF i = QueueLen + 1 THEN x ELSE Contents[i]]
  <2>1. /\ Append(Contents, x) \in Seq(Item)
        /\ Len(Append(Contents, x)) = QueueLen + 1
        /\ \A i \in 1 .. QueueLen : Append(Contents, x)[i] = Contents[i]
        /\ Append(Contents, x)[QueueLen + 1] = x
    BY ContentsType, AppendProperties
  <2>2. Append(Contents, x)
          = [i \in 1 .. QueueLen + 1 |-> Append(Contents, x)[i]]
    BY <2>1, SeqAsFunction
  <2> QED
    BY <2>1, <2>2, LiveFinite
<1>8. Contents' = Append(Contents, x)
  BY <1>4, <1>5, <1>6, <1>7, LiveFinite
<1>9. Ranked(Live)'
  BY <1>3 DEF Ranked, Rank
<1> QED
  BY <1>8, <1>9

(* Deleting the oldest key takes the head off. *)
LEMMA GetStep ==
    ASSUME QueueTypeOK, Ranked(Live), NEW k \in Key, IsOldest(k),
           db' = [db EXCEPT ![k] = NoItem]
    PROVE  /\ Ranked(Live)'
           /\ Contents # <<>> /\ Contents' = Tail(Contents)
<1>1. Live' = Live \ {k}
  BY DEF Live, QueueTypeOK
<1>2. k \in Live /\ \A j \in Live : k <= j
  BY DEF IsOldest
<1>3. /\ Ranked(Live') /\ Cardinality(Live') = QueueLen - 1
      /\ QueueLen >= 1
      /\ \A i \in 1 .. QueueLen - 1 : KeyAt(Live', i) = KeyAt(Live, i + 1)
  BY <1>1, <1>2, LiveFinite, RankRemoved DEF QueueLen
<1>4. Contents' = [i \in 1 .. QueueLen - 1 |-> db'[KeyAt(Live', i)]]
  BY <1>3 DEF Contents, QueueLen
<1>5. ASSUME NEW i \in 1 .. QueueLen - 1
      PROVE  db'[KeyAt(Live', i)] = Contents[i + 1]
  <2>1. i + 1 \in 1 .. QueueLen
    BY LiveFinite
  <2>2. KeyAt(Live', i) \in Live'
    BY <1>3, KeyAtLive, LiveFinite DEF KeyAt, Ranked
  <2>3. db'[KeyAt(Live', i)] = db[KeyAt(Live', i)]
    BY <1>1, <2>2 DEF QueueTypeOK, Live
  <2> QED
    BY <1>3, <2>1, <2>3, ContentsType
<1>6. Contents # <<>>
  BY <1>3, ContentsType
<1>7. Tail(Contents) = [i \in 1 .. QueueLen - 1 |-> Contents[i + 1]]
  <2>1. /\ Tail(Contents) \in Seq(Item)
        /\ Len(Tail(Contents)) = QueueLen - 1
        /\ \A i \in 1 .. QueueLen - 1 : Tail(Contents)[i] = Contents[i + 1]
    BY <1>6, ContentsType, HeadTailProperties
  <2>2. Tail(Contents) = [i \in 1 .. QueueLen - 1 |-> Tail(Contents)[i]]
    BY <2>1, SeqAsFunction
  <2> QED
    BY <2>1, <2>2
<1>8. Contents' = Tail(Contents)
  BY <1>4, <1>5, <1>7
<1>9. Ranked(Live)'
  BY <1>3 DEF Ranked, Rank
<1> QED
  BY <1>6, <1>8, <1>9

(* The Badger queue implements the FIFO queue of queue.go's comment, for   *)
(* any items, errors and number of calls below 2^64: every transaction is  *)
(* a Put at the end, a Get at the front or invisible.                      *)
THEOREM QueueImplementsFifo == LifeSpec => ImplementsFifo
<1>1. QueueInit => Ranked(Live) /\ Fifo!FifoInit
  <2> SUFFICES ASSUME QueueInit PROVE Ranked(Live) /\ Contents = <<>>
    BY DEF Fifo!FifoInit
  <2>1. Live = {}
    BY DEF QueueInit, Live
  <2>2. QueueLen = 0
    BY <2>1, FS_EmptySet DEF QueueLen
  <2> QED
    BY <2>2 DEF Ranked, QueueLen, Contents
<1>2. QueueTypeOK /\ Ranked(Live) /\ [FifoStep]_qvars
      => Ranked(Live)' /\ [Fifo!FifoNext]_Contents
  <2> SUFFICES ASSUME QueueTypeOK, Ranked(Live), [FifoStep]_qvars
               PROVE  Ranked(Live)' /\ [Fifo!FifoNext]_Contents
    OBVIOUS
  <2>1. CASE db' = db
    BY <2>1 DEF Ranked, Rank, Live, Contents, QueueLen, KeyAt
  <2>2. ASSUME NEW k \in Key, IsOldest(k), db' = [db EXCEPT ![k] = NoItem]
        PROVE  Ranked(Live)' /\ Fifo!FifoNext
    BY <2>2, GetStep DEF Fifo!FifoNext, Fifo!Get
  <2>3. ASSUME NEW k \in Key \ Live, NEW x \in Item,
               \A j \in Live : j < k, db' = [db EXCEPT ![k] = x]
        PROVE  Ranked(Live)' /\ Fifo!FifoNext
    BY <2>3, PutStep DEF Fifo!FifoNext, Fifo!Put
  <2> QED
    BY <2>1, <2>2, <2>3 DEF FifoStep, qvars
<1> QED
  BY <1>1, <1>2, LifeTypeCorrect, QueueIsFifo, PTL
     DEF LifeSpec, FifoOrder, ImplementsFifo, Fifo!FifoSpec
=============================================================================
