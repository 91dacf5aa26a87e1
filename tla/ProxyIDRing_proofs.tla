------------------------- MODULE ProxyIDRing_proofs -------------------------
(***************************************************************************)
(* Proofs about ProxyIDRing, for every set of shards and tasks and every   *)
(* initial capacity.                                                       *)
(***************************************************************************)
EXTENDS ProxyIDRing, WellFoundedInduction, TLAPS

USE SMTT(30)

(* Index arithmetic of the ring: head + i is below twice the capacity, so  *)
(* the modulo subtracts the capacity at most once.                         *)
LEMMA ModCases ==
  ASSUME NEW n \in Nat \ {0}, NEW x \in Nat, x < 2 * n
  PROVE  x % n = IF x < n THEN x ELSE x - n
  BY SMT

(* Where the i-th entry of a ring is.                                      *)
Wrap(x, cap) == IF x < cap THEN x ELSE x - cap

(* The slot of the i-th entry from the head is a slot of the buffer.       *)
LEMMA IndexOf ==
  ASSUME NEW b, IsRing(b), NEW i \in 0..b.cap
  PROVE  /\ (b.head + i) % b.cap = Wrap(b.head + i, b.cap)
         /\ Wrap(b.head + i, b.cap) \in 0..(b.cap - 1)
<1>1. b.cap \in Nat \ {0} /\ b.head \in 0..(b.cap - 1)
  BY Zenon DEF IsRing
<1>2. b.head + i \in Nat /\ b.head + i < 2 * b.cap
  BY <1>1
<1>3. (b.head + i) % b.cap = Wrap(b.head + i, b.cap)
  BY Zenon, <1>1, <1>2, ModCases DEF Wrap
<1> QED  BY <1>1, <1>3 DEF Wrap

(* Two entries are not in one place.                                       *)
LEMMA WrapDistinct ==
  ASSUME NEW cap \in Nat \ {0}, NEW head \in 0..(cap - 1),
         NEW i \in 0..(cap - 1), NEW j \in 0..(cap - 1), i # j
  PROVE  Wrap(head + i, cap) # Wrap(head + j, cap)
  BY DEF Wrap

(* Advancing the head by n and then going i further is going n + i.        *)
LEMMA WrapAdvance ==
  ASSUME NEW cap \in Nat \ {0}, NEW head \in 0..(cap - 1),
         NEW n \in 0..cap, NEW i \in 0..cap, n + i <= cap
  PROVE  Wrap(Wrap(head + n, cap) + i, cap) = Wrap(head + (n + i), cap)
  BY DEF Wrap

(* ensureCapacity leaves room for one entry and changes none.              *)
LEMMA EnsureCapacityKeeps ==
  ASSUME NEW b, IsRing(b),
         NEW r, r = EnsureCapacity(b)
  PROVE  /\ IsRing(r)
         /\ r.size = b.size /\ r.startProxyID = b.startProxyID
         /\ r.size < r.cap
         /\ \A i \in 0..(b.size - 1) : At(r, i) = At(b, i)
<1>1. CASE b.size < b.cap
  BY Zenon, <1>1 DEF EnsureCapacity
<1>2. CASE ~(b.size < b.cap)
  <2>1. b.size = b.cap /\ b.cap \in Nat \ {0}
    BY <1>2 DEF IsRing
  <2>2. r = Ring(Copied(b, 2 * b.cap), 2 * b.cap, 0, b.size, b.startProxyID)
    BY Zenon, <1>2, <2>1 DEF EnsureCapacity
  <2>3. ASSUME NEW i \in 0..(b.size - 1)
        PROVE  At(b, i) \in Mapping
    <3>1. i \in 0..b.cap
      BY <2>1
    <3>2. (b.head + i) % b.cap \in 0..(b.cap - 1)
      BY Zenon, <3>1, IndexOf
    <3> QED  BY Zenon, <3>2 DEF IsRing, At
  <2>4. Hole \in Mapping
    BY Zenon DEF Hole, Mapping
  <2>5. Copied(b, 2 * b.cap) \in [0..(2 * b.cap - 1) -> Mapping]
    BY <2>1, <2>3, <2>4 DEF Copied
  <2>6. /\ r.entries = Copied(b, 2 * b.cap) /\ r.cap = 2 * b.cap /\ r.head = 0
        /\ r.size = b.size /\ r.startProxyID = b.startProxyID
    BY <2>2 DEF Ring
  <2>7. IsRing(r) /\ r.size < r.cap
    BY <2>1, <2>5, <2>6 DEF IsRing
  <2>8. ASSUME NEW i \in 0..(b.size - 1)
        PROVE  At(r, i) = At(b, i)
    <3>1. i \in 0..r.cap /\ r.head + i = i /\ i < r.cap
      BY <2>1, <2>6
    <3>2. (r.head + i) % r.cap = i
      BY Zenon, <3>1, <2>7, IndexOf DEF Wrap
    <3> QED  BY <2>1, <2>6, <3>2 DEF At, Copied
  <2> QED  BY Zenon, <2>6, <2>7, <2>8
<1> QED  BY Zenon, <1>1, <1>2

(* A write behind the last entry of a ring with room adds that entry.      *)
LEMMA PushKeeps ==
  ASSUME NEW b, IsRing(b), b.size < b.cap, NEW m \in Mapping,
         NEW start \in Nat,
         NEW r, r = Push(b, m, start)
  PROVE  /\ IsRing(r)
         /\ r.size = b.size + 1 /\ r.startProxyID = start
         /\ At(r, b.size) = m
         /\ \A i \in 0..(b.size - 1) : At(r, i) = At(b, i)
<1> DEFINE p == (b.head + b.size) % b.cap
<1>1. /\ b.cap \in Nat \ {0} /\ b.head \in 0..(b.cap - 1)
      /\ b.size \in 0..(b.cap - 1)
      /\ b.entries \in [0..(b.cap - 1) -> Mapping]
  BY DEF IsRing
<1>2. p = Wrap(b.head + b.size, b.cap) /\ p \in 0..(b.cap - 1)
  <2>1. b.size \in 0..b.cap
    BY <1>1
  <2> QED  BY Zenon, <2>1, IndexOf
<1>3. /\ r.entries = [b.entries EXCEPT ![p] = m] /\ r.cap = b.cap
      /\ r.head = b.head /\ r.size = b.size + 1 /\ r.startProxyID = start
  BY Zenon DEF Push, Ring
<1>4. At(r, b.size) = r.entries[p]
  BY Zenon, <1>3 DEF At
<1> HIDE DEF p
<1>5. IsRing(r)
  BY <1>1, <1>2, <1>3 DEF IsRing
<1>6. At(r, b.size) = m
  BY Zenon, <1>1, <1>2, <1>3, <1>4
<1>7. ASSUME NEW i \in 0..(b.size - 1)
      PROVE  At(r, i) = At(b, i)
  <2> DEFINE q == (b.head + i) % b.cap
  <2>1. i \in 0..b.cap /\ i \in 0..(b.cap - 1) /\ i # b.size
    BY <1>1
  <2>2. q = Wrap(b.head + i, b.cap) /\ q \in 0..(b.cap - 1)
    BY Zenon, <2>1, IndexOf
  <2>3. At(r, i) = r.entries[q] /\ At(b, i) = b.entries[q]
    BY Zenon, <1>3 DEF At
  <2> HIDE DEF q
  <2>4. q # p
    BY Zenon, <1>1, <1>2, <2>1, <2>2, WrapDistinct
  <2> QED  BY Zenon, <1>1, <1>3, <2>2, <2>3, <2>4
<1> QED  BY Zenon, <1>3, <1>5, <1>6, <1>7

(* A discard drops the oldest entries and moves the others up.             *)
LEMMA DiscardKeeps ==
  ASSUME NEW b, IsRing(b), NEW n \in 1..b.size,
         NEW r, r = RingDiscard(b, n)
  PROVE  /\ IsRing(r)
         /\ r.size = b.size - n /\ r.startProxyID = b.startProxyID + n
         /\ \A i \in 0..(r.size - 1) : At(r, i) = At(b, n + i)
<1>1. /\ b.cap \in Nat \ {0} /\ b.head \in 0..(b.cap - 1)
      /\ b.size \in 0..b.cap /\ b.startProxyID \in Nat
      /\ b.entries \in [0..(b.cap - 1) -> Mapping]
  BY Zenon DEF IsRing
<1>2. n \in 0..b.cap
  BY <1>1
<1> DEFINE h == (b.head + n) % b.cap
<1>3. h = Wrap(b.head + n, b.cap) /\ h \in 0..(b.cap - 1)
  BY Zenon, <1>2, IndexOf
<1>4. /\ r.entries = b.entries /\ r.cap = b.cap /\ r.head = h
      /\ r.size = b.size - n /\ r.startProxyID = b.startProxyID + n
  BY <1>1 DEF RingDiscard, Ring
<1> HIDE DEF h
<1>5. IsRing(r)
  BY <1>1, <1>3, <1>4 DEF IsRing
<1>6. ASSUME NEW i \in 0..(r.size - 1)
      PROVE  At(r, i) = At(b, n + i)
  <2>1. /\ n + i \in 0..b.cap /\ i \in 0..b.cap /\ i \in 0..r.cap
        /\ n + i <= b.cap
    BY <1>1, <1>2, <1>4
  <2>2. (b.head + (n + i)) % b.cap = Wrap(b.head + (n + i), b.cap)
    BY Zenon, <2>1, IndexOf
  <2>3. (r.head + i) % r.cap = Wrap(h + i, b.cap)
    BY Zenon, <2>1, <1>4, <1>5, IndexOf
  <2>4. Wrap(h + i, b.cap) = Wrap(b.head + (n + i), b.cap)
    BY ZenonT(30), <1>1, <1>2, <1>3, <2>1, WrapAdvance
  <2> QED  BY Zenon, <1>4, <2>2, <2>3, <2>4 DEF At
<1> QED  BY Zenon, <1>4, <1>5, <1>6

(* Append under the next ID adds one entry; the loop for holes is not      *)
(* reached.                                                                *)
LEMMA AppendKeeps ==
  ASSUME NEW b, IsRing(b), NEW m \in Mapping, NEW proxyID \in Nat,
         b.size > 0 => b.startProxyID + b.size = proxyID,
         NEW r, r = RingAppend(b, proxyID, m)
  PROVE  /\ IsRing(r)
         /\ r.size = b.size + 1
         /\ r.startProxyID = IF b.size = 0 THEN proxyID ELSE b.startProxyID
         /\ At(r, b.size) = m
         /\ \A i \in 0..(b.size - 1) : At(r, i) = At(b, i)
<1> DEFINE e == EnsureCapacity(b)
           start == IF b.size = 0 THEN proxyID ELSE b.startProxyID
<1>1. /\ IsRing(e) /\ e.size = b.size /\ e.startProxyID = b.startProxyID
      /\ e.size < e.cap
      /\ \A i \in 0..(b.size - 1) : At(e, i) = At(b, i)
  BY Zenon, EnsureCapacityKeeps
<1>2. b.size \in Nat /\ b.startProxyID \in Nat /\ start \in Nat
  BY DEF IsRing
<1> HIDE DEF e
<1>3. r = Push(e, m, start)
  BY <1>1, <1>2 DEF RingAppend, e
<1> HIDE DEF start
<1>4. /\ IsRing(r) /\ r.size = e.size + 1 /\ r.startProxyID = start
      /\ At(r, e.size) = m
      /\ \A i \in 0..(e.size - 1) : At(r, i) = At(e, i)
  BY <1>1, <1>2, <1>3, PushKeeps
<1> QED  BY Zenon, <1>1, <1>4 DEF start

(* A ring that agrees with another on its first n entries has the same     *)
(* oldest n.                                                               *)
LEMMA SameOldest ==
  ASSUME NEW b, NEW r, NEW n \in Nat,
         n > 0 => r.startProxyID = b.startProxyID,
         \A i \in 0..(n - 1) : At(r, i) = At(b, i)
  PROVE  Oldest(r, n) = Oldest(b, n)
<1>1. \A i \in 0..(n - 1) : Entry(r, i) = Entry(b, i)
  BY DEF Entry
<1> QED  BY Zenon, <1>1 DEF Oldest

(* The oldest n + 1 entries are the oldest n and the one behind them.      *)
LEMMA OldestNext ==
  ASSUME NEW b, NEW n \in Nat
  PROVE  Oldest(b, n + 1) = Oldest(b, n) \cup {Entry(b, n)}
<1>1. 0..(n + 1 - 1) = 0..(n - 1) \cup {n}
  OBVIOUS
<1> QED  BY <1>1 DEF Oldest
----------------------------------------------------------------------------
(* The inductive invariant: beside the shape of the ring, its IDs follow   *)
(* each other up to the last one allocated, and the entries an ack covers  *)
(* are still in it.                                                        *)
IInv ==
  /\ TypeOK
  /\ ContiguousIDs
  /\ pendingDiscard <= idRing.size

(* The empty ring newProxyIDRingBuffer returns is well formed.             *)
LEMMA NewRingIsRing ==
  /\ IsRing(NewRing(InitialCapacity))
  /\ NewRing(InitialCapacity).size = 0
<1> DEFINE cap == IF InitialCapacity < 1 THEN 1 ELSE InitialCapacity
<1>1. cap \in Nat \ {0}
  BY RingAssumption
<1>2. Hole \in Mapping
  BY Zenon DEF Hole, Mapping
<1>3. NewRing(InitialCapacity) = Ring([i \in 0..(cap - 1) |-> Hole], cap, 0, 0, 0)
  BY Zenon DEF NewRing
<1> HIDE DEF cap
<1> QED  BY <1>1, <1>2, <1>3 DEF Ring, IsRing

(* AggregateUpTo never counts more entries than the ring has.              *)
LEMMA CountInRing ==
  ASSUME NEW b, IsRing(b), NEW watermark \in Int
  PROVE  /\ CountUpTo(b, watermark) \in 0..b.size
         /\ \A i \in 0..(b.size - 1) :
              b.startProxyID + i <= watermark <=> i < CountUpTo(b, watermark)
  BY DEF IsRing, CountUpTo

(* The inductive invariant holds at the start.                             *)
LEMMA InitIInv == Init => IInv
  BY NewRingIsRing DEF Init, IInv, TypeOK, ContiguousIDs

(* Every operation keeps the inductive invariant.                          *)
LEMMA NextIInv == IInv /\ [Next]_vars => IInv'
<1> SUFFICES ASSUME IInv, [Next]_vars PROVE IInv'
  BY Zenon
<1>1. /\ IsRing(idRing) /\ nextProxyTaskID \in Nat /\ pendingDiscard \in Nat
      /\ idRing.size \in Nat /\ idRing.startProxyID \in Nat
      /\ pendingDiscard <= idRing.size
      /\ idRing.size > 0 => idRing.startProxyID + idRing.size = nextProxyTaskID + 1
  BY DEF IInv, TypeOK, ContiguousIDs, IsRing
<1>2. ASSUME NEW shard \in Shards, NEW task \in Tasks, Append(shard, task)
      PROVE  IInv'
  <2> DEFINE m == [shard |-> shard, task |-> task]
  <2>1. m \in Mapping
    BY Zenon DEF Mapping
  <2>2. idRing' = RingAppend(idRing, nextProxyTaskID + 1, m)
    BY Zenon, <1>2 DEF Append
  <2>3. /\ IsRing(idRing') /\ idRing'.size = idRing.size + 1
        /\ idRing'.startProxyID = IF idRing.size = 0 THEN nextProxyTaskID + 1
                                  ELSE idRing.startProxyID
    BY <1>1, <2>1, <2>2, AppendKeeps
  <2> QED  BY <1>1, <1>2, <2>3 DEF Append, IInv, TypeOK, ContiguousIDs
<1>3. ASSUME NEW watermark \in 0..(nextProxyTaskID + 1), AggregateUpTo(watermark)
      PROVE  IInv'
  BY <1>1, <1>3, CountInRing DEF AggregateUpTo, IInv, TypeOK, ContiguousIDs
<1>4. CASE Discard
  <2>1. pendingDiscard \in 1..idRing.size /\ idRing' = RingDiscard(idRing, pendingDiscard)
    BY <1>1, <1>4 DEF Discard
  <2>2. /\ IsRing(idRing') /\ idRing'.size = idRing.size - pendingDiscard
        /\ idRing'.startProxyID = idRing.startProxyID + pendingDiscard
    BY Zenon, <1>1, <2>1, DiscardKeeps
  <2> QED  BY <1>1, <1>4, <2>1, <2>2 DEF Discard, IInv, TypeOK, ContiguousIDs
<1>5. CASE UNCHANGED vars
  BY Zenon, <1>5 DEF vars, IInv, TypeOK, ContiguousIDs
<1> QED  BY Zenon, <1>2, <1>3, <1>4, <1>5 DEF Next

(* The ring always has the shape of the Go struct: it never holds more     *)
(* entries than its slice has room for.                                    *)
THEOREM TypeCorrect == Spec => []TypeOK
<1>1. IInv => TypeOK
  BY Zenon DEF IInv
<1> QED  BY <1>1, InitIInv, NextIInv, PTL DEF Spec

(* Append is only ever given the ID after the newest entry, so its loop    *)
(* for holes is dead code, as its comment says.                            *)
THEOREM Contiguity == Spec => []ContiguousIDs
<1>1. IInv => ContiguousIDs
  BY Zenon DEF IInv
<1> QED  BY <1>1, InitIInv, NextIInv, PTL DEF Spec
----------------------------------------------------------------------------
(* Every step of the ring is a step of the window, or changes nothing.     *)
LEMMA AppendExtends ==
  ASSUME IInv, NEW shard \in Shards, NEW task \in Tasks, Append(shard, task)
  PROVE  Window!Extend(shard, task)
<1> DEFINE m == [shard |-> shard, task |-> task]
<1>1. /\ IsRing(idRing) /\ nextProxyTaskID \in Nat /\ pendingDiscard \in Nat
      /\ idRing.size \in Nat /\ idRing.startProxyID \in Nat
      /\ pendingDiscard <= idRing.size
      /\ idRing.size > 0 => idRing.startProxyID + idRing.size = nextProxyTaskID + 1
  BY DEF IInv, TypeOK, ContiguousIDs, IsRing
<1>2. m \in Mapping /\ m.shard = shard /\ m.task = task
  BY Zenon DEF Mapping
<1>3. /\ idRing' = RingAppend(idRing, nextProxyTaskID + 1, m)
      /\ nextProxyTaskID' = nextProxyTaskID + 1
      /\ pendingDiscard' = pendingDiscard
  BY Zenon DEF Append
<1> HIDE DEF m
<1>4. /\ idRing'.size = idRing.size + 1
      /\ idRing'.startProxyID = IF idRing.size = 0 THEN nextProxyTaskID + 1
                                ELSE idRing.startProxyID
      /\ At(idRing', idRing.size) = m
      /\ \A i \in 0..(idRing.size - 1) : At(idRing', i) = At(idRing, i)
  BY <1>1, <1>2, <1>3, AppendKeeps
<1>5. Entry(idRing', idRing.size) =
        [id |-> nextProxyTaskID + 1, shard |-> shard, task |-> task]
  BY <1>1, <1>2, <1>4 DEF Entry
<1>6. Oldest(idRing', idRing.size) = Oldest(idRing, idRing.size)
  BY <1>1, <1>4, SameOldest
<1>7. Oldest(idRing', idRing'.size) = Oldest(idRing, idRing.size) \cup
        {[id |-> nextProxyTaskID + 1, shard |-> shard, task |-> task]}
  <2>1. Oldest(idRing', idRing.size + 1) =
          Oldest(idRing', idRing.size) \cup {Entry(idRing', idRing.size)}
    BY Zenon, <1>1, OldestNext
  <2> QED  BY Zenon, <2>1, <1>4, <1>5, <1>6
<1>8. Oldest(idRing', pendingDiscard) = Oldest(idRing, pendingDiscard)
  BY <1>1, <1>4, SameOldest
<1> QED  BY Zenon, <1>3, <1>7, <1>8 DEF Window!Extend, Covered

(* AggregateUpTo is a Cover step of the window.                            *)
LEMMA AggregateCovers ==
  ASSUME IInv, NEW watermark \in 0..(nextProxyTaskID + 1), AggregateUpTo(watermark)
  PROVE  Window!Cover(watermark)
<1>1. /\ IsRing(idRing) /\ nextProxyTaskID \in Nat
      /\ idRing.size \in Nat /\ idRing.startProxyID \in Nat
  BY DEF IInv, TypeOK, IsRing
<1> DEFINE count == CountUpTo(idRing, watermark)
<1>2. /\ pendingDiscard = 0 /\ pendingDiscard' = count
      /\ idRing' = idRing /\ nextProxyTaskID' = nextProxyTaskID
  BY Zenon DEF AggregateUpTo
<1>3. /\ count \in 0..idRing.size
      /\ \A i \in 0..(idRing.size - 1) :
           idRing.startProxyID + i <= watermark <=> i < count
  BY <1>1, CountInRing
<1> HIDE DEF count
<1>4. Oldest(idRing, 0) = {}
  BY DEF Oldest
<1>5. Oldest(idRing, count) = {e \in Oldest(idRing, idRing.size) : e.id <= watermark}
  <2>1. ASSUME NEW i \in 0..(count - 1)
        PROVE  /\ Entry(idRing, i) \in Oldest(idRing, idRing.size)
               /\ Entry(idRing, i).id <= watermark
    BY <1>1, <1>3 DEF Oldest, Entry
  <2>2. ASSUME NEW i \in 0..(idRing.size - 1), Entry(idRing, i).id <= watermark
        PROVE  Entry(idRing, i) \in Oldest(idRing, count)
    BY <1>1, <1>3, <2>2 DEF Oldest, Entry
  <2> QED  BY Zenon, <2>1, <2>2 DEF Oldest
<1> QED  BY Zenon, <1>2, <1>4, <1>5 DEF Window!Cover, Covered

(* Discard is a Drop step of the window.                                   *)
LEMMA DiscardDrops ==
  ASSUME IInv, Discard
  PROVE  Window!Drop
<1> DEFINE n == pendingDiscard
<1>1. /\ IsRing(idRing) /\ nextProxyTaskID \in Nat
      /\ idRing.size \in Nat /\ idRing.startProxyID \in Nat
      /\ n \in 1..idRing.size
  BY DEF IInv, TypeOK, IsRing, Discard
<1>2. /\ idRing' = RingDiscard(idRing, n) /\ pendingDiscard' = 0
      /\ nextProxyTaskID' = nextProxyTaskID
  BY Zenon DEF Discard
<1> HIDE DEF n
<1>3. /\ idRing'.size = idRing.size - n
      /\ idRing'.startProxyID = idRing.startProxyID + n
      /\ \A i \in 0..(idRing'.size - 1) : At(idRing', i) = At(idRing, n + i)
  BY <1>1, <1>2, DiscardKeeps
<1>4. \A i \in 0..(idRing'.size - 1) : Entry(idRing', i) = Entry(idRing, n + i)
  BY <1>1, <1>3 DEF Entry
<1>5. ASSUME NEW i \in 0..(idRing'.size - 1)
      PROVE  /\ Entry(idRing', i) \in Oldest(idRing, idRing.size)
             /\ Entry(idRing', i) \notin Oldest(idRing, n)
  <2>1. n + i \in 0..(idRing.size - 1) /\ Entry(idRing', i) = Entry(idRing, n + i)
    BY <1>1, <1>3, <1>4
  <2>2. \A j \in 0..(n - 1) : Entry(idRing, j).id # Entry(idRing, n + i).id
    BY <1>1, <2>1 DEF Entry
  <2> QED  BY Zenon, <2>1, <2>2 DEF Oldest
<1>6. ASSUME NEW j \in 0..(idRing.size - 1), Entry(idRing, j) \notin Oldest(idRing, n)
      PROVE  Entry(idRing, j) \in Oldest(idRing', idRing'.size)
  <2>1. j \notin 0..(n - 1)
    BY Zenon, <1>6 DEF Oldest
  <2>2. j - n \in 0..(idRing'.size - 1) /\ n + (j - n) = j
    BY <1>1, <1>3, <2>1
  <2> QED  BY Zenon, <1>4, <2>2 DEF Oldest
<1>7. Oldest(idRing', idRing'.size) = Oldest(idRing, idRing.size) \ Oldest(idRing, n)
  BY Zenon, <1>5, <1>6 DEF Oldest
<1>8. Oldest(idRing', 0) = {}
  BY DEF Oldest
<1> QED  BY Zenon, <1>2, <1>7, <1>8 DEF Window!Drop, Covered, n

(* The ring buffer implements the window of proxy IDs, for every initial   *)
(* capacity: no entry is lost, moved to another ID or duplicated by        *)
(* wrapping and growing, and a discard drops what was read.                *)
THEOREM RingImplementsWindow == Spec => ImplementsWindow
<1>1. Init => Window!Init
  <2>1. Oldest(NewRing(InitialCapacity), 0) = {}
    BY DEF Oldest
  <2> QED  BY Zenon, <2>1, NewRingIsRing DEF Init, Window!Init, Covered
<1>2. IInv /\ [Next]_vars => [Window!Next]_(Window!vars)
  <2> SUFFICES ASSUME IInv, [Next]_vars PROVE [Window!Next]_(Window!vars)
    BY Zenon
  <2>1. ASSUME NEW shard \in Shards, NEW task \in Tasks, Append(shard, task)
        PROVE  Window!Next
    BY Zenon, <2>1, AppendExtends DEF Window!Next
  <2>2. ASSUME NEW watermark \in 0..(nextProxyTaskID + 1), AggregateUpTo(watermark)
        PROVE  Window!Next
    BY Zenon, <2>2, AggregateCovers DEF Window!Next
  <2>3. CASE Discard
    BY Zenon, <2>3, DiscardDrops DEF Window!Next
  <2>4. CASE UNCHANGED vars
    BY Zenon, <2>4 DEF vars, Window!vars, Covered
  <2> QED  BY Zenon, <2>1, <2>2, <2>3, <2>4 DEF Next
<1> QED  BY <1>1, <1>2, InitIInv, NextIInv, PTL DEF Spec, ImplementsWindow, Window!Spec
----------------------------------------------------------------------------
(* Some number of a set is the least.                                      *)
LEMMA LeastExists ==
  ASSUME NEW T, T \subseteq Nat, T # {}
  PROVE  \E x \in T : \A y \in T : x <= y
<1> DEFINE R == OpToRel(<, Nat)
<1>1. IsWellFoundedOn(R, Nat)
  BY Zenon, NatLessThanWellFounded
<1> HIDE DEF R
<1>2. PICK x \in T : \A y \in T : ~ (<<y, x>> \in R)
  BY Zenon, <1>1, WFMin
<1>3. ASSUME NEW y \in T PROVE x <= y
  <2>1. x \in Nat /\ y \in Nat
    BY Zenon
  <2>2. y < x => <<y, x>> \in R
    BY ONLY <2>1 DEF R, OpToRel
  <2>3. ~ (y < x)
    BY Zenon, <1>2, <2>2
  <2> QED
    BY ONLY <2>1, <2>3
<1> QED
  BY Zenon, <1>3

(* What AggregateUpTo's loop has computed after each of the first n        *)
(* entries.                                                                *)
IsScan(g, b, n) ==
  g = [k \in 0..n |-> IF k = 0 THEN NoAcks ELSE Merge(g[k - 1], At(b, k - 1))]

(* The loop gets to its end: if it did not, there would be a first entry   *)
(* it fails at.                                                            *)
LEMMA ScanExists ==
  ASSUME NEW b, NEW n \in Nat
  PROVE  \E g : IsScan(g, b, n)
<1> DEFINE T == {k \in Nat : ~ \E g : IsScan(g, b, k)}
<1> SUFFICES ASSUME n \in T PROVE FALSE
  BY Zenon
<1>1. PICK m \in T : \A y \in T : m <= y
  <2>1. T \subseteq Nat /\ T # {}
    BY Zenon
  <2> HIDE DEF T
  <2> QED
    BY Zenon, <2>1, LeastExists
<1>2. m \in Nat /\ ~ \E g : IsScan(g, b, m)
  BY Zenon
<1>3. m # 0
  <2> DEFINE g == [k \in 0..0 |-> NoAcks]
  <2>1. \A k \in 0..0 : k = 0
    OBVIOUS
  <2>2. IsScan(g, b, 0)
    BY Zenon, <2>1 DEF IsScan
  <2> QED
    BY Zenon, <1>2, <2>2
<1>4. m - 1 \in Nat /\ ~ (m <= m - 1)
  BY <1>2, <1>3
<1>5. PICK g : IsScan(g, b, m - 1)
  BY Zenon, <1>1, <1>4
<1> DEFINE h == [k \in 0..m |-> IF k < m THEN g[k] ELSE Merge(g[m - 1], At(b, m - 1))]
<1>6. ASSUME NEW k \in 0..m
      PROVE  h[k] = IF k = 0 THEN NoAcks ELSE Merge(h[k - 1], At(b, k - 1))
  <2>1. \A j \in 0..(m - 1) : h[j] = g[j]
    BY <1>4
  <2>2. \A j \in 0..(m - 1) : g[j] = IF j = 0 THEN NoAcks ELSE Merge(g[j - 1], At(b, j - 1))
    BY Zenon, <1>5 DEF IsScan
  <2>3. k # 0 => k - 1 \in 0..(m - 1)
    BY <1>4
  <2>4. CASE k = m
    <3>1. h[k] = Merge(g[m - 1], At(b, m - 1)) /\ k # 0
      BY <1>3, <1>4, <2>4
    <3> QED
      BY Zenon, <2>1, <2>3, <2>4, <3>1
  <2>5. CASE k # m
    <3>1. k \in 0..(m - 1)
      BY <1>4, <2>5
    <3> HIDE DEF h
    <3> QED
      BY Zenon, <2>1, <2>2, <2>3, <3>1
  <2> QED
    BY Zenon, <2>4, <2>5
<1>7. IsScan(h, b, m)
  BY Zenon, <1>6 DEF IsScan
<1> QED
  BY Zenon, <1>2, <1>7

(* What Aggregate returns is the last value of the loop.                   *)
LEMMA AggregateIsScan ==
  ASSUME NEW b, NEW n \in Nat
  PROVE  \E g : IsScan(g, b, n) /\ Aggregate(b, n) = g[n]
<1> DEFINE scan == CHOOSE g : IsScan(g, b, n)
<1>1. IsScan(scan, b, n)
  BY Zenon, ScanExists
<1>2. Aggregate(b, n) = scan[n]
  BY Zenon DEF Aggregate, IsScan
<1> QED
  BY Zenon, <1>1, <1>2

(* The loop's result after k entries, none of which is a hole.             *)
Matches(acks, b, k) ==
  /\ DOMAIN acks = {At(b, i).shard : i \in 0..(k - 1)}
  /\ \A s \in DOMAIN acks :
       /\ \E i \in 0..(k - 1) : At(b, i).shard = s /\ At(b, i).task = acks[s]
       /\ \A i \in 0..(k - 1) : At(b, i).shard = s => At(b, i).task <= acks[s]

(* An entry of a source shard, no hole.                                    *)
IsTask(m) == m.shard \in Shards /\ m.task \in Int

(* Before the first entry there are no acks.                               *)
LEMMA MatchesNone == ASSUME NEW b PROVE Matches(NoAcks, b, 0)
<1>1. 0..(0 - 1) = {}
  OBVIOUS
<1>2. DOMAIN NoAcks = {}
  BY Zenon DEF NoAcks
<1> QED
  BY Zenon, <1>1, <1>2 DEF Matches

(* One entry more.                                                         *)
LEMMA MergeMatches ==
  ASSUME NEW b, NEW k \in Nat, NEW acks, Matches(acks, b, k),
         \A i \in 0..k : IsTask(At(b, i))
  PROVE  Matches(Merge(acks, At(b, k)), b, k + 1)
<1> DEFINE m == At(b, k)
           new == Merge(acks, m)
<1>0. k \in 0..k
  OBVIOUS
<1>1. m.shard # NoShard /\ m.shard \in Shards /\ m.task \in Int
  BY Zenon, <1>0, RingAssumption DEF IsTask
<1>2. 0..((k + 1) - 1) = 0..(k - 1) \cup {k} /\ k \notin 0..(k - 1) /\ 0..(k - 1) \subseteq 0..k
  OBVIOUS
<1>3. {At(b, i).shard : i \in 0..((k + 1) - 1)} = DOMAIN acks \cup {m.shard}
  <2>1. {At(b, i).shard : i \in 0..(k - 1) \cup {k}} = DOMAIN acks \cup {m.shard}
    BY Zenon DEF Matches
  <2> QED
    BY Zenon, <1>2, <2>1
<1>4. ASSUME NEW s \in DOMAIN acks, s # m.shard
      PROVE  /\ \E i \in 0..((k + 1) - 1) : At(b, i).shard = s /\ At(b, i).task = acks[s]
             /\ \A i \in 0..((k + 1) - 1) : At(b, i).shard = s => At(b, i).task <= acks[s]
  BY Zenon, <1>2, <1>4 DEF Matches
<1>5. CASE m.shard \in DOMAIN acks /\ m.task <= acks[m.shard]
  <2>1. new = acks
    BY Zenon, <1>5 DEF Merge
  <2>2. DOMAIN acks \cup {m.shard} = DOMAIN acks
    BY Zenon, <1>5
  <2>3. /\ \E i \in 0..((k + 1) - 1) : At(b, i).shard = m.shard /\ At(b, i).task = acks[m.shard]
        /\ \A i \in 0..((k + 1) - 1) : At(b, i).shard = m.shard => At(b, i).task <= acks[m.shard]
    BY Zenon, <1>2, <1>5 DEF Matches
  <2> HIDE DEF m, new
  <2>4. DOMAIN acks = {At(b, i).shard : i \in 0..((k + 1) - 1)}
    BY Zenon, <1>3, <2>2
  <2>5. \A s \in DOMAIN acks :
          /\ \E i \in 0..((k + 1) - 1) : At(b, i).shard = s /\ At(b, i).task = acks[s]
          /\ \A i \in 0..((k + 1) - 1) : At(b, i).shard = s => At(b, i).task <= acks[s]
    BY Zenon, <1>4, <2>3
  <2>6. Matches(acks, b, k + 1)
    BY Zenon, <2>4, <2>5 DEF Matches
  <2> QED
    BY Zenon, <2>1, <2>6 DEF m, new
<1>6. CASE ~ (m.shard \in DOMAIN acks /\ m.task <= acks[m.shard])
  <2>1. new = [s \in DOMAIN acks \cup {m.shard} |-> IF s = m.shard THEN m.task ELSE acks[s]]
    BY Zenon, <1>1, <1>6 DEF Merge
  <2>2. DOMAIN new = DOMAIN acks \cup {m.shard} /\ new[m.shard] = m.task
        /\ \A s \in DOMAIN acks : s # m.shard => new[s] = acks[s]
    BY Zenon, <2>1
  <2>3. ASSUME NEW i \in 0..(k - 1), At(b, i).shard = m.shard
        PROVE  At(b, i).task <= m.task
    <3>1. m.shard \in DOMAIN acks
      BY Zenon, <2>3 DEF Matches
    <3>2. PICK j \in 0..(k - 1) : At(b, j).task = acks[m.shard]
      BY Zenon, <3>1 DEF Matches
    <3>3. At(b, i).task <= acks[m.shard]
      BY Zenon, <2>3, <3>1 DEF Matches
    <3>4. acks[m.shard] \in Int /\ At(b, i).task \in Int
      BY Zenon, <1>2, <3>2 DEF IsTask
    <3>5. ~ (m.task <= acks[m.shard])
      BY Zenon, <1>6, <3>1
    <3> HIDE DEF m
    <3> QED
      BY ONLY <1>1, <3>3, <3>4, <3>5
  <2>4. m.task <= m.task
    <3> HIDE DEF m
    <3> QED
      BY ONLY <1>1
  <2>5. /\ \E i \in 0..((k + 1) - 1) : At(b, i).shard = m.shard /\ At(b, i).task = m.task
        /\ \A i \in 0..((k + 1) - 1) : At(b, i).shard = m.shard => At(b, i).task <= m.task
    BY Zenon, <1>2, <2>3, <2>4
  <2> HIDE DEF m, new
  <2>6. ASSUME NEW s \in DOMAIN new
        PROVE  /\ \E i \in 0..((k + 1) - 1) : At(b, i).shard = s /\ At(b, i).task = new[s]
               /\ \A i \in 0..((k + 1) - 1) : At(b, i).shard = s => At(b, i).task <= new[s]
    <3>1. CASE s = m.shard
      BY Zenon, <2>2, <2>5, <3>1
    <3>2. CASE s # m.shard
      <4>1. s \in DOMAIN acks /\ new[s] = acks[s]
        BY Zenon, <2>2, <3>2
      <4> QED
        BY Zenon, <1>4, <3>2, <4>1
    <3> QED
      BY Zenon, <3>1, <3>2
  <2>7. DOMAIN new = {At(b, i).shard : i \in 0..((k + 1) - 1)}
    BY Zenon, <1>3, <2>2
  <2>8. Matches(new, b, k + 1)
    BY Zenon, <2>6, <2>7 DEF Matches
  <2> QED
    BY Zenon, <2>8 DEF m, new
<1> QED
  BY Zenon, <1>5, <1>6

(* Aggregate is right: per source shard of the first n entries the largest *)
(* task.                                                                   *)
LEMMA AggregateMatches ==
  ASSUME NEW b, NEW n \in Nat, \A i \in 0..(n - 1) : IsTask(At(b, i))
  PROVE  Matches(Aggregate(b, n), b, n)
<1>1. PICK g : IsScan(g, b, n) /\ Aggregate(b, n) = g[n]
  BY Zenon, AggregateIsScan
<1> DEFINE T == {k \in 0..n : ~ Matches(g[k], b, k)}
<1>2. T = {}
  <2> SUFFICES ASSUME T # {} PROVE FALSE
    BY Zenon
  <2>0. T \subseteq Nat
    OBVIOUS
  <2>1. PICK m \in T : \A y \in T : m <= y
    <3> HIDE DEF T
    <3> QED
      BY Zenon, <2>0, LeastExists
  <2>2. m \in 0..n /\ ~ Matches(g[m], b, m)
    BY Zenon
  <2>3. \A k \in 0..n : g[k] = IF k = 0 THEN NoAcks ELSE Merge(g[k - 1], At(b, k - 1))
    BY Zenon, <1>1 DEF IsScan
  <2>4. 0 \in 0..n
    OBVIOUS
  <2>5. m # 0
    BY Zenon, <2>2, <2>3, <2>4, MatchesNone
  <2>6. /\ m - 1 \in Nat /\ m - 1 \in 0..n /\ ~ (m <= m - 1) /\ m - 1 + 1 = m
        /\ 0..(m - 1) \subseteq 0..(n - 1)
    BY <2>2, <2>5
  <2>7. Matches(g[m - 1], b, m - 1)
    BY Zenon, <2>1, <2>6
  <2>8. Matches(Merge(g[m - 1], At(b, m - 1)), b, m - 1 + 1)
    BY Zenon, <2>6, <2>7, MergeMatches
  <2>9. g[m] = Merge(g[m - 1], At(b, m - 1))
    BY Zenon, <2>2, <2>3, <2>5
  <2> QED
    BY Zenon, <2>2, <2>6, <2>8, <2>9
<1>3. n \in 0..n
  OBVIOUS
<1> QED
  BY Zenon, <1>1, <1>2, <1>3

(* No entry of the ring is a hole.                                         *)
NoHoles == \A i \in 0..(idRing.size - 1) : IsTask(At(idRing, i))

(* In terms of the ring, AcksMatchDiscard says that the acks are the       *)
(* loop's result for the entries that are still first in it.               *)
LEMMA MatchesCovered ==
  ASSUME pendingDiscard <= idRing.size
  PROVE  AcksMatchDiscard <=> Matches(shardToAck, idRing, pendingDiscard)
<1> DEFINE I == 0..(pendingDiscard - 1)
<1>1. Covered = {Entry(idRing, i) : i \in I}
  BY Zenon DEF Covered, Oldest
<1>2. \A i \in I : /\ Entry(idRing, i).shard = At(idRing, i).shard
                    /\ Entry(idRing, i).task = At(idRing, i).task
  BY Zenon DEF Entry
<1> HIDE DEF I
<1>3. {e.shard : e \in Covered} = {At(idRing, i).shard : i \in I}
  <2>1. \A e \in Covered : e.shard \in {At(idRing, i).shard : i \in I}
    BY Zenon, <1>1, <1>2
  <2>2. \A i \in I : At(idRing, i).shard \in {e.shard : e \in Covered}
    BY Zenon, <1>1, <1>2
  <2> QED
    BY Zenon, <2>1, <2>2
<1>4. ASSUME NEW s
      PROVE  /\ (\E e \in Covered : e.shard = s /\ e.task = shardToAck[s]) <=>
                (\E i \in I : At(idRing, i).shard = s /\ At(idRing, i).task = shardToAck[s])
             /\ (\A e \in Covered : e.shard = s => e.task <= shardToAck[s]) <=>
                (\A i \in I : At(idRing, i).shard = s => At(idRing, i).task <= shardToAck[s])
  BY Zenon, <1>1, <1>2
<1> QED
  BY Zenon, <1>3, <1>4 DEF AcksMatchDiscard, Matches, I

(* Acks that match the first n entries match those of a ring that has them *)
(* too.                                                                    *)
LEMMA MatchesSame ==
  ASSUME NEW acks, NEW b, NEW r, NEW n, Matches(acks, b, n),
         \A i \in 0..(n - 1) : At(r, i) = At(b, i)
  PROVE  Matches(acks, r, n)
<1>1. {At(b, i).shard : i \in 0..(n - 1)} = {At(r, i).shard : i \in 0..(n - 1)}
  BY Zenon
<1>2. DOMAIN acks = {At(r, i).shard : i \in 0..(n - 1)}
  BY Zenon, <1>1 DEF Matches
<1>3. \A s \in DOMAIN acks :
        /\ \E i \in 0..(n - 1) : At(r, i).shard = s /\ At(r, i).task = acks[s]
        /\ \A i \in 0..(n - 1) : At(r, i).shard = s => At(r, i).task <= acks[s]
  BY Zenon DEF Matches
<1> QED
  BY ONLY Zenon, <1>2, <1>3 DEF Matches

(* The acks in the hands of recvAck are the largest tasks of the entries   *)
(* it will discard, for every capacity and any number of IDs, shards and   *)
(* tasks, although the ring grows and wraps while they are forwarded.      *)
THEOREM AcksAreOfDiscarded == Spec => []AcksMatchDiscard
<1> DEFINE Inv == NoHoles /\ Matches(shardToAck, idRing, pendingDiscard)
<1>1. Init => Inv
  <2> SUFFICES ASSUME Init PROVE Inv
    BY Zenon
  <2>1. /\ idRing.size = 0 /\ shardToAck = NoAcks /\ pendingDiscard = 0
    BY Zenon, NewRingIsRing DEF Init
  <2>2. NoHoles
    BY <2>1 DEF NoHoles
  <2> QED
    BY Zenon, <2>1, <2>2, MatchesNone
<1>2. IInv /\ Inv /\ [Next]_vars => Inv'
  <2> SUFFICES ASSUME IInv, Inv, [Next]_vars PROVE Inv'
    BY Zenon
  <2>1. /\ IsRing(idRing) /\ nextProxyTaskID \in Nat /\ pendingDiscard \in Nat
        /\ idRing.size \in Nat /\ idRing.startProxyID \in Nat
        /\ pendingDiscard <= idRing.size
        /\ idRing.size > 0 => idRing.startProxyID + idRing.size = nextProxyTaskID + 1
    BY DEF IInv, TypeOK, ContiguousIDs, IsRing
  <2>2. ASSUME NEW shard \in Shards, NEW task \in Tasks, Append(shard, task)
        PROVE  Inv'
    <3> DEFINE m == [shard |-> shard, task |-> task]
    <3>1. m \in Mapping /\ m.shard = shard /\ m.task = task
      BY Zenon DEF Mapping
    <3>2. /\ idRing' = RingAppend(idRing, nextProxyTaskID + 1, m)
          /\ shardToAck' = shardToAck /\ pendingDiscard' = pendingDiscard
      BY Zenon, <2>2 DEF Append
    <3> HIDE DEF m
    <3>3. /\ idRing'.size = idRing.size + 1 /\ At(idRing', idRing.size) = m
          /\ \A i \in 0..(idRing.size - 1) : At(idRing', i) = At(idRing, i)
      BY <2>1, <3>1, <3>2, AppendKeeps
    <3>4. IsTask(m)
      BY Zenon, <3>1, RingAssumption DEF IsTask
    <3>5. \A i \in 0..(idRing'.size - 1) : i \in 0..(idRing.size - 1) \/ i = idRing.size
      BY <2>1, <3>3
    <3>6. ASSUME NEW i \in 0..(idRing'.size - 1) PROVE IsTask(At(idRing', i))
      BY Zenon, <3>3, <3>4, <3>5 DEF NoHoles
    <3>7. \A i \in 0..(pendingDiscard - 1) : i \in 0..(idRing.size - 1)
      BY <2>1
    <3>8. Matches(shardToAck, idRing', pendingDiscard)
      BY Zenon, <3>3, <3>7, MatchesSame
    <3> QED
      BY Zenon, <3>2, <3>6, <3>8 DEF NoHoles
  <2>3. ASSUME NEW watermark \in 0..(nextProxyTaskID + 1), AggregateUpTo(watermark)
        PROVE  Inv'
    <3> DEFINE count == CountUpTo(idRing, watermark)
    <3>1. /\ shardToAck' = Aggregate(idRing, count) /\ pendingDiscard' = count
          /\ idRing' = idRing
      BY Zenon, <2>3 DEF AggregateUpTo
    <3>2. count \in 0..idRing.size
      BY <2>1, CountInRing
    <3> HIDE DEF count
    <3>3. count \in Nat /\ \A i \in 0..(count - 1) : i \in 0..(idRing.size - 1)
      BY <2>1, <3>2
    <3>4. Matches(Aggregate(idRing, count), idRing, count)
      BY Zenon, <3>3, AggregateMatches DEF NoHoles
    <3> QED
      BY Zenon, <3>1, <3>4 DEF NoHoles
  <2>4. CASE Discard
    <3>1. /\ pendingDiscard \in 1..idRing.size
          /\ idRing' = RingDiscard(idRing, pendingDiscard)
          /\ shardToAck' = NoAcks /\ pendingDiscard' = 0
      BY <2>1, <2>4 DEF Discard
    <3>2. /\ idRing'.size = idRing.size - pendingDiscard
          /\ \A i \in 0..(idRing'.size - 1) : At(idRing', i) = At(idRing, pendingDiscard + i)
      BY <2>1, <3>1, DiscardKeeps
    <3>3. \A i \in 0..(idRing'.size - 1) : pendingDiscard + i \in 0..(idRing.size - 1)
      BY <2>1, <3>1, <3>2
    <3>4. NoHoles'
      BY Zenon, <3>2, <3>3 DEF NoHoles
    <3>5. Matches(NoAcks, idRing', 0)
      BY Zenon, MatchesNone
    <3>6. shardToAck' = NoAcks /\ pendingDiscard' = 0
      BY Zenon, <3>1
    <3> QED
      BY Zenon, <3>4, <3>5, <3>6
  <2>5. CASE UNCHANGED vars
    BY Zenon, <2>5 DEF vars, NoHoles
  <2> QED
    BY Zenon, <2>2, <2>3, <2>4, <2>5 DEF Next
<1>3. IInv /\ Inv => AcksMatchDiscard
  BY Zenon, MatchesCovered DEF IInv
<1> QED
  BY <1>1, <1>2, <1>3, InitIInv, NextIInv, PTL DEF Spec
=============================================================================
