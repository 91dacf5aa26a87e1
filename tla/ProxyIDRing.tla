---------------------------- MODULE ProxyIDRing ----------------------------
(***************************************************************************)
(* proxyIDRingBuffer (src/proxy/proxy_streams.go): the growing ring that   *)
(* maps a sender stream's proxy task IDs back to source shards and tasks,  *)
(* and the two goroutines of proxyStreamSender that share it under s.mu.   *)
(*                                                                         *)
(* The ring is the Go struct: entries is the slice, cap its length.  The   *)
(* critical sections are the steps: the send loop appends one mapping, the *)
(* ack loop aggregates up to a watermark, and after it has forwarded the   *)
(* acks with the mutex released it discards what the aggregation covered.  *)
(***************************************************************************)
EXTENDS Integers

CONSTANTS
  Shards,          \* source shards
  NoShard,         \* the zero ClusterShardID a hole is filled with
  Tasks,           \* source task IDs
  InitialCapacity, \* newProxyIDRingBuffer's argument, 1024 in the code
  MaxProxyID       \* bound on the IDs handed out

ASSUME RingAssumption ==
  /\ NoShard \notin Shards
  /\ Tasks \subseteq Int
  /\ InitialCapacity \in Int
  /\ MaxProxyID \in Nat

VARIABLES
  idRing,          \* [entries, cap, head, size, startProxyID]
  nextProxyTaskID, \* last proxy ID allocated
  shardToAck,      \* aggregation the ack loop is forwarding
  pendingDiscard   \* entries that aggregation covered; 0 when none is pending

vars == <<idRing, nextProxyTaskID, shardToAck, pendingDiscard>>

Mapping == [shard : Shards \cup {NoShard}, task : Tasks \cup {0}]
Hole    == [shard |-> NoShard, task |-> 0]
NoAcks  == [shard \in {} |-> 0]
----------------------------------------------------------------------------
Ring(entries, cap, head, size, startProxyID) ==
  [entries |-> entries, cap |-> cap, head |-> head, size |-> size,
   startProxyID |-> startProxyID]

(* newProxyIDRingBuffer: a capacity below one is raised to one.            *)
NewRing(capacity) ==
  LET cap == IF capacity < 1 THEN 1 ELSE capacity
  IN Ring([i \in 0..(cap - 1) |-> Hole], cap, 0, 0, 0)

(* The entry i places behind the head.                                     *)
At(b, i) == b.entries[(b.head + i) % b.cap]

(* The entries of b, oldest first, at the front of a longer slice.         *)
Copied(b, cap) ==
  [i \in 0..(cap - 1) |-> IF i < b.size THEN At(b, i) ELSE Hole]

(* Mutants of the growth: copying the slice as it is, and leaving the head *)
(* where it was.                                                           *)
EnsureCapacityUnrotated(b) ==
  IF b.size < b.cap THEN b
  ELSE Ring([i \in 0..(2 * b.cap - 1) |-> IF i < b.cap THEN b.entries[i] ELSE Hole],
            2 * b.cap, 0, b.size, b.startProxyID)
EnsureCapacityKeepHead(b) ==
  IF b.size < b.cap THEN b
  ELSE Ring(Copied(b, 2 * b.cap), 2 * b.cap, b.head, b.size, b.startProxyID)

(* Doubles a full buffer.                                                  *)
EnsureCapacity(b) ==
  LET newCap == IF b.cap = 0 THEN 1 ELSE 2 * b.cap
  IN IF b.size < b.cap THEN b
     ELSE Ring(Copied(b, newCap), newCap, 0, b.size, b.startProxyID)

(* Writes one entry behind the last one; the first one sets the start.     *)
Push(b, m, startProxyID) ==
  Ring([b.entries EXCEPT ![(b.head + b.size) % b.cap] = m],
       b.cap, b.head, b.size + 1, startProxyID)

(* The defensive loop of Append: n holes, making room before each.         *)
FillHoles(b, n) ==
  LET fill[k \in 0..n] ==
        IF k = 0 THEN b
        ELSE Push(EnsureCapacity(fill[k - 1]), Hole, b.startProxyID)
  IN fill[n]

(* Append(proxyID, m): room is made once, before the holes, and the entry  *)
(* goes wherever the holes left the end of the ring.                       *)
RingAppend(b, proxyID, m) ==
  LET r        == EnsureCapacity(b)
      expected == r.startProxyID + r.size
  IN IF r.size = 0 THEN Push(r, m, proxyID)
     ELSE IF proxyID > expected
     THEN Push(FillHoles(r, proxyID - expected), m, r.startProxyID)
     ELSE Push(r, m, r.startProxyID)

(* How many of the oldest entries a watermark covers.                      *)
CountUpTo(b, watermark) ==
  IF b.size = 0 \/ watermark < b.startProxyID THEN 0
  ELSE IF watermark - b.startProxyID + 1 > b.size THEN b.size
  ELSE watermark - b.startProxyID + 1

(* One entry in AggregateUpTo's loop: a hole is skipped, and so is a task  *)
(* that is not larger than the shard's so far.                             *)
Merge(acks, m) ==
  IF \/ m.shard = NoShard
     \/ m.shard \in DOMAIN acks /\ m.task <= acks[m.shard]
  THEN acks
  ELSE [s \in DOMAIN acks \cup {m.shard} |->
          IF s = m.shard THEN m.task ELSE acks[s]]

(* The loop over the first n entries: per source shard the largest task.   *)
Aggregate(b, n) ==
  LET scan[k \in 0..n] ==
        IF k = 0 THEN NoAcks ELSE Merge(scan[k - 1], At(b, k - 1))
  IN scan[n]

(* Mutant: the head moves and the ID of the head does not.                 *)
RingDiscardKeepStart(b, count) ==
  LET n == IF count > b.size THEN b.size ELSE count
  IN IF count <= 0 THEN b
     ELSE Ring(b.entries, b.cap, (b.head + n) % b.cap, b.size - n, b.startProxyID)

(* Discard(count).                                                         *)
RingDiscard(b, count) ==
  LET n == IF count > b.size THEN b.size ELSE count
  IN IF count <= 0 THEN b
     ELSE Ring(b.entries, b.cap, (b.head + n) % b.cap, b.size - n,
               b.startProxyID + n)
----------------------------------------------------------------------------
Init ==
  /\ idRing = NewRing(InitialCapacity)
  /\ nextProxyTaskID = 0
  /\ shardToAck = NoAcks
  /\ pendingDiscard = 0

(* sendReplicationMessages: allocate the next proxy ID and map it.         *)
Append(shard, task) ==
  /\ nextProxyTaskID < MaxProxyID
  /\ nextProxyTaskID' = nextProxyTaskID + 1
  /\ idRing' = RingAppend(idRing, nextProxyTaskID + 1,
                          [shard |-> shard, task |-> task])
  /\ UNCHANGED <<shardToAck, pendingDiscard>>

(* recvAck, first critical section.  The watermark comes from the target   *)
(* cluster and is any ID up to one past the last it was sent.              *)
AggregateUpTo(watermark) ==
  LET count == CountUpTo(idRing, watermark)
  IN /\ pendingDiscard = 0
     /\ shardToAck' = Aggregate(idRing, count)
     /\ pendingDiscard' = count
     /\ UNCHANGED <<idRing, nextProxyTaskID>>

(* recvAck, second critical section, once every ack has been forwarded.    *)
Discard ==
  /\ pendingDiscard > 0
  /\ idRing' = RingDiscard(idRing, pendingDiscard)
  /\ shardToAck' = NoAcks
  /\ pendingDiscard' = 0
  /\ UNCHANGED nextProxyTaskID

Next ==
  \/ \E shard \in Shards, task \in Tasks : Append(shard, task)
  \/ \E watermark \in 0..(nextProxyTaskID + 1) : AggregateUpTo(watermark)
  \/ Discard

Spec == Init /\ [][Next]_vars
----------------------------------------------------------------------------
(* The oldest n entries of a ring, with the IDs they are found under.      *)
Entry(b, i) == [id    |-> b.startProxyID + i,
                shard |-> At(b, i).shard,
                task  |-> At(b, i).task]

Oldest(b, n) == {Entry(b, i) : i \in 0..(n - 1)}

(* The entries whose acks recvAck is forwarding.                           *)
Covered == Oldest(idRing, pendingDiscard)

(* A ring as the Go struct has it: the slice has the length cap says, the  *)
(* head is in it, and it holds no more entries than it has room for.       *)
IsRing(b) ==
  /\ b.cap \in Nat \ {0}
  /\ b.entries \in [0..(b.cap - 1) -> Mapping]
  /\ b.head \in 0..(b.cap - 1)
  /\ b.size \in 0..b.cap
  /\ b.startProxyID \in Nat

(* The ring and the counters beside it always have their Go shape; in      *)
(* particular growing keeps pace with appending.                           *)
TypeOK ==
  /\ IsRing(idRing)
  /\ nextProxyTaskID \in Nat
  /\ pendingDiscard \in Nat

(* Append's comment "In practice proxyID is always increasing by 1, so     *)
(* this branch should not trigger": whatever the ack loop discards, and    *)
(* however the buffer grows, the ID after the newest entry is the next one *)
(* the sender allocates, so the loop that fills holes never runs.          *)
ContiguousIDs ==
  idRing.size > 0 =>
    idRing.startProxyID + idRing.size = nextProxyTaskID + 1

(* The acks recvAck forwards with the mutex released are still, when it    *)
(* takes the mutex again, those of the entries it is about to discard:     *)
(* per source shard the largest task among them, however many mappings     *)
(* were appended and however often the buffer was copied in between.       *)
AcksMatchDiscard ==
  /\ pendingDiscard <= idRing.size
  /\ DOMAIN shardToAck = {e.shard : e \in Covered}
  /\ \A s \in DOMAIN shardToAck :
       /\ \E e \in Covered : e.shard = s /\ e.task = shardToAck[s]
       /\ \A e \in Covered : e.shard = s => e.task <= shardToAck[s]

(* The ring implements the window: an append adds one entry and changes no *)
(* other, growing changes nothing, and a discard drops exactly the entries *)
(* whose acks were forwarded.                                              *)
Window == INSTANCE ProxyIDWindow WITH
            window <- Oldest(idRing, idRing.size), covered <- Covered

ImplementsWindow == Window!Spec
=============================================================================
