------------------------ MODULE StreamRouting_proofs ------------------------
(***************************************************************************)
(* Proofs about StreamRouting, for any number of source and target shards, *)
(* tasks, messages and streams that end and are reopened.  First the parts *)
(* of its inductive invariant IInv, type correctness, what the channel     *)
(* operations do to a queue, what each step changes, and that a bound that *)
(* held for everything on its way to a target (Below) holds after the      *)
(* step.  Then every step keeps the order of what is on its way, and acks  *)
(* stay below it: IInv is inductive, and the theorems on acks follow.      *)
(* Last, what a discard drops was acknowledged.                            *)
(***************************************************************************)
EXTENDS StreamRouting, WellFoundedInduction, TLAPS

USE SMTT(30)
----------------------------------------------------------------------------
(* The elements of a sequence over S are in S.                             *)
LEMMA AtIn ==
  ASSUME NEW S, NEW q \in Seq(S), NEW i \in 1..Len(q) PROVE q[i] \in S
  OBVIOUS

(* The empty sequence, and what is not empty.                              *)
LEMMA EmptyIs ==
  ASSUME NEW S
  PROVE  <<>> \in Seq(S) /\ Len(<<>>) = 0 /\ \A q \in Seq(S) : q # <<>> => Len(q) \in Nat \ {0}
  OBVIOUS

(* A sequence is a function on its positions.                              *)
LEMMA SeqIs ==
  ASSUME NEW S, NEW q \in Seq(S)
  PROVE  Len(q) \in Nat /\ DOMAIN q = 1..Len(q) /\ q \in [1..Len(q) -> S]
  OBVIOUS

(* A function on 1..n is a sequence.                                       *)
LEMMA FunctionsAreSeqs == \A S : Seq(S) = UNION {[1..n -> S] : n \in Nat}
  OBVIOUS

(* What is left when the first element is taken.                           *)
LEMMA TailIs ==
  ASSUME NEW S, NEW q \in Seq(S), q # <<>>
  PROVE  /\ Tail(q) \in Seq(S) /\ Len(Tail(q)) = Len(q) - 1 /\ Head(q) \in S
         /\ \A i \in 1..Len(Tail(q)) : Tail(q)[i] = q[i + 1]
  OBVIOUS

(* What appending adds.                                                    *)
LEMMA AppendIs ==
  ASSUME NEW S, NEW q \in Seq(S), NEW x \in S
  PROVE  /\ Append(q, x) \in Seq(S) /\ Len(Append(q, x)) = Len(q) + 1 /\ Append(q, x) # <<>>
         /\ Append(q, x)[Len(q) + 1] = x
         /\ \A i \in 1..Len(q) : Append(q, x)[i] = q[i]
  OBVIOUS

(* A watermark is broadcast only after one was received.                   *)
WatermarkKnown ==
  \A s \in Sources : watermarkTo[s] # {} => lastWatermark[s] > 0

(* The high watermark sendAck clamps to is the source's own.               *)
HighIsNext ==
  \A s \in Sources :
    /\ lastExclusiveHighOriginal[s] \in {0, nextTask[s]}
    /\ lastSentMin[s] <= nextTask[s]
    /\ lastWatermark[s] <= nextTask[s]

(* Proxy IDs in use are at most the last one allocated, and an ack on the  *)
(* stream reaches at most one past it and no ID the target has to apply.   *)
IDsAllocated ==
  \A t \in Targets :
    /\ \A e \in idRing[t] \cup inFlight[t] : e.id <= nextProxyTaskID[t]
    /\ targetHigh[t] <= nextProxyTaskID[t] + 1
    /\ \A i \in 1..Len(fromTarget[t]) :
         /\ fromTarget[t][i] <= nextProxyTaskID[t] + 1
         /\ \A f \in inFlight[t] : fromTarget[t][i] <= f.id

(* Entries of one source shard are in the order of their IDs, up to a real *)
(* task the target has yet to apply.                                       *)
EntriesInOrder ==
  \A t \in Targets : \A e \in idRing[t], f \in inFlight[t] :
    e.shard = f.shard /\ e.id <= f.id => e.task <= f.task

(* What a queued message will put into the ring.                           *)
Values(m) == IF m.tasks = <<>> THEN {m.high} ELSE InGroup(m.tasks)

(* v is at most every task of s in the queue q, and what the queue q has   *)
(* of s is at most u.                                                      *)
QueueFrom(q, s, v) ==
  \A i \in 1..Len(q) : q[i].shard = s =>
    \A k \in 1..Len(q[i].tasks) : v <= q[i].tasks[k]

QueueUpTo(q, s, u) ==
  \A i \in 1..Len(q) : q[i].shard = s => \A v \in Values(q[i]) : v <= u

(* A message precedes the tasks of the same source behind it.              *)
QueueInOrder(q) ==
  \A j \in 1..Len(q) :
    /\ Ordered(q[j].tasks)
    /\ \A i \in 1..(j - 1), k \in 1..Len(q[j].tasks) : q[i].shard = q[j].shard =>
         \A v \in Values(q[i]) : v <= q[j].tasks[k]

QueuesInOrder == \A t \in Targets : QueueInOrder(sendMsgChan[t])

(* What the receiver has in hand for a target is in order and follows the  *)
(* queue and the last watermark, and the source's next task follows it.    *)
OutboxLast ==
  \A s \in Sources, t \in Targets :
    /\ Ordered(outbox[s][t])
    /\ QueueUpTo(sendMsgChan[t], s, nextTask[s])
    /\ \A k \in 1..Len(outbox[s][t]) :
         /\ outbox[s][t][k] < nextTask[s]
         /\ lastWatermark[s] <= outbox[s][t][k]
         /\ QueueUpTo(sendMsgChan[t], s, outbox[s][t][k])

(* v passes no task of s that t's sender has yet to send, and none the     *)
(* source has yet to emit.  Once true it stays true.                       *)
Below(v, s, t) ==
  /\ v <= nextTask[s]
  /\ QueueFrom(sendMsgChan[t], s, v)
  /\ \A k \in 1..Len(outbox[s][t]) : v <= outbox[s][t][k]

RingFirst ==
  \A t \in Targets : \A e \in idRing[t] : Below(e.task, e.shard, t)

(* Nor does it pass a task that t was sent and has not applied.            *)
AckBelow(v, s, t) ==
  Below(v, s, t) /\ \A f \in inFlight[t] : f.shard = s => v <= f.task

AcksBelow ==
  \A s \in Sources, t \in Targets : \A v \in AcksOf(s, t) : AckBelow(v, s, t)

TypeInv == TypeOK /\ WatermarkKnown

OrderInv ==
  /\ HighIsNext
  /\ IDsAllocated
  /\ EntriesInOrder
  /\ QueuesInOrder
  /\ OutboxLast
  /\ RingFirst

IInv == TypeInv /\ OrderInv /\ AcksBelow
----------------------------------------------------------------------------
(* The groups of a batch are ordered sequences of its tasks.               *)
LEMMA GroupsTyped ==
  ASSUME NEW ids \in SUBSET (1..MaxTask), NEW g \in Groupings(ids)
  PROVE  /\ g \in [Targets -> Seq(1..MaxTask)]
         /\ \A t \in Targets :
              /\ Ordered(g[t])
              /\ \A k \in 1..Len(g[t]) : g[t][k] \in ids
<1>1. g \in [Targets -> Groups(ids)]
  BY Zenon DEF Groupings
<1>2. ASSUME NEW q \in Groups(ids)
      PROVE  q \in Seq(1..MaxTask) /\ Ordered(q) /\ \A k \in 1..Len(q) : q[k] \in ids
  <2>1. PICK n \in 0..MaxBatch : q \in [1..n -> ids]
    BY Zenon DEF Groups
  <2>2. n \in Nat /\ Ordered(q)
    BY RoutingAssumption DEF Groups
  <2>3. q \in [1..n -> 1..MaxTask]
    BY Zenon, <2>1
  <2>4. q \in Seq(1..MaxTask)
    BY Zenon, <2>2, <2>3, FunctionsAreSeqs
  <2>5. Len(q) = n
    <3>1. Len(q) \in Nat /\ DOMAIN q = 1..Len(q)
      BY Zenon, <2>4, SeqIs
    <3> QED
      BY <2>2, <2>3, <3>1
  <2> QED
    BY Zenon, <2>1, <2>2, <2>4, <2>5
<1> QED
  BY Zenon, <1>1, <1>2

(* The last element of a sequence.                                         *)
LEMMA LastOfSeq ==
  ASSUME NEW S, NEW q \in Seq(S), q # <<>>
  PROVE  Len(q) \in 1..Len(q) /\ q[Len(q)] \in S
<1>1. Len(q) \in Nat /\ Len(q) # 0
  OBVIOUS
<1>2. Len(q) \in 1..Len(q)
  BY <1>1
<1> QED
  BY Zenon, <1>2, AtIn

(* The fields of a routed ack.                                             *)
LEMMA RoutedAckFields ==
  ASSUME NEW a \in RoutedAck
  PROVE  a.target \in Targets /\ a.ack \in 1..(MaxTask + 1)
BY Zenon DEF RoutedAck

(* The fields of a routed message.                                         *)
LEMMA MessageFields ==
  ASSUME NEW m \in RoutedMessage
  PROVE  /\ m.shard \in Sources
         /\ m.tasks \in Seq(1..MaxTask)
         /\ m.high \in 1..(MaxTask + 1)
         /\ Len(m.tasks) \in Nat
BY DEF RoutedMessage

(* A message with tasks is high-watermarked one past its last task.        *)
LEMMA TaskMessageTyped ==
  ASSUME NEW s \in Sources, NEW q \in Seq(1..MaxTask), q # <<>>
  PROVE  [shard |-> s, tasks |-> q, high |-> q[Len(q)] + 1] \in RoutedMessage
<1>1. q[Len(q)] \in 1..MaxTask
  BY Zenon, LastOfSeq
<1>2. q[Len(q)] + 1 \in 1..(MaxTask + 1)
  BY <1>1, RoutingAssumption
<1> QED
  BY Zenon, <1>2 DEF RoutedMessage

(* A non-blocking send leaves every channel as it was, or appends to one.  *)
LEMMA TrySendTyped ==
  ASSUME sendMsgChan \in [Targets -> Seq(RoutedMessage)],
         NEW t \in Targets, NEW m \in RoutedMessage, TrySend(t, m)
  PROVE  sendMsgChan' \in [Targets -> Seq(RoutedMessage)]
BY DEF TrySend

(* A watermark is a message without tasks.                                 *)
LEMMA WatermarkTyped ==
  ASSUME NEW s \in Sources, NEW high \in 1..(MaxTask + 1)
  PROVE  Watermark(s, high) \in RoutedMessage
BY DEF Watermark, RoutedMessage

(* The entries of a message have the type of ring entries.                 *)
LEMMA NewEntriesTyped ==
  ASSUME NEW n \in Nat, NEW m \in RoutedMessage
  PROVE  NewEntries(n, m) \in SUBSET Entry
<1> USE RoutingAssumption
<1>1. m.shard \in Sources /\ m.high \in 1..(MaxTask + 1) /\ m.tasks \in Seq(1..MaxTask)
  BY Zenon DEF RoutedMessage
<1>2. \A i \in 1..Len(m.tasks) : m.tasks[i] \in 1..(MaxTask + 1) /\ n + i \in Nat
  BY <1>1
<1> QED
  BY <1>1, <1>2 DEF NewEntries, Entry

(* The types hold at the start.                                            *)
LEMMA InitTypeInv == Init => TypeInv
BY RoutingAssumption
DEF Init, ChannelsInit, ReceiverInit, SenderInit, TypeInv, TypeOK, WatermarkKnown, NoAck

(* Every step keeps the types, and the watermark known.                    *)
LEMMA ReceiverTypeInv ==
  ASSUME TypeInv, NEW s \in Sources, ReceiverNext(s), UNCHANGED senderVars
  PROVE  TypeInv'
<1> USE RoutingAssumption
<1> USE DEF TypeInv, TypeOK, WatermarkKnown, channelVars, receiverVars, sourceVars,
        recvVars, ackVars, senderVars, streamVars, recvAckVars
<1>1. CASE RecvTasks(s)
  <2>1. PICK n \in 1..MaxBatch :
          /\ nextTask[s] + n - 1 <= MaxTask
          /\ \E g \in Groupings(nextTask[s]..(nextTask[s] + n - 1)) :
               /\ outbox' = [outbox EXCEPT ![s] = g]
               /\ undone' = [undone EXCEPT ![s] = @ \cup
                               UNION {InGroup(g[t]) : t \in Targets}]
          /\ nextTask' = [nextTask EXCEPT ![s] = @ + n]
          /\ lastExclusiveHighOriginal' =
               [lastExclusiveHighOriginal EXCEPT ![s] = nextTask[s] + n]
    BY Zenon, <1>1 DEF RecvTasks
  <2>2. nextTask[s]..(nextTask[s] + n - 1) \in SUBSET (1..MaxTask)
    <3>1. nextTask[s] \in 1..(MaxTask + 1) /\ nextTask[s] + n - 1 <= MaxTask
      BY Zenon, <2>1
    <3> QED
      BY ONLY <2>1, <3>1, RoutingAssumption
  <2>3. PICK g \in Groupings(nextTask[s]..(nextTask[s] + n - 1)) :
          /\ outbox' = [outbox EXCEPT ![s] = g]
          /\ undone' = [undone EXCEPT ![s] = @ \cup
                          UNION {InGroup(g[t]) : t \in Targets}]
    BY Zenon, <2>1
  <2>4. /\ g \in [Targets -> Seq(1..MaxTask)]
        /\ \A t \in Targets : \A k \in 1..Len(g[t]) : g[t][k] \in 1..MaxTask
    BY Zenon, <2>2, GroupsTyped
  <2>5. outbox' \in [Sources -> [Targets -> Seq(1..MaxTask)]]
    BY Zenon, <2>3, <2>4
  <2>6. \A t \in Targets : InGroup(g[t]) \in SUBSET (1..MaxTask)
    BY Zenon, <2>4 DEF InGroup
  <2>7. undone' \in [Sources -> SUBSET (1..MaxTask)]
    <3>1. undone[s] \in SUBSET (1..MaxTask)
      BY Zenon
    <3>2. undone[s] \cup UNION {InGroup(g[t]) : t \in Targets} \in SUBSET (1..MaxTask)
      BY ONLY <2>6, <3>1, Zenon
    <3> QED
      BY Zenon, <2>3, <3>2
  <2>8. /\ nextTask' \in [Sources -> 1..(MaxTask + 1)]
        /\ lastExclusiveHighOriginal' \in [Sources -> 0..(MaxTask + 1)]
    <3>1. nextTask[s] \in 1..(MaxTask + 1) /\ nextTask[s] + n - 1 <= MaxTask
      BY Zenon, <2>1
    <3>2. nextTask[s] + n \in 1..(MaxTask + 1) /\ nextTask[s] + n \in 0..(MaxTask + 1)
      BY ONLY <2>1, <3>1, RoutingAssumption
    <3> QED
      BY Zenon, <2>1, <3>2
  <2> QED
    BY Zenon, <1>1, <2>5, <2>7, <2>8 DEF RecvTasks
<1>2. CASE RecvEmpty(s)
  <2>1. /\ emptyBatches' \in [Sources -> Nat]
        /\ lastExclusiveHighOriginal' \in [Sources -> 0..(MaxTask + 1)]
        /\ lastWatermark' \in [Sources -> 0..(MaxTask + 1)]
        /\ watermarkTo' \in [Sources -> SUBSET Targets]
    BY <1>2 DEF RecvEmpty
  <2>2. \A x \in Sources : watermarkTo'[x] # {} => lastWatermark'[x] > 0
    BY <1>2 DEF RecvEmpty
  <2> QED
    BY Zenon, <1>2, <2>1, <2>2 DEF RecvEmpty
<1>3. CASE SendAck(s)
  <2> DEFINE routed == Head(ackChan[s])
             acks   == [ackByTarget[s] EXCEPT ![routed.target] = routed.ack]
  <2>1. ackChan[s] \in Seq(RoutedAck) /\ ackChan[s] # <<>>
    BY Zenon, <1>3 DEF SendAck
  <2>2. routed \in RoutedAck /\ Tail(ackChan[s]) \in Seq(RoutedAck)
    BY <2>1
  <2>3. acks \in [Targets -> 0..(MaxTask + 1)]
    <3>1. routed.target \in Targets /\ routed.ack \in 0..(MaxTask + 1)
      BY ONLY <2>2, RoutedAckFields, RoutingAssumption
    <3> HIDE DEF routed
    <3> QED
      BY Zenon, <3>1
  <2>4. PICK min \in {acks[t] : t \in Targets} :
          lastSentMin' = [lastSentMin EXCEPT ![s] =
            IF min >= @ THEN Clamp(min, lastExclusiveHighOriginal[s]) ELSE @]
    BY Zenon, <1>3 DEF SendAck
  <2>5. min \in 0..(MaxTask + 1)
    BY Zenon, <2>3
  <2>6. Clamp(min, lastExclusiveHighOriginal[s]) \in 0..(MaxTask + 1)
    BY Zenon, <2>5 DEF Clamp
  <2>7. lastSentMin' \in [Sources -> 0..(MaxTask + 1)]
    BY Zenon, <2>4, <2>6
  <2>8. ackChan' = [ackChan EXCEPT ![s] = Tail(@)]
          /\ ackByTarget' = [ackByTarget EXCEPT ![s] = acks]
    BY Zenon, <1>3 DEF SendAck
  <2>9. /\ ackChan' \in [Sources -> Seq(RoutedAck)]
        /\ ackByTarget' \in [Sources -> [Targets -> 0..(MaxTask + 1)]]
    BY Zenon, <2>2, <2>3, <2>8
  <2> QED
    BY Zenon, <1>3, <2>7, <2>9 DEF SendAck
<1>4. ASSUME NEW t \in Targets, DeliverTasks(s, t)
      PROVE  TypeInv'
  <2> DEFINE tasks == outbox[s][t]
             m == [shard |-> s, tasks |-> tasks, high |-> tasks[Len(tasks)] + 1]
  <2>1. tasks \in Seq(1..MaxTask) /\ tasks # <<>>
    BY <1>4 DEF DeliverTasks
  <2>2. m \in RoutedMessage
    BY Zenon, <2>1, TaskMessageTyped
  <2>3. sendMsgChan' = [sendMsgChan EXCEPT ![t] = Append(@, m)]
    BY Zenon, <1>4 DEF DeliverTasks
  <2>4. sendMsgChan' \in [Targets -> Seq(RoutedMessage)]
    BY <2>2, <2>3
  <2>5. outbox' \in [Sources -> [Targets -> Seq(1..MaxTask)]]
    <3>1. <<>> \in Seq(1..MaxTask)
      OBVIOUS
    <3> QED
      BY Zenon, <1>4, <3>1 DEF DeliverTasks
  <2> QED
    BY Zenon, <1>4, <2>4, <2>5 DEF DeliverTasks
<1>5. ASSUME NEW t \in Targets, BroadcastWatermark(s, t)
      PROVE  TypeInv'
  <2>1. lastWatermark[s] \in 1..(MaxTask + 1)
    <3>1. watermarkTo[s] # {}
      BY Zenon, <1>5 DEF BroadcastWatermark
    <3>2. lastWatermark[s] \in 0..(MaxTask + 1) /\ lastWatermark[s] > 0
      BY Zenon, <3>1
    <3> QED
      BY ONLY <3>2, RoutingAssumption
  <2>2. Watermark(s, lastWatermark[s]) \in RoutedMessage
    BY Zenon, <2>1, WatermarkTyped
  <2>3. sendMsgChan' \in [Targets -> Seq(RoutedMessage)]
    BY Zenon, <1>5, <2>2, TrySendTyped DEF BroadcastWatermark
  <2> QED
    BY Zenon, <1>5, <2>3 DEF BroadcastWatermark
<1>6. ASSUME NEW t \in Targets, NotifyNewTargetShard(s, t)
      PROVE  TypeInv'
  <2>1. sendMsgChan' \in [Targets -> Seq(RoutedMessage)]
    <3>1. CASE lastWatermark[s] = 0
      BY Zenon, <1>6, <3>1 DEF NotifyNewTargetShard
    <3>2. CASE lastWatermark[s] # 0
      <4>1. lastWatermark[s] \in 0..(MaxTask + 1)
        BY Zenon
      <4>2. lastWatermark[s] \in 1..(MaxTask + 1)
        BY ONLY <3>2, <4>1, RoutingAssumption
      <4>3. Watermark(s, lastWatermark[s]) \in RoutedMessage
        BY Zenon, <4>2, WatermarkTyped
      <4> QED
        BY Zenon, <1>6, <3>2, <4>3, TrySendTyped DEF NotifyNewTargetShard
    <3> QED
      BY Zenon, <3>1, <3>2
  <2> QED
    BY Zenon, <1>6, <2>1 DEF NotifyNewTargetShard
<1> QED
  BY Zenon, <1>1, <1>2, <1>3, <1>4, <1>5, <1>6 DEF ReceiverNext

(* Every step of a sender, or of its target, keeps the types.              *)
LEMMA SenderTypeInv ==
  ASSUME TypeInv, NEW t \in Targets, SenderNext(t), UNCHANGED receiverVars
  PROVE  TypeInv'
<1> USE RoutingAssumption
<1> USE DEF TypeInv, TypeOK, WatermarkKnown, channelVars, receiverVars, sourceVars,
        recvVars, ackVars, senderVars, streamVars, recvAckVars
<1>1. CASE OpenSender(t)
  <2>1. sendMsgChan' \in [Targets -> Seq(RoutedMessage)]
    <3>1. <<>> \in Seq(RoutedMessage)
      OBVIOUS
    <3> QED
      BY Zenon, <1>1, <3>1 DEF OpenSender
  <2>2. notifying' \in [Targets -> SUBSET Sources] /\ registered' \subseteq Targets
    BY Zenon, <1>1 DEF OpenSender
  <2> QED
    BY Zenon, <1>1, <2>1, <2>2 DEF OpenSender
<1>2. CASE SendMessage(t)
  <2> DEFINE m == Head(sendMsgChan[t])
  <2>1. m \in RoutedMessage /\ Tail(sendMsgChan[t]) \in Seq(RoutedMessage)
    BY Zenon, <1>2, TailIs DEF SendMessage
  <2>2. Len(m.tasks) \in Nat
    BY Zenon, <2>1, MessageFields
  <2>3. NewEntries(nextProxyTaskID[t], m) \in SUBSET Entry
    BY Zenon, <2>1, NewEntriesTyped
  <2>4. /\ sendMsgChan' \in [Targets -> Seq(RoutedMessage)]
        /\ idRing' \in [Targets -> SUBSET Entry]
    BY Zenon, <1>2, <2>1, <2>3 DEF SendMessage
  <2>5. /\ nextProxyTaskID' \in [Targets -> Nat]
        /\ targetHigh' \in [Targets -> Nat]
        /\ inFlight' \in [Targets -> SUBSET Entry]
    <3>1. CASE m.tasks = <<>>
      <4>1. /\ nextProxyTaskID' = [nextProxyTaskID EXCEPT ![t] = @ + 1]
            /\ targetHigh' = [targetHigh EXCEPT ![t] = nextProxyTaskID[t] + 1]
            /\ UNCHANGED inFlight
        BY Zenon, <1>2, <3>1 DEF SendMessage
      <4>2. nextProxyTaskID[t] \in Nat
        BY Zenon
      <4>3. nextProxyTaskID[t] + 1 \in Nat
        BY ONLY <4>2
      <4> QED
        BY Zenon, <4>1, <4>3
    <3>2. CASE m.tasks # <<>>
      <4>1. /\ nextProxyTaskID' = [nextProxyTaskID EXCEPT ![t] = nextProxyTaskID[t] + Len(m.tasks)]
            /\ targetHigh' = [targetHigh EXCEPT ![t] = nextProxyTaskID[t] + Len(m.tasks) + 1]
            /\ inFlight' = [inFlight EXCEPT ![t] = @ \cup NewEntries(nextProxyTaskID[t], m)]
        BY Zenon, <1>2, <3>2 DEF SendMessage
      <4> HIDE DEF m
      <4>2. /\ nextProxyTaskID[t] + Len(m.tasks) \in Nat
            /\ nextProxyTaskID[t] + Len(m.tasks) + 1 \in Nat
        <5>1. nextProxyTaskID[t] \in Nat
          BY Zenon
        <5> QED
          BY ONLY <2>2, <5>1
      <4>3. inFlight[t] \cup NewEntries(nextProxyTaskID[t], m) \in SUBSET Entry
        BY Zenon, <2>3
      <4> QED
        BY Zenon, <4>1, <4>2, <4>3
    <3> QED
      BY Zenon, <3>1, <3>2
  <2> QED
    BY Zenon, <1>2, <2>4, <2>5 DEF SendMessage
<1>3. ASSUME NEW e \in inFlight[t], TargetApply(t, e)
      PROVE  TypeInv'
  BY Zenon, <1>3 DEF TargetApply
<1>4. CASE TargetAck(t)
  <2>1. fromTarget' \in [Targets -> Seq(Nat)]
    BY <1>4 DEF TargetAck
  <2> QED
    BY Zenon, <1>4, <2>1 DEF TargetAck
<1>5. CASE RecvAck(t)
  <2> DEFINE covered == {e \in idRing[t] : e.id <= Head(fromTarget[t])}
             Ack     == [shard : Sources, ack : 1..(MaxTask + 1)]
  <2>1. covered \in SUBSET Entry
    BY Zenon
  <2>2. \A e \in covered : [shard |-> e.shard, ack |-> e.task] \in Ack
    BY Zenon, <2>1 DEF Entry
  <2>3. Aggregate(covered) \in SUBSET Ack
    <3> HIDE DEF covered, Ack
    <3> QED
      BY Zenon, <2>2 DEF Aggregate
  <2>4. PreviousAcks(t) \in SUBSET Ack
    <3>1. \A x \in Sources : prevAckBySource[t][x] # NoAck =>
            prevAckBySource[t][x] \in 1..(MaxTask + 1)
      <4>1. prevAckBySource[t] \in [Sources -> 0..(MaxTask + 1)]
        BY Zenon
      <4> QED
        BY ONLY <4>1, RoutingAssumption DEF NoAck
    <3> QED
      BY ONLY <3>1, RoutingAssumption DEF PreviousAcks
  <2>5. Tail(fromTarget[t]) \in Seq(Nat)
    BY Zenon, <1>5, TailIs DEF RecvAck
  <2>6. shardToAck' \in [Targets -> SUBSET Ack]
    BY Zenon, <1>5, <2>3, <2>4 DEF RecvAck
  <2>7. /\ pendingDiscard' \in [Targets -> SUBSET Entry]
        /\ fromTarget' \in [Targets -> Seq(Nat)]
        /\ acking' \in [Targets -> BOOLEAN]
    BY Zenon, <1>5, <2>1, <2>5 DEF RecvAck
  <2> QED
    BY Zenon, <1>5, <2>6, <2>7 DEF RecvAck
<1>6. ASSUME NEW a \in shardToAck[t], DeliverAck(t, a)
      PROVE  TypeInv'
  <2>1. a.shard \in Sources /\ a.ack \in 1..(MaxTask + 1) /\ a.ack \in 0..(MaxTask + 1)
    <3>1. a \in [shard : Sources, ack : 1..(MaxTask + 1)]
      BY Zenon
    <3> QED
      BY ONLY <3>1, RoutingAssumption
  <2>2. [target |-> t, ack |-> a.ack] \in RoutedAck
    BY Zenon, <2>1 DEF RoutedAck
  <2>3. ackChan' \in [Sources -> Seq(RoutedAck)]
    <3>1. ackChan[a.shard] \in Seq(RoutedAck)
      BY Zenon, <2>1
    <3>2. Append(ackChan[a.shard], [target |-> t, ack |-> a.ack]) \in Seq(RoutedAck)
      BY Zenon, <2>2, <3>1, AppendIs
    <3> QED
      BY Zenon, <1>6, <2>1, <3>2 DEF DeliverAck
  <2>4. prevAckBySource' \in [Targets -> [Sources -> 0..(MaxTask + 1)]]
    <3>1. prevAckBySource' = [prevAckBySource EXCEPT ![t] =
            [prevAckBySource[t] EXCEPT ![a.shard] = a.ack]]
      BY Zenon, <1>6 DEF DeliverAck
    <3>2. [prevAckBySource[t] EXCEPT ![a.shard] = a.ack] \in [Sources -> 0..(MaxTask + 1)]
      BY Zenon, <2>1
    <3> QED
      BY Zenon, <3>1, <3>2
  <2> QED
    BY Zenon, <1>6, <2>3, <2>4 DEF DeliverAck
<1>7. CASE DiscardAcked(t)
  BY Zenon, <1>7 DEF DiscardAcked
<1> QED
  BY Zenon, <1>1, <1>2, <1>3, <1>4, <1>5, <1>6, <1>7 DEF SenderNext

(* The end of a target's stream keeps the types.                           *)
LEMMA EndTypeInv ==
  ASSUME TypeInv, NEW t \in Targets, EndStream(t)
  PROVE  TypeInv'
<1> USE RoutingAssumption
<1> USE DEF TypeInv, TypeOK, WatermarkKnown, channelVars, receiverVars, sourceVars,
        recvVars, ackVars, senderVars, streamVars, recvAckVars
<1>1. NoAck \in 0..(MaxTask + 1)
  BY DEF NoAck
<1>2. \A x \in Sources : watermarkTo'[x] # {} => lastWatermark'[x] > 0
  BY Zenon DEF EndStream
<1>3. watermarkTo' \in [Sources -> SUBSET Targets]
  BY Zenon DEF EndStream
<1> QED
  <2>1. sendMsgChan' \in [Targets -> Seq(RoutedMessage)] /\ fromTarget' \in [Targets -> Seq(Nat)]
    BY Zenon, EmptyIs DEF EndStream, CloseSender
  <2>2. prevAckBySource' \in [Targets -> [Sources -> 0..(MaxTask + 1)]]
    BY Zenon, <1>1 DEF EndStream, CloseSender, ForgetStream
  <2>3. /\ nextProxyTaskID' \in [Targets -> Nat]
        /\ idRing' \in [Targets -> SUBSET Entry]
        /\ acking' \in [Targets -> BOOLEAN]
        /\ shardToAck' \in [Targets -> SUBSET [shard : Sources, ack : 1..(MaxTask + 1)]]
        /\ pendingDiscard' \in [Targets -> SUBSET Entry]
    BY Zenon DEF EndStream, CloseSender, ForgetStream
  <2>4. /\ targetHigh' \in [Targets -> Nat]
        /\ inFlight' \in [Targets -> SUBSET Entry]
        /\ closes' \in [Targets -> Nat]
        /\ registered' \subseteq Targets
    BY DEF EndStream, CloseSender
  <2> QED
    BY Zenon, <1>2, <1>3, <2>1, <2>2, <2>3, <2>4 DEF EndStream, CloseSender

(* The variables keep their types: no interleaving of the receivers, the   *)
(* senders and streams that end makes a watermark, an ack or a ring entry  *)
(* leave its range.                                                        *)
THEOREM TypeCorrect == Spec => []TypeOK
<1>1. TypeInv /\ [Next]_vars => TypeInv'
  <2> SUFFICES ASSUME TypeInv, [Next]_vars PROVE TypeInv'
    BY Zenon
  <2>1. CASE Next
    BY Zenon, <2>1, ReceiverTypeInv, SenderTypeInv, EndTypeInv DEF Next
  <2>2. CASE UNCHANGED vars
    BY Zenon, <2>2 DEF TypeInv, TypeOK, WatermarkKnown, vars, channelVars, receiverVars,
                sourceVars, recvVars, ackVars, senderVars, streamVars, recvAckVars
  <2> QED
    BY Zenon, <2>1, <2>2
<1>2. TypeInv => TypeOK
  BY Zenon DEF TypeInv
<1> QED
  BY <1>1, <1>2, InitTypeInv, PTL DEF Spec

(* What a message holds is numbers.                                        *)
LEMMA ValuesTyped ==
  ASSUME NEW m \in RoutedMessage
  PROVE  /\ Values(m) \subseteq Nat
         /\ \A k \in 1..Len(m.tasks) : m.tasks[k] \in Nat /\ m.tasks[k] \in Values(m)
<1>1. m.tasks \in Seq(1..MaxTask) /\ m.high \in Nat /\ Len(m.tasks) \in Nat
  BY MessageFields
<1>2. ASSUME NEW k \in 1..Len(m.tasks) PROVE m.tasks[k] \in Nat
  <2>1. m.tasks[k] \in 1..MaxTask
    BY Zenon, <1>1, AtIn
  <2> QED
    BY <2>1
<1>3. m.tasks = <<>> => Len(m.tasks) = 0
  OBVIOUS
<1> QED
  BY <1>1, <1>2, <1>3 DEF Values, InGroup

(* The elements of a queue a message is appended to.                       *)
LEMMA AppendAt ==
  ASSUME NEW q \in Seq(RoutedMessage), NEW m \in RoutedMessage
  PROVE  /\ Len(q) \in Nat
         /\ Len(Append(q, m)) = Len(q) + 1
         /\ \A i \in 1..(Len(q) + 1) :
              Append(q, m)[i] = IF i = Len(q) + 1 THEN m ELSE q[i]
<1>1. Len(q) \in Nat
  OBVIOUS
<1> QED
  BY <1>1, AppendIs

(* The elements of a queue whose head is taken.                            *)
LEMMA TailAt ==
  ASSUME NEW q \in Seq(RoutedMessage), q # <<>>
  PROVE  /\ Len(q) \in Nat
         /\ 1 \in 1..Len(q)
         /\ Head(q) = q[1]
         /\ Len(Tail(q)) = Len(q) - 1
         /\ \A i \in 1..(Len(q) - 1) : Tail(q)[i] = q[i + 1] /\ i + 1 \in 1..Len(q)
<1>1. Len(q) \in Nat \ {0}
  BY Zenon, EmptyIs
<1> QED
  BY <1>1, TailIs

(* A larger bound, or a message of another source, changes nothing.        *)
LEMMA QueueUpToMono ==
  ASSUME NEW q \in Seq(RoutedMessage), NEW s, NEW u \in Nat, NEW w \in Nat,
         QueueUpTo(q, s, u), u <= w
  PROVE  QueueUpTo(q, s, w)
<1> SUFFICES ASSUME NEW i \in 1..Len(q), q[i].shard = s, NEW v \in Values(q[i])
             PROVE  v <= w
  BY Zenon DEF QueueUpTo
<1>1. q[i] \in RoutedMessage
  BY Zenon, AtIn
<1>2. v \in Nat
  BY Zenon, <1>1, ValuesTyped
<1>3. v <= u
  BY Zenon DEF QueueUpTo
<1> QED
  BY <1>2, <1>3

(* How the predicates on queues survive an append...                       *)
LEMMA QueueFromAppend ==
  ASSUME NEW q \in Seq(RoutedMessage), NEW m \in RoutedMessage, NEW s, NEW v,
         QueueFrom(q, s, v),
         m.shard = s => \A k \in 1..Len(m.tasks) : v <= m.tasks[k]
  PROVE  QueueFrom(Append(q, m), s, v)
BY AppendAt DEF QueueFrom

(* A message whose values are at most u can be appended.                   *)
LEMMA QueueUpToAppend ==
  ASSUME NEW q \in Seq(RoutedMessage), NEW m \in RoutedMessage, NEW s, NEW u,
         QueueUpTo(q, s, u), m.shard = s => \A v \in Values(m) : v <= u
  PROVE  QueueUpTo(Append(q, m), s, u)
BY AppendAt DEF QueueUpTo

(* A message whose tasks follow the queue can be appended.                 *)
LEMMA QueueInOrderAppend ==
  ASSUME NEW q \in Seq(RoutedMessage), NEW m \in RoutedMessage,
         QueueInOrder(q), Ordered(m.tasks),
         \A k \in 1..Len(m.tasks) : QueueUpTo(q, m.shard, m.tasks[k])
  PROVE  QueueInOrder(Append(q, m))
<1> DEFINE r == Append(q, m)
<1>1. /\ Len(q) \in Nat
      /\ Len(r) = Len(q) + 1
      /\ \A i \in 1..(Len(q) + 1) : r[i] = IF i = Len(q) + 1 THEN m ELSE q[i]
  BY Zenon, AppendAt
<1> HIDE DEF r
<1> SUFFICES ASSUME NEW j \in 1..Len(r)
             PROVE  /\ Ordered(r[j].tasks)
                    /\ \A i \in 1..(j - 1), k \in 1..Len(r[j].tasks) :
                         r[i].shard = r[j].shard => \A v \in Values(r[i]) : v <= r[j].tasks[k]
  BY Zenon DEF QueueInOrder, r
<1>2. CASE j = Len(q) + 1
  <2>1. r[j] = m /\ \A i \in 1..(j - 1) : r[i] = q[i] /\ i \in 1..Len(q)
    BY <1>1, <1>2
  <2> QED
    BY Zenon, <2>1 DEF QueueUpTo
<1>3. CASE j \in 1..Len(q)
  <2>1. r[j] = q[j] /\ \A i \in 1..(j - 1) : r[i] = q[i]
    BY <1>1, <1>3
  <2> QED
    BY Zenon, <1>3, <2>1 DEF QueueInOrder
<1> QED
  BY <1>1, <1>2, <1>3

(* ... and the removal of the head.                                        *)
LEMMA QueueFromTail ==
  ASSUME NEW q \in Seq(RoutedMessage), q # <<>>, NEW s, NEW v, QueueFrom(q, s, v)
  PROVE  QueueFrom(Tail(q), s, v)
BY TailAt DEF QueueFrom

(* Fewer messages respect the same bound.                                  *)
LEMMA QueueUpToTail ==
  ASSUME NEW q \in Seq(RoutedMessage), q # <<>>, NEW s, NEW u, QueueUpTo(q, s, u)
  PROVE  QueueUpTo(Tail(q), s, u)
BY Zenon, TailAt DEF QueueUpTo

(* The rest of the queue is in order, and the head precedes it.            *)
LEMMA QueueInOrderTail ==
  ASSUME NEW q \in Seq(RoutedMessage), q # <<>>, QueueInOrder(q)
  PROVE  /\ QueueInOrder(Tail(q))
         /\ Ordered(Head(q).tasks)
         /\ \A v \in Values(Head(q)) : QueueFrom(Tail(q), Head(q).shard, v)
<1> DEFINE r == Tail(q)
<1>1. /\ Len(q) \in Nat
      /\ 1 \in 1..Len(q)
      /\ Head(q) = q[1]
      /\ Len(r) = Len(q) - 1
      /\ \A i \in 1..(Len(q) - 1) : r[i] = q[i + 1] /\ i + 1 \in 1..Len(q)
  BY Zenon, TailAt
<1> HIDE DEF r
<1>2. QueueInOrder(r)
  <2> SUFFICES ASSUME NEW j \in 1..Len(r)
               PROVE  /\ Ordered(r[j].tasks)
                      /\ \A i \in 1..(j - 1), k \in 1..Len(r[j].tasks) :
                           r[i].shard = r[j].shard => \A v \in Values(r[i]) : v <= r[j].tasks[k]
    BY Zenon DEF QueueInOrder
  <2>1. r[j] = q[j + 1] /\ j + 1 \in 1..Len(q)
    BY Zenon, <1>1
  <2>2. \A i \in 1..(j - 1) : r[i] = q[i + 1] /\ i + 1 \in 1..((j + 1) - 1)
    BY <1>1
  <2> QED
    BY Zenon, <2>1, <2>2 DEF QueueInOrder
<1>3. Ordered(Head(q).tasks)
  BY Zenon, <1>1 DEF QueueInOrder
<1>4. ASSUME NEW v \in Values(Head(q)) PROVE QueueFrom(r, Head(q).shard, v)
  <2> SUFFICES ASSUME NEW i \in 1..Len(r), r[i].shard = Head(q).shard,
                      NEW k \in 1..Len(r[i].tasks)
               PROVE  v <= r[i].tasks[k]
    BY Zenon DEF QueueFrom
  <2>1. r[i] = q[i + 1] /\ i + 1 \in 1..Len(q) /\ 1 \in 1..((i + 1) - 1)
    BY <1>1
  <2> QED
    BY Zenon, <1>1, <2>1 DEF QueueInOrder
<1> QED
  BY Zenon, <1>2, <1>3, <1>4 DEF r
----------------------------------------------------------------------------
(* The IDs of a batch of n tasks from a on.                                *)
LEMMA InBatch ==
  ASSUME NEW a \in Nat, NEW n \in Nat, NEW x \in a..(a + n - 1)
  PROVE  x \in Nat /\ a <= x /\ x < a + n
OBVIOUS

(* The types of the parts the ordering is about.                           *)
LEMMA Typed ==
  ASSUME TypeInv
  PROVE  /\ TypeOK
         /\ \A s \in Sources :
              /\ nextTask[s] \in Nat
              /\ lastWatermark[s] \in Nat
              /\ lastSentMin[s] \in Nat
              /\ \A t \in Targets :
                   /\ ackByTarget[s][t] \in Nat
                   /\ prevAckBySource[t][s] \in Nat
                   /\ outbox[s][t] \in Seq(1..MaxTask)
                   /\ \A k \in 1..Len(outbox[s][t]) : outbox[s][t][k] \in Nat
         /\ \A t \in Targets :
              /\ sendMsgChan[t] \in Seq(RoutedMessage)
              /\ nextProxyTaskID[t] \in Nat
              /\ targetHigh[t] \in Nat
              /\ fromTarget[t] \in Seq(Nat)
              /\ \A e \in idRing[t] \cup inFlight[t] :
                   e.id \in Nat /\ e.shard \in Sources /\ e.task \in Nat
<1> USE RoutingAssumption
<1>1. TypeOK
  BY Zenon DEF TypeInv
<1>2. ASSUME NEW s \in Sources
      PROVE  nextTask[s] \in Nat /\ lastWatermark[s] \in Nat /\ lastSentMin[s] \in Nat
  BY <1>1 DEF TypeOK
<1>3. ASSUME NEW s \in Sources, NEW t \in Targets
      PROVE  /\ ackByTarget[s][t] \in Nat
             /\ prevAckBySource[t][s] \in Nat
             /\ outbox[s][t] \in Seq(1..MaxTask)
  BY <1>1 DEF TypeOK
<1>4. ASSUME NEW s \in Sources, NEW t \in Targets, NEW k \in 1..Len(outbox[s][t])
      PROVE  outbox[s][t][k] \in Nat
  <2>1. outbox[s][t][k] \in 1..MaxTask
    BY Zenon, <1>3, AtIn
  <2> QED
    BY <2>1
<1>5. ASSUME NEW t \in Targets
      PROVE  /\ sendMsgChan[t] \in Seq(RoutedMessage)
             /\ nextProxyTaskID[t] \in Nat
             /\ targetHigh[t] \in Nat
             /\ fromTarget[t] \in Seq(Nat)
  BY Zenon, <1>1 DEF TypeOK
<1>6. ASSUME NEW t \in Targets, NEW e \in idRing[t] \cup inFlight[t]
      PROVE  e.id \in Nat /\ e.shard \in Sources /\ e.task \in Nat
  <2>1. e \in Entry
    BY Zenon, <1>1 DEF TypeOK
  <2> QED
    BY <2>1 DEF Entry
<1> QED
  BY Zenon, <1>1, <1>2, <1>3, <1>4, <1>5, <1>6

(* What recvReplicationMessages does with a batch: its tasks start at the  *)
(* source's next one.                                                      *)
LEMMA RecvTasksEffect ==
  ASSUME TypeOK, NEW s \in Sources, RecvTasks(s)
  PROVE  /\ nextTask'[s] \in Nat /\ nextTask'[s] > nextTask[s]
         /\ lastExclusiveHighOriginal'[s] = nextTask'[s]
         /\ \A x \in Sources \ {s} :
              /\ nextTask'[x] = nextTask[x]
              /\ outbox'[x] = outbox[x]
              /\ lastExclusiveHighOriginal'[x] = lastExclusiveHighOriginal[x]
         /\ \A t \in Targets :
              /\ Ordered(outbox'[s][t])
              /\ \A k \in 1..Len(outbox'[s][t]) :
                   /\ outbox'[s][t][k] \in Nat
                   /\ nextTask[s] <= outbox'[s][t][k]
                   /\ outbox'[s][t][k] < nextTask'[s]
<1> USE RoutingAssumption
<1>1. PICK n \in 1..MaxBatch :
        /\ nextTask[s] + n - 1 <= MaxTask
        /\ \E g \in Groupings(nextTask[s]..(nextTask[s] + n - 1)) :
             outbox' = [outbox EXCEPT ![s] = g]
        /\ nextTask' = [nextTask EXCEPT ![s] = @ + n]
        /\ lastExclusiveHighOriginal' =
             [lastExclusiveHighOriginal EXCEPT ![s] = nextTask[s] + n]
  BY Zenon DEF RecvTasks
<1>2. nextTask[s]..(nextTask[s] + n - 1) \in SUBSET (1..MaxTask)
  BY <1>1 DEF TypeOK
<1>3. PICK g \in Groupings(nextTask[s]..(nextTask[s] + n - 1)) :
        outbox' = [outbox EXCEPT ![s] = g]
  BY Zenon, <1>1
<1>4. \A t \in Targets :
        /\ Ordered(g[t])
        /\ \A k \in 1..Len(g[t]) : g[t][k] \in nextTask[s]..(nextTask[s] + n - 1)
  BY Zenon, <1>2, GroupsTyped
<1>5. outbox'[s] = g /\ \A x \in Sources \ {s} : outbox'[x] = outbox[x]
  BY Zenon, <1>3 DEF TypeOK
<1>6. /\ nextTask'[s] = nextTask[s] + n
      /\ \A x \in Sources \ {s} : nextTask'[x] = nextTask[x]
      /\ lastExclusiveHighOriginal'[s] = nextTask[s] + n
      /\ \A x \in Sources \ {s} :
           lastExclusiveHighOriginal'[x] = lastExclusiveHighOriginal[x]
  BY Zenon, <1>1 DEF TypeOK
<1>7. n \in Nat /\ n > 0 /\ nextTask[s] \in Nat
  BY DEF TypeOK
<1>8. ASSUME NEW t \in Targets, NEW k \in 1..Len(g[t])
      PROVE  g[t][k] \in Nat /\ nextTask[s] <= g[t][k] /\ g[t][k] < nextTask[s] + n
  <2>1. g[t][k] \in nextTask[s]..(nextTask[s] + n - 1)
    BY Zenon, <1>4
  <2> QED
    BY Zenon, <1>7, <2>1, InBatch
<1>9. nextTask'[s] \in Nat /\ nextTask'[s] > nextTask[s]
  BY <1>6, <1>7
<1> QED
  BY Zenon, <1>4, <1>5, <1>6, <1>8, <1>9

(* A step that appends a watermark, or nothing, to one channel.            *)
LEMMA TrySendEffect ==
  ASSUME TypeOK, NEW t \in Targets, NEW m \in RoutedMessage, TrySend(t, m)
  PROVE  \A u \in Targets :
           \/ sendMsgChan'[u] = sendMsgChan[u]
           \/ u = t /\ sendMsgChan'[u] = Append(sendMsgChan[u], m)
BY Zenon DEF TrySend, TypeOK

(* A watermark holds no tasks and is worth its own value.                  *)
LEMMA WatermarkFields ==
  ASSUME NEW s \in Sources, NEW high \in 1..(MaxTask + 1)
  PROVE  /\ Watermark(s, high) \in RoutedMessage
         /\ Watermark(s, high).shard = s
         /\ Watermark(s, high).tasks = <<>>
         /\ Len(Watermark(s, high).tasks) = 0
         /\ Values(Watermark(s, high)) = {high}
BY DEF Watermark, RoutedMessage, Values

(* Both senders of watermarks do one TrySend of the last watermark, which  *)
(* is known, or nothing.                                                   *)
LEMMA WatermarkEffect ==
  ASSUME TypeInv, NEW s \in Sources, NEW t \in Targets,
         BroadcastWatermark(s, t) \/ NotifyNewTargetShard(s, t)
  PROVE  \/ sendMsgChan' = sendMsgChan
         \/ /\ lastWatermark[s] \in 1..(MaxTask + 1)
            /\ TrySend(t, Watermark(s, lastWatermark[s]))
<1>0. lastWatermark[s] \in 0..(MaxTask + 1)
  BY Zenon, Typed DEF TypeOK
<1>1. CASE BroadcastWatermark(s, t)
  <2>1. watermarkTo[s] # {}
    BY Zenon, <1>1 DEF BroadcastWatermark
  <2>2. lastWatermark[s] > 0
    BY Zenon, <2>1 DEF TypeInv, WatermarkKnown
  <2> QED
    BY <1>0, <1>1, <2>2, RoutingAssumption DEF BroadcastWatermark
<1>2. CASE NotifyNewTargetShard(s, t)
  <2>1. CASE lastWatermark[s] = 0
    BY Zenon, <1>2, <2>1 DEF NotifyNewTargetShard
  <2>2. CASE lastWatermark[s] # 0
    BY <1>0, <1>2, <2>2, RoutingAssumption DEF NotifyNewTargetShard
  <2> QED
    BY Zenon, <2>1, <2>2
<1> QED
  BY Zenon, <1>1, <1>2

(* What the receiver of x does puts no task at or below v in front of a    *)
(* target that v is below.                                                 *)
LEMMA ReceiverKeepsBelow ==
  ASSUME TypeInv, NEW x \in Sources, ReceiverNext(x), UNCHANGED senderVars,
         NEW s \in Sources, NEW t \in Targets, NEW v \in Nat, Below(v, s, t)
  PROVE  Below(v, s, t)'
<1> USE DEF channelVars, receiverVars, sourceVars, recvVars, ackVars
<1>0. TypeOK /\ nextTask[s] \in Nat /\ sendMsgChan[t] \in Seq(RoutedMessage)
  BY Zenon, Typed
<1>1. CASE RecvTasks(x)
  <2>1. UNCHANGED sendMsgChan
    BY Zenon, <1>1 DEF RecvTasks
  <2>2. CASE x = s
    <3>1. /\ nextTask'[s] \in Nat /\ nextTask'[s] > nextTask[s]
          /\ \A k \in 1..Len(outbox'[s][t]) :
               outbox'[s][t][k] \in Nat /\ nextTask[s] <= outbox'[s][t][k]
      BY Zenon, <1>0, <1>1, <2>2, RecvTasksEffect
    <3>2. v <= nextTask'[s]
      BY <1>0, <3>1 DEF Below
    <3>3. \A k \in 1..Len(outbox'[s][t]) : v <= outbox'[s][t][k]
      BY <1>0, <3>1 DEF Below
    <3> QED
      BY Zenon, <2>1, <3>2, <3>3 DEF Below
  <2>3. CASE x # s
    <3>1. nextTask'[s] = nextTask[s] /\ outbox'[s] = outbox[s]
      BY Zenon, <1>0, <1>1, <2>3, RecvTasksEffect
    <3> QED
      BY Zenon, <2>1, <3>1 DEF Below
  <2> QED
    BY Zenon, <2>2, <2>3
<1>2. CASE RecvEmpty(x)
  BY Zenon, <1>2 DEF RecvEmpty, Below
<1>3. CASE SendAck(x)
  BY Zenon, <1>3 DEF SendAck, Below
<1>4. ASSUME NEW y \in Targets, DeliverTasks(x, y)
      PROVE  Below(v, s, t)'
  <2> DEFINE q == outbox[x][y]
             m == [shard |-> x, tasks |-> q, high |-> q[Len(q)] + 1]
  <2>1. /\ m \in RoutedMessage
        /\ sendMsgChan'[t] = IF t = y THEN Append(sendMsgChan[t], m) ELSE sendMsgChan[t]
        /\ outbox'[s][t] = IF s = x /\ t = y THEN <<>> ELSE outbox[s][t]
    <3>1. q \in Seq(1..MaxTask) /\ q # <<>>
      BY <1>0, <1>4 DEF DeliverTasks, TypeOK
    <3>2. m \in RoutedMessage
      BY Zenon, <3>1, TaskMessageTyped
    <3> QED
      BY Zenon, <1>0, <1>4, <3>2 DEF DeliverTasks, TypeOK
  <2>2. m.shard = x /\ m.tasks = q
    BY Zenon
  <2>3. t = y /\ s = x => \A k \in 1..Len(q) : v <= q[k]
    BY Zenon DEF Below
  <2> HIDE DEF m
  <2>4. QueueFrom(sendMsgChan'[t], s, v)
    <3>1. CASE t = y
      BY Zenon, <1>0, <2>1, <2>2, <2>3, <3>1, QueueFromAppend DEF Below
    <3>2. CASE t # y
      BY Zenon, <2>1, <3>2 DEF Below
    <3> QED
      BY Zenon, <3>1, <3>2
  <2>5. \A k \in 1..Len(outbox'[s][t]) : v <= outbox'[s][t][k]
    BY <2>1 DEF Below
  <2> QED
    BY Zenon, <1>4, <2>4, <2>5 DEF Below, DeliverTasks
<1>5. ASSUME NEW y \in Targets, BroadcastWatermark(x, y) \/ NotifyNewTargetShard(x, y)
      PROVE  Below(v, s, t)'
  <2>1. UNCHANGED <<nextTask, outbox>>
    BY Zenon, <1>5 DEF BroadcastWatermark, NotifyNewTargetShard
  <2>2. QueueFrom(sendMsgChan'[t], s, v)
    <3>1. CASE sendMsgChan' = sendMsgChan
      BY Zenon, <3>1 DEF Below
    <3>2. CASE /\ lastWatermark[x] \in 1..(MaxTask + 1)
               /\ TrySend(y, Watermark(x, lastWatermark[x]))
      <4> DEFINE m == Watermark(x, lastWatermark[x])
      <4>1. m \in RoutedMessage /\ Len(m.tasks) = 0
        BY Zenon, <3>2, WatermarkFields
      <4>2. \/ sendMsgChan'[t] = sendMsgChan[t]
            \/ sendMsgChan'[t] = Append(sendMsgChan[t], m)
        BY Zenon, <1>0, <3>2, <4>1, TrySendEffect
      <4> HIDE DEF m
      <4>3. \A k \in 1..Len(m.tasks) : v <= m.tasks[k]
        BY <4>1
      <4> QED
        BY Zenon, <1>0, <4>1, <4>2, <4>3, QueueFromAppend DEF Below
    <3> QED
      BY Zenon, <1>5, <3>1, <3>2, WatermarkEffect
  <2> QED
    BY Zenon, <2>1, <2>2 DEF Below
<1> QED
  BY Zenon, <1>1, <1>2, <1>3, <1>4, <1>5 DEF ReceiverNext

(* The entries of a message have IDs past the last one, in the order of    *)
(* its tasks.                                                              *)
LEMMA NewEntriesEffect ==
  ASSUME NEW n \in Nat, NEW m \in RoutedMessage, NEW e \in NewEntries(n, m)
  PROVE  /\ e.shard = m.shard
         /\ e.task \in Values(m)
         /\ m.tasks = <<>> => e.id = n + 1
         /\ m.tasks # <<>> => \E i \in 1..Len(m.tasks) : e.id = n + i /\ e.task = m.tasks[i]
         /\ e.id > n
<1>1. CASE m.tasks = <<>>
  BY <1>1 DEF NewEntries, Values
<1>2. CASE m.tasks # <<>>
  <2>1. PICK i \in 1..Len(m.tasks) : e = [id |-> n + i, shard |-> m.shard, task |-> m.tasks[i]]
    BY Zenon, <1>2 DEF NewEntries
  <2>2. Len(m.tasks) \in Nat
    BY Zenon, MessageFields
  <2> QED
    BY <1>2, <2>1, <2>2 DEF Values, InGroup
<1> QED
  BY Zenon, <1>1, <1>2

(* What sendMessages does with the head of its channel.                    *)
LEMMA SendMessageEffect ==
  ASSUME TypeInv, NEW x \in Targets, SendMessage(x)
  PROVE  LET q == sendMsgChan[x]
             m == Head(q)
             new == NewEntries(nextProxyTaskID[x], m)
         IN /\ q \in Seq(RoutedMessage) /\ q # <<>> /\ m \in RoutedMessage
            /\ sendMsgChan'[x] = Tail(q)
            /\ idRing'[x] = idRing[x] \cup new
            /\ \/ m.tasks = <<>> /\ inFlight'[x] = inFlight[x]
               \/ m.tasks # <<>> /\ inFlight'[x] = inFlight[x] \cup new
            /\ \A t \in Targets \ {x} :
                 /\ sendMsgChan'[t] = sendMsgChan[t]
                 /\ idRing'[t] = idRing[t]
                 /\ inFlight'[t] = inFlight[t]
            /\ UNCHANGED fromTarget
<1> DEFINE q == sendMsgChan[x]
           m == Head(q)
           new == NewEntries(nextProxyTaskID[x], m)
<1>0. TypeOK
  BY Zenon, Typed
<1>1. q \in Seq(RoutedMessage) /\ q # <<>>
  BY Zenon, <1>0 DEF SendMessage, TypeOK
<1>2. m \in RoutedMessage
  BY <1>1
<1>3. /\ sendMsgChan' = [sendMsgChan EXCEPT ![x] = Tail(@)]
      /\ idRing' = [idRing EXCEPT ![x] = @ \cup new]
      /\ \/ m.tasks = <<>> /\ UNCHANGED inFlight
         \/ m.tasks # <<>> /\ inFlight' = [inFlight EXCEPT ![x] = @ \cup new]
      /\ UNCHANGED fromTarget
  BY Zenon DEF SendMessage
<1> HIDE DEF m, new
<1>4. /\ sendMsgChan'[x] = Tail(q)
      /\ idRing'[x] = idRing[x] \cup new
      /\ \/ m.tasks = <<>> /\ inFlight'[x] = inFlight[x]
         \/ m.tasks # <<>> /\ inFlight'[x] = inFlight[x] \cup new
      /\ \A t \in Targets \ {x} :
           /\ sendMsgChan'[t] = sendMsgChan[t]
           /\ idRing'[t] = idRing[t]
           /\ inFlight'[t] = inFlight[t]
  BY <1>0, <1>3 DEF TypeOK
<1> QED
  BY Zenon, <1>1, <1>2, <1>3, <1>4 DEF m, new

(* What the sender of x does, or the end of its stream, keeps Below.       *)
LEMMA SenderKeepsBelow ==
  ASSUME TypeInv, NEW x \in Targets, SenderNext(x), UNCHANGED receiverVars,
         NEW s \in Sources, NEW t \in Targets, NEW v \in Nat, Below(v, s, t)
  PROVE  Below(v, s, t)'
<1>0. TypeOK
  BY Zenon, Typed
<1>1. UNCHANGED <<nextTask, outbox>>
  BY Zenon DEF receiverVars, sourceVars, recvVars
<1>2. QueueFrom(sendMsgChan'[t], s, v)
  <2>1. CASE OpenSender(x)
    <3>1. sendMsgChan'[t] = sendMsgChan[t] \/ sendMsgChan'[t] = <<>>
      BY Zenon, <1>0, <2>1 DEF OpenSender, TypeOK
    <3>2. QueueFrom(<<>>, s, v)
      BY EmptyIs DEF QueueFrom
    <3> QED
      BY Zenon, <3>1, <3>2 DEF Below
  <2>2. CASE SendMessage(x)
    <3>1. /\ sendMsgChan[x] \in Seq(RoutedMessage) /\ sendMsgChan[x] # <<>>
          /\ sendMsgChan'[x] = Tail(sendMsgChan[x])
          /\ \A y \in Targets \ {x} : sendMsgChan'[y] = sendMsgChan[y]
      BY Zenon, <2>2, SendMessageEffect
    <3>2. QueueFrom(sendMsgChan[t], s, v)
      BY Zenon DEF Below
    <3>3. CASE t = x
      BY Zenon, <3>1, <3>2, <3>3, QueueFromTail
    <3>4. CASE t # x
      BY Zenon, <3>1, <3>2, <3>4
    <3> QED
      BY Zenon, <3>3, <3>4
  <2>3. ASSUME UNCHANGED sendMsgChan
        PROVE  QueueFrom(sendMsgChan'[t], s, v)
    BY Zenon, <2>3 DEF Below
  <2> QED
    BY Zenon, <2>1, <2>2, <2>3
    DEF SenderNext, TargetApply, TargetAck, RecvAck, DeliverAck, DiscardAcked,
        channelVars, senderVars, streamVars, recvAckVars
<1> QED
  BY Zenon, <1>1, <1>2 DEF Below

(* The end of a stream empties its channel, which keeps Below.             *)
LEMMA EndKeepsBelow ==
  ASSUME TypeInv, NEW x \in Targets, EndStream(x),
         NEW s \in Sources, NEW t \in Targets, NEW v \in Nat, Below(v, s, t)
  PROVE  Below(v, s, t)'
<1>0. TypeOK
  BY Zenon, Typed
<1>1. UNCHANGED <<nextTask, outbox>>
  BY Zenon DEF EndStream, sourceVars
<1>2. sendMsgChan'[t] = sendMsgChan[t] \/ sendMsgChan'[t] = <<>>
  BY Zenon, <1>0 DEF EndStream, CloseSender, TypeOK
<1> QED
  BY <1>1, <1>2 DEF Below, QueueFrom

(* An ack that is safe stays safe: whatever comes in front of the target   *)
(* later is at least as high.                                              *)
LEMMA AckBelowStable ==
  ASSUME TypeInv, Next,
         NEW s \in Sources, NEW t \in Targets, NEW v \in Nat, AckBelow(v, s, t)
  PROVE  AckBelow(v, s, t)'
<1>0. TypeOK /\ Below(v, s, t) /\ \A f \in inFlight[t] : f.shard = s => v <= f.task
  BY Zenon, Typed DEF AckBelow
<1>1. ASSUME NEW x \in Sources, ReceiverNext(x), UNCHANGED senderVars
      PROVE  AckBelow(v, s, t)'
  BY Zenon, <1>0, <1>1, ReceiverKeepsBelow DEF AckBelow, senderVars, streamVars
<1>2. ASSUME NEW x \in Targets, SenderNext(x), UNCHANGED receiverVars
      PROVE  AckBelow(v, s, t)'
  <2>1. \A f \in inFlight'[t] : f.shard = s => v <= f.task
    <3>1. CASE SendMessage(x)
      <4>0. SUFFICES ASSUME NEW f \in inFlight'[t], f.shard = s PROVE v <= f.task
        BY Zenon
      <4>1. CASE f \in inFlight[t]
        BY Zenon, <1>0, <4>0, <4>1
      <4>2. CASE f \notin inFlight[t]
        <5> DEFINE q == sendMsgChan[x]
                   m == Head(q)
        <5>1. /\ t = x /\ m.tasks # <<>> /\ m \in RoutedMessage
              /\ f \in NewEntries(nextProxyTaskID[x], m)
              /\ q \in Seq(RoutedMessage) /\ q # <<>>
          BY Zenon, <3>1, <4>2, SendMessageEffect
        <5>2. nextProxyTaskID[x] \in Nat
          BY Zenon, Typed
        <5>3. PICK i \in 1..Len(m.tasks) : f.task = m.tasks[i] /\ f.shard = m.shard
          <6> HIDE DEF m
          <6> QED
            BY <5>1, <5>2, NewEntriesEffect
        <5>4. 1 \in 1..Len(q) /\ m = q[1]
          BY Zenon, <5>1, TailAt
        <5>5. QueueFrom(q, s, v)
          BY Zenon, <1>0, <5>1 DEF Below
        <5>6. q[1].shard = s => \A k \in 1..Len(q[1].tasks) : v <= q[1].tasks[k]
          BY ONLY <5>4, <5>5, Zenon DEF QueueFrom
        <5> QED
          BY ONLY <4>0, <5>3, <5>4, <5>6, Zenon
      <4> QED
        BY Zenon, <4>1, <4>2
    <3>2. ASSUME inFlight'[t] \subseteq inFlight[t]
          PROVE  \A f \in inFlight'[t] : f.shard = s => v <= f.task
      BY Zenon, <1>0, <3>2
    <3>3. CASE \E e \in inFlight[x] : TargetApply(x, e)
      <4>1. PICK e \in inFlight[x] : inFlight' = [inFlight EXCEPT ![x] = @ \ {e}]
        BY Zenon, <3>3 DEF TargetApply
      <4>2. inFlight'[t] \subseteq inFlight[t]
        BY Zenon, <1>0, <4>1 DEF TypeOK
      <4> QED
        BY Zenon, <3>2, <4>2
    <3>4. CASE \/ OpenSender(x) \/ TargetAck(x) \/ RecvAck(x) \/ DiscardAcked(x)
               \/ \E a \in shardToAck[x] : DeliverAck(x, a)
      <4>1. UNCHANGED inFlight
        BY Zenon, <3>4 DEF OpenSender, TargetAck, RecvAck, DeliverAck, DiscardAcked,
                    senderVars, streamVars
      <4> QED
        BY Zenon, <1>0, <4>1
    <3> QED
      BY Zenon, <1>2, <3>1, <3>3, <3>4 DEF SenderNext
  <2> QED
    BY Zenon, <1>0, <1>2, <2>1, SenderKeepsBelow DEF AckBelow
<1>3. ASSUME NEW x \in Targets, EndStream(x)
      PROVE  AckBelow(v, s, t)'
  <2>1. inFlight'[t] \subseteq inFlight[t]
    BY Zenon, <1>0, <1>3 DEF EndStream, CloseSender, TypeOK
  <2> QED
    BY Zenon, <1>0, <1>3, <2>1, EndKeepsBelow DEF AckBelow
<1> QED
  BY Zenon, <1>1, <1>2, <1>3 DEF Next
----------------------------------------------------------------------------
(* The order holds at the start: everything is empty.                      *)
LEMMA InitIInv == Init => IInv
<1> SUFFICES ASSUME Init PROVE OrderInv /\ AcksBelow
  BY Zenon, InitTypeInv DEF IInv
<1>1. ChannelsInit /\ ReceiverInit /\ SenderInit
  BY Zenon DEF Init
<1>2. ASSUME NEW t \in Targets
      PROVE  /\ sendMsgChan[t] = <<>> /\ fromTarget[t] = <<>>
             /\ idRing[t] = {} /\ inFlight[t] = {} /\ shardToAck[t] = {}
             /\ nextProxyTaskID[t] = 0 /\ targetHigh[t] = 0
             /\ \A s \in Sources : prevAckBySource[t][s] = 0
  BY Zenon, <1>1 DEF ChannelsInit, SenderInit, NoAck
<1>3. ASSUME NEW s \in Sources
      PROVE  /\ nextTask[s] = 1 /\ lastExclusiveHighOriginal[s] = 0
             /\ lastWatermark[s] = 0 /\ lastSentMin[s] = 0 /\ ackChan[s] = <<>>
             /\ \A t \in Targets : outbox[s][t] = <<>> /\ ackByTarget[s][t] = 0
  BY Zenon, <1>1 DEF ChannelsInit, ReceiverInit, NoAck
<1>4. Len(<<>>) = 0 /\ 1..0 = {}
  OBVIOUS
<1>5. \A s, u : QueueUpTo(<<>>, s, u) /\ QueueFrom(<<>>, s, u)
  BY ONLY <1>4 DEF QueueUpTo, QueueFrom
<1>6. QueueInOrder(<<>>) /\ Ordered(<<>>)
  BY ONLY <1>4 DEF QueueInOrder, Ordered
<1>7. HighIsNext /\ IDsAllocated
  BY ONLY <1>2, <1>3, <1>4 DEF HighIsNext, IDsAllocated
<1>8. QueuesInOrder /\ EntriesInOrder /\ RingFirst
  BY ONLY <1>2, <1>6, Zenon DEF QueuesInOrder, EntriesInOrder, RingFirst
<1>9. OutboxLast
  BY ONLY <1>2, <1>3, <1>4, <1>5, <1>6 DEF OutboxLast
<1>10. ASSUME NEW s \in Sources, NEW t \in Targets, NEW v \in AcksOf(s, t)
       PROVE  AckBelow(v, s, t)
  <2>1. v = 0
    BY ONLY <1>2, <1>3, <1>4, <1>10 DEF AcksOf
  <2> QED
    BY ONLY <1>2, <1>3, <1>4, <1>5, <1>10, <2>1 DEF AckBelow, Below
<1> QED
  BY Zenon, <1>7, <1>8, <1>9, <1>10 DEF OrderInv, AcksBelow
----------------------------------------------------------------------------
(* A step of the receiver of s keeps the order.                            *)
LEMMA ReceiverOrderInv ==
  ASSUME IInv, NEW s \in Sources, ReceiverNext(s), UNCHANGED senderVars
  PROVE  OrderInv'
<1> USE DEF channelVars, receiverVars, sourceVars, recvVars, ackVars
<1>0. TypeInv /\ TypeOK /\ OrderInv /\ AcksBelow
  BY Zenon, Typed DEF IInv
<1>1. UNCHANGED <<nextProxyTaskID, idRing, targetHigh, inFlight, fromTarget>>
  BY Zenon DEF senderVars, streamVars
<1>2. IDsAllocated' /\ EntriesInOrder'
  BY Zenon, <1>0, <1>1 DEF OrderInv, IDsAllocated, EntriesInOrder
<1>3. RingFirst'
  <2>1. ASSUME NEW t \in Targets, NEW e \in idRing[t]
        PROVE  Below(e.task, e.shard, t)'
    <3>1. e.task \in Nat /\ e.shard \in Sources /\ Below(e.task, e.shard, t)
      BY Zenon, <1>0, Typed DEF OrderInv, RingFirst
    <3> QED
      BY Zenon, <1>0, <3>1, ReceiverKeepsBelow
  <2> QED
    BY Zenon, <1>1, <2>1 DEF RingFirst
<1>4. HighIsNext'
  <2>1. CASE RecvTasks(s)
    <3>1. UNCHANGED <<lastSentMin, lastWatermark>>
      BY Zenon, <2>1 DEF RecvTasks
    <3>2. ASSUME NEW x \in Sources
          PROVE  /\ lastExclusiveHighOriginal'[x] \in {0, nextTask'[x]}
                 /\ lastSentMin[x] <= nextTask'[x]
                 /\ lastWatermark[x] <= nextTask'[x]
      <4>1. /\ nextTask[x] \in Nat /\ lastSentMin[x] \in Nat /\ lastWatermark[x] \in Nat
            /\ lastExclusiveHighOriginal[x] \in {0, nextTask[x]}
            /\ lastSentMin[x] <= nextTask[x] /\ lastWatermark[x] <= nextTask[x]
        BY Zenon, <1>0, Typed DEF OrderInv, HighIsNext
      <4>2. CASE x = s
        <5>1. /\ nextTask'[x] \in Nat /\ nextTask'[x] > nextTask[x]
              /\ lastExclusiveHighOriginal'[x] = nextTask'[x]
          BY Zenon, <1>0, <2>1, <4>2, RecvTasksEffect
        <5> QED
          BY <4>1, <5>1
      <4>3. CASE x # s
        BY Zenon, <1>0, <2>1, <4>1, <4>3, RecvTasksEffect
      <4> QED
        BY Zenon, <4>2, <4>3
    <3> QED
      BY Zenon, <3>1, <3>2 DEF HighIsNext
  <2>2. CASE RecvEmpty(s)
    <3>1. UNCHANGED <<lastSentMin, nextTask>>
      BY Zenon, <2>2 DEF RecvEmpty
    <3>2. \A x \in Sources :
            /\ nextTask[x] \in Nat
            /\ lastExclusiveHighOriginal'[x] \in {lastExclusiveHighOriginal[x], nextTask[x]}
            /\ lastWatermark'[x] \in {lastWatermark[x], nextTask[x]}
      BY Zenon, <1>0, <2>2, Typed DEF RecvEmpty, TypeOK
    <3> QED
      BY <1>0, <3>1, <3>2 DEF OrderInv, HighIsNext
  <2>3. CASE SendAck(s)
    <3>1. UNCHANGED <<nextTask, lastExclusiveHighOriginal, lastWatermark>>
      BY Zenon, <2>3 DEF SendAck
    <3>2. lastSentMin'[s] <= nextTask[s]
            /\ \A x \in Sources \ {s} : lastSentMin'[x] = lastSentMin[x]
      <4> DEFINE routed == Head(ackChan[s])
                 acks   == [ackByTarget[s] EXCEPT ![routed.target] = routed.ack]
      <4>1. PICK min \in {acks[t] : t \in Targets} :
              lastSentMin' = [lastSentMin EXCEPT ![s] =
                IF min >= @ THEN Clamp(min, lastExclusiveHighOriginal[s]) ELSE @]
        BY Zenon, <2>3 DEF SendAck
      <4>2. \A t \in Targets : acks[t] <= nextTask[s]
        <5>1. ackChan[s] \in Seq(RoutedAck) /\ ackChan[s] # <<>>
          BY Zenon, <1>0, <2>3 DEF SendAck, TypeOK
        <5>2. /\ routed = ackChan[s][1] /\ 1 \in 1..Len(ackChan[s])
              /\ routed.target \in Targets
          <6>1. Len(ackChan[s]) \in Nat \ {0}
            BY Zenon, <5>1, EmptyIs
          <6>2. routed = ackChan[s][1] /\ routed \in RoutedAck
            BY <5>1
          <6> QED
            BY <6>1, <6>2, RoutedAckFields
        <5>3. routed.ack <= nextTask[s]
          <6>1. routed.ack \in AcksOf(s, routed.target)
            BY Zenon, <5>2 DEF AcksOf
          <6> QED
            BY Zenon, <1>0, <5>2, <6>1 DEF AcksBelow, AckBelow, Below
        <5>4. ASSUME NEW t \in Targets PROVE ackByTarget[s][t] <= nextTask[s]
          <6>1. ackByTarget[s][t] \in AcksOf(s, t)
            BY Zenon DEF AcksOf
          <6> QED
            BY Zenon, <1>0, <6>1 DEF AcksBelow, AckBelow, Below
        <5>5. ackByTarget[s] \in [Targets -> 0..(MaxTask + 1)]
          BY Zenon, <1>0 DEF TypeOK
        <5> HIDE DEF routed
        <5> QED
          BY Zenon, <5>2, <5>3, <5>4, <5>5
      <4>3. min <= nextTask[s]
        BY Zenon, <4>2
      <4> HIDE DEF acks
      <4>4. /\ lastExclusiveHighOriginal[s] \in {0, nextTask[s]}
            /\ lastSentMin[s] <= nextTask[s]
            /\ lastSentMin \in [Sources -> 0..(MaxTask + 1)]
        BY Zenon, <1>0 DEF OrderInv, HighIsNext, TypeOK
      <4>5. Clamp(min, lastExclusiveHighOriginal[s]) <= nextTask[s]
        BY <1>0, <4>3, <4>4, Typed DEF Clamp
      <4> QED
        BY Zenon, <4>1, <4>4, <4>5
    <3> QED
      BY Zenon, <1>0, <3>1, <3>2 DEF OrderInv, HighIsNext
  <2>4. ASSUME NEW t \in Targets,
               DeliverTasks(s, t) \/ BroadcastWatermark(s, t) \/ NotifyNewTargetShard(s, t)
        PROVE  HighIsNext'
    <3>1. UNCHANGED <<nextTask, lastExclusiveHighOriginal, lastWatermark, lastSentMin>>
      BY Zenon, <2>4 DEF DeliverTasks, BroadcastWatermark, NotifyNewTargetShard
    <3> QED
      BY Zenon, <1>0, <3>1 DEF OrderInv, HighIsNext
  <2> QED
    BY Zenon, <2>1, <2>2, <2>3, <2>4 DEF ReceiverNext
<1>5. QueuesInOrder'
  <2>1. CASE RecvTasks(s) \/ RecvEmpty(s) \/ SendAck(s)
    <3>1. UNCHANGED sendMsgChan
      BY Zenon, <2>1 DEF RecvTasks, RecvEmpty, SendAck
    <3> QED
      BY Zenon, <1>0, <3>1 DEF OrderInv, QueuesInOrder
  <2>2. ASSUME NEW t \in Targets, DeliverTasks(s, t)
        PROVE  QueuesInOrder'
    <3> DEFINE q == outbox[s][t]
               m == [shard |-> s, tasks |-> q, high |-> q[Len(q)] + 1]
    <3>1. m \in RoutedMessage
      BY Zenon, <1>0, <2>2, Typed, TaskMessageTyped DEF DeliverTasks
    <3>2. \A x \in Targets :
            sendMsgChan'[x] = IF x = t THEN Append(sendMsgChan[x], m) ELSE sendMsgChan[x]
      BY Zenon, <1>0, <2>2 DEF DeliverTasks, TypeOK
    <3>3. Ordered(m.tasks) /\ \A k \in 1..Len(m.tasks) :
            QueueUpTo(sendMsgChan[t], m.shard, m.tasks[k])
      BY Zenon, <1>0 DEF OrderInv, OutboxLast
    <3>4. sendMsgChan[t] \in Seq(RoutedMessage) /\ QueueInOrder(sendMsgChan[t])
      BY Zenon, <1>0, Typed DEF OrderInv, QueuesInOrder
    <3> HIDE DEF m
    <3>5. QueueInOrder(Append(sendMsgChan[t], m))
      BY Zenon, <3>1, <3>3, <3>4, QueueInOrderAppend
    <3> QED
      BY Zenon, <1>0, <3>2, <3>5 DEF OrderInv, QueuesInOrder
  <2>3. ASSUME NEW t \in Targets, BroadcastWatermark(s, t) \/ NotifyNewTargetShard(s, t)
        PROVE  QueuesInOrder'
    <3>1. CASE sendMsgChan' = sendMsgChan
      BY Zenon, <1>0, <3>1 DEF OrderInv, QueuesInOrder
    <3>2. CASE /\ lastWatermark[s] \in 1..(MaxTask + 1)
               /\ TrySend(t, Watermark(s, lastWatermark[s]))
      <4> DEFINE m == Watermark(s, lastWatermark[s])
      <4>1. m \in RoutedMessage /\ Len(m.tasks) = 0
        BY Zenon, <3>2, WatermarkFields
      <4>2. \A x \in Targets :
              \/ sendMsgChan'[x] = sendMsgChan[x]
              \/ x = t /\ sendMsgChan'[x] = Append(sendMsgChan[x], m)
        BY Zenon, <1>0, <3>2, <4>1, TrySendEffect
      <4> HIDE DEF m
      <4>3. Ordered(m.tasks) /\ \A k \in 1..Len(m.tasks) :
              QueueUpTo(sendMsgChan[t], m.shard, m.tasks[k])
        BY <4>1 DEF Ordered
      <4>4. sendMsgChan[t] \in Seq(RoutedMessage) /\ QueueInOrder(sendMsgChan[t])
        BY Zenon, <1>0, Typed DEF OrderInv, QueuesInOrder
      <4>5. QueueInOrder(Append(sendMsgChan[t], m))
        BY Zenon, <4>1, <4>3, <4>4, QueueInOrderAppend
      <4> QED
        BY Zenon, <1>0, <4>2, <4>5 DEF OrderInv, QueuesInOrder
    <3> QED
      BY Zenon, <1>0, <2>3, <3>1, <3>2, WatermarkEffect
  <2> QED
    BY Zenon, <2>1, <2>2, <2>3 DEF ReceiverNext
<1>6. OutboxLast'
  <2> SUFFICES ASSUME NEW y \in Sources, NEW t \in Targets
               PROVE  /\ Ordered(outbox'[y][t])
                      /\ QueueUpTo(sendMsgChan'[t], y, nextTask'[y])
                      /\ \A k \in 1..Len(outbox'[y][t]) :
                           /\ outbox'[y][t][k] < nextTask'[y]
                           /\ lastWatermark'[y] <= outbox'[y][t][k]
                           /\ QueueUpTo(sendMsgChan'[t], y, outbox'[y][t][k])
    BY Zenon DEF OutboxLast
  <2>1. /\ Ordered(outbox[y][t])
        /\ QueueUpTo(sendMsgChan[t], y, nextTask[y])
        /\ \A k \in 1..Len(outbox[y][t]) :
             /\ outbox[y][t][k] < nextTask[y]
             /\ lastWatermark[y] <= outbox[y][t][k]
             /\ QueueUpTo(sendMsgChan[t], y, outbox[y][t][k])
        /\ lastWatermark[y] <= nextTask[y]
    BY Zenon, <1>0 DEF OrderInv, OutboxLast, HighIsNext
  <2>2. /\ sendMsgChan[t] \in Seq(RoutedMessage)
        /\ nextTask[y] \in Nat /\ lastWatermark[y] \in Nat
        /\ \A k \in 1..Len(outbox[y][t]) : outbox[y][t][k] \in Nat
    BY Zenon, <1>0, Typed
  <2>3. CASE RecvTasks(s)
    <3>1. UNCHANGED <<sendMsgChan, lastWatermark>>
      BY Zenon, <2>3 DEF RecvTasks
    <3>2. CASE y = s
      <4>1. /\ nextTask'[y] \in Nat /\ nextTask'[y] > nextTask[y]
            /\ Ordered(outbox'[y][t])
            /\ \A k \in 1..Len(outbox'[y][t]) :
                 /\ outbox'[y][t][k] \in Nat
                 /\ nextTask[y] <= outbox'[y][t][k]
                 /\ outbox'[y][t][k] < nextTask'[y]
        BY Zenon, <1>0, <2>3, <3>2, RecvTasksEffect
      <4>2. nextTask[y] <= nextTask'[y]
        BY <2>2, <4>1
      <4>3. QueueUpTo(sendMsgChan[t], y, nextTask'[y])
        BY Zenon, <2>1, <2>2, <4>1, <4>2, QueueUpToMono
      <4>4. ASSUME NEW k \in 1..Len(outbox'[y][t])
            PROVE  /\ lastWatermark[y] <= outbox'[y][t][k]
                   /\ QueueUpTo(sendMsgChan[t], y, outbox'[y][t][k])
        <5>1. outbox'[y][t][k] \in Nat /\ nextTask[y] <= outbox'[y][t][k]
          BY Zenon, <4>1
        <5>2. lastWatermark[y] <= outbox'[y][t][k]
          BY <2>1, <2>2, <5>1
        <5> QED
          BY Zenon, <2>1, <2>2, <5>1, <5>2, QueueUpToMono
      <4> QED
        BY Zenon, <3>1, <4>1, <4>3, <4>4
    <3>3. CASE y # s
      <4>1. nextTask'[y] = nextTask[y] /\ outbox'[y] = outbox[y]
        BY Zenon, <1>0, <2>3, <3>3, RecvTasksEffect
      <4> QED
        BY Zenon, <2>1, <3>1, <4>1
    <3> QED
      BY Zenon, <3>2, <3>3
  <2>4. CASE RecvEmpty(s)
    <3>1. UNCHANGED <<sendMsgChan, outbox, nextTask>>
      BY Zenon, <2>4 DEF RecvEmpty
    <3>2. y = s => Len(outbox[y][t]) = 0
      BY <2>4 DEF RecvEmpty, Receiving
    <3>3. y # s => lastWatermark'[y] = lastWatermark[y]
      BY Zenon, <1>0, <2>4 DEF RecvEmpty, TypeOK
    <3> QED
      BY <2>1, <3>1, <3>2, <3>3
  <2>5. CASE SendAck(s)
    <3>1. UNCHANGED <<sendMsgChan, outbox, nextTask, lastWatermark>>
      BY Zenon, <2>5 DEF SendAck
    <3> QED
      BY Zenon, <2>1, <3>1
  <2>6. ASSUME NEW z \in Targets, DeliverTasks(s, z)
        PROVE  /\ Ordered(outbox'[y][t])
               /\ QueueUpTo(sendMsgChan'[t], y, nextTask'[y])
               /\ \A k \in 1..Len(outbox'[y][t]) :
                    /\ outbox'[y][t][k] < nextTask'[y]
                    /\ lastWatermark'[y] <= outbox'[y][t][k]
                    /\ QueueUpTo(sendMsgChan'[t], y, outbox'[y][t][k])
    <3> DEFINE q == outbox[s][z]
               m == [shard |-> s, tasks |-> q, high |-> q[Len(q)] + 1]
    <3>1. m \in RoutedMessage
      BY Zenon, <1>0, <2>6, Typed, TaskMessageTyped DEF DeliverTasks
    <3>2. /\ sendMsgChan'[t] = IF t = z THEN Append(sendMsgChan[t], m) ELSE sendMsgChan[t]
          /\ outbox'[y][t] = IF y = s /\ t = z THEN <<>> ELSE outbox[y][t]
          /\ UNCHANGED <<nextTask, lastWatermark>>
      BY Zenon, <1>0, <2>6 DEF DeliverTasks, TypeOK
    <3>3. CASE t # z
      BY Zenon, <2>1, <3>2, <3>3
    <3>4. CASE t = z /\ y = s
      <4>1. Values(m) = InGroup(q)
        BY Zenon, <2>6 DEF Values, DeliverTasks
      <4>2. \A v \in Values(m) : v <= nextTask[y]
        <5>1. \A k \in 1..Len(q) : q[k] <= nextTask[y]
          BY <2>1, <2>2, <3>4
        <5> QED
          BY Zenon, <4>1, <5>1 DEF InGroup
      <4> HIDE DEF m
      <4>3. QueueUpTo(Append(sendMsgChan[t], m), y, nextTask[y])
        BY Zenon, <2>1, <2>2, <3>1, <4>2, QueueUpToAppend
      <4>4. Len(outbox'[y][t]) = 0
        BY <3>2, <3>4
      <4> QED
        BY <3>2, <3>4, <4>3, <4>4 DEF Ordered
    <3>5. CASE t = z /\ y # s
      <4>1. m.shard # y
        BY Zenon, <3>5
      <4> HIDE DEF m
      <4>2. QueueUpTo(Append(sendMsgChan[t], m), y, nextTask[y])
        BY Zenon, <2>1, <2>2, <3>1, <4>1, QueueUpToAppend
      <4>3. ASSUME NEW k \in 1..Len(outbox[y][t])
            PROVE  QueueUpTo(Append(sendMsgChan[t], m), y, outbox[y][t][k])
        BY Zenon, <2>1, <2>2, <3>1, <4>1, QueueUpToAppend
      <4> QED
        BY Zenon, <2>1, <3>2, <3>5, <4>2, <4>3
    <3> QED
      BY Zenon, <3>3, <3>4, <3>5
  <2>7. ASSUME NEW z \in Targets, BroadcastWatermark(s, z) \/ NotifyNewTargetShard(s, z)
        PROVE  /\ Ordered(outbox'[y][t])
               /\ QueueUpTo(sendMsgChan'[t], y, nextTask'[y])
               /\ \A k \in 1..Len(outbox'[y][t]) :
                    /\ outbox'[y][t][k] < nextTask'[y]
                    /\ lastWatermark'[y] <= outbox'[y][t][k]
                    /\ QueueUpTo(sendMsgChan'[t], y, outbox'[y][t][k])
    <3>1. UNCHANGED <<nextTask, outbox, lastWatermark>>
      BY Zenon, <2>7 DEF BroadcastWatermark, NotifyNewTargetShard
    <3>2. CASE sendMsgChan'[t] = sendMsgChan[t]
      BY Zenon, <2>1, <3>1, <3>2
    <3> DEFINE m == Watermark(s, lastWatermark[s])
    <3>3. CASE /\ lastWatermark[s] \in 1..(MaxTask + 1)
               /\ sendMsgChan'[t] = Append(sendMsgChan[t], m)
      <4>1. m \in RoutedMessage /\ m.shard = s /\ Values(m) = {lastWatermark[s]}
        BY Zenon, <3>3, WatermarkFields
      <4> HIDE DEF m
      <4>2. m.shard = y => \A v \in Values(m) : v <= nextTask[y]
        BY Zenon, <2>1, <4>1
      <4>3. QueueUpTo(Append(sendMsgChan[t], m), y, nextTask[y])
        BY Zenon, <2>1, <2>2, <4>1, <4>2, QueueUpToAppend
      <4>4. ASSUME NEW k \in 1..Len(outbox[y][t])
            PROVE  QueueUpTo(Append(sendMsgChan[t], m), y, outbox[y][t][k])
        <5>1. m.shard = y => \A v \in Values(m) : v <= outbox[y][t][k]
          BY Zenon, <2>1, <4>1
        <5> QED
          BY Zenon, <2>1, <2>2, <4>1, <5>1, QueueUpToAppend
      <4> QED
        BY Zenon, <2>1, <3>1, <3>3, <4>3, <4>4
    <3>4. \/ sendMsgChan'[t] = sendMsgChan[t]
          \/ /\ lastWatermark[s] \in 1..(MaxTask + 1)
             /\ sendMsgChan'[t] = Append(sendMsgChan[t], m)
      <4>1. CASE sendMsgChan' = sendMsgChan
        BY Zenon, <4>1
      <4>2. CASE /\ lastWatermark[s] \in 1..(MaxTask + 1)
                 /\ TrySend(z, Watermark(s, lastWatermark[s]))
        BY <1>0, <4>2, WatermarkFields, TrySendEffect
      <4> QED
        BY Zenon, <1>0, <2>7, <4>1, <4>2, WatermarkEffect
    <3> QED
      BY Zenon, <3>2, <3>3, <3>4
  <2> QED
    BY Zenon, <2>3, <2>4, <2>5, <2>6, <2>7 DEF ReceiverNext
<1> QED
  BY Zenon, <1>2, <1>3, <1>4, <1>5, <1>6 DEF OrderInv

(* A smaller ring and fewer tasks in flight keep the order of IDs.         *)
LEMMA ShrinkKeepsEntries ==
  ASSUME OrderInv,
         \A t \in Targets : idRing'[t] \subseteq idRing[t] /\ inFlight'[t] \subseteq inFlight[t]
  PROVE  EntriesInOrder'
BY Zenon DEF OrderInv, EntriesInOrder

(* Sending a message keeps the order of IDs: its entries come last, after  *)
(* the ring, in the order of its tasks.                                    *)
LEMMA SendMessageKeepsEntries ==
  ASSUME IInv, NEW x \in Targets, SendMessage(x)
  PROVE  EntriesInOrder'
<1> DEFINE q == sendMsgChan[x]
           m == Head(q)
           n == nextProxyTaskID[x]
           new == NewEntries(n, m)
<1>0. TypeInv /\ OrderInv
  BY Zenon DEF IInv
<1>1. /\ q \in Seq(RoutedMessage) /\ q # <<>> /\ m \in RoutedMessage
      /\ idRing'[x] = idRing[x] \cup new
      /\ \/ m.tasks = <<>> /\ inFlight'[x] = inFlight[x]
         \/ m.tasks # <<>> /\ inFlight'[x] = inFlight[x] \cup new
      /\ \A t \in Targets \ {x} : idRing'[t] = idRing[t] /\ inFlight'[t] = inFlight[t]
  BY Zenon, <1>0, SendMessageEffect
<1>2. n \in Nat
  BY Zenon, <1>0, Typed
<1>3. 1 \in 1..Len(q) /\ m = q[1]
  BY Zenon, <1>1, TailAt
<1>4. Ordered(m.tasks)
  BY Zenon, <1>0, <1>1, QueueInOrderTail DEF OrderInv, QueuesInOrder
<1> SUFFICES ASSUME NEW t \in Targets, NEW e \in idRing'[t], NEW f \in inFlight'[t],
                    e.shard = f.shard, e.id <= f.id
             PROVE  e.task <= f.task
  BY Zenon DEF EntriesInOrder
<1>5. CASE e \in idRing[t] /\ f \in inFlight[t]
  BY Zenon, <1>0, <1>5 DEF OrderInv, EntriesInOrder
<1> HIDE DEF m, n
<1>6. CASE e \in idRing[t] /\ f \notin inFlight[t]
  <2>1. t = x /\ m.tasks # <<>> /\ f \in NewEntries(n, m)
    BY Zenon, <1>1, <1>6
  <2>2. PICK i \in 1..Len(m.tasks) : f.task = m.tasks[i] /\ f.shard = m.shard
    BY <1>1, <1>2, <2>1, NewEntriesEffect
  <2>3. QueueFrom(q, e.shard, e.task)
    BY Zenon, <1>0, <1>6, <2>1 DEF OrderInv, RingFirst, Below
  <2> QED
    BY Zenon, <1>3, <2>2, <2>3 DEF QueueFrom
<1>7. CASE e \notin idRing[t] /\ f \in inFlight[t]
  <2>1. t = x /\ e \in NewEntries(n, m)
    BY Zenon, <1>1, <1>7
  <2>2. e.id > n
    BY Zenon, <1>1, <1>2, <2>1, NewEntriesEffect
  <2>3. f.id <= n /\ f.id \in Nat
    BY Zenon, <1>0, <1>7, <2>1, Typed DEF OrderInv, IDsAllocated, n
  <2>4. e.id \in Nat
    <3>1. e \in Entry
      BY Zenon, <1>1, <1>2, <2>1, NewEntriesTyped
    <3> QED
      BY Zenon, <3>1 DEF Entry
  <2> QED
    BY <1>2, <2>2, <2>3, <2>4
<1>8. CASE e \notin idRing[t] /\ f \notin inFlight[t]
  <2>1. t = x /\ m.tasks # <<>> /\ e \in NewEntries(n, m) /\ f \in NewEntries(n, m)
    BY Zenon, <1>1, <1>8
  <2>2. PICK i \in 1..Len(m.tasks) : e.id = n + i /\ e.task = m.tasks[i]
    BY <1>1, <1>2, <2>1, NewEntriesEffect
  <2>3. PICK j \in 1..Len(m.tasks) : f.id = n + j /\ f.task = m.tasks[j]
    BY <1>1, <1>2, <2>1, NewEntriesEffect
  <2>4. Len(m.tasks) \in Nat /\ m.tasks[i] \in Nat /\ m.tasks[j] \in Nat
    BY Zenon, <1>1, MessageFields, ValuesTyped
  <2>5. i <= j
    BY <1>2, <2>2, <2>3, <2>4
  <2>6. i = j \/ m.tasks[i] < m.tasks[j]
    BY <1>4, <2>4, <2>5 DEF Ordered
  <2> QED
    BY <2>2, <2>3, <2>4, <2>6
<1> QED
  BY Zenon, <1>5, <1>6, <1>7, <1>8

(* Sending a message keeps the bounds on IDs.                              *)
LEMMA SendMessageKeepsIDs ==
  ASSUME IInv, NEW x \in Targets, SendMessage(x)
  PROVE  IDsAllocated'
<1> DEFINE q == sendMsgChan[x]
           m == Head(q)
           n == nextProxyTaskID[x]
           new == NewEntries(n, m)
<1>0. TypeInv /\ TypeOK /\ IDsAllocated
  BY Zenon, Typed DEF IInv, OrderInv
<1>1. /\ q \in Seq(RoutedMessage) /\ q # <<>> /\ m \in RoutedMessage
      /\ idRing'[x] = idRing[x] \cup new
      /\ \/ m.tasks = <<>> /\ inFlight'[x] = inFlight[x]
         \/ m.tasks # <<>> /\ inFlight'[x] = inFlight[x] \cup new
      /\ \A t \in Targets \ {x} : idRing'[t] = idRing[t] /\ inFlight'[t] = inFlight[t]
      /\ UNCHANGED fromTarget
  BY Zenon, <1>0, SendMessageEffect
<1>2. n \in Nat /\ Len(m.tasks) \in Nat
  BY Zenon, <1>0, <1>1, Typed, MessageFields
<1>3. \E d \in Nat \ {0} :
        /\ nextProxyTaskID'[x] = n + d
        /\ targetHigh'[x] <= n + d + 1
        /\ \A e \in new : e.id <= n + d /\ e.id > n /\ e.id \in Nat
  <2>0. \A e \in new : e.id \in Nat
    BY Zenon, <1>1, <1>2, NewEntriesTyped DEF Entry
  <2>1. CASE m.tasks = <<>>
    <3>1. nextProxyTaskID'[x] = n + 1 /\ targetHigh'[x] = n + 1
      BY Zenon, <1>0, <2>1 DEF SendMessage, TypeOK
    <3>2. \A e \in new : e.id = n + 1
      <4> HIDE DEF m, n
      <4> QED
        BY <1>1, <1>2, <2>1, NewEntriesEffect
    <3>3. /\ nextProxyTaskID'[x] = n + 1
          /\ targetHigh'[x] <= n + 1 + 1
          /\ \A e \in new : e.id <= n + 1 /\ e.id > n /\ e.id \in Nat
      BY <1>2, <2>0, <3>1, <3>2
    <3> QED
      BY <3>3
  <2>2. CASE m.tasks # <<>>
    <3>1. /\ nextProxyTaskID'[x] = n + Len(m.tasks)
          /\ targetHigh'[x] = n + Len(m.tasks) + 1
      BY Zenon, <1>0, <2>2 DEF SendMessage, TypeOK
    <3>2. \A e \in new : \E i \in 1..Len(m.tasks) : e.id = n + i
      <4> HIDE DEF m, n
      <4> QED
        BY <1>1, <1>2, <2>2, NewEntriesEffect
    <3>3. Len(m.tasks) # 0
      <4>1. m.tasks \in Seq(1..MaxTask)
        BY Zenon, <1>1, MessageFields
      <4> HIDE DEF m
      <4> QED
        BY Zenon, <2>2, <4>1, EmptyIs
    <3> HIDE DEF m, n, new
    <3>4. \A e \in new : e.id <= n + Len(m.tasks) /\ e.id > n
      BY <1>2, <3>2
    <3>5. Len(m.tasks) \in Nat \ {0} /\ targetHigh'[x] <= n + Len(m.tasks) + 1
      BY <1>2, <3>1, <3>3
    <3> QED
      BY Zenon, <2>0, <3>1, <3>4, <3>5
  <2> QED
    BY Zenon, <2>1, <2>2
<1>4. \A t \in Targets \ {x} :
        nextProxyTaskID'[t] = nextProxyTaskID[t] /\ targetHigh'[t] = targetHigh[t]
  <2>1. nextProxyTaskID \in [Targets -> Nat] /\ targetHigh \in [Targets -> Nat]
    BY Zenon, <1>0 DEF TypeOK
  <2>2. \E a, b : /\ nextProxyTaskID' = [nextProxyTaskID EXCEPT ![x] = a]
                  /\ targetHigh' = [targetHigh EXCEPT ![x] = b]
    BY Zenon DEF SendMessage
  <2> QED
    BY Zenon, <2>1, <2>2
<1> HIDE DEF m, n, new
<1> SUFFICES ASSUME NEW t \in Targets
             PROVE  /\ \A e \in idRing'[t] \cup inFlight'[t] : e.id <= nextProxyTaskID'[t]
                    /\ targetHigh'[t] <= nextProxyTaskID'[t] + 1
                    /\ \A i \in 1..Len(fromTarget'[t]) :
                         /\ fromTarget'[t][i] <= nextProxyTaskID'[t] + 1
                         /\ \A f \in inFlight'[t] : fromTarget'[t][i] <= f.id
  BY Zenon DEF IDsAllocated
<1>5. CASE t # x
  BY Zenon, <1>0, <1>1, <1>4, <1>5 DEF IDsAllocated
<1>6. CASE t = x
  <2>1. PICK d \in Nat \ {0} :
          /\ nextProxyTaskID'[x] = n + d
          /\ targetHigh'[x] <= n + d + 1
          /\ \A e \in new : e.id <= n + d /\ e.id > n /\ e.id \in Nat
    BY Zenon, <1>3
  <2>2. \A e \in idRing[x] \cup inFlight[x] : e.id <= n + d
    <3>1. \A e \in idRing[x] \cup inFlight[x] : e.id <= n /\ e.id \in Nat
      BY Zenon, <1>0, Typed DEF IDsAllocated, n
    <3> QED
      BY <1>2, <3>1
  <2>3. ASSUME NEW i \in 1..Len(fromTarget[x])
        PROVE  /\ fromTarget[x][i] <= n + d + 1
               /\ \A f \in inFlight'[x] : fromTarget[x][i] <= f.id
    <3>1. /\ fromTarget[x][i] <= n + 1
          /\ \A f \in inFlight[x] : fromTarget[x][i] <= f.id
      BY Zenon, <1>0 DEF IDsAllocated, n
    <3>2. fromTarget[x][i] \in Nat
      BY Zenon, <1>0, Typed, AtIn
    <3>3. \A f \in new : fromTarget[x][i] <= f.id
      BY <1>2, <2>1, <3>1, <3>2
    <3>4. fromTarget[x][i] <= n + d + 1
      BY <1>2, <3>1, <3>2
    <3> QED
      BY Zenon, <1>1, <3>1, <3>3, <3>4
  <2> QED
    BY Zenon, <1>1, <1>6, <2>1, <2>2, <2>3
<1> QED
  BY Zenon, <1>5, <1>6

(* The other steps of a sender leave the IDs alone, take some away, or put *)
(* an ack on the stream that respects them.                                *)
LEMMA SenderKeepsIDs ==
  ASSUME IInv, NEW x \in Targets, SenderNext(x)
  PROVE  IDsAllocated'
<1> USE DEF senderVars, streamVars, recvAckVars
<1>0. TypeInv /\ TypeOK /\ IDsAllocated
  BY Zenon, Typed DEF IInv, OrderInv
<1>1. CASE OpenSender(x)
  BY Zenon, <1>0, <1>1 DEF OpenSender, IDsAllocated
<1>2. CASE SendMessage(x)
  BY Zenon, <1>2, SendMessageKeepsIDs
<1>3. ASSUME NEW e \in inFlight[x], TargetApply(x, e)
      PROVE  IDsAllocated'
  <2>1. \A t \in Targets : inFlight'[t] \subseteq inFlight[t]
    BY Zenon, <1>0, <1>3 DEF TargetApply, TypeOK
  <2>2. UNCHANGED <<idRing, nextProxyTaskID, targetHigh, fromTarget>>
    BY Zenon, <1>3 DEF TargetApply
  <2> QED
    BY Zenon, <1>0, <2>1, <2>2 DEF IDsAllocated
<1>4. CASE TargetAck(x)
  <2>1. PICK w \in 1..targetHigh[x] :
          /\ \A f \in inFlight[x] : w <= f.id
          /\ fromTarget' = [fromTarget EXCEPT ![x] = Append(@, w)]
    BY Zenon, <1>4 DEF TargetAck, IsLowWatermark
  <2>2. w \in Nat /\ w <= nextProxyTaskID[x] + 1
    <3>1. targetHigh[x] \in Nat /\ nextProxyTaskID[x] \in Nat
            /\ targetHigh[x] <= nextProxyTaskID[x] + 1
      BY Zenon, <1>0, Typed DEF IDsAllocated
    <3> QED
      BY <3>1
  <2>3. UNCHANGED <<idRing, inFlight, nextProxyTaskID, targetHigh>>
    BY Zenon, <1>4 DEF TargetAck
  <2>4. fromTarget[x] \in Seq(Nat) /\ \A t \in Targets \ {x} : fromTarget'[t] = fromTarget[t]
    BY Zenon, <1>0, <2>1 DEF TypeOK
  <2>5. fromTarget'[x] = Append(fromTarget[x], w)
    BY Zenon, <1>0, <2>1 DEF TypeOK
  <2>6. ASSUME NEW i \in 1..Len(fromTarget'[x])
        PROVE  /\ fromTarget'[x][i] <= nextProxyTaskID[x] + 1
               /\ \A f \in inFlight[x] : fromTarget'[x][i] <= f.id
    <3>1. Len(fromTarget[x]) \in Nat /\ Len(fromTarget'[x]) = Len(fromTarget[x]) + 1
      BY <2>2, <2>4, <2>5
    <3>2. CASE i = Len(fromTarget[x]) + 1
      <4>1. Append(fromTarget[x], w)[Len(fromTarget[x]) + 1] = w
        BY <2>2, <2>4, AppendIs
      <4>2. fromTarget'[x][i] = w
        BY Zenon, <2>5, <3>2, <4>1
      <4> QED
        BY Zenon, <2>1, <2>2, <4>2
    <3>3. CASE i \in 1..Len(fromTarget[x])
      <4>1. fromTarget'[x][i] = fromTarget[x][i]
        BY <2>2, <2>4, <2>5, <3>3, AppendIs
      <4> QED
        BY Zenon, <1>0, <3>3, <4>1 DEF IDsAllocated
    <3> QED
      BY <3>1, <3>2, <3>3
  <2> QED
    BY Zenon, <1>0, <2>3, <2>4, <2>6 DEF IDsAllocated
<1>5. CASE RecvAck(x)
  <2>1. UNCHANGED <<idRing, inFlight, nextProxyTaskID, targetHigh>>
    BY Zenon, <1>5 DEF RecvAck
  <2>2. /\ fromTarget[x] \in Seq(Nat) /\ fromTarget[x] # <<>>
        /\ fromTarget'[x] = Tail(fromTarget[x])
        /\ \A t \in Targets \ {x} : fromTarget'[t] = fromTarget[t]
    BY Zenon, <1>0, <1>5 DEF RecvAck, TypeOK
  <2>3. ASSUME NEW i \in 1..Len(fromTarget'[x])
        PROVE  i + 1 \in 1..Len(fromTarget[x]) /\ fromTarget'[x][i] = fromTarget[x][i + 1]
    <3>1. Len(fromTarget[x]) \in Nat \ {0}
      BY Zenon, <2>2, EmptyIs
    <3>2. Len(fromTarget'[x]) = Len(fromTarget[x]) - 1
      BY Zenon, <2>2, TailIs
    <3>3. fromTarget'[x][i] = fromTarget[x][i + 1]
      BY <2>2, TailIs
    <3> QED
      BY <3>1, <3>2, <3>3
  <2>4. ASSUME NEW i \in 1..Len(fromTarget'[x])
        PROVE  /\ fromTarget'[x][i] <= nextProxyTaskID[x] + 1
               /\ \A f \in inFlight[x] : fromTarget'[x][i] <= f.id
    BY Zenon, <1>0, <2>3 DEF IDsAllocated
  <2> QED
    BY Zenon, <1>0, <2>1, <2>2, <2>4 DEF IDsAllocated
<1>6. ASSUME NEW a \in shardToAck[x], DeliverAck(x, a)
      PROVE  IDsAllocated'
  BY Zenon, <1>0, <1>6 DEF DeliverAck, IDsAllocated
<1>7. CASE DiscardAcked(x)
  <2>1. \A t \in Targets : idRing'[t] \subseteq idRing[t]
    BY Zenon, <1>0, <1>7 DEF DiscardAcked, TypeOK
  <2>2. UNCHANGED <<inFlight, nextProxyTaskID, targetHigh, fromTarget>>
    BY Zenon, <1>7 DEF DiscardAcked
  <2> QED
    BY Zenon, <1>0, <2>1, <2>2 DEF IDsAllocated
<1> QED
  BY Zenon, <1>1, <1>2, <1>3, <1>4, <1>5, <1>6, <1>7 DEF SenderNext

(* What the steps of a sender do to the channels and the sets of entries.  *)
LEMMA SenderEffect ==
  ASSUME TypeInv, NEW x \in Targets, SenderNext(x)
  PROVE  \/ SendMessage(x)
         \/ \A t \in Targets :
              /\ sendMsgChan'[t] = sendMsgChan[t] \/ sendMsgChan'[t] = <<>>
              /\ idRing'[t] \subseteq idRing[t]
              /\ inFlight'[t] \subseteq inFlight[t]
<1> USE DEF channelVars, senderVars, streamVars, recvAckVars
<1>0. TypeOK
  BY Zenon, Typed
<1>1. CASE OpenSender(x)
  BY Zenon, <1>0, <1>1 DEF OpenSender, TypeOK
<1>2. ASSUME NEW e \in inFlight[x], TargetApply(x, e)
      PROVE  \A t \in Targets :
               /\ sendMsgChan'[t] = sendMsgChan[t]
               /\ idRing'[t] = idRing[t]
               /\ inFlight'[t] \subseteq inFlight[t]
  BY Zenon, <1>0, <1>2 DEF TargetApply, TypeOK
<1>3. CASE TargetAck(x) \/ RecvAck(x)
  BY Zenon, <1>3 DEF TargetAck, RecvAck
<1>4. ASSUME NEW a \in shardToAck[x], DeliverAck(x, a)
      PROVE  UNCHANGED <<sendMsgChan, idRing, inFlight>>
  BY Zenon, <1>4 DEF DeliverAck
<1>5. CASE DiscardAcked(x)
  BY Zenon, <1>0, <1>5 DEF DiscardAcked, TypeOK
<1> QED
  BY Zenon, <1>1, <1>2, <1>3, <1>4, <1>5 DEF SenderNext

(* A step that only empties channels and takes entries away keeps what is  *)
(* known of them.                                                          *)
LEMMA ShrinkKeepsQueues ==
  ASSUME OrderInv, UNCHANGED <<nextTask, outbox, lastWatermark>>,
         \A t \in Targets : sendMsgChan'[t] = sendMsgChan[t] \/ sendMsgChan'[t] = <<>>
  PROVE  QueuesInOrder' /\ OutboxLast'
<1>1. QueueInOrder(<<>>) /\ \A y, u : QueueUpTo(<<>>, y, u)
  BY DEF QueueInOrder, QueueUpTo
<1>2. QueuesInOrder'
  BY Zenon, <1>1 DEF OrderInv, QueuesInOrder
<1>3. OutboxLast'
  BY <1>1 DEF OrderInv, OutboxLast
<1> QED
  BY Zenon, <1>2, <1>3

(* A step of the sender of x keeps the order.                              *)
LEMMA SenderOrderInv ==
  ASSUME IInv, NEW x \in Targets, SenderNext(x), UNCHANGED receiverVars
  PROVE  OrderInv'
<1>0. TypeInv /\ OrderInv
  BY Zenon DEF IInv
<1>1. UNCHANGED <<nextTask, outbox, lastWatermark, lastSentMin, lastExclusiveHighOriginal>>
  BY Zenon DEF receiverVars, sourceVars, recvVars, ackVars
<1>2. HighIsNext'
  BY Zenon, <1>0, <1>1 DEF OrderInv, HighIsNext
<1>3. IDsAllocated'
  BY Zenon, SenderKeepsIDs
<1>4. ASSUME NEW t \in Targets, NEW e \in idRing[t]
      PROVE  Below(e.task, e.shard, t)'
  <2>1. e.task \in Nat /\ e.shard \in Sources /\ Below(e.task, e.shard, t)
    BY Zenon, <1>0, Typed DEF OrderInv, RingFirst
  <2> QED
    BY Zenon, <1>0, <2>1, SenderKeepsBelow
<1>5. CASE SendMessage(x)
  <2> DEFINE q == sendMsgChan[x]
             m == Head(q)
             n == nextProxyTaskID[x]
  <2>1. /\ q \in Seq(RoutedMessage) /\ q # <<>> /\ m \in RoutedMessage
        /\ sendMsgChan'[x] = Tail(q)
        /\ idRing'[x] = idRing[x] \cup NewEntries(n, m)
        /\ \A t \in Targets \ {x} : sendMsgChan'[t] = sendMsgChan[t] /\ idRing'[t] = idRing[t]
    BY Zenon, <1>0, <1>5, SendMessageEffect
  <2>2. n \in Nat /\ 1 \in 1..Len(q) /\ m = q[1]
    BY Zenon, <1>0, <2>1, Typed, TailAt
  <2>3. QueueInOrder(Tail(q)) /\ \A v \in Values(m) : QueueFrom(Tail(q), m.shard, v)
    BY Zenon, <1>0, <2>1, QueueInOrderTail DEF OrderInv, QueuesInOrder
  <2>4. QueuesInOrder'
    BY Zenon, <1>0, <2>1, <2>3 DEF OrderInv, QueuesInOrder
  <2>5. OutboxLast'
    <3> SUFFICES ASSUME NEW s \in Sources, NEW t \in Targets
                 PROVE  /\ QueueUpTo(sendMsgChan'[t], s, nextTask[s])
                        /\ \A k \in 1..Len(outbox[s][t]) :
                             QueueUpTo(sendMsgChan'[t], s, outbox[s][t][k])
      BY Zenon, <1>0, <1>1 DEF OrderInv, OutboxLast
    <3>1. \A u : QueueUpTo(sendMsgChan[t], s, u) => QueueUpTo(sendMsgChan'[t], s, u)
      <4>1. CASE t = x
        BY Zenon, <2>1, <4>1, QueueUpToTail
      <4>2. CASE t # x
        BY Zenon, <2>1, <4>2
      <4> QED
        BY Zenon, <4>1, <4>2
    <3> QED
      BY Zenon, <1>0, <3>1 DEF OrderInv, OutboxLast
  <2>6. RingFirst'
    <3>1. ASSUME NEW e \in NewEntries(n, m)
          PROVE  Below(e.task, e.shard, x)'
      <4>1. e.shard = m.shard /\ e.task \in Values(m) /\ m.shard \in Sources
        <5> HIDE DEF m, n
        <5> QED
          BY <2>1, <2>2, NewEntriesEffect, MessageFields
      <4>2. QueueFrom(sendMsgChan'[x], e.shard, e.task)
        BY Zenon, <2>1, <2>3, <4>1
      <4>3. e.task <= nextTask[e.shard]
        BY Zenon, <1>0, <2>2, <4>1 DEF OrderInv, OutboxLast, QueueUpTo
      <4>4. \A k \in 1..Len(outbox[e.shard][x]) : e.task <= outbox[e.shard][x][k]
        BY Zenon, <1>0, <2>2, <4>1 DEF OrderInv, OutboxLast, QueueUpTo
      <4> QED
        BY Zenon, <1>1, <4>2, <4>3, <4>4 DEF Below
    <3> QED
      BY Zenon, <1>4, <2>1, <3>1 DEF RingFirst
  <2> QED
    BY Zenon, <1>2, <1>3, <1>5, <2>4, <2>5, <2>6, SendMessageKeepsEntries DEF OrderInv
<1>6. CASE \A t \in Targets :
             /\ sendMsgChan'[t] = sendMsgChan[t] \/ sendMsgChan'[t] = <<>>
             /\ idRing'[t] \subseteq idRing[t]
             /\ inFlight'[t] \subseteq inFlight[t]
  <2>1. RingFirst'
    BY Zenon, <1>4, <1>6 DEF RingFirst
  <2> QED
    BY Zenon, <1>0, <1>1, <1>2, <1>3, <1>6, <2>1, ShrinkKeepsEntries, ShrinkKeepsQueues
    DEF OrderInv
<1> QED
  BY Zenon, <1>0, <1>5, <1>6, SenderEffect

(* The end of a stream keeps the order: all of the stream is forgotten.    *)
LEMMA EndOrderInv ==
  ASSUME IInv, NEW x \in Targets, EndStream(x)
  PROVE  OrderInv'
<1>0. TypeInv /\ TypeOK /\ OrderInv
  BY Zenon, Typed DEF IInv
<1>1. UNCHANGED <<nextTask, outbox, lastWatermark, lastSentMin, lastExclusiveHighOriginal>>
  BY Zenon DEF EndStream, sourceVars, ackVars
<1>2. /\ nextProxyTaskID'[x] = 0 /\ targetHigh'[x] = 0 /\ fromTarget'[x] = <<>>
      /\ idRing'[x] = {} /\ inFlight'[x] = {} /\ sendMsgChan'[x] = <<>>
  BY Zenon, <1>0 DEF EndStream, CloseSender, ForgetStream, TypeOK
<1>3. \A t \in Targets \ {x} :
        /\ nextProxyTaskID'[t] = nextProxyTaskID[t] /\ targetHigh'[t] = targetHigh[t]
        /\ fromTarget'[t] = fromTarget[t] /\ idRing'[t] = idRing[t]
        /\ inFlight'[t] = inFlight[t] /\ sendMsgChan'[t] = sendMsgChan[t]
  BY Zenon, <1>0 DEF EndStream, CloseSender, ForgetStream, TypeOK
<1>4. HighIsNext'
  BY Zenon, <1>0, <1>1 DEF OrderInv, HighIsNext
<1>5. IDsAllocated'
  BY <1>0, <1>2, <1>3 DEF OrderInv, IDsAllocated
<1>6. EntriesInOrder'
  BY Zenon, <1>0, <1>2, <1>3, ShrinkKeepsEntries
<1>7. QueuesInOrder' /\ OutboxLast'
  BY Zenon, <1>0, <1>1, <1>2, <1>3, ShrinkKeepsQueues
<1>8. RingFirst'
  <2>1. ASSUME NEW t \in Targets, NEW e \in idRing[t]
        PROVE  Below(e.task, e.shard, t)'
    <3>1. e.task \in Nat /\ e.shard \in Sources /\ Below(e.task, e.shard, t)
      BY Zenon, <1>0, Typed DEF OrderInv, RingFirst
    <3> QED
      BY Zenon, <1>0, <3>1, EndKeepsBelow
  <2> QED
    BY Zenon, <1>2, <1>3, <2>1 DEF RingFirst
<1> QED
  BY Zenon, <1>4, <1>5, <1>6, <1>7, <1>8 DEF OrderInv

(* The acks recvAck reads off the ring are safe: the watermark is at most  *)
(* the ID of any task in flight, so an entry it covers comes before it.    *)
LEMMA CoveredBelow ==
  ASSUME IInv, NEW t \in Targets, fromTarget[t] # <<>>,
         NEW e \in idRing[t], e.id <= Head(fromTarget[t])
  PROVE  AckBelow(e.task, e.shard, t)
<1>0. TypeInv /\ OrderInv
  BY Zenon DEF IInv
<1>1. e.id \in Nat /\ Below(e.task, e.shard, t)
  BY Zenon, <1>0, Typed DEF OrderInv, RingFirst
<1>2. ASSUME NEW f \in inFlight[t], f.shard = e.shard
      PROVE  e.task <= f.task
  <2>1. fromTarget[t] \in Seq(Nat) /\ Len(fromTarget[t]) \in Nat \ {0}
    BY Zenon, <1>0, Typed, EmptyIs
  <2>2. Head(fromTarget[t]) = fromTarget[t][1] /\ 1 \in 1..Len(fromTarget[t])
    BY <2>1
  <2>3. Head(fromTarget[t]) \in Nat /\ f.id \in Nat
    BY <1>0, <2>1, Typed
  <2>4. Head(fromTarget[t]) <= f.id
    BY Zenon, <1>0, <2>2 DEF OrderInv, IDsAllocated
  <2>5. e.id <= f.id
    BY <1>1, <2>3, <2>4
  <2> QED
    BY Zenon, <1>0, <1>2, <2>5 DEF OrderInv, EntriesInOrder
<1> QED
  BY Zenon, <1>1, <1>2 DEF AckBelow

(* Acks are numbers.                                                       *)
LEMMA AcksTyped ==
  ASSUME TypeInv, NEW s \in Sources, NEW t \in Targets, NEW v \in AcksOf(s, t)
  PROVE  v \in Nat
<1>1. ackByTarget[s][t] \in Nat /\ prevAckBySource[t][s] \in Nat
  BY Zenon, Typed
<1>2. /\ ackChan[s] \in Seq(RoutedAck)
      /\ shardToAck[t] \subseteq [shard : Sources, ack : 1..(MaxTask + 1)]
  BY Zenon, Typed DEF TypeOK
<1>3. ASSUME NEW i \in 1..Len(ackChan[s]) PROVE ackChan[s][i].ack \in Nat
  <2>1. ackChan[s][i] \in RoutedAck
    BY <1>2, AtIn
  <2> QED
    BY <2>1, RoutedAckFields
<1>4. \A a \in shardToAck[t] : a.ack \in Nat
  BY <1>2
<1> QED
  BY Zenon, <1>1, <1>3, <1>4 DEF AcksOf

(* The step in which recvAck reads an ack is the only one that makes a     *)
(* new ack; the others copy acks from place to place or forget them.       *)
LEMMA AcksAreOld ==
  ASSUME IInv, Next, NEW s \in Sources, NEW t \in Targets, NEW v \in AcksOf(s, t)'
  PROVE  \/ v \in AcksOf(s, t)
         \/ v = NoAck
         \/ /\ fromTarget[t] # <<>>
            /\ \E e \in idRing[t] : e.shard = s /\ e.id <= Head(fromTarget[t]) /\ v = e.task
<1> USE DEF channelVars, receiverVars, sourceVars, recvVars, ackVars, senderVars,
        streamVars, recvAckVars
<1>0. TypeInv /\ TypeOK
  BY Zenon, Typed DEF IInv
<1>1. ASSUME UNCHANGED <<ackByTarget, prevAckBySource, shardToAck, ackChan>>
      PROVE  v \in AcksOf(s, t)
  BY Zenon, <1>1 DEF AcksOf
<1>2. ASSUME NEW x \in Sources, SendAck(x), UNCHANGED senderVars
      PROVE  v \in AcksOf(s, t)
  <2> DEFINE routed == Head(ackChan[x])
  <2>1. ackChan[x] \in Seq(RoutedAck) /\ ackChan[x] # <<>>
    BY Zenon, <1>0, <1>2 DEF SendAck, TypeOK
  <2>2. /\ routed = ackChan[x][1] /\ Len(ackChan[x]) \in Nat /\ 1 \in 1..Len(ackChan[x])
        /\ Len(Tail(ackChan[x])) = Len(ackChan[x]) - 1
        /\ \A i \in 1..(Len(ackChan[x]) - 1) :
             Tail(ackChan[x])[i] = ackChan[x][i + 1] /\ i + 1 \in 1..Len(ackChan[x])
    <3>1. Len(ackChan[x]) \in Nat \ {0}
      BY Zenon, <2>1, EmptyIs
    <3> QED
      BY <2>1, <3>1, TailIs
  <2>3. routed.target \in Targets
    <3>1. routed \in RoutedAck
      BY <2>1
    <3> QED
      BY Zenon, <3>1, RoutedAckFields
  <2>4. /\ ackChan' = [ackChan EXCEPT ![x] = Tail(@)]
        /\ ackByTarget' = [ackByTarget EXCEPT ![x] =
             [ackByTarget[x] EXCEPT ![routed.target] = routed.ack]]
        /\ UNCHANGED <<prevAckBySource, shardToAck>>
    BY Zenon, <1>2 DEF SendAck
  <2> HIDE DEF routed
  <2>5. \/ ackByTarget'[s][t] = ackByTarget[s][t]
        \/ s = x /\ t = routed.target /\ ackByTarget'[s][t] = routed.ack
    BY Zenon, <1>0, <2>3, <2>4 DEF TypeOK
  <2>6. ackByTarget'[s][t] \in AcksOf(s, t)
    BY <2>2, <2>5 DEF AcksOf
  <2>7. ASSUME NEW i \in 1..Len(ackChan'[s])
        PROVE  \E j \in 1..Len(ackChan[s]) : ackChan'[s][i] = ackChan[s][j]
    <3>1. CASE s = x
      <4>1. ackChan'[s] = Tail(ackChan[x])
        BY Zenon, <1>0, <2>4, <3>1 DEF TypeOK
      <4> QED
        BY Zenon, <2>2, <3>1, <4>1
    <3>2. CASE s # x
      <4>1. ackChan'[s] = ackChan[s]
        BY Zenon, <1>0, <2>4, <3>2 DEF TypeOK
      <4> QED
        BY Zenon, <4>1
    <3> QED
      BY Zenon, <3>1, <3>2
  <2>8. ASSUME NEW i \in 1..Len(ackChan'[s]), ackChan'[s][i].target = t
        PROVE  ackChan'[s][i].ack \in AcksOf(s, t)
    BY Zenon, <2>7, <2>8 DEF AcksOf
  <2>9. \/ v = ackByTarget'[s][t]
        \/ v = prevAckBySource[t][s]
        \/ \E a \in shardToAck[t] : a.shard = s /\ v = a.ack
        \/ \E i \in 1..Len(ackChan'[s]) : ackChan'[s][i].target = t /\ v = ackChan'[s][i].ack
    BY Zenon, <2>4 DEF AcksOf
  <2>10. v \in {prevAckBySource[t][s]} \cup {a.ack : a \in {b \in shardToAck[t] : b.shard = s}}
           => v \in AcksOf(s, t)
    BY Zenon DEF AcksOf
  <2> QED
    BY <2>6, <2>8, <2>9, <2>10
<1>3. ASSUME NEW x \in Targets, RecvAck(x), UNCHANGED receiverVars
      PROVE  \/ v \in AcksOf(s, t)
             \/ /\ fromTarget[t] # <<>>
                /\ \E e \in idRing[t] : e.shard = s /\ e.id <= Head(fromTarget[t]) /\ v = e.task
  <2> DEFINE covered == {e \in idRing[x] : e.id <= Head(fromTarget[x])}
  <2>1. UNCHANGED <<ackByTarget, prevAckBySource, ackChan>> /\ fromTarget[x] # <<>>
    BY Zenon, <1>3 DEF RecvAck
  <2>2. \/ shardToAck'[t] = shardToAck[t]
        \/ t = x /\ shardToAck'[t] = Aggregate(covered)
        \/ t = x /\ shardToAck'[t] = PreviousAcks(x)
    BY Zenon, <1>0, <1>3 DEF RecvAck, TypeOK
  <2>3. CASE shardToAck'[t] = shardToAck[t]
    BY Zenon, <2>1, <2>3 DEF AcksOf
  <2>4. CASE t = x /\ shardToAck'[t] = Aggregate(covered)
    <3>1. v \in AcksOf(s, t) \/ \E a \in Aggregate(covered) : a.shard = s /\ v = a.ack
      BY <2>1, <2>4 DEF AcksOf
    <3>2. \A a \in Aggregate(covered) : \E e \in covered : a.shard = e.shard /\ a.ack = e.task
      BY DEF Aggregate
    <3> QED
      BY Zenon, <2>1, <2>4, <3>1, <3>2
  <2>5. CASE t = x /\ shardToAck'[t] = PreviousAcks(x)
    <3>1. v \in AcksOf(s, t) \/ \E a \in PreviousAcks(x) : a.shard = s /\ v = a.ack
      BY <2>1, <2>5 DEF AcksOf
    <3>2. \A a \in PreviousAcks(x) : a.ack = prevAckBySource[x][a.shard]
      BY DEF PreviousAcks
    <3> QED
      BY Zenon, <2>5, <3>1, <3>2 DEF AcksOf
  <2> QED
    BY Zenon, <2>2, <2>3, <2>4, <2>5
<1>4. ASSUME NEW x \in Targets, NEW a \in shardToAck[x], DeliverAck(x, a),
             UNCHANGED receiverVars
      PROVE  v \in AcksOf(s, t)
  <2>1. a.shard \in Sources /\ a.ack \in 1..(MaxTask + 1)
    <3>1. a \in [shard : Sources, ack : 1..(MaxTask + 1)]
      BY Zenon, <1>0 DEF TypeOK
    <3> QED
      BY Zenon, <3>1
  <2> DEFINE r == [target |-> x, ack |-> a.ack]
  <2>2. r \in RoutedAck /\ r.target = x /\ r.ack = a.ack
    BY Zenon, <2>1 DEF RoutedAck
  <2>3. /\ ackChan' = [ackChan EXCEPT ![a.shard] = Append(@, r)]
        /\ prevAckBySource' = [prevAckBySource EXCEPT ![x] =
             [prevAckBySource[x] EXCEPT ![a.shard] = a.ack]]
        /\ shardToAck' = [shardToAck EXCEPT ![x] = @ \ {a}]
        /\ UNCHANGED ackByTarget
    BY Zenon, <1>4 DEF DeliverAck
  <2> HIDE DEF r
  <2>4. s = a.shard /\ t = x => a.ack \in AcksOf(s, t)
    BY Zenon DEF AcksOf
  <2>5. \/ prevAckBySource'[t][s] = prevAckBySource[t][s]
        \/ s = a.shard /\ t = x /\ prevAckBySource'[t][s] = a.ack
    BY Zenon, <1>0, <2>1, <2>3 DEF TypeOK
  <2>6. shardToAck'[t] \subseteq shardToAck[t]
    BY Zenon, <1>0, <2>3 DEF TypeOK
  <2>7. ASSUME NEW i \in 1..Len(ackChan'[s]), ackChan'[s][i].target = t
        PROVE  ackChan'[s][i].ack \in AcksOf(s, t)
    <3>1. CASE s # a.shard
      <4>1. ackChan'[s] = ackChan[s]
        BY Zenon, <1>0, <2>3, <3>1 DEF TypeOK
      <4> QED
        BY Zenon, <2>7, <4>1 DEF AcksOf
    <3>2. CASE s = a.shard
      <4>1. ackChan[s] \in Seq(RoutedAck) /\ ackChan'[s] = Append(ackChan[s], r)
        BY Zenon, <1>0, <2>3, <3>2 DEF TypeOK
      <4>2. Len(ackChan[s]) \in Nat /\ Len(ackChan'[s]) = Len(ackChan[s]) + 1
        BY <2>2, <4>1, AppendIs
      <4>3. CASE i = Len(ackChan[s]) + 1
        <5>1. ackChan'[s][i] = r
          BY <2>2, <4>1, <4>3, AppendIs
        <5> QED
          BY Zenon, <2>2, <2>4, <2>7, <3>2, <5>1
      <4>4. CASE i \in 1..Len(ackChan[s])
        <5>1. ackChan'[s][i] = ackChan[s][i]
          BY <2>2, <4>1, <4>4, AppendIs
        <5> QED
          BY Zenon, <2>7, <4>4, <5>1 DEF AcksOf
      <4> QED
        BY <4>2, <4>3, <4>4
    <3> QED
      BY Zenon, <3>1, <3>2
  <2>8. \/ v = ackByTarget[s][t]
        \/ v = prevAckBySource'[t][s]
        \/ \E b \in shardToAck'[t] : b.shard = s /\ v = b.ack
        \/ \E i \in 1..Len(ackChan'[s]) : ackChan'[s][i].target = t /\ v = ackChan'[s][i].ack
    BY Zenon, <2>3 DEF AcksOf
  <2>9. ackByTarget[s][t] \in AcksOf(s, t) /\ prevAckBySource[t][s] \in AcksOf(s, t)
    BY Zenon DEF AcksOf
  <2>10. \A b \in shardToAck[t] : b.shard = s => b.ack \in AcksOf(s, t)
    BY Zenon DEF AcksOf
  <2> QED
    BY Zenon, <2>4, <2>5, <2>6, <2>7, <2>8, <2>9, <2>10
<1>5. ASSUME NEW x \in Targets, EndStream(x)
      PROVE  v \in AcksOf(s, t) \/ v = NoAck
  <2>1. UNCHANGED <<ackByTarget, ackChan>>
    BY Zenon, <1>5 DEF EndStream, CloseSender
  <2>2. /\ prevAckBySource'[t][s] \in {prevAckBySource[t][s], NoAck}
        /\ shardToAck'[t] \subseteq shardToAck[t]
    BY Zenon, <1>0, <1>5 DEF EndStream, CloseSender, ForgetStream, TypeOK
  <2>3. \/ v = prevAckBySource'[t][s]
        \/ \E b \in shardToAck'[t] : b.shard = s /\ v = b.ack
        \/ v \in AcksOf(s, t)
    BY Zenon, <2>1 DEF AcksOf
  <2>4. prevAckBySource[t][s] \in AcksOf(s, t)
    BY Zenon DEF AcksOf
  <2>5. \A b \in shardToAck[t] : b.shard = s => b.ack \in AcksOf(s, t)
    BY Zenon DEF AcksOf
  <2> QED
    BY Zenon, <2>2, <2>3, <2>4, <2>5
<1>6. ASSUME NEW x \in Sources, ReceiverNext(x), UNCHANGED senderVars
      PROVE  SendAck(x) \/ UNCHANGED <<ackByTarget, prevAckBySource, shardToAck, ackChan>>
  BY Zenon, <1>6 DEF ReceiverNext, RecvTasks, RecvEmpty, DeliverTasks, BroadcastWatermark,
              NotifyNewTargetShard
<1>7. ASSUME NEW x \in Targets, SenderNext(x), UNCHANGED receiverVars
      PROVE  \/ RecvAck(x)
             \/ \E a \in shardToAck[x] : DeliverAck(x, a)
             \/ UNCHANGED <<ackByTarget, prevAckBySource, shardToAck, ackChan>>
  BY Zenon, <1>7 DEF SenderNext, OpenSender, SendMessage, TargetApply, TargetAck, DiscardAcked
<1> HIDE DEF channelVars, receiverVars, sourceVars, recvVars, ackVars, senderVars,
         streamVars, recvAckVars
<1> QED
  BY <1>1, <1>2, <1>3, <1>4, <1>5, <1>6, <1>7 DEF Next

(* Every step keeps the acks safe.                                         *)
LEMMA NextAcksBelow ==
  ASSUME IInv, Next
  PROVE  AcksBelow'
<1> SUFFICES ASSUME NEW s \in Sources, NEW t \in Targets, NEW v \in AcksOf(s, t)'
             PROVE  AckBelow(v, s, t)'
  BY Zenon DEF AcksBelow
<1>0. TypeInv /\ OrderInv /\ AcksBelow
  BY Zenon DEF IInv
<1>1. v \in Nat /\ AckBelow(v, s, t)
  <2>1. CASE v \in AcksOf(s, t)
    BY Zenon, <1>0, <2>1, AcksTyped DEF AcksBelow
  <2>2. CASE v = NoAck
    <3>1. \A i \in 1..Len(sendMsgChan[t]) : \A k \in 1..Len(sendMsgChan[t][i].tasks) :
            sendMsgChan[t][i].tasks[k] \in Nat
      BY Zenon, <1>0, Typed, AtIn, ValuesTyped
    <3>2. /\ nextTask[s] \in Nat
          /\ \A k \in 1..Len(outbox[s][t]) : outbox[s][t][k] \in Nat
          /\ \A f \in inFlight[t] : f.task \in Nat
      BY Zenon, <1>0, Typed
    <3> QED
      BY <2>2, <3>1, <3>2 DEF NoAck, AckBelow, Below, QueueFrom
  <2>3. CASE /\ fromTarget[t] # <<>>
             /\ \E e \in idRing[t] : e.shard = s /\ e.id <= Head(fromTarget[t]) /\ v = e.task
    BY Zenon, <1>0, <2>3, CoveredBelow, Typed
  <2> QED
    BY <2>1, <2>2, <2>3, AcksAreOld
<1> QED
  BY Zenon, <1>0, <1>1, AckBelowStable

(* Every step keeps the inductive invariant.                               *)
LEMMA NextIInv == IInv /\ [Next]_vars => IInv'
<1> SUFFICES ASSUME IInv, [Next]_vars PROVE IInv'
  BY Zenon
<1>1. CASE Next
  <2>1. TypeInv'
    BY Zenon, <1>1, ReceiverTypeInv, SenderTypeInv, EndTypeInv DEF Next, IInv
  <2>2. OrderInv'
    BY Zenon, <1>1, ReceiverOrderInv, SenderOrderInv, EndOrderInv DEF Next
  <2> QED
    BY Zenon, <1>1, <2>1, <2>2, NextAcksBelow DEF IInv
<1>2. CASE UNCHANGED vars
  <2> USE <1>2 DEF vars, channelVars, receiverVars, sourceVars, recvVars, ackVars,
        senderVars, streamVars, recvAckVars
  <2>1. TypeInv'
    BY Zenon DEF IInv, TypeInv, TypeOK, WatermarkKnown
  <2>2. OrderInv'
    <3>1. OrderInv
      BY Zenon DEF IInv
    <3>2. HighIsNext' /\ IDsAllocated' /\ EntriesInOrder' /\ QueuesInOrder'
      BY Zenon, <3>1 DEF OrderInv, HighIsNext, IDsAllocated, EntriesInOrder, QueuesInOrder
    <3>3. OutboxLast' /\ RingFirst'
      BY Zenon, <3>1 DEF OrderInv, OutboxLast, RingFirst, Below
    <3> QED
      BY Zenon, <3>2, <3>3 DEF OrderInv
  <2>3. AcksBelow'
    <3>1. ASSUME NEW s \in Sources, NEW t \in Targets
          PROVE  /\ AcksOf(s, t)' = AcksOf(s, t)
                 /\ \A v : AckBelow(v, s, t) => AckBelow(v, s, t)'
      BY Zenon DEF AcksOf, AckBelow, Below
    <3> QED
      BY Zenon, <3>1 DEF IInv, AcksBelow
  <2> QED
    BY Zenon, <2>1, <2>2, <2>3 DEF IInv
<1> QED
  BY Zenon, <1>1, <1>2

(* A pending task is in the outbox of its receiver, in the channel of the  *)
(* sender, or with the target.                                             *)
OnItsWay(task, s, t) ==
  \/ \E k \in 1..Len(outbox[s][t]) : task = outbox[s][t][k]
  \/ \E i \in 1..Len(sendMsgChan[t]) : sendMsgChan[t][i].shard = s /\
       \E k \in 1..Len(sendMsgChan[t][i].tasks) : task = sendMsgChan[t][i].tasks[k]
  \/ \E f \in inFlight[t] : f.shard = s /\ task = f.task

(* Those are the places Pending collects.                                  *)
LEMMA WherePending ==
  ASSUME NEW s, NEW t, NEW task \in Pending(s, t)
  PROVE  OnItsWay(task, s, t)
BY Zenon DEF Pending, Queued, InGroup, OnItsWay

(* The invariant says what TargetAckSafe says.                             *)
LEMMA IInvImpliesSafe == IInv => TargetAckSafe
<1> SUFFICES ASSUME IInv, NEW s \in Sources, NEW t \in Targets,
                    NEW task \in Pending(s, t), NEW ack \in AcksOf(s, t)
             PROVE  ack <= task
  BY Zenon DEF TargetAckSafe
<1>1. AckBelow(ack, s, t)
  BY Zenon DEF IInv, AcksBelow
<1>2. OnItsWay(task, s, t)
  BY Zenon, WherePending
<1> QED
  BY Zenon, <1>1, <1>2 DEF AckBelow, Below, QueueFrom, OnItsWay

(* TargetAckSafe holds for any number of shards and tasks, any sizes of    *)
(* the channels and any number of streams that end: no ack derived from a  *)
(* target's watermark passes a task on its way to that target.             *)
THEOREM AcksAreSafe == Spec => []TargetAckSafe
BY InitIInv, NextIInv, IInvImpliesSafe, PTL DEF Spec

(* SourceAckMonotone holds: sendAck never takes an ack back, and its clamp *)
(* never lowers one.                                                       *)
THEOREM AcksAreMonotone == Spec => SourceAckMonotone
<1>1. ASSUME IInv, [Next]_vars
      PROVE  [\A s \in Sources : lastSentMin[s] <= lastSentMin'[s]]_vars
  <2> SUFFICES ASSUME Next, NEW s \in Sources PROVE lastSentMin[s] <= lastSentMin'[s]
    BY Zenon, <1>1
  <2>0. TypeInv /\ TypeOK /\ HighIsNext /\ lastSentMin[s] \in Nat
    BY Zenon, <1>1, Typed DEF IInv, OrderInv
  <2>1. ASSUME NEW x \in Sources, SendAck(x)
        PROVE  lastSentMin[s] <= lastSentMin'[s]
    <3> DEFINE acks == [ackByTarget[x] EXCEPT ![Head(ackChan[x]).target] = Head(ackChan[x]).ack]
    <3>1. PICK min \in {acks[t] : t \in Targets} \ {NoAck} :
            lastSentMin' = [lastSentMin EXCEPT ![x] =
              IF min >= @ THEN Clamp(min, lastExclusiveHighOriginal[x]) ELSE @]
      BY Zenon, <2>1 DEF SendAck
    <3>2. min \in Nat
      <4>0. ackChan[x] # <<>>
        BY Zenon, <2>1 DEF SendAck
      <4>1. /\ ackChan[x] \in Seq(RoutedAck)
            /\ ackByTarget[x] \in [Targets -> 0..(MaxTask + 1)]
        BY Zenon, <2>0 DEF TypeOK
      <4>2. Head(ackChan[x]) \in RoutedAck
        BY <4>0, <4>1
      <4>3. Head(ackChan[x]).ack \in 1..(MaxTask + 1)
        BY Zenon, <4>2, RoutedAckFields
      <4>4. \A t \in Targets : acks[t] \in 0..(MaxTask + 1)
        BY <4>1, <4>3, RoutingAssumption
      <4> QED
        BY <4>4, RoutingAssumption
    <3> HIDE DEF acks
    <3>3. /\ lastSentMin[x] \in Nat /\ nextTask[x] \in Nat
          /\ lastExclusiveHighOriginal[x] \in {0, nextTask[x]}
          /\ lastSentMin[x] <= nextTask[x]
      BY Zenon, <2>0, Typed DEF HighIsNext
    <3>4. min >= lastSentMin[x] => lastSentMin[x] <= Clamp(min, lastExclusiveHighOriginal[x])
      BY <3>2, <3>3 DEF Clamp
    <3>5. lastSentMin'[s] = IF s = x
            THEN IF min >= lastSentMin[x] THEN Clamp(min, lastExclusiveHighOriginal[x])
                                          ELSE lastSentMin[x]
            ELSE lastSentMin[s]
      BY Zenon, <2>0, <3>1 DEF TypeOK
    <3> QED
      BY <2>0, <3>3, <3>4, <3>5
  <2>2. ASSUME UNCHANGED lastSentMin PROVE lastSentMin[s] <= lastSentMin'[s]
    BY <2>0, <2>2
  <2>3. (\E x \in Sources : SendAck(x)) \/ UNCHANGED lastSentMin
    BY Zenon DEF Next, ReceiverNext, RecvTasks, RecvEmpty, DeliverTasks, BroadcastWatermark,
           NotifyNewTargetShard, EndStream, receiverVars, ackVars
  <2> QED
    BY Zenon, <2>1, <2>2, <2>3
<1> QED
  BY <1>1, InitIInv, NextIInv, PTL DEF Spec, SourceAckMonotone

(* ReportedTargetsSafe holds: an ack that moves passes no task on its way  *)
(* to a target that has acked, because it is at most that target's ack.    *)
THEOREM ReportedAcksAreSafe == Spec => ReportedTargetsSafe
<1> DEFINE Reported == \A s \in Sources, t \in Targets :
             lastSentMin'[s] # lastSentMin[s] /\ ackByTarget'[s][t] # NoAck =>
               \A task \in Pending(s, t) : lastSentMin'[s] <= task
<1>1. ASSUME IInv, TargetAckSafe', Next PROVE Reported
  <2> SUFFICES ASSUME NEW s \in Sources, NEW t \in Targets,
                      lastSentMin'[s] # lastSentMin[s], ackByTarget'[s][t] # NoAck,
                      NEW task \in Pending(s, t)
               PROVE  lastSentMin'[s] <= task
    BY Zenon
  <2>0. TypeInv /\ TypeOK /\ HighIsNext
    BY Zenon, <1>1, Typed DEF IInv, OrderInv
  <2>1. PICK x \in Sources : SendAck(x) /\ UNCHANGED senderVars
    BY Zenon, <1>1 DEF Next, ReceiverNext, RecvTasks, RecvEmpty, DeliverTasks,
       BroadcastWatermark,
           NotifyNewTargetShard, EndStream, receiverVars, ackVars
  <2> DEFINE acks == [ackByTarget[x] EXCEPT ![Head(ackChan[x]).target] = Head(ackChan[x]).ack]
  <2>2. PICK min \in {acks[u] : u \in Targets} \ {NoAck} :
          /\ IsMinAck(acks, min)
          /\ lastSentMin' = [lastSentMin EXCEPT ![x] =
               IF min >= @ THEN Clamp(min, lastExclusiveHighOriginal[x]) ELSE @]
          /\ ackByTarget' = [ackByTarget EXCEPT ![x] = acks]
    BY Zenon, <2>1 DEF SendAck
  <2>3. \A u \in Targets : acks[u] \in Nat
    <3>1. ackChan[x] \in Seq(RoutedAck) /\ ackChan[x] # <<>>
          /\ ackByTarget[x] \in [Targets -> 0..(MaxTask + 1)]
      BY Zenon, <2>0, <2>1 DEF SendAck, TypeOK
    <3>2. Head(ackChan[x]) \in RoutedAck
      BY <3>1
    <3>3. Head(ackChan[x]).ack \in 1..(MaxTask + 1)
      BY Zenon, <3>2, RoutedAckFields
    <3>4. \A u \in Targets : acks[u] \in 0..(MaxTask + 1)
      BY <3>1, <3>3, RoutingAssumption
    <3> QED
      BY <3>4, RoutingAssumption
  <2> HIDE DEF acks
  <2>4. s = x /\ lastSentMin'[s] = Clamp(min, lastExclusiveHighOriginal[s])
        /\ ackByTarget'[s] = acks
    BY Zenon, <2>0, <2>2 DEF TypeOK
  <2>5. min \in Nat /\ lastExclusiveHighOriginal[s] \in Nat /\ min <= acks[t]
    <3>1. lastExclusiveHighOriginal[s] \in {0, nextTask[s]} /\ nextTask[s] \in Nat
      BY Zenon, <2>0, Typed DEF HighIsNext
    <3> QED
      BY <2>2, <2>3, <2>4, <3>1 DEF IsMinAck
  <2>6. lastSentMin'[s] \in Nat /\ lastSentMin'[s] <= acks[t]
    BY <2>3, <2>4, <2>5 DEF Clamp
  <2>7. acks[t] <= task
    <3>1. acks[t] \in AcksOf(s, t)'
      BY Zenon, <2>4 DEF AcksOf
    <3>2. task \in Pending(s, t)'
      BY <2>1 DEF Pending, Queued, SendAck, recvVars, senderVars, streamVars
    <3> QED
      BY Zenon, <1>1, <3>1, <3>2 DEF TargetAckSafe
  <2>8. task \in Nat
    <3>1. ASSUME NEW i \in 1..Len(sendMsgChan[t]), NEW k \in 1..Len(sendMsgChan[t][i].tasks)
          PROVE  sendMsgChan[t][i].tasks[k] \in Nat
      BY Zenon, <2>0, Typed, AtIn, ValuesTyped
    <3>2. /\ \A k \in 1..Len(outbox[s][t]) : outbox[s][t][k] \in Nat
          /\ \A f \in inFlight[t] : f.task \in Nat
      BY Zenon, <2>0, Typed
    <3> QED
      <4>1. OnItsWay(task, s, t)
        BY Zenon, WherePending
      <4> QED
        BY ONLY <3>1, <3>2, <4>1, Zenon DEF OnItsWay
  <2> QED
    BY <2>3, <2>6, <2>7, <2>8
<1>2. ASSUME IInv, TargetAckSafe', [Next]_vars PROVE [Reported]_vars
  BY Zenon, <1>1, <1>2
<1> QED
  BY <1>2, InitIInv, NextIInv, IInvImpliesSafe, PTL DEF Spec, ReportedTargetsSafe
----------------------------------------------------------------------------
(* A set of numbers up to n that is not empty has a largest one: the       *)
(* distances from n have a least one, since < is well-founded.             *)
LEMMA LargestExists ==
  ASSUME NEW n \in Nat, NEW S, S \subseteq 0..n, S # {}
  PROVE  \E x \in S : \A y \in S : y <= x
<1> DEFINE R == OpToRel(<, Nat)
           D == {n - x : x \in S}
<1>1. IsWellFoundedOn(R, Nat)
  BY Zenon, NatLessThanWellFounded
<1>2. D \subseteq Nat /\ D # {}
  <2>1. \A x \in S : n - x \in Nat
    OBVIOUS
  <2> QED
    BY Zenon, <2>1
<1> HIDE DEF R, D
<1>3. PICK d \in D : \A e \in D : ~ (<<e, d>> \in R)
  BY Zenon, <1>1, <1>2, WFMin
<1>4. ASSUME NEW e \in D PROVE d <= e
  <2>1. d \in Nat /\ e \in Nat
    BY Zenon, <1>2
  <2>2. ~ (e < d)
    <3>1. e < d => <<e, d>> \in R
      BY ONLY <2>1 DEF R, OpToRel
    <3> QED
      BY Zenon, <1>3, <3>1
  <2> QED
    BY ONLY <2>1, <2>2
<1>5. PICK x \in S : d = n - x
  BY Zenon DEF D
<1>6. ASSUME NEW y \in S PROVE y <= x
  <2>1. n - y \in D
    BY Zenon DEF D
  <2> QED
    BY <1>4, <1>5, <2>1
<1> QED
  BY Zenon, <1>6

(* Aggregate has an ack for the source of each entry, and it is at least   *)
(* the entry's task.                                                       *)
LEMMA AggregateCovers ==
  ASSUME NEW entries, entries \subseteq Entry
  PROVE  \A e \in entries :
           /\ \E a \in Aggregate(entries) : a.shard = e.shard
           /\ \A a \in Aggregate(entries) : a.shard = e.shard => e.task <= a.ack
<1> SUFFICES ASSUME NEW e \in entries
             PROVE  /\ \E a \in Aggregate(entries) : a.shard = e.shard
                    /\ \A a \in Aggregate(entries) : a.shard = e.shard => e.task <= a.ack
  BY Zenon
<1> DEFINE ofShard == {f \in entries : f.shard = e.shard}
           S == {f.task : f \in ofShard}
<1>1. \A f \in entries : f.task \in 0..(MaxTask + 1)
  BY RoutingAssumption DEF Entry
<1>2. S \subseteq 0..(MaxTask + 1) /\ S # {}
  BY Zenon, <1>1
<1>3. MaxTask + 1 \in Nat
  BY RoutingAssumption
<1>4. PICK x \in S : \A y \in S : y <= x
  <2> HIDE DEF S
  <2> QED
    BY Zenon, <1>2, <1>3, LargestExists
<1>5. PICK f \in ofShard : x = f.task
  BY Zenon
<1>6. ASSUME NEW g \in entries, g.shard = f.shard PROVE g.task <= f.task
  BY Zenon, <1>4, <1>5, <1>6
<1>7. [shard |-> f.shard, ack |-> f.task] \in Aggregate(entries)
  BY Zenon, <1>6 DEF Aggregate
<1>8. ASSUME NEW a \in Aggregate(entries), a.shard = e.shard PROVE e.task <= a.ack
  <2>1. PICK g \in entries :
          /\ \A h \in entries : h.shard = g.shard => h.task <= g.task
          /\ a = [shard |-> g.shard, ack |-> g.task]
    BY Zenon DEF Aggregate
  <2> QED
    BY Zenon, <1>8, <2>1
<1> QED
  BY <1>7, <1>8

(* The entries in pending are covered by the acks yet to deliver or by the *)
(* last one delivered to the entry's source.                               *)
CoveredBy(pending, acks, prev) ==
  \A e \in pending :
    /\ \A a \in acks : a.shard = e.shard => e.task <= a.ack
    /\ \/ \E a \in acks : a.shard = e.shard
       \/ e.task <= prev[e.shard]

(* So is what recvAck is about to discard.                                 *)
AcksCover ==
  \A t \in Targets : CoveredBy(pendingDiscard[t], shardToAck[t], prevAckBySource[t])

(* An ack that is delivered becomes the last one of its source.            *)
LEMMA DeliveredCovers ==
  ASSUME NEW pending, NEW acks, NEW prev, NEW next, NEW b \in acks,
         CoveredBy(pending, acks, prev), next[b.shard] = b.ack,
         \A e \in pending : e.shard # b.shard => next[e.shard] = prev[e.shard]
  PROVE  CoveredBy(pending, acks \ {b}, next)
<1> SUFFICES ASSUME NEW e \in pending
             PROVE  /\ \A a \in acks \ {b} : a.shard = e.shard => e.task <= a.ack
                    /\ \/ \E a \in acks \ {b} : a.shard = e.shard
                       \/ e.task <= next[e.shard]
  BY Zenon DEF CoveredBy
<1>1. /\ \A a \in acks : a.shard = e.shard => e.task <= a.ack
      /\ \/ \E a \in acks : a.shard = e.shard
         \/ e.task <= prev[e.shard]
  BY Zenon DEF CoveredBy
<1>2. CASE b.shard = e.shard
  <2>1. e.task <= b.ack
    BY Zenon, <1>1, <1>2
  <2>2. e.task <= next[e.shard]
    BY Zenon, <1>2, <2>1
  <2> QED
    BY Zenon, <1>1, <2>2
<1>3. CASE b.shard # e.shard
  BY Zenon, <1>1, <1>3
<1> QED
  BY Zenon, <1>2, <1>3

(* Every step keeps what is covered: recvAck aggregates all that it will   *)
(* discard, and discards it when the acks are delivered.                   *)
LEMMA NextAcksCover ==
  ASSUME TypeOK, AcksCover, [Next]_vars
  PROVE  AcksCover'
<1>0. /\ idRing \in [Targets -> SUBSET Entry]
      /\ prevAckBySource \in [Targets -> [Sources -> 0..(MaxTask + 1)]]
      /\ pendingDiscard \in [Targets -> SUBSET Entry]
      /\ shardToAck \in [Targets -> SUBSET [shard : Sources, ack : 1..(MaxTask + 1)]]
  BY Zenon DEF TypeOK
<1>1. ASSUME UNCHANGED recvAckVars PROVE AcksCover'
  BY Zenon, <1>1 DEF AcksCover, recvAckVars
<1>2. ASSUME NEW x \in Targets, RecvAck(x) PROVE AcksCover'
  <2> DEFINE covered == {e \in idRing[x] : e.id <= Head(fromTarget[x])}
             acks == IF covered # {} THEN Aggregate(covered) ELSE PreviousAcks(x)
  <2>1. /\ pendingDiscard' = [pendingDiscard EXCEPT ![x] = covered]
        /\ shardToAck' = [shardToAck EXCEPT ![x] = acks]
        /\ prevAckBySource' = prevAckBySource
    BY Zenon, <1>2 DEF RecvAck
  <2>2. covered \subseteq Entry
    BY Zenon, <1>0
  <2> HIDE DEF covered
  <2>3. CoveredBy(covered, acks, prevAckBySource[x])
    <3>1. CASE covered = {}
      BY Zenon, <3>1 DEF CoveredBy
    <3>2. CASE covered # {}
      <4>1. acks = Aggregate(covered)
        BY Zenon, <3>2
      <4>2. CoveredBy(covered, Aggregate(covered), prevAckBySource[x])
        BY Zenon, <2>2, AggregateCovers DEF CoveredBy
      <4> QED
        BY Zenon, <4>1, <4>2
    <3> QED
      BY Zenon, <3>1, <3>2
  <2> HIDE DEF acks
  <2>4. /\ pendingDiscard'[x] = covered /\ shardToAck'[x] = acks
        /\ \A t \in Targets : t # x =>
             pendingDiscard'[t] = pendingDiscard[t] /\ shardToAck'[t] = shardToAck[t]
    BY Zenon, <1>0, <2>1
  <2>5. ASSUME NEW t \in Targets
        PROVE  CoveredBy(pendingDiscard'[t], shardToAck'[t], prevAckBySource[t])
    BY Zenon, <2>3, <2>4 DEF AcksCover
  <2> QED
    BY Zenon, <2>1, <2>5 DEF AcksCover
<1>3. ASSUME NEW x \in Targets, NEW b \in shardToAck[x], DeliverAck(x, b) PROVE AcksCover'
  <2>1. /\ pendingDiscard' = pendingDiscard
        /\ shardToAck' = [shardToAck EXCEPT ![x] = @ \ {b}]
        /\ prevAckBySource' = [prevAckBySource EXCEPT ![x][b.shard] = b.ack]
    BY Zenon, <1>3 DEF DeliverAck
  <2>2. b.shard \in Sources /\ \A e \in pendingDiscard[x] : e.shard \in Sources
    BY <1>0 DEF Entry
  <2>3. /\ shardToAck'[x] = shardToAck[x] \ {b}
        /\ \A t \in Targets : t # x => shardToAck'[t] = shardToAck[t]
    BY Zenon, <1>0, <2>1
  <2>4. /\ prevAckBySource'[x][b.shard] = b.ack
        /\ \A s \in Sources : s # b.shard => prevAckBySource'[x][s] = prevAckBySource[x][s]
        /\ \A t \in Targets : t # x => prevAckBySource'[t] = prevAckBySource[t]
    BY Zenon, <1>0, <2>1, <2>2
  <2>5. CoveredBy(pendingDiscard[x], shardToAck[x], prevAckBySource[x])
    BY Zenon DEF AcksCover
  <2>6. CoveredBy(pendingDiscard[x], shardToAck[x] \ {b}, prevAckBySource'[x])
    <3>1. prevAckBySource'[x][b.shard] = b.ack
      BY Zenon, <2>4
    <3>2. \A e \in pendingDiscard[x] :
            e.shard # b.shard => prevAckBySource'[x][e.shard] = prevAckBySource[x][e.shard]
      BY Zenon, <2>2, <2>4
    <3> QED
      BY Zenon, <2>5, <3>1, <3>2, DeliveredCovers
  <2>7. ASSUME NEW t \in Targets
        PROVE  CoveredBy(pendingDiscard[t], shardToAck'[t], prevAckBySource'[t])
    BY Zenon, <2>3, <2>4, <2>6 DEF AcksCover
  <2> QED
    BY Zenon, <2>1, <2>7 DEF AcksCover
<1>4. ASSUME NEW x \in Targets, DiscardAcked(x) \/ EndStream(x) PROVE AcksCover'
  <2>1. /\ pendingDiscard' = [pendingDiscard EXCEPT ![x] = {}]
        /\ \/ UNCHANGED <<prevAckBySource, shardToAck>>
           \/ /\ prevAckBySource' = [prevAckBySource EXCEPT ![x] = [s \in Sources |-> NoAck]]
              /\ shardToAck' = [shardToAck EXCEPT ![x] = {}]
    BY Zenon, <1>4 DEF DiscardAcked, EndStream, CloseSender, ForgetStream
  <2>2. /\ pendingDiscard'[x] = {}
        /\ \A t \in Targets : t # x => pendingDiscard'[t] = pendingDiscard[t]
    BY Zenon, <1>0, <2>1
  <2>3. \A t \in Targets : t # x =>
          prevAckBySource'[t] = prevAckBySource[t] /\ shardToAck'[t] = shardToAck[t]
    BY Zenon, <1>0, <2>1
  <2>4. CoveredBy({}, shardToAck'[x], prevAckBySource'[x])
    BY Zenon DEF CoveredBy
  <2> QED
    BY Zenon, <2>2, <2>3, <2>4 DEF AcksCover
<1>5. \/ UNCHANGED recvAckVars
      \/ \E x \in Targets : \/ RecvAck(x)
                            \/ \E b \in shardToAck[x] : DeliverAck(x, b)
                            \/ DiscardAcked(x) \/ EndStream(x)
  BY Zenon DEF Next, SenderNext, OpenSender, SendMessage, TargetApply, TargetAck, vars,
     senderVars
<1> QED
  BY Zenon, <1>1, <1>2, <1>3, <1>4, <1>5

(* DiscardOnlyAcked holds: an entry that leaves the ring of a stream that  *)
(* goes on was acked to its source, for any shards and any number of acks. *)
THEOREM DiscardsAreAcked == Spec => DiscardOnlyAcked
<1> DEFINE Acked == \A t \in registered' : \A e \in idRing[t] \ idRing'[t] :
                      prevAckBySource[t][e.shard] >= e.task
<1>1. ASSUME TypeOK, AcksCover, Next PROVE Acked
  <2> SUFFICES ASSUME NEW t \in registered', NEW e \in idRing[t] \ idRing'[t]
               PROVE  prevAckBySource[t][e.shard] >= e.task
    BY Zenon
  <2>0. registered \subseteq Targets /\ idRing \in [Targets -> SUBSET Entry]
    BY Zenon, <1>1 DEF TypeOK
  <2>1. ASSUME NEW x \in Targets, DiscardAcked(x)
        PROVE  prevAckBySource[t][e.shard] >= e.task
    <3>0. /\ registered' = registered /\ shardToAck[x] = {}
          /\ idRing' = [idRing EXCEPT ![x] = @ \ pendingDiscard[x]]
      BY Zenon, <2>1 DEF DiscardAcked, channelVars
    <3>1. /\ t \in Targets
          /\ t # x => idRing'[t] = idRing[t]
          /\ idRing'[x] = idRing[x] \ pendingDiscard[x]
      BY Zenon, <2>0, <3>0
    <3>2. e \in pendingDiscard[t] /\ shardToAck[t] = {}
      <4>1. t = x
        BY Zenon, <3>1
      <4> QED
        BY Zenon, <3>0, <3>1, <4>1
    <3>3. e.task <= prevAckBySource[t][e.shard]
      BY Zenon, <1>1, <3>1, <3>2 DEF AcksCover, CoveredBy
    <3>4. e \in Entry /\ prevAckBySource[t] \in [Sources -> 0..(MaxTask + 1)]
      BY Zenon, <1>1, <3>1 DEF TypeOK
    <3>5. e.task \in Nat /\ prevAckBySource[t][e.shard] \in Nat
      BY <3>4, RoutingAssumption DEF Entry
    <3> QED
      BY ONLY <3>3, <3>5
  <2>2. ASSUME NEW x \in Targets, EndStream(x) PROVE FALSE
    <3>1. registered' = registered \ {x} /\ idRing' = [idRing EXCEPT ![x] = {}]
      BY Zenon, <2>2 DEF EndStream, CloseSender, ForgetStream
    <3>2. t \in Targets /\ t # x
      BY Zenon, <2>0, <3>1
    <3> QED
      BY Zenon, <2>0, <3>1, <3>2
  <2>3. ASSUME NEW x \in Targets, SendMessage(x) PROVE FALSE
    <3>1. \E n : idRing' = [idRing EXCEPT ![x] = @ \cup n] /\ t \in Targets
      BY Zenon, <2>0, <2>3 DEF SendMessage
    <3> QED
      BY Zenon, <2>0, <3>1
  <2>4. \/ UNCHANGED idRing
        \/ \E x \in Targets : DiscardAcked(x) \/ EndStream(x) \/ SendMessage(x)
    BY Zenon, <1>1 DEF Next, SenderNext, OpenSender, TargetApply, TargetAck, RecvAck, DeliverAck,
       senderVars, streamVars
  <2> QED
    BY Zenon, <2>1, <2>2, <2>3, <2>4
<1>2. ASSUME TypeOK, AcksCover, [Next]_vars PROVE [Acked]_vars
  BY Zenon, <1>1, <1>2
<1>3. Init => AcksCover
  BY Zenon DEF Init, SenderInit, AcksCover, CoveredBy
<1> QED
  BY <1>2, <1>3, NextAcksCover, TypeCorrect, PTL DEF Spec, DiscardOnlyAcked
=============================================================================
