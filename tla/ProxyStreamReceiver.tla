------------------------ MODULE ProxyStreamReceiver ------------------------
(***************************************************************************)
(* proxyStreamReceiver (src/proxy/proxy_streams.go): reads one source      *)
(* shard's replication stream, routes its tasks to the senders of the      *)
(* target shards and returns to the source the smallest of their acks.     *)
(*                                                                         *)
(* recvReplicationMessages handles one message of the source to the end    *)
(* before it reads the next; outbox and watermarkTo are what is left of    *)
(* it.  sendAck is the other goroutine.  A channel operation is a step; a  *)
(* delivery attempt that finds no channel changes nothing and is retried,  *)
(* so it is not a step.  The keepalive of sendAck repeats the last ack and *)
(* changes only the time it was sent.                                      *)
(***************************************************************************)
EXTENDS RoutingChannels

CONSTANT MaxEmpty    \* bound: empty batches a source shard emits

VARIABLES
  nextTask,          \* external: the next task the source will emit
  emptyBatches,      \* external: empty batches emitted so far
  outbox,            \* tasksByTargetShard of the message in hand, undelivered
  watermarkTo,       \* targets whose channel the watermark in hand is still for
  lastExclusiveHighOriginal,
  lastWatermark,     \* high of the last empty batch; 0 for nil
  ackByTarget,
  lastSentMin        \* the last ack sent to the source

sourceVars   == <<nextTask, emptyBatches>>
recvVars     == <<outbox, watermarkTo, lastExclusiveHighOriginal, lastWatermark>>
ackVars      == <<ackByTarget, lastSentMin>>
receiverVars == <<sourceVars, recvVars, ackVars>>

ReceiverInit ==
  /\ nextTask = [s \in Sources |-> 1]
  /\ emptyBatches = [s \in Sources |-> 0]
  /\ outbox = [s \in Sources |-> [t \in Targets |-> <<>>]]
  /\ watermarkTo = [s \in Sources |-> {}]
  /\ lastExclusiveHighOriginal = [s \in Sources |-> 0]
  /\ lastWatermark = [s \in Sources |-> 0]
  /\ ackByTarget = [s \in Sources |-> [t \in Targets |-> NoAck]]
  /\ lastSentMin = [s \in Sources |-> 0]
----------------------------------------------------------------------------
(* The loop is back at Recv.                                               *)
Receiving(s) ==
  /\ watermarkTo[s] = {}
  /\ \A t \in Targets : outbox[s][t] = <<>>

(* The results of grouping a batch by the hash of its workflows: each task *)
(* goes to at most one target, in order.  A task with no namespace or no   *)
(* workflow is in no group.                                                *)
Ordered(q) == \A i, j \in 1..Len(q) : i < j => q[i] < q[j]

Groups(ids) ==
  {q \in UNION {[1..n -> ids] : n \in 0..MaxBatch} : Ordered(q)}

InGroup(q) == {q[i] : i \in 1..Len(q)}

Groupings(ids) ==
  {g \in [Targets -> Groups(ids)] :
     \A t, u \in Targets : t # u => InGroup(g[t]) \cap InGroup(g[u]) = {}}

(* recvReplicationMessages, a message with tasks.                          *)
RecvTasks(s) ==
  /\ Receiving(s)
  /\ \E n \in 1..MaxBatch :
       LET ids == nextTask[s]..(nextTask[s] + n - 1)
       IN /\ nextTask[s] + n - 1 <= MaxTask
          /\ \E tasksByTargetShard \in Groupings(ids) :
               /\ outbox' = [outbox EXCEPT ![s] = tasksByTargetShard]
               /\ undone' = [undone EXCEPT ![s] = @ \cup
                               UNION {InGroup(tasksByTargetShard[t]) : t \in Targets}]
          /\ nextTask' = [nextTask EXCEPT ![s] = @ + n]
          /\ lastExclusiveHighOriginal' =
               [lastExclusiveHighOriginal EXCEPT ![s] = nextTask[s] + n]
  /\ UNCHANGED <<registered, sendMsgChan, ackChan, notifying, emptyBatches,
                 watermarkTo, lastWatermark, ackVars>>

(* DeliverMessagesToShardOwner, local delivery: blocks on a full channel.  *)
DeliverTasks(s, t) ==
  LET tasks == outbox[s][t]
  IN /\ tasks # <<>>
     /\ t \in registered
     /\ HasRoom(t)
     /\ sendMsgChan' = [sendMsgChan EXCEPT ![t] = Append(@,
          [shard |-> s, tasks |-> tasks, high |-> tasks[Len(tasks)] + 1])]
     /\ outbox' = [outbox EXCEPT ![s][t] = <<>>]
     /\ UNCHANGED <<registered, ackChan, notifying, undone, sourceVars,
                    watermarkTo, lastExclusiveHighOriginal, lastWatermark, ackVars>>

(* recvReplicationMessages, a message with no tasks: remember its          *)
(* watermark and take a snapshot of the channels to broadcast it to.       *)
RecvEmpty(s) ==
  /\ Receiving(s)
  /\ emptyBatches[s] < MaxEmpty
  /\ emptyBatches' = [emptyBatches EXCEPT ![s] = @ + 1]
  /\ lastExclusiveHighOriginal' =
       [lastExclusiveHighOriginal EXCEPT ![s] = nextTask[s]]
  /\ lastWatermark' = [lastWatermark EXCEPT ![s] = nextTask[s]]
  /\ watermarkTo' = [watermarkTo EXCEPT ![s] = registered]
  /\ UNCHANGED <<channelVars, nextTask, outbox, ackVars>>

(* One turn of the broadcast: a full channel misses the watermark.         *)
BroadcastWatermark(s, t) ==
  /\ t \in watermarkTo[s]
  /\ TrySend(t, Watermark(s, lastWatermark[s]))
  /\ watermarkTo' = [watermarkTo EXCEPT ![s] = @ \ {t}]
  /\ UNCHANGED <<registered, ackChan, notifying, undone, sourceVars, outbox,
                 lastExclusiveHighOriginal, lastWatermark, ackVars>>

(* Mutant: the receivers are told of the new target and send it nothing.   *)
NotifyNothing(s, t) ==
  /\ s \in notifying[t]
  /\ notifying' = [notifying EXCEPT ![t] = @ \ {s}]
  /\ UNCHANGED <<registered, sendMsgChan, ackChan, undone, receiverVars>>

(* sendPendingWatermarkToShard, called by the RegisterShard of target t.   *)
NotifyNewTargetShard(s, t) ==
  /\ s \in notifying[t]
  /\ notifying' = [notifying EXCEPT ![t] = @ \ {s}]
  /\ IF lastWatermark[s] = 0
     THEN UNCHANGED sendMsgChan
     ELSE TrySend(t, Watermark(s, lastWatermark[s]))
  /\ UNCHANGED <<registered, ackChan, undone, receiverVars>>

(* Mutant: the comparison the wrong way round.                             *)
IsMaxAck(acks, min) ==
  \A t \in Targets : acks[t] # NoAck => min >= acks[t]

(* min is the smallest ack of the targets that have acked at all.          *)
IsMinAck(acks, min) ==
  \A t \in Targets : acks[t] # NoAck => min <= acks[t]

Clamp(ack, high) == IF high > 0 /\ ack > high THEN high ELSE ack

(* Mutant: the minimum is sent without comparing it with the last one.     *)
SendAckUnguarded(s) ==
  LET routed == Head(ackChan[s])
      acks   == [ackByTarget[s] EXCEPT ![routed.target] = routed.ack]
  IN /\ ackChan[s] # <<>>
     /\ ackChan' = [ackChan EXCEPT ![s] = Tail(@)]
     /\ ackByTarget' = [ackByTarget EXCEPT ![s] = acks]
     /\ \E min \in {acks[t] : t \in Targets} \ {NoAck} :
          /\ IsMinAck(acks, min)
          /\ lastSentMin' = [lastSentMin EXCEPT ![s] =
               Clamp(min, lastExclusiveHighOriginal[s])]
     /\ UNCHANGED <<registered, sendMsgChan, notifying, undone, sourceVars, recvVars>>

(* sendAck, one routed ack.                                                *)
SendAck(s) ==
  LET routed == Head(ackChan[s])
      acks   == [ackByTarget[s] EXCEPT ![routed.target] = routed.ack]
  IN /\ ackChan[s] # <<>>
     /\ ackChan' = [ackChan EXCEPT ![s] = Tail(@)]
     /\ ackByTarget' = [ackByTarget EXCEPT ![s] = acks]
     /\ \E min \in {acks[t] : t \in Targets} \ {NoAck} :
          /\ IsMinAck(acks, min)
          /\ lastSentMin' = [lastSentMin EXCEPT ![s] =
               IF min >= @ THEN Clamp(min, lastExclusiveHighOriginal[s]) ELSE @]
     /\ UNCHANGED <<registered, sendMsgChan, notifying, undone, sourceVars, recvVars>>

ReceiverNext(s) ==
  \/ RecvTasks(s)
  \/ RecvEmpty(s)
  \/ SendAck(s)
  \/ \E t \in Targets : \/ DeliverTasks(s, t)
                        \/ BroadcastWatermark(s, t)
                        \/ NotifyNewTargetShard(s, t)
=============================================================================
