------------------------- MODULE ProxyStreamSender -------------------------
(***************************************************************************)
(* proxyStreamSender (src/proxy/proxy_streams.go): feeds one target shard  *)
(* from its send channel under proxy task IDs of its own, and turns the    *)
(* target's acks of those IDs back into acks per source shard.             *)
(*                                                                         *)
(* idRing is the window of ProxyIDWindow, which the ring buffer implements *)
(* (ProxyIDRing): a set of entries [id, shard, task].  sendMessages and    *)
(* recvAck are two goroutines; recvAck holds the mutex while it aggregates *)
(* and while it discards, not while it delivers.  The keepalive repeats    *)
(* the last watermark, which tells the target nothing new.                 *)
(*                                                                         *)
(* The target cluster is external.  The stream delivers in order, so a     *)
(* message is received as it is sent; acks travel in fromTarget.  Tasks    *)
(* are applied in any order.  An ack w says every ID below w is applied.   *)
(***************************************************************************)
EXTENDS RoutingChannels

CONSTANTS
  WireCap,           \* bound: acks of a target on their way
  MaxCloses          \* bound: streams of a target shard that end

VARIABLES
  nextProxyTaskID,   \* the last proxy ID allocated
  idRing,            \* entries not discarded
  prevAckBySource,
  acking,            \* recvAck is between two reads of the stream
  shardToAck,        \* the acks [shard, ack] it has yet to deliver
  pendingDiscard,    \* the entries it will discard after delivering them
  targetHigh,        \* external: exclusive high watermark the target received
  inFlight,          \* external: received entries the target has not applied
  fromTarget,        \* external: acks on the stream
  closes             \* external: streams of this target shard that ended

streamVars  == <<nextProxyTaskID, idRing, targetHigh, inFlight>>
recvAckVars == <<prevAckBySource, acking, shardToAck, pendingDiscard>>
senderVars  == <<streamVars, recvAckVars, fromTarget, closes>>

SenderInit ==
  /\ nextProxyTaskID = [t \in Targets |-> 0]
  /\ idRing = [t \in Targets |-> {}]
  /\ prevAckBySource = [t \in Targets |-> [s \in Sources |-> NoAck]]
  /\ acking = [t \in Targets |-> FALSE]
  /\ shardToAck = [t \in Targets |-> {}]
  /\ pendingDiscard = [t \in Targets |-> {}]
  /\ targetHigh = [t \in Targets |-> 0]
  /\ inFlight = [t \in Targets |-> {}]
  /\ fromTarget = [t \in Targets |-> <<>>]
  /\ closes = [t \in Targets |-> 0]
----------------------------------------------------------------------------
(* Run up to its goroutines: a fresh channel is registered, and            *)
(* RegisterShard starts notifying the receivers of the new target.         *)
OpenSender(t) ==
  /\ t \notin registered
  /\ registered' = registered \cup {t}
  /\ sendMsgChan' = [sendMsgChan EXCEPT ![t] = <<>>]
  /\ notifying' = [notifying EXCEPT ![t] = Sources]
  /\ UNCHANGED <<ackChan, undone, senderVars>>

(* RegisterShard has returned and the goroutines run.                      *)
Running(t) == t \in registered /\ notifying[t] = {}

(* Mutant: a watermark is mapped to one past itself.                       *)
NewEntriesPastHigh(next, m) ==
  IF m.tasks = <<>>
  THEN {[id |-> next + 1, shard |-> m.shard, task |-> m.high + 1]}
  ELSE {[id |-> next + i, shard |-> m.shard, task |-> m.tasks[i]] :
          i \in 1..Len(m.tasks)}

(* The entries a message adds: one per task, or a synthetic one for a      *)
(* watermark.                                                              *)
NewEntries(next, m) ==
  IF m.tasks = <<>>
  THEN {[id |-> next + 1, shard |-> m.shard, task |-> m.high]}
  ELSE {[id |-> next + i, shard |-> m.shard, task |-> m.tasks[i]] :
          i \in 1..Len(m.tasks)}

(* sendReplicationMessages, one message.  The exclusive high watermark is  *)
(* one past the last task's ID, but the synthetic ID itself.               *)
SendMessage(t) ==
  LET m       == Head(sendMsgChan[t])
      next    == nextProxyTaskID[t]
      entries == NewEntries(next, m)
  IN /\ Running(t)
     /\ sendMsgChan[t] # <<>>
     /\ sendMsgChan' = [sendMsgChan EXCEPT ![t] = Tail(@)]
     /\ idRing' = [idRing EXCEPT ![t] = @ \cup entries]
     /\ IF m.tasks = <<>>
        THEN /\ nextProxyTaskID' = [nextProxyTaskID EXCEPT ![t] = next + 1]
             /\ targetHigh' = [targetHigh EXCEPT ![t] = next + 1]
             /\ UNCHANGED inFlight
        ELSE /\ nextProxyTaskID' = [nextProxyTaskID EXCEPT ![t] = next + Len(m.tasks)]
             /\ targetHigh' = [targetHigh EXCEPT ![t] = next + Len(m.tasks) + 1]
             /\ inFlight' = [inFlight EXCEPT ![t] = @ \cup entries]
     /\ UNCHANGED <<registered, ackChan, notifying, undone, recvAckVars,
                    fromTarget, closes>>

(* External: the target applies a task it received.                        *)
TargetApply(t, e) ==
  /\ e \in inFlight[t]
  /\ inFlight' = [inFlight EXCEPT ![t] = @ \ {e}]
  /\ undone' = [undone EXCEPT ![e.shard] = @ \ {e.task}]
  /\ UNCHANGED <<registered, sendMsgChan, ackChan, notifying, nextProxyTaskID,
                 idRing, targetHigh, recvAckVars, fromTarget, closes>>

(* External: the target sends its low watermark, the first ID it has not   *)
(* applied or else its high watermark.                                     *)
IsLowWatermark(t, w) ==
  /\ \A e \in inFlight[t] : w <= e.id
  /\ w = targetHigh[t] \/ \E e \in inFlight[t] : w = e.id

TargetAck(t) ==
  /\ targetHigh[t] > 0
  /\ Len(fromTarget[t]) < WireCap
  /\ \E w \in 1..targetHigh[t] :
       /\ IsLowWatermark(t, w)
       /\ fromTarget' = [fromTarget EXCEPT ![t] = Append(@, w)]
  /\ UNCHANGED <<channelVars, streamVars, recvAckVars, closes>>

(* Mutant: the running maximum is shared by all source shards.             *)
AggregateAcrossShards(entries) ==
  {[shard |-> e.shard, ack |-> f.task] :
     e \in entries, f \in {g \in entries : \A h \in entries : h.task <= g.task}}

(* AggregateUpTo: per source shard the largest task of the entries.        *)
Aggregate(entries) ==
  {[shard |-> e.shard, ack |-> e.task] :
     e \in {f \in entries : \A g \in entries : g.shard = f.shard => g.task <= f.task}}

PreviousAcks(t) ==
  {[shard |-> s, ack |-> prevAckBySource[t][s]] :
     s \in {x \in Sources : prevAckBySource[t][x] # NoAck}}

(* recvAck reads an ack: the watermark is taken as inclusive.  When it     *)
(* covers no entry the previous acks are sent again.                       *)
RecvAck(t) ==
  LET covered == {e \in idRing[t] : e.id <= Head(fromTarget[t])}
  IN /\ Running(t)
     /\ ~acking[t]
     /\ fromTarget[t] # <<>>
     /\ fromTarget' = [fromTarget EXCEPT ![t] = Tail(@)]
     /\ acking' = [acking EXCEPT ![t] = TRUE]
     /\ shardToAck' = [shardToAck EXCEPT ![t] =
          IF covered # {} THEN Aggregate(covered) ELSE PreviousAcks(t)]
     /\ pendingDiscard' = [pendingDiscard EXCEPT ![t] = covered]
     /\ UNCHANGED <<channelVars, streamVars, prevAckBySource, closes>>

(* DeliverAckToShardOwner, local delivery, and the record of it.           *)
DeliverAck(t, a) ==
  /\ a \in shardToAck[t]
  /\ Len(ackChan[a.shard]) < AckCap
  /\ ackChan' = [ackChan EXCEPT ![a.shard] = Append(@, [target |-> t, ack |-> a.ack])]
  /\ prevAckBySource' = [prevAckBySource EXCEPT ![t][a.shard] = a.ack]
  /\ shardToAck' = [shardToAck EXCEPT ![t] = @ \ {a}]
  /\ UNCHANGED <<registered, sendMsgChan, notifying, undone, streamVars,
                 acking, pendingDiscard, fromTarget, closes>>

(* Mutant: everything in the ring is discarded, covered or not.            *)
DiscardAll(t) ==
  /\ acking[t]
  /\ shardToAck[t] = {}
  /\ idRing' = [idRing EXCEPT ![t] = {}]
  /\ pendingDiscard' = [pendingDiscard EXCEPT ![t] = {}]
  /\ acking' = [acking EXCEPT ![t] = FALSE]
  /\ UNCHANGED <<channelVars, nextProxyTaskID, targetHigh, inFlight,
                 prevAckBySource, shardToAck, fromTarget, closes>>

(* Every ack is delivered: discard the entries they stood for.             *)
DiscardAcked(t) ==
  /\ acking[t]
  /\ shardToAck[t] = {}
  /\ idRing' = [idRing EXCEPT ![t] = @ \ pendingDiscard[t]]
  /\ pendingDiscard' = [pendingDiscard EXCEPT ![t] = {}]
  /\ acking' = [acking EXCEPT ![t] = FALSE]
  /\ UNCHANGED <<channelVars, nextProxyTaskID, targetHigh, inFlight,
                 prevAckBySource, shardToAck, fromTarget, closes>>

(* The sender object of a stream that ended is gone.                       *)
ForgetStream(t) ==
  /\ nextProxyTaskID' = [nextProxyTaskID EXCEPT ![t] = 0]
  /\ idRing' = [idRing EXCEPT ![t] = {}]
  /\ prevAckBySource' = [prevAckBySource EXCEPT ![t] = [s \in Sources |-> NoAck]]
  /\ acking' = [acking EXCEPT ![t] = FALSE]
  /\ shardToAck' = [shardToAck EXCEPT ![t] = {}]
  /\ pendingDiscard' = [pendingDiscard EXCEPT ![t] = {}]

(* The stream ends at any point: the channel is closed with what is in it  *)
(* and the registrations are removed.  The target drops the tasks of an    *)
(* ended stream that it has not applied.                                   *)
CloseSender(t) ==
  /\ Running(t)
  /\ closes[t] < MaxCloses
  /\ closes' = [closes EXCEPT ![t] = @ + 1]
  /\ registered' = registered \ {t}
  /\ sendMsgChan' = [sendMsgChan EXCEPT ![t] = <<>>]
  /\ ForgetStream(t)
  /\ targetHigh' = [targetHigh EXCEPT ![t] = 0]
  /\ inFlight' = [inFlight EXCEPT ![t] = {}]
  /\ fromTarget' = [fromTarget EXCEPT ![t] = <<>>]
  /\ UNCHANGED <<ackChan, notifying, undone>>

SenderNext(t) ==
  \/ OpenSender(t)
  \/ SendMessage(t)
  \/ \E e \in inFlight[t] : TargetApply(t, e)
  \/ TargetAck(t)
  \/ RecvAck(t)
  \/ \E a \in shardToAck[t] : DeliverAck(t, a)
  \/ DiscardAcked(t)
=============================================================================
