--------------------------- MODULE StreamRouting ---------------------------
(***************************************************************************)
(* Routing mode on one proxy node (streamRouting in                        *)
(* src/proxy/admin_stream_transfer.go): the receivers of all source shards *)
(* and the senders of all target shards, joined by the channels.  Source   *)
(* streams stay up; target streams open, end and open again.               *)
(***************************************************************************)
EXTENDS ProxyStreamReceiver, ProxyStreamSender

vars == <<channelVars, receiverVars, senderVars>>

Init == ChannelsInit /\ ReceiverInit /\ SenderInit

(* A watermark on its way to a channel that is closed is lost: the         *)
(* broadcast recovers from the panic of the send.                          *)
EndStream(t) ==
  /\ CloseSender(t)
  /\ watermarkTo' = [s \in Sources |-> watermarkTo[s] \ {t}]
  /\ UNCHANGED <<sourceVars, outbox, lastExclusiveHighOriginal, lastWatermark, ackVars>>

Next ==
  \/ \E s \in Sources : ReceiverNext(s) /\ UNCHANGED senderVars
  \/ \E t \in Targets : SenderNext(t) /\ UNCHANGED receiverVars
  \/ \E t \in Targets : EndStream(t)

Spec == Init /\ [][Next]_vars

(* The goroutines of the proxy run whenever they can; the target cluster   *)
(* applies what it received, acks every second and reopens a stream that   *)
(* ended.  A Go channel serves its blocked senders first come first        *)
(* served, so a send that finds room again and again succeeds (strong      *)
(* fairness).  Nothing makes the source emit, or a stream end.             *)
Fairness ==
  /\ \A s \in Sources :
       /\ WF_vars(SendAck(s) /\ UNCHANGED senderVars)
       /\ \A t \in Targets :
            /\ SF_vars(DeliverTasks(s, t) /\ UNCHANGED senderVars)
            /\ WF_vars(BroadcastWatermark(s, t) /\ UNCHANGED senderVars)
            /\ WF_vars(NotifyNewTargetShard(s, t) /\ UNCHANGED senderVars)
  /\ \A t \in Targets :
       /\ WF_vars(OpenSender(t) /\ UNCHANGED receiverVars)
       /\ WF_vars(SendMessage(t) /\ UNCHANGED receiverVars)
       /\ WF_vars((\E e \in inFlight[t] : TargetApply(t, e)) /\ UNCHANGED receiverVars)
       /\ WF_vars(TargetAck(t) /\ UNCHANGED receiverVars)
       /\ WF_vars(RecvAck(t) /\ UNCHANGED receiverVars)
       /\ SF_vars((\E a \in shardToAck[t] : DeliverAck(t, a)) /\ UNCHANGED receiverVars)
       /\ WF_vars(DiscardAcked(t) /\ UNCHANGED receiverVars)
----------------------------------------------------------------------------
(* The state has the shape the code gives it.                              *)
TypeOK ==
  /\ registered \subseteq Targets
  /\ sendMsgChan \in [Targets -> Seq(RoutedMessage)]
  /\ ackChan \in [Sources -> Seq(RoutedAck)]
  /\ notifying \in [Targets -> SUBSET Sources]
  /\ undone \in [Sources -> SUBSET (1..MaxTask)]
  /\ nextTask \in [Sources -> 1..(MaxTask + 1)]
  /\ emptyBatches \in [Sources -> Nat]
  /\ outbox \in [Sources -> [Targets -> Seq(1..MaxTask)]]
  /\ watermarkTo \in [Sources -> SUBSET Targets]
  /\ lastExclusiveHighOriginal \in [Sources -> 0..(MaxTask + 1)]
  /\ lastWatermark \in [Sources -> 0..(MaxTask + 1)]
  /\ ackByTarget \in [Sources -> [Targets -> 0..(MaxTask + 1)]]
  /\ lastSentMin \in [Sources -> 0..(MaxTask + 1)]
  /\ nextProxyTaskID \in [Targets -> Nat]
  /\ idRing \in [Targets -> SUBSET Entry]
  /\ prevAckBySource \in [Targets -> [Sources -> 0..(MaxTask + 1)]]
  /\ acking \in [Targets -> BOOLEAN]
  /\ shardToAck \in [Targets -> SUBSET [shard : Sources, ack : 1..(MaxTask + 1)]]
  /\ pendingDiscard \in [Targets -> SUBSET Entry]
  /\ targetHigh \in [Targets -> Nat]
  /\ inFlight \in [Targets -> SUBSET Entry]
  /\ fromTarget \in [Targets -> Seq(Nat)]
  /\ closes \in [Targets -> Nat]

(* The tasks of s that are somewhere between the receiver of s and the     *)
(* target t, and the acks for s that came from t, wherever they are.       *)
Queued(s, t) ==
  UNION {InGroup(sendMsgChan[t][i].tasks) :
           i \in {j \in 1..Len(sendMsgChan[t]) : sendMsgChan[t][j].shard = s}}

Pending(s, t) ==
  InGroup(outbox[s][t]) \cup Queued(s, t)
    \cup {e.task : e \in {f \in inFlight[t] : f.shard = s}}

AcksOf(s, t) ==
  {ackByTarget[s][t], prevAckBySource[t][s]}
    \cup {a.ack : a \in {b \in shardToAck[t] : b.shard = s}}
    \cup {ackChan[s][i].ack :
             i \in {j \in 1..Len(ackChan[s]) : ackChan[s][j].target = t}}

(* No ack that a sender derives from its target's watermark passes a task  *)
(* still on its way to that target: not through the inclusive reading of   *)
(* the watermark, the rewriting of IDs, the synthetic entries of empty     *)
(* batches, the acks repeated from prevAckBySource, or acks that outlive   *)
(* the stream they came from.                                              *)
TargetAckSafe ==
  \A s \in Sources, t \in Targets :
    \A task \in Pending(s, t), ack \in AcksOf(s, t) : ack <= task

(* sendAck's "minimal watermark across targets": when the ack returned to  *)
(* the source moves, it passes no task on its way to a target that has     *)
(* acked before.                                                           *)
ReportedTargetsSafe ==
  [][\A s \in Sources, t \in Targets :
       lastSentMin'[s] # lastSentMin[s] /\ ackByTarget'[s][t] # NoAck =>
         \A task \in Pending(s, t) : lastSentMin'[s] <= task]_vars

(* The acks returned to a source never go back, although a target that     *)
(* reports for the first time, or again after its stream was reopened,     *)
(* lowers the minimum, and although the ack is clamped to the high         *)
(* watermark.                                                              *)
SourceAckMonotone ==
  [][\A s \in Sources : lastSentMin[s] <= lastSentMin'[s]]_vars

(* recvAck's "Only after forwarding ACKs, discard the entries from the     *)
(* ring buffer": an entry leaves the ring of a stream that goes on only    *)
(* when an ack at least as high was forwarded to its source.               *)
DiscardOnlyAcked ==
  [][\A t \in registered' : \A e \in idRing[t] \ idRing'[t] :
       prevAckBySource[t][e.shard] >= e.task]_vars

(* sendAck's "Compute minimal watermark across targets" and "Send          *)
(* aggregated minimal ack upstream": the ack the source gets passes no     *)
(* task that the target cluster has not applied.                           *)
SourceAckSafe ==
  \A s \in Sources : \A task \in undone[s] : lastSentMin[s] <= task
=============================================================================
