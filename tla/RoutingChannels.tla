-------------------------- MODULE RoutingChannels --------------------------
(***************************************************************************)
(* What the two halves of routing mode share on one proxy node: the        *)
(* channels kept in shardManagerImpl and the messages they carry           *)
(* (src/proxy/shard_manager.go, src/proxy/intra_proxy_router.go).          *)
(*                                                                         *)
(* Tasks of every source shard are numbered 1, 2, ... in the order the     *)
(* source emits them.  A routed message with no tasks is a high watermark: *)
(* it says the source has nothing below "high" that it has not sent.       *)
(***************************************************************************)
EXTENDS Integers, Sequences

CONSTANTS
  Sources,      \* source cluster shards, one proxyStreamReceiver each
  Targets,      \* target cluster shards, one proxyStreamSender each
  ChanCap,      \* capacity of sendMsgChan, 100 in the code
  AckCap,       \* capacity of ackChan, 100 in the code
  MaxTask,      \* bound: tasks a source shard emits
  MaxBatch      \* bound: tasks in one message of the source

ASSUME RoutingAssumption ==
  /\ ChanCap \in Nat \ {0}
  /\ AckCap \in Nat \ {0}
  /\ MaxTask \in Nat
  /\ MaxBatch \in Nat

VARIABLES
  registered,   \* targets with an entry in remoteSendChannels
  sendMsgChan,  \* target -> the routed messages queued for its sender
  ackChan,      \* source -> the routed acks queued for its receiver
  notifying,    \* target -> receivers RegisterShard has yet to notify of it
  undone        \* source -> its routed tasks the target cluster has not applied

channelVars == <<registered, sendMsgChan, ackChan, notifying, undone>>

RoutedMessage == [shard : Sources, tasks : Seq(1..MaxTask), high : 1..(MaxTask + 1)]
RoutedAck     == [target : Targets, ack : 1..(MaxTask + 1)]

(* A proxy ID and the source task, or the watermark, that it stands for.   *)
Entry == [id : Nat, shard : Sources, task : 1..(MaxTask + 1)]

(* A map entry that is not there: every watermark in use is at least 1.    *)
NoAck == 0

Watermark(s, high) == [shard |-> s, tasks |-> <<>>, high |-> high]

HasRoom(t) == Len(sendMsgChan[t]) < ChanCap

(* A non-blocking send, "case sendChan <- msg: default:".                  *)
TrySend(t, msg) ==
  sendMsgChan' = IF HasRoom(t)
                 THEN [sendMsgChan EXCEPT ![t] = Append(@, msg)]
                 ELSE sendMsgChan

ChannelsInit ==
  /\ registered = {}
  /\ sendMsgChan = [t \in Targets |-> <<>>]
  /\ ackChan = [s \in Sources |-> <<>>]
  /\ notifying = [t \in Targets |-> {}]
  /\ undone = [s \in Sources |-> {}]
=============================================================================
