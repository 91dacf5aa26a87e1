--------------------------- MODULE StreamHandlers ---------------------------
(***************************************************************************)
(* The handlers streamRouting runs for one pair of shards                  *)
(* (src/proxy/admin_stream_transfer.go), and what they leave in the        *)
(* registries of the shard manager (src/proxy/shard_manager.go).  The      *)
(* target cluster may open the next stream of a pair before the handler of *)
(* the last one is done.  A handler runs a proxyStreamSender and a         *)
(* proxyStreamReceiver, of the other direction, that share a shutdown      *)
(* channel; what they carry is in StreamRouting, and the registration of   *)
(* the shard is in ShardOwnership.                                         *)
(*                                                                         *)
(* A step is a critical section of a registry or one blocking call.        *)
(* Handlers are numbered as they start; 0 is an entry that is not there.   *)
(* Some receiver that routes to this target shard is active and has a      *)
(* watermark, so that every notification of the shard sends something.     *)
(* NotifyMsg, when another node registers the shard, notifies in the same  *)
(* way from a goroutine of its own, which is left out.                     *)
(***************************************************************************)
EXTENDS Integers, Lifetime

CONSTANTS
  MaxHandlers,         \* bound: streams the target cluster opens
  MaxRefused           \* bound: source streams that cannot be opened

ASSUME HandlersAssumption ==
  /\ MaxHandlers \in Nat
  /\ MaxRefused \in Nat

VARIABLES
  sender,              \* where each proxyStreamSender.Run is
  receiver,            \* where each proxyStreamReceiver.Run is
  loops,               \* handler -> the goroutines of its receiver
  previous,            \* handler -> the receiver it found a cancel func of
  shutdownChan,        \* handlers whose shutdownChan is closed
  canceled,            \* handlers whose outgoing context is cancelled
  remoteSendChannel,   \* the handler whose sendMsgChan is registered
  localAckChannel,     \* the handler whose ackChan is registered
  localReceiverCancelFunc,   \* the handler whose cancel func is registered
  activeReceiver,      \* the handler whose receiver is registered
  sendTo,              \* handler -> channel its sendPendingWatermarkToShard found
  newest,              \* the handler that registered its ackChan last
  refused,             \* external: source streams that could not be opened
  panicked             \* the process died of a send on a closed channel

Handlers == 1..MaxHandlers
Nobody   == 0

channelVars  == <<remoteSendChannel, sendTo>>
registryVars == <<localAckChannel, localReceiverCancelFunc, activeReceiver>>
senderVars   == <<sender, channelVars, panicked>>
receiverVars == <<receiver, loops, previous, registryVars, canceled, newest, refused>>
handlerVars  == <<senderVars, receiverVars, shutdownChan>>

HandlersInit ==
  /\ sender = [h \in Handlers |-> "none"]
  /\ receiver = [h \in Handlers |-> "none"]
  /\ loops = [h \in Handlers |-> {}]
  /\ previous = [h \in Handlers |-> Nobody]
  /\ shutdownChan = {}
  /\ canceled = {}
  /\ remoteSendChannel = Nobody
  /\ localAckChannel = Nobody
  /\ localReceiverCancelFunc = Nobody
  /\ activeReceiver = Nobody
  /\ sendTo = [h \in Handlers |-> Nobody]
  /\ newest = Nobody
  /\ refused = 0
  /\ panicked = FALSE

SenderAt(h, from, to)   == sender[h] = from /\ sender' = [sender EXCEPT ![h] = to]
ReceiverAt(h, from, to) == receiver[h] = from /\ receiver' = [receiver EXCEPT ![h] = to]
----------------------------------------------------------------------------
(* The target cluster opens a stream: streamRouting starts both halves.    *)
streamRouting(h) ==
  /\ \A g \in 1..(h - 1) : sender[g] # "none"
  /\ SenderAt(h, "none", "start")
  /\ ReceiverAt(h, "none", "start")
  /\ UNCHANGED <<channelVars, panicked, loops, previous, registryVars, canceled,
                 newest, refused, shutdownChan>>

(* The AfterFunc of the lifetime.                                          *)
LifetimeAfter(h) ==
  /\ ~lifetime
  /\ sender[h] # "none"
  /\ h \notin shutdownChan
  /\ shutdownChan' = shutdownChan \cup {h}
  /\ UNCHANGED <<senderVars, receiverVars>>
----------------------------------------------------------------------------
(* proxyStreamSender.Run: SetRemoteSendChan ...                            *)
SetRemoteSendChan(h) ==
  /\ SenderAt(h, "start", "register")
  /\ remoteSendChannel' = h
  /\ UNCHANGED <<sendTo, panicked, receiverVars, shutdownChan>>

(* ... and RegisterShard, whose callback notifies the receivers: one looks *)
(* the shard's channel up, and has a remote owner served if there is none, *)
FindSendChan(h) ==
  /\ SenderAt(h, "register", "notify")
  /\ sendTo' = [sendTo EXCEPT ![h] = remoteSendChannel]
  /\ UNCHANGED <<remoteSendChannel, panicked, receiverVars, shutdownChan>>

(* The senders that have closed their channel.                             *)
ClosedChans == {h \in Handlers : sender[h] \in {"closed", "done"}}

(* ... and sends; full or not does not matter, closed does.                *)
NotifyReceivers(h) ==
  /\ SenderAt(h, "notify", "wait")
  /\ panicked' = (sendTo[h] \in ClosedChans)
  /\ sendTo' = [sendTo EXCEPT ![h] = Nobody]
  /\ UNCHANGED <<remoteSendChannel, receiverVars, shutdownChan>>

(* recvAck or sendReplicationMessages meets the end of the target stream.  *)
TargetEnds(h) ==
  /\ sender[h] = "wait"
  /\ h \notin shutdownChan
  /\ shutdownChan' = shutdownChan \cup {h}
  /\ UNCHANGED <<senderVars, receiverVars>>

(* Run got the signal: close sendMsgChan ...                               *)
CloseSendChan(h) ==
  /\ h \in shutdownChan
  /\ SenderAt(h, "wait", "closed")
  /\ UNCHANGED <<channelVars, panicked, receiverVars, shutdownChan>>

(* ... and, deferred, UnregisterShard and RemoveRemoteSendChan.            *)
RemoveRemoteSendChan(h) ==
  /\ SenderAt(h, "closed", "done")
  /\ remoteSendChannel' = IF remoteSendChannel = h THEN Nobody ELSE remoteSendChannel
  /\ UNCHANGED <<sendTo, panicked, receiverVars, shutdownChan>>
----------------------------------------------------------------------------
(* proxyStreamReceiver.Run, TerminatePreviousLocalReceiver: is there a     *)
(* cancel func?                                                            *)
FindPrevious(h) ==
  /\ ReceiverAt(h, "start", IF localReceiverCancelFunc = Nobody THEN "open" ELSE "cancel")
  /\ previous' = [previous EXCEPT ![h] = localReceiverCancelFunc]
  /\ UNCHANGED <<senderVars, loops, registryVars, canceled, newest, refused,
                 shutdownChan>>

(* Call it and delete whatever cancel func is there by now ...             *)
CancelPrevious(h) ==
  /\ ReceiverAt(h, "cancel", "force")
  /\ canceled' = canceled \cup {previous[h]}
  /\ previous' = [previous EXCEPT ![h] = Nobody]
  /\ localReceiverCancelFunc' = Nobody
  /\ UNCHANGED <<senderVars, loops, localAckChannel, activeReceiver, newest,
                 refused, shutdownChan>>

(* ... and whatever ack channel.                                           *)
ForceRemoveLocalAckChan(h) ==
  /\ ReceiverAt(h, "force", "open")
  /\ localAckChannel' = Nobody
  /\ UNCHANGED <<senderVars, loops, previous, localReceiverCancelFunc, activeReceiver,
                 canceled, newest, refused, shutdownChan>>

(* Open the source stream.  If that fails, return, with no signal.         *)
OpenSource(h) ==
  /\ \/ /\ ReceiverAt(h, "open", "setAck")
        /\ UNCHANGED refused
     \/ /\ ReceiverAt(h, "open", "done")
        /\ refused < MaxRefused
        /\ refused' = refused + 1
  /\ UNCHANGED <<senderVars, loops, previous, registryVars, canceled, newest,
                 shutdownChan>>

SetLocalAckChan(h) ==
  /\ ReceiverAt(h, "setAck", "setCancel")
  /\ localAckChannel' = h
  /\ newest' = h
  /\ UNCHANGED <<senderVars, loops, previous, localReceiverCancelFunc, activeReceiver,
                 canceled, refused, shutdownChan>>

SetLocalReceiverCancelFunc(h) ==
  /\ ReceiverAt(h, "setCancel", "setActive")
  /\ localReceiverCancelFunc' = h
  /\ UNCHANGED <<senderVars, loops, previous, localAckChannel, activeReceiver, canceled,
                 newest, refused, shutdownChan>>

RegisterActiveReceiver(h) ==
  /\ ReceiverAt(h, "setActive", "run")
  /\ activeReceiver' = h
  /\ loops' = [loops EXCEPT ![h] = {"recv", "ack"}]
  /\ UNCHANGED <<senderVars, previous, localAckChannel, localReceiverCancelFunc,
                 canceled, newest, refused, shutdownChan>>

(* Mutant: the end of Recv signals nobody.                                 *)
RecvEndsQuietly(h) ==
  /\ "recv" \in loops[h]
  /\ loops' = [loops EXCEPT ![h] = @ \ {"recv"}]
  /\ UNCHANGED <<senderVars, receiver, previous, registryVars, canceled, newest, refused,
                 shutdownChan>>

(* recvReplicationMessages: Recv meets the end of the stream or of its     *)
(* context, or a message comes after the signal.                           *)
RecvEnds(h) ==
  /\ "recv" \in loops[h]
  /\ loops' = [loops EXCEPT ![h] = @ \ {"recv"}]
  /\ shutdownChan' = shutdownChan \cup {h}
  /\ UNCHANGED <<senderVars, receiver, previous, registryVars, canceled, newest, refused>>

(* sendAck: the signal, or Send fails; then CloseSend.                     *)
AckEnds(h) ==
  /\ "ack" \in loops[h]
  /\ loops' = [loops EXCEPT ![h] = @ \ {"ack"}]
  /\ shutdownChan' = shutdownChan \cup {h}
  /\ UNCHANGED <<senderVars, receiver, previous, registryVars, canceled, newest, refused>>

(* Mutant: the ack channel is removed whoever registered it.               *)
RemoveAnyAckChan(h) ==
  /\ loops[h] = {}
  /\ ReceiverAt(h, "run", "unsetCancel")
  /\ localAckChannel' = Nobody
  /\ UNCHANGED <<senderVars, loops, previous, localReceiverCancelFunc, activeReceiver,
                 canceled, newest, refused, shutdownChan>>

(* Both are done: the deferred clean-up.                                   *)
RemoveLocalAckChan(h) ==
  /\ loops[h] = {}
  /\ ReceiverAt(h, "run", "unsetCancel")
  /\ localAckChannel' = IF localAckChannel = h THEN Nobody ELSE localAckChannel
  /\ UNCHANGED <<senderVars, loops, previous, localReceiverCancelFunc, activeReceiver,
                 canceled, newest, refused, shutdownChan>>

(* Mutant: the cancel func is left when there is another ack channel.      *)
RemoveOwnCancelFunc(h) ==
  /\ ReceiverAt(h, "unsetCancel", "unsetActive")
  /\ localReceiverCancelFunc' =
       IF localAckChannel = Nobody THEN Nobody ELSE localReceiverCancelFunc
  /\ UNCHANGED <<senderVars, loops, previous, localAckChannel, activeReceiver, canceled,
                 newest, refused, shutdownChan>>

RemoveLocalReceiverCancelFunc(h) ==
  /\ ReceiverAt(h, "unsetCancel", "unsetActive")
  /\ localReceiverCancelFunc' = Nobody
  /\ UNCHANGED <<senderVars, loops, previous, localAckChannel, activeReceiver, canceled,
                 newest, refused, shutdownChan>>

UnregisterActiveReceiver(h) ==
  /\ ReceiverAt(h, "unsetActive", "done")
  /\ activeReceiver' = Nobody
  /\ UNCHANGED <<senderVars, loops, previous, localAckChannel, localReceiverCancelFunc,
                 canceled, newest, refused, shutdownChan>>
----------------------------------------------------------------------------
SenderRun(h) ==
  \/ SetRemoteSendChan(h) \/ FindSendChan(h) \/ NotifyReceivers(h)
  \/ CloseSendChan(h) \/ RemoveRemoteSendChan(h)

ReceiverRun(h) ==
  \/ FindPrevious(h) \/ CancelPrevious(h) \/ ForceRemoveLocalAckChan(h)
  \/ OpenSource(h) \/ SetLocalAckChan(h) \/ SetLocalReceiverCancelFunc(h)
  \/ RegisterActiveReceiver(h) \/ RemoveLocalAckChan(h)
  \/ RemoveLocalReceiverCancelFunc(h) \/ UnregisterActiveReceiver(h)

(* Nothing moves in a process that has died.                               *)
HandlersNext ==
  /\ ~panicked
  /\ \E h \in Handlers :
       \/ streamRouting(h) \/ LifetimeAfter(h) \/ SenderRun(h) \/ TargetEnds(h)
       \/ ReceiverRun(h) \/ RecvEnds(h) \/ AckEnds(h)

HandlersSpec == HandlersInit /\ [][HandlersNext]_handlerVars

(* The steps of a handler's goroutines, without the ends of its streams    *)
(* that only the clusters decide on: the source cluster ends a stream      *)
(* whose client has closed its half, and Recv returns when its context is  *)
(* cancelled.                                                              *)
Progress(h) ==
  \/ SenderRun(h) \/ ReceiverRun(h) \/ LifetimeAfter(h)
  \/ h \in shutdownChan /\ AckEnds(h)
  \/ (h \in canceled \/ "ack" \notin loops[h]) /\ RecvEnds(h)

(* As long as some goroutine of the handlers can go on, one of them does:  *)
(* the calls they make return.                                             *)
HandlersFairness == WF_handlerVars(~panicked /\ \E h \in Handlers : Progress(h))
----------------------------------------------------------------------------
Returned(h) == sender[h] = "done" /\ receiver[h] = "done"

(* A handler ends when the target's stream does, when the source's does,   *)
(* when the next handler cancels its receiver, and when the lifetime does: *)
(* either half stops the other.  (A source stream that cannot be opened is *)
(* not among the reasons: the sender of such a handler stays.)  So again   *)
(* and again every handler with a reason to end has ended, unless the      *)
(* process has died.                                                       *)
HandlerEnds ==
  []<>(panicked \/ \A h \in Handlers :
         sender[h] # "none" /\ (h \in shutdownChan \cup canceled \/ ~lifetime) => Returned(h))

(* Where the receiver of h is while it may still be in a registry.         *)
AckSet    == {"setCancel", "setActive", "run"}
CancelSet == {"setActive", "run", "unsetCancel"}
ActiveSet == {"run", "unsetCancel", "unsetActive"}

(* No registry holds on to a receiver that has cleaned up, so that an ack  *)
(* is never queued, nor a shard announced, to a receiver nobody runs: the  *)
(* entry an old receiver leaves is taken out by itself or by the next one, *)
(* in whatever order they do it.                                           *)
NoDeadEntries ==
  /\ localAckChannel # Nobody => receiver[localAckChannel] \in AckSet
  /\ localReceiverCancelFunc # Nobody => receiver[localReceiverCancelFunc] \in CancelSet
  /\ activeReceiver # Nobody => receiver[activeReceiver] \in ActiveSet

(* RemoveLocalAckChan "only if it matches": when no receiver is on its way *)
(* in or out and none was refused its stream, the acks of the shard reach  *)
(* the receiver that registered last, as long as that one runs.            *)
Settled ==
  \A h \in Handlers :
    receiver[h] \in {"none", "done"} \/ loops[h] # {}

NewestGetsAcks ==
  Settled /\ refused = 0 /\ newest # Nobody /\ receiver[newest] = "run"
    => localAckChannel = newest

(* The broadcast's "Use non-blocking send with recover to handle closed    *)
(* channels": no send on a channel that its sender has closed brings the   *)
(* process down.                                                           *)
NoClosedSend == ~panicked
=============================================================================
