--------------------------- MODULE IntraForwarding ---------------------------
(***************************************************************************)
(* What travels on the streams between two proxy nodes                     *)
(* (src/proxy/intra_proxy_router.go): one node has the stream of a source  *)
(* shard, the other that of a target shard, and tasks are sent from the    *)
(* first to the second and acks back, through                              *)
(* DeliverMessagesToShardOwner and DeliverAckToShardOwner                  *)
(* (src/proxy/shard_manager.go).                                           *)
(*                                                                         *)
(* Which streams there are is the environment here: they are opened,       *)
(* replaced, pruned and broken as IntraProxyStreams has them.  Messages    *)
(* and acks are numbered as they are handed to this part.  The owner of a  *)
(* shard, when it is known, is known rightly; when it is not, the delivery *)
(* fails and is tried again, which changes nothing.                        *)
(***************************************************************************)
EXTENDS Integers, Sequences

CONSTANTS
  MaxLinks,            \* bound: streams that are opened for the pair
  MaxRouted,           \* bound: messages, and acks, that are delivered
  MaxChannels          \* bound: channels the target shard registers

ASSUME ForwardingAssumption ==
  /\ MaxLinks \in Nat
  /\ MaxRouted \in Nat
  /\ MaxChannels \in Nat

VARIABLES
  opened,              \* streams opened so far
  linked,              \* streams whose connection is up
  pruned,              \* streams whose receiver was told to shut down
  \* the source shard's node
  nextMsg,             \* the message that is to be delivered next
  peerSender,          \* the stream in ps.senders, or 0
  using,               \* the stream whose sender sendReplicationMessages found
  ackRelay,            \* stream -> where recvAck is
  ackInHand,           \* stream -> the ack it has, or 0
  ackChanOpen,         \* the source shard's ack channel is registered
  ackArrived,          \* the acks that were put into it
  \* the target shard's node
  nextAck,
  peerReceiver,        \* the stream in ps.receivers, or 0
  relay,               \* stream -> where recvReplicationMessages is
  inHand,              \* stream -> the message it has, or 0
  foundChan,           \* stream -> the channel it found
  targetChan,          \* the target shard's channel, or 0
  chans, closedChans,  \* how many it had, and which of them are closed
  arrived,             \* the messages that were put into them, in order
  \* between them
  msgWire, ackWire,    \* stream -> what is on its way
  ackSent,             \* stream -> the acks that were sent on it
  lost                 \* messages lost with a connection or a receiver

Links == 1..MaxLinks

linkVars   == <<opened, linked, pruned, peerSender, peerReceiver>>
chanVars   == <<targetChan, chans, closedChans>>
outVars    == <<nextMsg, using>>
relayVars  == <<relay, inHand, foundChan, arrived, lost>>
ackVars    == <<nextAck, ackRelay, ackInHand, ackChanOpen, ackArrived, ackWire, ackSent>>
routedVars == <<linkVars, chanVars, outVars, relayVars, msgWire, ackVars>>

ForwardingInit ==
  /\ opened = 0
  /\ linked = {}
  /\ pruned = {}
  /\ nextMsg = 1
  /\ peerSender = 0
  /\ using = 0
  /\ ackRelay = [r \in Links |-> "off"]
  /\ ackInHand = [r \in Links |-> 0]
  /\ ackChanOpen = TRUE
  /\ ackArrived = {}
  /\ nextAck = 1
  /\ peerReceiver = 0
  /\ relay = [r \in Links |-> "off"]
  /\ inHand = [r \in Links |-> 0]
  /\ foundChan = [r \in Links |-> 0]
  /\ targetChan = 0
  /\ chans = 0
  /\ closedChans = {}
  /\ arrived = <<>>
  /\ msgWire = [r \in Links |-> <<>>]
  /\ ackWire = [r \in Links |-> <<>>]
  /\ ackSent = [r \in Links |-> {}]
  /\ lost = {}

Elements(q) == {q[i] : i \in 1..Len(q)}

RelayAt(r, from, to) == relay[r] = from /\ relay' = [relay EXCEPT ![r] = to]
----------------------------------------------------------------------------
(* External: a stream is opened and entered in the maps of both nodes.     *)
OpenLink ==
  /\ opened < MaxLinks
  /\ opened' = opened + 1
  /\ linked' = linked \cup {opened'}
  /\ peerSender' = opened'
  /\ peerReceiver' = opened'
  /\ relay' = [relay EXCEPT ![opened'] = "recv"]
  /\ ackRelay' = [ackRelay EXCEPT ![opened'] = "recv"]
  /\ UNCHANGED <<pruned, chanVars, outVars, inHand, foundChan, arrived, lost, msgWire,
                 nextAck, ackInHand, ackChanOpen, ackArrived, ackWire, ackSent>>

(* The connection of r ends: some of what was on its way arrived before.   *)
Cut(r) ==
  /\ linked' = linked \ {r}
  /\ \E k \in 0..Len(msgWire[r]) :
       /\ msgWire' = [msgWire EXCEPT ![r] = SubSeq(@, 1, k)]
       /\ lost' = lost \cup Elements(SubSeq(msgWire[r], k + 1, Len(msgWire[r])))
  /\ \E k \in 0..Len(ackWire[r]) : ackWire' = [ackWire EXCEPT ![r] = SubSeq(@, 1, k)]

(* External: the connection breaks.                                        *)
BreakLink(r) ==
  /\ r \in linked
  /\ Cut(r)
  /\ UNCHANGED <<opened, pruned, peerSender, peerReceiver, chanVars, outVars, relay, inHand,
                 foundChan, arrived, nextAck, ackRelay, ackInHand, ackChanOpen, ackArrived,
                 ackSent>>

(* closePeerShardLocked at the target shard's node: shut the receiver      *)
(* down, cancel its stream, delete its entry.                              *)
PruneLink(r) ==
  /\ peerReceiver = r
  /\ pruned' = pruned \cup {r}
  /\ peerReceiver' = 0
  /\ Cut(r)
  /\ UNCHANGED <<opened, peerSender, chanVars, outVars, relay, inHand, foundChan, arrived,
                 nextAck, ackRelay, ackInHand, ackChanOpen, ackArrived, ackSent>>

(* External: the target shard registers a channel, closes it, removes it;  *)
(* and the source shard's ack channel comes and goes.                      *)
RegisterChan ==
  /\ chans < MaxChannels
  /\ chans' = chans + 1
  /\ targetChan' = chans'
  /\ UNCHANGED <<linkVars, closedChans, outVars, relayVars, msgWire, ackVars>>

CloseChan(c) ==
  /\ c \notin closedChans
  /\ closedChans' = closedChans \cup {c}
  /\ UNCHANGED <<linkVars, targetChan, chans, outVars, relayVars, msgWire, ackVars>>

RemoveChan ==
  /\ targetChan \in closedChans
  /\ targetChan' = 0
  /\ UNCHANGED <<linkVars, chans, closedChans, outVars, relayVars, msgWire, ackVars>>

ToggleAckChan ==
  /\ ackChanOpen' = ~ackChanOpen
  /\ UNCHANGED <<linkVars, chanVars, outVars, relayVars, msgWire, nextAck, ackRelay,
                 ackInHand, ackArrived, ackWire, ackSent>>
----------------------------------------------------------------------------
(* DeliverMessagesToShardOwner: sendReplicationMessages looks for a sender *)
(* of the pair, for two seconds ...                                        *)
FindSender ==
  /\ nextMsg <= MaxRouted
  /\ using = 0
  /\ peerSender # 0
  /\ using' = peerSender
  /\ UNCHANGED <<linkVars, chanVars, nextMsg, relayVars, msgWire, ackVars>>

(* ... and sends on its stream.  If that has ended Send fails, unless this *)
(* node has not noticed.  A failure is returned and the delivery is tried  *)
(* again.                                                                  *)
SendToPeer ==
  /\ using # 0
  /\ using' = 0
  /\ \/ /\ using \in linked
        /\ nextMsg' = nextMsg + 1
        /\ msgWire' = [msgWire EXCEPT ![using] = Append(@, nextMsg)]
        /\ UNCHANGED lost
     \/ /\ using \notin linked
        /\ \/ nextMsg' = nextMsg + 1 /\ lost' = lost \cup {nextMsg}
           \/ UNCHANGED <<nextMsg, lost>>
        /\ UNCHANGED msgWire
  /\ UNCHANGED <<linkVars, chanVars, relay, inHand, foundChan, arrived, ackVars>>

(* recvReplicationMessages of the receiver: stop if told to, else Recv ... *)
RecvRouted(r) ==
  /\ \/ /\ msgWire[r] # <<>>
        /\ RelayAt(r, "recv", "find")
        /\ inHand' = [inHand EXCEPT ![r] = Head(msgWire[r])]
        /\ msgWire' = [msgWire EXCEPT ![r] = Tail(@)]
     \/ /\ r \in pruned \/ (r \notin linked /\ msgWire[r] = <<>>)
        /\ RelayAt(r, "recv", "ended")
        /\ UNCHANGED <<inHand, msgWire>>
  /\ UNCHANGED <<linkVars, chanVars, outVars, foundChan, arrived, lost, ackVars>>

(* ... look for the target shard's channel until there is one, whether or  *)
(* not told to stop ...                                                    *)
FindChan(r) ==
  /\ targetChan # 0
  /\ RelayAt(r, "find", "send")
  /\ foundChan' = [foundChan EXCEPT ![r] = targetChan]
  /\ UNCHANGED <<linkVars, chanVars, outVars, inHand, arrived, lost, msgWire, ackVars>>

(* Mutant: a message that met a closed channel counts as sent.             *)
RetrySkips(r) ==
  /\ foundChan[r] \in closedChans
  /\ RelayAt(r, "send", IF r \in pruned THEN "ended" ELSE "recv")
  /\ inHand' = [inHand EXCEPT ![r] = 0]
  /\ foundChan' = [foundChan EXCEPT ![r] = 0]
  /\ UNCHANGED <<linkVars, chanVars, outVars, arrived, lost, msgWire, ackVars>>

(* ... and again when it turns out to be closed: the panic is recovered    *)
(* from ...                                                                *)
RetryChan(r) ==
  /\ foundChan[r] \in closedChans
  /\ RelayAt(r, "send", IF r \in pruned THEN "ended" ELSE "find")
  /\ lost' = IF r \in pruned THEN lost \cup {inHand[r]} ELSE lost
  /\ inHand' = IF r \in pruned THEN [inHand EXCEPT ![r] = 0] ELSE inHand
  /\ foundChan' = [foundChan EXCEPT ![r] = 0]
  /\ UNCHANGED <<linkVars, chanVars, outVars, arrived, msgWire, ackVars>>

(* ... put the message into it, once there is room ...                     *)
SendToChan(r) ==
  /\ foundChan[r] \notin closedChans
  /\ RelayAt(r, "send", IF r \in pruned THEN "ended" ELSE "recv")
  /\ arrived' = Append(arrived, inHand[r])
  /\ inHand' = [inHand EXCEPT ![r] = 0]
  /\ foundChan' = [foundChan EXCEPT ![r] = 0]
  /\ UNCHANGED <<linkVars, chanVars, outVars, lost, msgWire, ackVars>>

(* Mutant: only a closed channel lets it look at the shutdown.             *)
StopWhenClosed(r) ==
  /\ r \in pruned
  /\ foundChan[r] \in closedChans
  /\ RelayAt(r, "send", "ended")
  /\ lost' = lost \cup {inHand[r]}
  /\ inHand' = [inHand EXCEPT ![r] = 0]
  /\ foundChan' = [foundChan EXCEPT ![r] = 0]
  /\ UNCHANGED <<linkVars, chanVars, outVars, arrived, msgWire, ackVars>>

(* ... or give up because it was told to.                                  *)
StopSending(r) ==
  /\ r \in pruned
  /\ foundChan[r] \notin closedChans
  /\ RelayAt(r, "send", "ended")
  /\ lost' = lost \cup {inHand[r]}
  /\ inHand' = [inHand EXCEPT ![r] = 0]
  /\ foundChan' = [foundChan EXCEPT ![r] = 0]
  /\ UNCHANGED <<linkVars, chanVars, outVars, arrived, msgWire, ackVars>>

(* ensureStream's goroutine deletes the entry of the receiver's pair.      *)
DropReceiver(r) ==
  /\ RelayAt(r, "ended", "gone")
  /\ peerReceiver' = 0
  /\ UNCHANGED <<opened, linked, pruned, peerSender, chanVars, outVars, inHand, foundChan,
                 arrived, lost, msgWire, ackVars>>
----------------------------------------------------------------------------
(* DeliverAckToShardOwner at the target shard's node: sendAck sends on the *)
(* receiver's stream; without one, or if Send fails, it is tried again.    *)
ForwardAck ==
  /\ nextAck <= MaxRouted
  /\ peerReceiver # 0
  /\ nextAck' = nextAck + 1
  /\ ackWire' = IF peerReceiver \in linked
                THEN [ackWire EXCEPT ![peerReceiver] = Append(@, nextAck)] ELSE ackWire
  /\ ackSent' = [ackSent EXCEPT ![peerReceiver] = @ \cup {nextAck}]
  /\ UNCHANGED <<linkVars, chanVars, outVars, relayVars, msgWire, ackRelay, ackInHand,
                 ackChanOpen, ackArrived>>

(* recvAck of the sender: Recv an ack, or the end of the stream.           *)
RecvRoutedAck(r) ==
  /\ ackRelay[r] = "recv"
  /\ \/ /\ ackWire[r] # <<>>
        /\ ackRelay' = [ackRelay EXCEPT ![r] = "deliver"]
        /\ ackInHand' = [ackInHand EXCEPT ![r] = Head(ackWire[r])]
        /\ ackWire' = [ackWire EXCEPT ![r] = Tail(@)]
     \/ /\ r \notin linked /\ ackWire[r] = <<>>
        /\ ackRelay' = [ackRelay EXCEPT ![r] = "ended"]
        /\ UNCHANGED <<ackInHand, ackWire>>
  /\ UNCHANGED <<linkVars, chanVars, outVars, relayVars, msgWire, nextAck, ackChanOpen,
                 ackArrived, ackSent>>

(* Mutant: an ack that cannot be delivered is skipped.                     *)
SkipRoutedAck(r) ==
  /\ ackRelay[r] = "deliver"
  /\ ackRelay' = [ackRelay EXCEPT ![r] = "recv"]
  /\ ackArrived' = IF ackChanOpen THEN ackArrived \cup {ackInHand[r]} ELSE ackArrived
  /\ ackInHand' = [ackInHand EXCEPT ![r] = 0]
  /\ UNCHANGED <<linkVars, chanVars, outVars, relayVars, msgWire, nextAck, ackChanOpen, ackWire,
                 ackSent>>

(* DeliverAckToShardOwner, not to be forwarded again: into the source      *)
(* shard's ack channel; if there is none, recvAck returns an error, and    *)
(* its deferred Shutdown tells the handler.                                *)
DeliverRoutedAck(r) ==
  /\ ackRelay[r] = "deliver"
  /\ IF ackChanOpen
     THEN /\ ackRelay' = [ackRelay EXCEPT ![r] = "recv"]
          /\ ackArrived' = ackArrived \cup {ackInHand[r]}
     ELSE /\ ackRelay' = [ackRelay EXCEPT ![r] = "ended"]
          /\ UNCHANGED ackArrived
  /\ ackInHand' = [ackInHand EXCEPT ![r] = 0]
  /\ UNCHANGED <<linkVars, chanVars, outVars, relayVars, msgWire, nextAck, ackChanOpen, ackWire,
                 ackSent>>

(* streamIntraProxyRouting was waiting for the shutdown.  It returns, and  *)
(* with it the stream ends; until then the other node sends acks on it.    *)
HandlerReturns(r) ==
  /\ ackRelay[r] \in {"ended", "gone"}
  /\ r \in linked
  /\ Cut(r)
  /\ UNCHANGED <<opened, pruned, peerSender, peerReceiver, chanVars, outVars, relay, inHand,
                 foundChan, arrived, nextAck, ackRelay, ackInHand, ackChanOpen, ackArrived,
                 ackSent>>

(* The deferred UnregisterSender.                                          *)
DropSender(r) ==
  /\ ackRelay[r] = "ended"
  /\ ackRelay' = [ackRelay EXCEPT ![r] = "gone"]
  /\ peerSender' = 0
  /\ UNCHANGED <<opened, linked, pruned, peerReceiver, chanVars, outVars, relayVars, msgWire,
                 nextAck, ackInHand, ackChanOpen, ackArrived, ackWire, ackSent>>
----------------------------------------------------------------------------
RelayStep(r) ==
  RecvRouted(r) \/ FindChan(r) \/ RetryChan(r) \/ SendToChan(r) \/ StopSending(r) \/ DropReceiver(r)

ForwardingNext ==
  \/ OpenLink \/ RegisterChan \/ RemoveChan \/ ToggleAckChan
  \/ FindSender \/ SendToPeer \/ ForwardAck
  \/ \E c \in 1..chans : CloseChan(c)
  \/ \E r \in Links :
       \/ BreakLink(r) \/ PruneLink(r) \/ RelayStep(r)
       \/ RecvRoutedAck(r) \/ DeliverRoutedAck(r) \/ DropSender(r) \/ HandlerReturns(r)

ForwardingSpec == ForwardingInit /\ [][ForwardingNext]_routedVars

(* A receiver goes on, but nothing makes room in a channel; and a handler  *)
(* returns.                                                                *)
ForwardingFairness ==
  /\ \A r \in Links :
       WF_relay(FindChan(r) \/ RetryChan(r) \/ StopSending(r) \/ (r \in pruned /\ RecvRouted(r)))
  /\ WF_linked(\E r \in Links : HandlerReturns(r))
----------------------------------------------------------------------------
(* Every message that was sent to the other node is in one place: on its   *)
(* way, in the hands of one receiver, or in a channel of the target shard; *)
(* or it was lost with a stream or a receiver that ended.  The channel     *)
(* that is closed between being found and being used, and replaced, costs  *)
(* no message and delivers none twice.                                     *)
MessagesAccounted ==
  LET inHands == {inHand[r] : r \in Links} \ {0}
      onWires == UNION {Elements(msgWire[r]) : r \in Links}
      places  == <<inHands, onWires, Elements(arrived), lost>>
  IN /\ UNION Elements(places) = 1..(nextMsg - 1)
     /\ \A i, j \in 1..4 : i # j => places[i] \cap places[j] = {}
     /\ \A i, j \in 1..Len(arrived) : i # j => arrived[i] # arrived[j]

(* recvAck's "If not succeed, return and shutdown the stream": as long as  *)
(* recvAck runs and its connection is up, every ack sent on the stream is  *)
(* in the source shard's channel or on its way there.  An ack is dropped   *)
(* only with the stream, which ends then (AbandonedStreamEnds), and the    *)
(* target shard's node, which has to send on another, can tell.            *)
AcksKeptOrStreamEnds ==
  \A r \in linked :
    ackRelay[r] \in {"recv", "deliver"} =>
      ackSent[r] \subseteq ackArrived \cup {ackInHand[r]} \cup Elements(ackWire[r])

(* closePeerShardLocked shuts receivers down: each of them ends, even if   *)
(* the target's channel is full or closed, as long as the shard has one on *)
(* this node.  (Without one a receiver that holds a message waits for it,  *)
(* told to stop or not.)  And the stream on which recvAck has given up an  *)
(* ack ends.                                                               *)
AbandonedStreamEnds ==
  /\ []<>(\A r \in pruned : relay[r] \in {"ended", "gone"} \/ targetChan = 0)
  /\ []<>(\A r \in linked : ackRelay[r] \notin {"ended", "gone"})
=============================================================================
