-------------------------- MODULE StreamForwarder --------------------------
(***************************************************************************)
(* StreamForwarder (src/proxy/admin_stream_transfer.go): forwards one      *)
(* replication stream between a target and a source cluster, with a loop   *)
(* for each direction and a listener goroutine that feeds it.  The first   *)
(* loop to end stops the other through shutdownChan; the listeners stop    *)
(* when Run has returned and the contexts of both streams are cancelled.   *)
(*                                                                         *)
(* "messages" flow from the source to the target and "acks" back.  What    *)
(* they say is not looked at; they are counted.                            *)
(***************************************************************************)
EXTENDS Integers

CONSTANT MaxForwarded     \* bound: what a peer sends on one stream

ASSUME ForwarderAssumption == MaxForwarded \in Nat

VARIABLES
  run,                 \* where Run is: "new", "open", "wait" or "returned"
  result,              \* what it returned
  forwardShutdown,     \* shutdownChan is closed
  loop,                \* direction -> "off", "select", "send", "exit", "closing"
                       \* or "done"
  listener,            \* direction -> "off", "check", "recv", "offer" or "done"
  offer,               \* direction -> what the listener has: "data", "unknown"
                       \* or an error
  sendCloser,          \* the goroutine that calls CloseSend
  visitErr,            \* the loop has met a VisitError
  unhandled,           \* a loop has met something unknown
  gone,                \* external: peers that have ended their stream
  received,            \* direction -> values that Recv returned
  forwarded            \* direction -> values that Send took

Directions == {"messages", "acks"}
Peers      == {"source", "target"}

From(d) == IF d = "messages" THEN "source" ELSE "target"
To(d)   == IF d = "messages" THEN "target" ELSE "source"

loopVars      == <<loop, listener, offer, received, forwarded>>
forwarderVars == <<run, result, forwardShutdown, loopVars, sendCloser, visitErr, unhandled,
                   gone>>

ForwarderInit ==
  /\ run = "new"
  /\ result = "none"
  /\ forwardShutdown = FALSE
  /\ loop = [d \in Directions |-> "off"]
  /\ listener = [d \in Directions |-> "off"]
  /\ offer = [d \in Directions |-> "none"]
  /\ sendCloser = "off"
  /\ visitErr = FALSE
  /\ unhandled = FALSE
  /\ gone = {}
  /\ received = [d \in Directions |-> 0]
  /\ forwarded = [d \in Directions |-> 0]

(* The stream's context is over.  The outgoing one is derived from the     *)
(* target stream's, and both are cancelled when Run returns.               *)
Cancelled(p) ==
  \/ p \in gone
  \/ run = "returned"
  \/ p = "source" /\ "target" \in gone
----------------------------------------------------------------------------
(* The target opens a stream: handleStream calls Run, which opens the      *)
(* source's, or returns an error.                                          *)
OpenForwarder ==
  /\ run = "new"
  /\ run' = "open"
  /\ UNCHANGED <<result, forwardShutdown, loopVars, sendCloser, visitErr, unhandled,
                 gone>>

StartForwarding ==
  /\ run = "open"
  /\ \/ /\ run' = "wait"
        /\ loop' = [d \in Directions |-> "select"]
        /\ listener' = [d \in Directions |-> "check"]
        /\ UNCHANGED result
     \/ /\ run' = "returned"
        /\ result' = "openErr"
        /\ UNCHANGED <<loop, listener>>
  /\ UNCHANGED <<forwardShutdown, offer, received, forwarded, sendCloser, visitErr,
                 unhandled, gone>>

(* External: a peer ends its stream.                                       *)
EndPeer(p) ==
  /\ run # "new"
  /\ p \notin gone
  /\ gone' = gone \cup {p}
  /\ UNCHANGED <<run, result, forwardShutdown, loopVars, sendCloser, visitErr, unhandled>>
----------------------------------------------------------------------------
(* startListener: has the shutdown come?                                   *)
ListenerCheck(d) ==
  /\ listener[d] = "check"
  /\ listener' = [listener EXCEPT ![d] = IF forwardShutdown THEN "done" ELSE "recv"]
  /\ UNCHANGED <<run, result, forwardShutdown, loop, offer, received, forwarded,
                 sendCloser, visitErr, unhandled, gone>>

(* Recv returns a value, or an error of its stream, or a message from the  *)
(* source that could not be sealed or opened; or, while both peers are     *)
(* there, a message of a type the loop does not know or another error.     *)
ListenerRecv(d) ==
  /\ listener[d] = "recv"
  /\ listener' = [listener EXCEPT ![d] = "offer"]
  /\ \/ /\ ~Cancelled(From(d))
        /\ received[d] < MaxForwarded
        /\ offer' = [offer EXCEPT ![d] = "data"]
        /\ received' = [received EXCEPT ![d] = @ + 1]
     \/ /\ ~Cancelled(From(d))
        /\ d = "messages"
        /\ offer' = [offer EXCEPT ![d] = "visitErr"]
        /\ UNCHANGED received
     \/ /\ ~Cancelled(From(d))
        /\ offer' = [offer EXCEPT ![d] = "unknown"]
        /\ UNCHANGED received
     \/ /\ Cancelled(From(d))
        /\ offer' = [offer EXCEPT ![d] = "err"]
        /\ UNCHANGED received
  /\ UNCHANGED <<run, result, forwardShutdown, loop, forwarded, sendCloser, visitErr,
                 unhandled, gone>>

(* Mutant: the value is dropped when the loop is busy.                     *)
ListenerDrops(d) ==
  /\ listener[d] = "offer"
  /\ forwardShutdown \/ loop[d] = "send"
  /\ listener' = [listener EXCEPT ![d] = IF forwardShutdown THEN "done" ELSE "check"]
  /\ offer' = [offer EXCEPT ![d] = "none"]
  /\ UNCHANGED <<run, result, forwardShutdown, loop, received, forwarded, sendCloser,
                 visitErr, unhandled, gone>>

(* Its select takes the shutdown, and the value is dropped.                *)
ListenerStops(d) ==
  /\ listener[d] = "offer"
  /\ forwardShutdown
  /\ listener' = [listener EXCEPT ![d] = "done"]
  /\ offer' = [offer EXCEPT ![d] = "none"]
  /\ UNCHANGED <<run, result, forwardShutdown, loop, received, forwarded, sendCloser,
                 visitErr, unhandled, gone>>

(* Mutant: a VisitError ends the loop and is forgotten.                    *)
TakeForgets(d) ==
  /\ loop[d] = "select"
  /\ listener[d] = "offer"
  /\ loop' = [loop EXCEPT ![d] = IF offer[d] = "data" THEN "send" ELSE "exit"]
  /\ listener' = [listener EXCEPT ![d] = "check"]
  /\ unhandled' = (unhandled \/ offer[d] = "unknown")
  /\ offer' = [offer EXCEPT ![d] = "none"]
  /\ UNCHANGED <<run, result, forwardShutdown, received, forwarded, sendCloser, visitErr,
                 gone>>

(* A loop's select takes the value from the listener.                      *)
Take(d) ==
  /\ loop[d] = "select"
  /\ listener[d] = "offer"
  /\ loop' = [loop EXCEPT ![d] = IF offer[d] = "data" THEN "send" ELSE "exit"]
  /\ listener' = [listener EXCEPT ![d] = "check"]
  /\ visitErr' = (visitErr \/ offer[d] = "visitErr")
  /\ unhandled' = (unhandled \/ offer[d] = "unknown")
  /\ offer' = [offer EXCEPT ![d] = "none"]
  /\ UNCHANGED <<run, result, forwardShutdown, received, forwarded, sendCloser, gone>>

(* Mutant: the select has no case for the shutdown.                        *)
LoopStopsLate(d) ==
  /\ loop[d] = "select"
  /\ listener[d] = "done"
  /\ loop' = [loop EXCEPT ![d] = "exit"]
  /\ UNCHANGED <<run, result, forwardShutdown, listener, offer, received, forwarded,
                 sendCloser, visitErr, unhandled, gone>>

(* ... or it takes the shutdown, or the zero value of the channel that the *)
(* stopped listener has closed, which ends it as well.                     *)
LoopStops(d) ==
  /\ loop[d] = "select"
  /\ forwardShutdown
  /\ loop' = [loop EXCEPT ![d] = "exit"]
  /\ UNCHANGED <<run, result, forwardShutdown, listener, offer, received, forwarded,
                 sendCloser, visitErr, unhandled, gone>>

(* Send, which fails if the stream has ended.                              *)
Send(d) ==
  /\ loop[d] = "send"
  /\ \/ /\ ~Cancelled(To(d))
        /\ loop' = [loop EXCEPT ![d] = "select"]
        /\ forwarded' = [forwarded EXCEPT ![d] = @ + 1]
     \/ /\ Cancelled(To(d))
        /\ loop' = [loop EXCEPT ![d] = "exit"]
        /\ UNCHANGED forwarded
  /\ UNCHANGED <<run, result, forwardShutdown, listener, offer, received, sendCloser,
                 visitErr, unhandled, gone>>

(* Deferred: close shutdownChan, and forwardAcks has CloseSend called.     *)
Exit(d) ==
  /\ loop[d] = "exit"
  /\ forwardShutdown' = TRUE
  /\ IF d = "acks"
     THEN sendCloser' = "call" /\ loop' = [loop EXCEPT ![d] = "closing"]
     ELSE loop' = [loop EXCEPT ![d] = "done"] /\ UNCHANGED sendCloser
  /\ UNCHANGED <<run, result, listener, offer, received, forwarded, visitErr, unhandled,
                 gone>>

(* CloseSend returns; its goroutine waits for somebody to take the news.   *)
CloseSend ==
  /\ sendCloser = "call"
  /\ sendCloser' = "sent"
  /\ UNCHANGED <<run, result, forwardShutdown, loopVars, visitErr, unhandled, gone>>

(* forwardAcks takes it, or gives up after a second.                       *)
Closed ==
  /\ loop["acks"] = "closing"
  /\ loop' = [loop EXCEPT !["acks"] = "done"]
  /\ sendCloser' = IF sendCloser = "sent" THEN "done" ELSE sendCloser
  /\ UNCHANGED <<run, result, forwardShutdown, listener, offer, received, forwarded,
                 visitErr, unhandled, gone>>

(* Both loops are done: Run returns, and cancels.                          *)
Return ==
  /\ run = "wait"
  /\ \A d \in Directions : loop[d] = "done"
  /\ run' = "returned"
  /\ result' = IF visitErr THEN "visitErr" ELSE "nil"
  /\ UNCHANGED <<forwardShutdown, loopVars, sendCloser, visitErr, unhandled, gone>>
----------------------------------------------------------------------------
ForwarderNext ==
  \/ OpenForwarder \/ StartForwarding \/ CloseSend \/ Closed \/ Return
  \/ \E p \in Peers : EndPeer(p)
  \/ \E d \in Directions :
       \/ ListenerCheck(d) \/ ListenerRecv(d) \/ ListenerStops(d)
       \/ Take(d) \/ LoopStops(d) \/ Send(d) \/ Exit(d)

ForwarderSpec == ForwarderInit /\ [][ForwarderNext]_forwarderVars

(* As long as a goroutine of the forwarder can go on, one does: Run's      *)
(* calls return, a Send is taken or fails in the end, and the second of    *)
(* forwardAcks passes.  Recv only has to return when its stream is over.   *)
ForwarderFairness ==
  WF_forwarderVars(
    \/ StartForwarding \/ Return \/ Closed
    \/ \E d \in Directions :
         \/ Take(d) \/ LoopStops(d) \/ Send(d) \/ Exit(d)
         \/ ListenerCheck(d) \/ ListenerStops(d)
         \/ Cancelled(From(d)) /\ ListenerRecv(d))
----------------------------------------------------------------------------
(* Run's "When one side of the stream dies, we want to tell the other side *)
(* to hang up": once either peer has ended its stream, or sent something   *)
(* that ends a loop, Run returns, whatever the loops and the listeners were*)
(* blocked in, and the listeners, which would "block forever" if nobody    *)
(* cancelled, end too.                                                     *)
ForwarderEnds ==
  []<>(gone # {} \/ visitErr \/ unhandled =>
         run = "returned" /\ \A d \in Directions : listener[d] \in {"off", "done"})

(* The values in the hands of a loop and its listener.                     *)
InTransit(d) ==
  (IF offer[d] = "data" THEN 1 ELSE 0) + (IF loop[d] = "send" THEN 1 ELSE 0)

(* As long as nothing has told the stream to end, everything the listener  *)
(* received is forwarded or on its way: the hand-over between the two      *)
(* goroutines drops and repeats nothing.                                   *)
NothingDropped ==
  \A d \in Directions :
    ~forwardShutdown /\ loop[d] # "exit" => received[d] = forwarded[d] + InTransit(d)

(* visitErr's "which Run returns so the target learns why the stream       *)
(* ended. Every other error ends the stream as an EOF": Run returns nil    *)
(* only if a peer ended its stream or a loop met something unknown.  A     *)
(* VisitError that ended the stream is never taken for an EOF, although    *)
(* one loop writes it and the other may end first.                         *)
ReasonReturned ==
  run = "returned" /\ result = "nil" => gone # {} \/ unhandled
=============================================================================
