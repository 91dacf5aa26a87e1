--------------------------- MODULE MuxConnections ---------------------------
(***************************************************************************)
(* The multiplexed connections to the other cluster's proxy                *)
(* (src/transport/mux).  A muxProvider takes one of MuxCount permits,      *)
(* makes or accepts a connection, starts a yamux session on it and hands   *)
(* it to the multiMuxManager, which registers it, tells the                *)
(* MultiClientConn and starts the goroutine that waits for the session's   *)
(* end, undoes all this and returns the permit.  When the proxy's lifetime *)
(* ends, everything stops.                                                 *)
(*                                                                         *)
(* A step is one blocking call or one critical section.  The manager calls *)
(* its listener inside muxesLock, but the client's map has a lock of its   *)
(* own, so registering and telling the client are two steps.  A session's  *)
(* context only ends by itself or with the lifetime, so Close, which the   *)
(* manager calls after the lifetime ended, has nothing left to do.         *)
(***************************************************************************)
EXTENDS Integers, FiniteSets

CONSTANTS
  MuxCount,            \* the configured number of sessions
  MaxSessions,         \* bound: sessions registered, at least MuxCount + MaxBreaks
  MaxBreaks,           \* bound: sessions that break
  MaxFailures          \* bound: attempts that fail while the proxy runs

ASSUME MuxAssumption ==
  /\ MuxCount \in Nat \ {0}
  /\ MaxSessions \in Nat
  /\ MaxBreaks \in Nat
  /\ MaxFailures \in Nat

VARIABLES
  kind,                \* the connProvider: "establisher" or "receiver"
  lifetime,            \* FALSE once the lifetime has ended
  startOnce,           \* "unused", "started", or "consumed" by WaitForClose
  provider,            \* where the goroutine of muxProvider.Start is
  permits,             \* free permits of muxPermits
  connClosed,          \* connProvider's CloseCh is closed
  hasCleanedUp,        \* the provider's CloseCh is closed
  closer,              \* where the manager's onClose is
  muxesLock,           \* Free, Provider, or the session that holds it
  muxes,               \* the manager's sessions
  connMap,             \* the sessions the MultiClientConn dials
  lastId,              \* muxIdSequencer
  session,             \* where each session's waitAndCleanup is
  probe,               \* HasConnectionsAvailable holds a permit
  breaks, failures     \* external: how often these happened

shutdownVars == <<kind, lifetime, startOnce, connClosed, hasCleanedUp, closer>>
sessionVars  == <<muxesLock, muxes, connMap, lastId, session, breaks>>
vars == <<shutdownVars, sessionVars, provider, permits, probe, failures>>

Sessions == 1..MaxSessions
Free     == 0            \* the value of a muxesLock nobody holds
Provider == MaxSessions + 1

hasShutDown == closer = "done"

Init ==
  /\ kind \in {"establisher", "receiver"}
  /\ lifetime = TRUE
  /\ startOnce = "unused"
  /\ provider = "off"
  /\ permits = MuxCount
  /\ connClosed = (kind = "establisher")
  /\ hasCleanedUp = FALSE
  /\ closer = "idle"
  /\ muxesLock = Free
  /\ muxes = {}
  /\ connMap = {}
  /\ lastId = 0
  /\ session = [i \in Sessions |-> "none"]
  /\ probe = FALSE
  /\ breaks = 0
  /\ failures = 0

At(from, to) == provider = from /\ provider' = to
----------------------------------------------------------------------------
(* muxProvider.Start, called by the manager's Start.                       *)
Start ==
  /\ startOnce = "unused"
  /\ startOnce' = "started"
  /\ At("off", "acquire")
  /\ UNCHANGED <<sessionVars, permits, probe, failures, kind, lifetime, connClosed,
                 hasCleanedUp, closer>>

(* The loop waits for a permit.  Once the lifetime is over Acquire fails,  *)
(* or still succeeds where it need not wait.                               *)
Acquire ==
  \/ /\ At("acquire", "connect")
     /\ permits > 0
     /\ permits' = permits - 1
     /\ UNCHANGED <<shutdownVars, sessionVars, probe, failures>>
  \/ /\ At("acquire", "exit")
     /\ ~lifetime
     /\ UNCHANGED <<shutdownVars, sessionVars, permits, probe, failures>>

(* NewConnection: a dial, which does not look at the lifetime when it      *)
(* succeeds, or an Accept, which does.                                     *)
NewConnection ==
  /\ At("connect", "session")
  /\ kind = "receiver" => lifetime
  /\ UNCHANGED <<shutdownVars, sessionVars, permits, probe, failures>>

(* sessionFn and the first Ping succeed.                                   *)
NewSession ==
  /\ At("session", "ping")
  /\ UNCHANGED <<shutdownVars, sessionVars, permits, probe, failures>>

Ping ==
  /\ At("ping", "add")
  /\ UNCHANGED <<shutdownVars, sessionVars, permits, probe, failures>>

Attempting == {"connect", "session", "ping"}

(* Mutant: the permit of a failed attempt is lost.                         *)
FailNoRelease ==
  /\ provider \in Attempting
  /\ lifetime
  /\ kind = "receiver" => provider # "connect"
  /\ failures < MaxFailures
  /\ failures' = failures + 1
  /\ provider' = "acquire"
  /\ UNCHANGED <<shutdownVars, sessionVars, permits, probe>>

(* Mutant: a failed attempt ends the loop.                                 *)
FailReturns ==
  /\ provider \in Attempting
  /\ lifetime
  /\ kind = "receiver" => provider # "connect"
  /\ failures < MaxFailures
  /\ failures' = failures + 1
  /\ permits' = permits + 1
  /\ provider' = "exit"
  /\ UNCHANGED <<shutdownVars, sessionVars, probe>>

(* One of them fails: release the permit and start over.  A failing Accept *)
(* ends the process.                                                       *)
Fail ==
  /\ provider \in Attempting
  /\ lifetime
  /\ kind = "receiver" => provider # "connect"
  /\ failures < MaxFailures
  /\ failures' = failures + 1
  /\ permits' = permits + 1
  /\ provider' = "acquire"
  /\ UNCHANGED <<shutdownVars, sessionVars, probe>>

(* One of them fails because, or after, the lifetime ended: return without *)
(* releasing the permit.                                                   *)
FailShutdown ==
  /\ provider \in Attempting
  /\ ~lifetime
  /\ provider' = "exit"
  /\ UNCHANGED <<shutdownVars, sessionVars, permits, probe, failures>>

(* Mutant: the ID of a session that is gone is used again.                 *)
AddConnectionReuse ==
  /\ muxesLock = Free
  /\ IF lifetime
     THEN LET id == CHOOSE i \in Sessions :
                      /\ session[i] \in {"none", "gone"}
                      /\ \A j \in 1..(i - 1) : session[j] \notin {"none", "gone"}
          IN /\ At("add", "notify")
             /\ muxesLock' = Provider
             /\ lastId' = id
             /\ muxes' = muxes \cup {id}
             /\ session' = [session EXCEPT ![id] = "running"]
     ELSE /\ At("add", "acquire")
          /\ UNCHANGED <<muxesLock, muxes, lastId, session>>
  /\ UNCHANGED <<shutdownVars, connMap, permits, probe, failures, breaks>>

(* AddConnection, inside muxesLock: nothing once the lifetime has ended,   *)
(* else a ManagedMuxSession under a new ID.                                *)
AddConnection ==
  /\ muxesLock = Free
  /\ IF lifetime
     THEN /\ lastId < MaxSessions
          /\ At("add", "notify")
          /\ muxesLock' = Provider
          /\ lastId' = lastId + 1
          /\ muxes' = muxes \cup {lastId + 1}
          /\ session' = [session EXCEPT ![lastId + 1] = "running"]
     ELSE /\ At("add", "acquire")
          /\ UNCHANGED <<muxesLock, muxes, lastId, session>>
  /\ UNCHANGED <<shutdownVars, connMap, permits, probe, failures, breaks>>

(* AddConnection: notifyChange, then unlock.                               *)
NotifyAdded ==
  /\ At("notify", "acquire")
  /\ muxesLock' = Free
  /\ connMap' = muxes
  /\ UNCHANGED <<shutdownVars, muxes, lastId, session, permits, probe, failures, breaks>>

(* The deferred function: wait for the connProvider, report clean-up.      *)
ProviderExit ==
  /\ At("exit", "done")
  /\ connClosed
  /\ hasCleanedUp' = TRUE
  /\ UNCHANGED <<sessionVars, permits, probe, failures, kind, lifetime, startOnce,
                 connClosed, closer>>
----------------------------------------------------------------------------
(* External: a session breaks.                                             *)
Break(i) ==
  /\ session[i] = "running"
  /\ breaks < MaxBreaks
  /\ breaks' = breaks + 1
  /\ session' = [session EXCEPT ![i] = "broken"]
  /\ UNCHANGED <<shutdownVars, muxesLock, muxes, connMap, lastId, provider, permits,
                 probe, failures>>

(* waitAndCleanup: the session ended or its context did; cancel and close. *)
WaitAndCleanup(i) ==
  /\ \/ session[i] = "broken"
     \/ session[i] = "running" /\ ~lifetime
  /\ session' = [session EXCEPT ![i] = "closed"]
  /\ UNCHANGED <<shutdownVars, muxesLock, muxes, connMap, lastId, provider, permits,
                 probe, failures, breaks>>

(* Mutant: the clients are not told that a session is gone.                *)
UnregisterMuxQuietly(i) ==
  /\ session[i] = "closed"
  /\ muxesLock = Free
  /\ muxes' = muxes \ {i}
  /\ session' = [session EXCEPT ![i] = "release"]
  /\ UNCHANGED <<shutdownVars, muxesLock, connMap, lastId, provider, permits, probe,
                 failures, breaks>>

(* afterShutdown: unregisterMux takes the lock and deletes the session ... *)
UnregisterMux(i) ==
  /\ session[i] = "closed"
  /\ muxesLock = Free
  /\ muxesLock' = i
  /\ muxes' = muxes \ {i}
  /\ session' = [session EXCEPT ![i] = "notify"]
  /\ UNCHANGED <<shutdownVars, connMap, lastId, provider, permits, probe, failures,
                 breaks>>

(* ... calls notifyChange and unlocks ...                                  *)
NotifyRemoved(i) ==
  /\ session[i] = "notify"
  /\ muxesLock' = Free
  /\ connMap' = muxes
  /\ session' = [session EXCEPT ![i] = "release"]
  /\ UNCHANGED <<shutdownVars, muxes, lastId, provider, permits, probe, failures,
                 breaks>>

(* ... and AllowMoreConns releases the permit.                             *)
AllowMoreConns(i) ==
  /\ session[i] = "release"
  /\ permits' = permits + 1
  /\ session' = [session EXCEPT ![i] = "gone"]
  /\ UNCHANGED <<shutdownVars, muxesLock, muxes, connMap, lastId, provider, probe,
                 failures, breaks>>
----------------------------------------------------------------------------
(* HasConnectionsAvailable: TryAcquire, and Release if it succeeded.       *)
TryAcquire ==
  /\ ~probe
  /\ permits > 0
  /\ probe' = TRUE
  /\ permits' = permits - 1
  /\ UNCHANGED <<shutdownVars, sessionVars, provider, failures>>

ReleaseProbe ==
  /\ probe
  /\ probe' = FALSE
  /\ permits' = permits + 1
  /\ UNCHANGED <<shutdownVars, sessionVars, provider, failures>>

(* The owner of the connection cancels the lifetime.                       *)
EndLifetime ==
  /\ lifetime
  /\ lifetime' = FALSE
  /\ UNCHANGED <<sessionVars, provider, permits, probe, failures, kind, startOnce,
                 connClosed, hasCleanedUp, closer>>

(* NewMuxReceiverProvider's goroutine closes the listener.                 *)
CloseListener ==
  /\ ~lifetime
  /\ ~connClosed
  /\ connClosed' = TRUE
  /\ UNCHANGED <<sessionVars, provider, permits, probe, failures, kind, lifetime,
                 startOnce, hasCleanedUp, closer>>

(* Mutant: WaitForClose does not look at whether the provider has started. *)
WaitForStarted ==
  /\ closer = "idle"
  /\ ~lifetime
  /\ closer' = "waiting"
  /\ UNCHANGED <<sessionVars, provider, permits, probe, failures, kind, lifetime,
                 startOnce, hasCleanedUp, connClosed>>

(* onClose: WaitForClose uses up startOnce, so that a provider that has    *)
(* not started never does, and then has nothing to clean up.               *)
WaitForClose ==
  /\ closer = "idle"
  /\ ~lifetime
  /\ closer' = "waiting"
  /\ startOnce' = IF startOnce = "unused" THEN "consumed" ELSE startOnce
  /\ hasCleanedUp' = (hasCleanedUp \/ startOnce = "unused")
  /\ UNCHANGED <<sessionVars, provider, permits, probe, failures, kind, lifetime,
                 connClosed>>

(* onClose: the provider is done; lock, Close every session, unlock, and   *)
(* report the shutdown.                                                    *)
CloseMuxes ==
  /\ closer = "waiting"
  /\ hasCleanedUp
  /\ muxesLock = Free
  /\ closer' = "done"
  /\ UNCHANGED <<sessionVars, provider, permits, probe, failures, kind, lifetime,
                 startOnce, connClosed, hasCleanedUp>>
----------------------------------------------------------------------------
ProviderStep ==
  \/ Acquire \/ NewConnection \/ NewSession \/ Ping \/ Fail \/ FailShutdown
  \/ AddConnection \/ NotifyAdded \/ ProviderExit

SessionStep(i) ==
  WaitAndCleanup(i) \/ UnregisterMux(i) \/ NotifyRemoved(i) \/ AllowMoreConns(i)

CloserStep == WaitForClose \/ CloseMuxes

Next ==
  \/ Start \/ ProviderStep \/ CloserStep \/ CloseListener
  \/ EndLifetime \/ TryAcquire \/ ReleaseProbe
  \/ \E i \in Sessions : SessionStep(i) \/ Break(i)

Spec == Init /\ [][Next]_vars

(* Every goroutine goes on: the calls it makes return (dials and pings     *)
(* time out, a closed listener ends Accept), attempts do not fail for ever *)
(* (MaxFailures), a peer answers in the end, and Acquire, which queues,    *)
(* gets a permit that TryAcquire keeps returning.  Nothing starts the      *)
(* manager, ends its lifetime or breaks a session.                         *)
Fairness ==
  /\ WF_vars(ProviderStep) /\ SF_vars(Acquire)
  /\ WF_vars(CloserStep) /\ WF_vars(CloseListener) /\ WF_vars(ReleaseProbe)
  /\ \A i \in Sessions : WF_vars(SessionStep(i))

FairSpec == Spec /\ Fairness
----------------------------------------------------------------------------
(* The manager, the provider and the sessions are in states of their code. *)
TypeOK ==
  /\ kind \in {"establisher", "receiver"}
  /\ lifetime \in BOOLEAN
  /\ startOnce \in {"unused", "started", "consumed"}
  /\ provider \in {"off", "acquire", "connect", "session", "ping", "add", "notify",
                   "exit", "done"}
  /\ permits \in 0..MuxCount
  /\ connClosed \in BOOLEAN
  /\ hasCleanedUp \in BOOLEAN
  /\ closer \in {"idle", "waiting", "done"}
  /\ muxesLock \in {Free, Provider} \cup Sessions
  /\ muxes \subseteq Sessions
  /\ connMap \subseteq Sessions
  /\ lastId \in 0..MaxSessions
  /\ session \in [Sessions -> {"none", "running", "broken", "closed", "notify",
                               "release", "gone"}]
  /\ probe \in BOOLEAN
  /\ breaks \in 0..MaxBreaks
  /\ failures \in 0..MaxFailures

(* The sessions, and the other parties, that hold a permit.                *)
Held   == {i \in Sessions : session[i] \notin {"none", "gone"}}
InHand == (IF provider \in Attempting \cup {"add"} THEN 1 ELSE 0)
            + (IF probe THEN 1 ELSE 0)

(* The semaphore's permits are neither lost nor made: as long as the proxy *)
(* runs, every permit is free or is held by the attempt under way, by a    *)
(* session not yet cleaned up, or by a HasConnectionsAvailable; and        *)
(* whatever the shutdown drops, no more are released than were taken.      *)
PermitsConserved ==
  /\ permits + Cardinality(Held) + InHand <= MuxCount
  /\ lifetime => permits + Cardinality(Held) + InHand = MuxCount

(* OnConnectionListUpdate's "you can rely on the map passed in to be the   *)
(* latest": outside of muxesLock the client dials exactly the registered   *)
(* sessions, and these are the ones whose goroutine will unregister them.  *)
ClientListCurrent ==
  /\ muxesLock = Free => connMap = muxes
  /\ muxes = {i \in Sessions : session[i] \in {"running", "broken", "closed"}}

(* The manager offers what MuxPool promises: at most MuxCount sessions,    *)
(* IDs that are not used again, and no new session after the shutdown.     *)
Pool == INSTANCE MuxPool WITH pool <- muxes, shut <- hasShutDown
ImplementsPool == Pool!PoolSpec

(* NewMuxProvider's "If the session closes, a new one will be created":    *)
(* when sessions stop breaking, a running manager has all its sessions.    *)
PoolFills ==
  <>[](startOnce = "started" /\ lifetime => Cardinality(muxes) = MuxCount)

(* When the lifetime ends, whether or not the manager was started, whatever*)
(* the provider was doing: the manager reports its shutdown, and no        *)
(* session is left registered or offered to the client.                    *)
ShutsDown ==
  ~lifetime ~> (hasShutDown /\ muxes = {} /\ connMap = {})
=============================================================================
